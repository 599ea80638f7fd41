SPECIFICATION FactorySpec
CONSTANTS
    NoObject = NoObject
    NoPlace = NoPlace
    Null = Null
    Astray = Astray
    MaxPlans = 2
    MaxDown = 1
    Commands <- MCCommands
    ModelPlans <- MCModelPlans
INVARIANTS TypeOK WorkKept Agree FixedArm Completes Carried
PROPERTY Ends
