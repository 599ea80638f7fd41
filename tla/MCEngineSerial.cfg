SPECIFICATION FairSpec
CONSTANTS
    p1 = p1
    p2 = p2
    ugv = ugv
    arm = arm
    NoLease = NoLease
    NoRobot = NoRobot
    Robot = {ugv, arm}
    Plan = {p1, p2}
    Skill = {"navigate_to", "inspect", "arm_pick"}
    MaxBody = 2
    Flag = {"clear", "e_stop"}
    Level = {"ok"}
    Outcome = {"ok", "fail", "raise"}
    Script <- ScriptTwoAndOne
    Retries <- NavRetry
    Capable <- FactorySkills
    Overlap = FALSE
    Rediscovery = TRUE
INVARIANTS
    TypeOK
    QuiescentFree
    CommandedIsLeased
    TurnsCount
PROPERTY PlansEnd
