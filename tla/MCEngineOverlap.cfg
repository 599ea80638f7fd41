SPECIFICATION Spec
CONSTANTS
    p1 = p1
    p2 = p2
    ugv = ugv
    arm = arm
    NoLease = NoLease
    NoRobot = NoRobot
    Robot = {ugv, arm}
    Plan = {p1, p2}
    Skill = {"navigate_to", "inspect", "arm_pick"}
    MaxBody = 2
    Flag = {"clear"}
    Level = {"low"}
    Outcome = {"ok", "fail"}
    Script <- ScriptNavPick
    Retries <- NavRetry
    Capable <- FactorySkills
    Overlap = TRUE
    Rediscovery = FALSE
INVARIANTS
    EStopBound
    BookingsInUse
