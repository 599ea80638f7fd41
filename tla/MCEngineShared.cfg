SPECIFICATION Spec
CONSTANTS
    p1 = p1
    p2 = p2
    ugv = ugv
    arm = arm
    NoLease = NoLease
    NoRobot = NoRobot
    Robot = {ugv}
    Plan = {p1, p2}
    Skill = {"navigate_to", "inspect", "arm_pick"}
    MaxBody = 1
    Flag = {"clear"}
    Level = {"ok"}
    Outcome = {"ok"}
    Script <- ScriptNavNav
    Retries <- NoRetry
    Capable <- FactorySkills
    Overlap = TRUE
    Rediscovery = FALSE
INVARIANTS
    OneTaskPerBody
