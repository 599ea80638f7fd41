SPECIFICATION Spec
CONSTANTS
    p1 = p1
    p2 = p2
    ugv = ugv
    arm = arm
    NoLease = NoLease
    NoRobot = NoRobot
    Robot = {ugv}
    Plan = {p1}
    Skill = {"navigate_to", "inspect", "arm_pick"}
    MaxBody = 1
    Flag = {"clear", "e_stop"}
    Level = {"ok"}
    Outcome = {"ok"}
    Script <- ScriptNav
    Retries <- NoRetry
    Capable <- FactorySkills
    Overlap = FALSE
    Rediscovery = FALSE
PROPERTIES
    LocalStopBlocks
