SPECIFICATION FairSpec
CONSTANTS
    Robot = {"ugv", "arm"}
    Deadman = 4
    Beat = 2
    Fresh = 3
    Step = 1
    MaxNav = 6
    Settle = 1
    Look = 1
    Waits = {5}
    Cut = 1
    Outage = 5
    Far = 1
    MaxAge = 9
INVARIANTS
    TypeOK
    MovesOnlyAlive
    OutageHolds
PROPERTIES
    Reconnects
    CallsReturn
