SPECIFICATION Spec
CONSTANTS
    Robot = {"ugv"}
    Deadman = 4
    Beat = 2
    Fresh = 3
    Step = 1
    MaxNav = 7
    Settle = 1
    Look = 1
    Waits = {5}
    Cut = 1
    Outage = 5
    Far = 2
    MaxAge = 9
INVARIANT SafeStateCancels
