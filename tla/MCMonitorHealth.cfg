SPECIFICATION Spec
CONSTANTS
    Timeout = 2
    WatchdogTimeout = 3
    Grace = 2
    MaxGap = 1
    Nominal <- MCNominal
    Degraded <- MCDegraded
    Command <- MCCommand
    NaN = NaN
    NoHealth = NoHealth
INVARIANT HealthIsCurrent
