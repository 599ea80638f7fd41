SPECIFICATION FairSpec
CONSTANTS
    Timeout = 2
    WatchdogTimeout = 1
    Grace = 1
    MaxGap = 1
    Nominal <- MCNominal
    Degraded <- MCDegraded
    Command <- MCCommand
    NaN = NaN
    NoHealth = NoHealth
INVARIANT TypeOK
INVARIANT FullSpeedIsFresh
PROPERTY Governs
PROPERTY SilenceSlows
