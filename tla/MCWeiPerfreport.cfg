SPECIFICATION FairSpec
CONSTANTS
    Mac = {m1, m2, m3}
    NoMac = NoMac
    MaxClients = 2
    WarmupIntervals = 3
INVARIANTS
    ReportsAlternate
    BaselineIsWhatWasHeard
PROPERTIES
    SettledVerdictIsHeard
