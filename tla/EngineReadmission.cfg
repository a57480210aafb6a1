SPECIFICATION Spec
CONSTANTS
    Mac = {m1}
    NoMac = NoMac
    MaxClients = 1
    WarmupIntervals = 1
    PhyRates = {0, 12}
    RawScores = {100}
    TickMs = 1
    AbsenceMs = 1
    PhyWindow = 3
    RampTicks = 2
    Ease <- MCEase
    EpisodeCap = 2
    TputVarBand = 25
    TputFloorMs = 2
    LatencyBand = 40
    LatencySustain = 2
    VideoBand = 50
    CrossMax = 3
    EpisodesMax = 2
    MaxTime = 5
    MaxLate = 1
INVARIANTS
    CleanWarmup
