SPECIFICATION Spec
CONSTANTS
    Mac = {m1, m2, m3}
    NoMac = NoMac
    MaxClients = 2
    WarmupIntervals = 0
    PhyRates = {0, 12}
    RawScores = {100}
    TickMs = 1
    AbsenceMs = 1
    PhyWindow = 3
    RampTicks = 2
    Ease <- MCEase
    EpisodeCap = 2
    TputVarBand = 25
    TputFloorMs = 2
    LatencyBand = 40
    LatencySustain = 2
    VideoBand = 50
    CrossMax = 3
    EpisodesMax = 2
    MaxTime = 4
    MaxLate = 1
INVARIANTS
    MembershipSound
    NoInheritedHistory
    ExcursionMatchesWindow
    UntimedOnlyBehindDeparted
PROPERTIES
    ImplementsMemberSet
SYMMETRY Symmetry
