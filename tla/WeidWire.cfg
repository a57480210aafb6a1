SPECIFICATION WireSpec
CONSTANTS
    m1 = m1
    m2 = m2
    m3 = m3
    Mac = {m1, m2, m3}
    NoMac = NoMac
    MaxClients = 2
    Reading <- MCReading
    Junk <- MCJunk
    Types <- MCTypes
    Version = 1
    ElemSize = 2
    Builds <- MCBuilds
    LenMax = 5
    DgramMax = 11
    MaxEntries = 3
INVARIANTS
    StagedIsLatest
    LegalFramesLand
