SPECIFICATION LifeSpec
CONSTANTS
    Mac = {m1, m2, m3}
    NoMac = NoMac
    MaxClients = 2
    Samples <- MCSamples
    Band <- MCBand
    Dwell <- MCDwell
    Half = 128
    MaxTime = 3
INVARIANTS
    RosterSound
    ClockRunsWhileOut
    DwellWithinAssociation
    WalkCovers
SYMMETRY Symmetry
