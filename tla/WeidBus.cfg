SPECIFICATION BusSpec
CONSTANT
    ConfigFlags = {0, 1, 2}
INVARIANTS
    AckedSurvives
    EnabledOnlyIfAsked
    HandleTracksConnection
    TickReportsOrIsOff
