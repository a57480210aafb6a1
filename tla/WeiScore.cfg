SPECIFICATION ScoreSpec
CONSTANTS
    Samples <- MCSamples
    ChanWeight <- MCChanWeight
    StartCounts <- MCStartCounts
    PerrWindow = 3
    PhyWindow = 3
    TputVarBand = 25
    Wrap = 16
    MaxSamples = 5
INVARIANTS
    RateIsWindowLoss
    BandsAreHistory
    HigherIsBetter
    BlamedMetricIsLow
