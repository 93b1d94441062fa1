SPECIFICATION CSpec
CONSTANTS
    d1 = d1  d2 = d2  s1 = s1
    Devices = {d1, d2}
    Sites = {s1}
    SiteOf <- OneSiteOf
    Rank <- OneRank
    Layouts <- Plans
    Layout0 <- InTurn
    Declared <- Permitted
    Concurrency = 1
    MaxMishaps = 1
    NoWave = NoWave
INVARIANTS NoRepeatedRun ExcludedNeverRuns
PROPERTIES EarlierWavesSucceeded
CHECK_DEADLOCK FALSE
