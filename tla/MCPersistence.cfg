SPECIFICATION StoreSpec
CONSTANTS
    w1 = w1
    w2 = w2
    w3 = w3
    Writers = {w1, w2, w3}
    Clearers = {w1}
    Nobody = Nobody
    Disciplines = {"ordered", "locked", "early", "unlocked"}
    MaxContent = 3
    MaxCrashes = 1
INVARIANTS
    StoreTypeOK
    AckedSurvives
PROPERTIES
    FailedSavesAreMadeUp
    DiskNeverGoesBack
\* All edits done and saved: the bound on the edits stops the system.
CHECK_DEADLOCK FALSE
