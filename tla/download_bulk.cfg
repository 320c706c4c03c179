SPECIFICATION Spec
CONSTANTS
    Kinds = {"bulk"}
    FaultyKinds = {"bulk"}
    MaxPages = 4
    MaxDownloads = 2
INVARIANTS SuccessMeansStored
CHECK_DEADLOCK FALSE
