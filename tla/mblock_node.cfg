SPECIFICATION MblockSpec
CONSTANTS
    RankInfo <- MCRanks
    Protected <- MCProtected
    ReservedMax = 4
    BlockMax = 6
    ReserveSizes = {1, 2}
    Aligns = {1, 2}
    Limits = {6, 9, 20}
INVARIANT NodeIsDram
CHECK_DEADLOCK FALSE
