CONSTANTS
    Crons = {cron}
    Admins = {}
    Logs = {"weth", "native"}
    IsSale <- MCIsSale
    Price <- MCPrice
    Sent <- MCSent
    CHAIN_INDEX_GENESIS_BLOCK = 1
    CONFIRMATION_DEPTH_BLOCKS = 1
    chunkBlocks = 1
    maxChunks = 2
    RepairFroms = {}
    RepairTos = {}
    maxGap = 0
    MaxRanges = 1
    Turbulent = FALSE
    MaxHead = 3
    GRACE_WINDOW_MS = 1
    EXTENSION_MS = 1
    FirstDeadline = 2
    MaxNow = 4
SPECIFICATION KothSpec
INVARIANT WinnerHoldsRecord
CHECK_DEADLOCK FALSE
