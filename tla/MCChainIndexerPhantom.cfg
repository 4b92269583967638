CONSTANTS
    Crons = {cron}
    Admins = {admin}
    Logs = {"weth", "foreign"}
    IsSale <- MCIsSale
    Price <- MCPrice
    Sent <- MCSent
    CHAIN_INDEX_GENESIS_BLOCK = 1
    CONFIRMATION_DEPTH_BLOCKS = 1
    chunkBlocks = 1
    maxChunks = 2
    maxGap = 0
    RepairFroms = {3}
    RepairTos = {3}
    MaxRanges = 1
    Turbulent = TRUE
    MaxHead = 3
SPECIFICATION ChainSpec
INVARIANT NoPhantom
CHECK_DEADLOCK FALSE
