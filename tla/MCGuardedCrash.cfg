CONSTANTS
    genesisTimestamp = 0
    period = 2
    Signatures <- MCSignatures
    SignatureOf <- MCSignatureOf
    Keccak <- MCKeccak
    NoRandomness = 0
    MaxLag = 2
    MaxTime = 16
    BPS = 4
    MIN_TARGET_BPS = 5
    MAX_TARGET = 16
    MAX_STAKE = 9
    MAX_POT = 30
    MAX_SEATS = 2
    floorBps = 3
    Players = {alice}
    Stakes = {1}
    Targets = {16}
    Funding = {}
    Words = {1}
    deployedAt = 0
    bettingDurationSeconds = 4
    roundIntervalSeconds = 5
    TARGET_ROUND_SAFETY_PERIODS = 1
    rakeBps = 0
    rakeFloorBps = 0
    rakeStepBps = 1
    rakeVolumeStepWei = 5
    keeperRewardBps = 0
    minStakeWei = 0
    maxTargetBps = 16
    maxSeats = 1
    emissionBufferCapWei = 0
    protectedPrincipalBps = 0
    houseCapBps = 0
    seedBootstrapBudgetWei = 0
    refundTimeoutSeconds = 1
    LotteryFails = TRUE
    MaxRounds = 2
    MaxFunded = 0
    Winners = {alice}
    Donations = {}
    BASIS = 8
    PROB_ONE = 100
    MAX_FUNDING = 1000
    founderFeeBps = 1
    rolloverFeeBps = 2
    cycleRetentionMaxBps = 2
    cycleFundingScaleWei = 2
    oddsOneIn = 2
    contributionBps = 8
    kappaBps = 9
    ROUTER_BPS = 10
    BURN_BPS = 2
    COMMUNITY_BPS = 7
    communityLotteryBps = 6
    MaxDonated = 0
    reopenDelay = 2
SPECIFICATION FairGuardedSpec
INVARIANTS BetsBlind RecordedOnce HeldDuringIncident
PROPERTIES ReopenWaits RoundEnds GameGoesOn
CHECK_DEADLOCK FALSE
