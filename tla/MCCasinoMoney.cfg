CONSTANTS
    genesisTimestamp = 0
    period = 1
    Signatures <- MCSignatures
    SignatureOf <- MCSignatureOf
    Keccak <- MCKeccak
    NoRandomness = 0
    MaxLag = 0
    MaxTime = 4
    BPS = 4
    MIN_TARGET_BPS = 5
    MAX_TARGET = 16
    MAX_STAKE = 9
    MAX_POT = 30
    MAX_SEATS = 2
    floorBps = 3
    Players = {alice, bob}
    Stakes = {9}
    Targets = {5, 16}
    Funding = {5}
    Words = {1, 3}
    deployedAt = 0
    bettingDurationSeconds = 1
    roundIntervalSeconds = 0
    TARGET_ROUND_SAFETY_PERIODS = 0
    rakeBps = 1
    rakeFloorBps = 0
    rakeStepBps = 1
    rakeVolumeStepWei = 10
    keeperRewardBps = 1
    minStakeWei = 2
    maxTargetBps = 16
    maxSeats = 2
    emissionBufferCapWei = 4
    protectedPrincipalBps = 2
    houseCapBps = 2
    seedBootstrapBudgetWei = 1
    refundTimeoutSeconds = 2
    LotteryFails = TRUE
    MaxRounds = 2
    MaxFunded = 6
    Winners = {alice, bob}
    Donations = {57}
    BASIS = 16
    PROB_ONE = 100
    MAX_FUNDING = 1000
    founderFeeBps = 1
    rolloverFeeBps = 4
    cycleRetentionMaxBps = 4
    cycleFundingScaleWei = 14
    oddsOneIn = 2
    contributionBps = 16
    kappaBps = 17
    ROUTER_BPS = 10
    BURN_BPS = 2
    COMMUNITY_BPS = 8
    communityLotteryBps = 4
    MaxDonated = 57
SYMMETRY PlayersSymmetry
SPECIFICATION CasinoSpec
INVARIANTS Accounted OwedAddsUp PrincipalProtected SettlementNeverReverts
    ReportsGetThrough LotteryAccounted FeesSplitBlind
PROPERTIES BoardSpec
CHECK_DEADLOCK FALSE
