CONSTANTS
    genesisTimestamp = 2
    period = 3
    Signatures <- MCSignatures
    SignatureOf <- MCSignatureOf
    Keccak <- MCKeccak
    NoRandomness = 0
    MaxLag = 3
    MaxTime = 12
    Callers = {c1, c2, c3}
    PUBLIC_SETTLE_DAILY_CAP = 2
    KvFails = TRUE
    MaxDay = 1
    MaxTaken = 4
    BPS = 10
    MIN_TARGET_BPS = 11
    MAX_TARGET = 40
    MAX_STAKE = 7
    MAX_POT = 21
    MAX_SEATS = 3
    floorBps = 7
    Stakes = {1, 3, 7}
    Targets = {11, 16, 40}
    MaxBook = 3
    MaxBudget = 9
    Workers = {w1, w2}
    T0 = 1
    Lock = 3
    Span = 2
    Batch = 1
    Claims = 1
    Window = 2
    HeaderLimit = 1
    MaxRows = 2
    MaxFaults = 1
    MaxPoisoned = 1
SYMMETRY PartsSymmetry
SPECIFICATION PartsSpec
INVARIANTS
    DrandConvention LeadCoversLag
    NeverRefusedEarly
    PayoutsBounded PotsCover MaxMinFair OrderIrrelevant
    CoverageBacked TailHonest
CHECK_DEADLOCK FALSE
