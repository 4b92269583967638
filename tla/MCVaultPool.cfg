CONSTANTS
    genesisTimestamp = 1
    period = 1
    Signatures <- MCSignatures
    SignatureOf <- MCSignatureOf
    Keccak <- MCKeccak
    NoRandomness = 0
    MaxLag = 0
    MaxTime = 0
    Users = {alice, bob}
    treasury = bob
    Vault = vault
    NoAccount = nobody
    NonReceivers = {}
    TokenIds = {0, 1}
    MAX_UINT256 = 3
    SHARE_UNIT = 4
    mintFeeWei = 1
    redeemFeeWei = 0
    targetPremiumWei = 1
    swapFeeBps = 1
    BPS_DENOMINATOR = 10
    MIN_INITIAL_LIQUIDITY = 1
    MAX_BATCH = 1
    ROUND_LEAD = 1
    ROUND_EXPIRY = 1
    DrawWord <- MCDrawWord
    EthAmounts = {1, 2, 4}
    ShareAmounts = {1, 2, 4}
    LpAmounts = {1, 2}
    Floors = {0, 1}
    MaxEth = 10
    RequestHorizon = 0
SPECIFICATION Spec
INVARIANTS
    EthBacked
    ShareBacked
    PoolNeverBricked
    LedgersAddUp
PROPERTY PoolNeverDiluted
CHECK_DEADLOCK FALSE
