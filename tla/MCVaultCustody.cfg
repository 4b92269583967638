CONSTANTS
    genesisTimestamp = 0
    period = 1
    Signatures <- MCSignatures
    SignatureOf <- MCSignatureOf
    Keccak <- MCKeccak
    NoRandomness = 0
    MaxLag = 1
    MaxTime = 4
    Users = {alice, bob}
    treasury = bob
    Vault = vault
    NoAccount = nobody
    NonReceivers = {}
    TokenIds = {0, 1, 2}
    MAX_UINT256 = 3
    SHARE_UNIT = 1
    mintFeeWei = 0
    redeemFeeWei = 0
    targetPremiumWei = 0
    swapFeeBps = 0
    BPS_DENOMINATOR = 10
    MIN_INITIAL_LIQUIDITY = 1
    MAX_BATCH = 2
    ROUND_LEAD = 1
    ROUND_EXPIRY = 1
    DrawWord <- MCDrawWord
    EthAmounts = {}
    ShareAmounts = {1}
    LpAmounts = {}
    Floors = {0}
    MaxEth = 0
    RequestHorizon = 1
SPECIFICATION Spec
INVARIANTS
    TypeOK
    Solvent
    HeldCoherent
    DrawHonourable
    OnlyEmittedStored
PROPERTIES
    DrawSpec
