CONSTANTS
    genesisTimestamp = 0
    period = 1
    Signatures <- MCSignatures
    SignatureOf <- MCSignatureOf
    Keccak <- MCKeccak
    NoRandomness = 0
    MaxLag = 0
    MaxTime = 5
    Users = {alice, bob}
    treasury = bob
    Vault = vault
    NoAccount = nobody
    NonReceivers = {}
    TokenIds = {0, 1}
    MAX_UINT256 = 3
    SHARE_UNIT = 1
    mintFeeWei = 0
    redeemFeeWei = 0
    targetPremiumWei = 0
    swapFeeBps = 0
    BPS_DENOMINATOR = 10
    MIN_INITIAL_LIQUIDITY = 1
    MAX_BATCH = 1
    ROUND_LEAD = 1
    ROUND_EXPIRY = 0
    DrawWord <- MCDrawWord
    EthAmounts = {}
    ShareAmounts = {}
    LpAmounts = {}
    Floors = {}
    MaxEth = 0
    RequestHorizon = 1
    Relayers = {relayer}
    Servers = {server}
    LostRounds = {3, 4}
    SurfacesUnavailable = FALSE
    Turbulent = FALSE
SPECIFICATION BotsFairSpec
PROPERTY SlotFreedByBots
