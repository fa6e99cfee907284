SPECIFICATION Spec
CONSTANTS
    Txns = {"t1", "t2", "t3"}
    Account <- MCAccount
    Spends <- MCSpends
    At <- MCAt
    Amount <- MCAmount
    Best <- MCBest
    Needs <- MCNeeds
    NoMerchant = "no merchant"
    Duration <- MCDuration
    Watermark = 1
    VelocityFactor = 1
    ZScore = 1
    Large = 2
    TinyCount = 1
    Tiny = 10
    Sprawl = 1
    MaxAttempts = 2
    Flaky = {"t2"}
    MaxFaults = 1
    MaxReplays = 1
INVARIANTS NothingDroppedSilently WindowsNest OutliersNeedHistory SignalsAreAnnounced LateOnlyBehindDelivered
PROPERTY ReplayIsDeterministic
CHECK_DEADLOCK FALSE
