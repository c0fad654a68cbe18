CONSTANTS
    Second = 3
    Fractions = 4
    EraSeconds = 16
    NtpToUnix = 9
    StepThreshold = 3
    Instants = {20, 25}
    BootErrors <- MCBootErrors
    Drifts <- MCDrifts
    MaxError = 8
    ServerErrors <- MCServerErrors
    Delays = {0, 2}
    Replies <- MCReplies
    Leases <- MCLeases
    Answers <- MCAnswers
    IpAddresses = {a, b}
    Unspecified = none
    Prefixes = {16, 24}
    Forever = 40
    Servers <- MCTwoMasks
    FirstBackoff = 2
    MaxBackoff = 4
    Jitter <- MCJitter
    AfterNak = 3
    MaxAttempts = 3
    MinRetry = 4
    KernelFails = FALSE
    Nics <- MCNics
SPECIFICATION MCSpec
INVARIANT LeavesOneAddress
CHECK_DEADLOCK FALSE
