\* Two scans, one in the background, of a host that may be Maven Central's.
SPECIFICATION FairSpec
CONSTANTS
    Scans = {fg, bg}
    Background = {bg}
    Patient = {bg}
    Sonatype = {TRUE, FALSE}
    Burst = 1
    Share = 3
    Prepaid = 2
    ForegroundWait = 2
    BackgroundWait = 3
    Timeout = 2
    MinFetch = 1
    MaxFetches = 1
    MaxRetries = 1
    MaxBackoff = 2
    RetryAfters = {0, 2}
    DefaultPause = 1
    DefaultStandoff = 1
    MaxPause = 2
    MaxStandoff = 2
    MaxDebt = 1
INVARIANTS
    RateHolds
    LimiterInv
PROPERTY
    EveryRequestEnds
