SPECIFICATION ScanSpec
CONSTANTS
    a1 = a1
    a2 = a2
    u1 = u1
    t1 = t1
    Asset <- TwoAssets
    User <- OneUser
    Key = {"k1", "k2"}
    Trace <- OneTrace
    Request = {1, 2}
    Brand = {"b1", "b2"}
    Uid <- Uids
    Product <- Products
    Columns <- TwoColumns
    Normalized <- UpperCase
    Trimmed <- NoBlanks
    Secret = {"s1", "s2", "s3"}
    Config = {"prod", "rekeyed"}
    BrandSecret <- OfBrand
    PlatformSecret <- OfPlatform
    Stock <- Found
    Asks <- SmallAsks
    MaxTries <- FirstTwice
    MaxFaults = 1
    Head7 <- Heads
    Scan = {s1}
    Taps <- SmallTaps
CHECK_DEADLOCK FALSE
INVARIANTS
    ScanTypeOK
    ActivationIsAttested
    EntangledOnce
    AnsweredCardWorks
    ProductIsCommitted
    RetriesSettle
    AuthenticIsAttested
    ActivationIsSeenWhole
