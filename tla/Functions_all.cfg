SPECIFICATION Spec
CONSTANTS
    Digit = 2
    Byte = 4
    Word = 4
    Small = 3
    Addr = 2
    Name <- Names
    Vaults <- SomeVaults
    Markets <- SomeMarkets
    Timelocks <- SomeTimelocks
    Handlers <- SomeHandlers
    UsdtSet = {"v1", "v2"}
    RoleNames <- SomeRoles
    Keepers = {"k1"}
    FeatureNames <- SomeFeatures
    Feeds = {"BNB_USD"}
    Tasks <- AllTasks
INVARIANT NumbersSurvive
INVARIANT ArraysSurvive
INVARIANT NothingInvented
INVARIANT KeysDistinct
INVARIANT NamesEncoded
INVARIANT ConfigRuns
INVARIANT DigestComplete
INVARIANT SeriesHaveOneWriter
