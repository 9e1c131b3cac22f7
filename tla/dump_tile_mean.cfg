\* A whole-device dump of a type that only the tiles report and that is averaged, and of a throttle-reason column.
CONSTANTS
    Null = Null
    None = None
    NA = NA
    Metrics <- MCMetrics
    SumMetrics = {}
    DeviceData = {}
    Scale <- MCScale
    Tiles = {0, 1}
    TileId <- MCWholeDevice
    StatsTypes = {3}
    ThrottleTypes = {2}
    Values = {1, 3}
    MaxTs = 3
    MaxTicks = 3
    DeviceId = 1
    FabricCount <- MCNoLinks
    LinkInfo <- MCNoLinks
    ResolvedLinks = {}
    ZeroType = "tx"
    EngineCountOf <- MCNoEngines
    EngineInfo <- MCNoEngines
    EngineTypes = {}
SPECIFICATION Spec
PROPERTY DumpFaithful
