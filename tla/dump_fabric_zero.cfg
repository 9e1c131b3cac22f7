\* A whole-device dump of the two fabric columns of a link from tile 0 to tile 0 of device 0, the key a zero entry of the throughput vector names.
CONSTANTS
    Null = Null
    None = None
    NA = NA
    Metrics = {}
    SumMetrics = {}
    DeviceData = {}
    Scale <- MCNoLinks
    Tiles = {0, 1}
    TileId <- MCWholeDevice
    StatsTypes = {}
    ThrottleTypes = {}
    Values = {1, 3}
    MaxTs = 2
    MaxTicks = 2
    DeviceId = 1
    FabricCount <- MCZeroFabricCount
    LinkInfo <- MCZeroLinkInfo
    ResolvedLinks = {1, 2}
    ZeroType = "tx"
    EngineCountOf <- MCNoEngines
    EngineInfo <- MCNoEngines
    EngineTypes = {}
SPECIFICATION Spec
PROPERTY FabricCellFaithful
