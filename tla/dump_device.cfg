\* A whole-device dump: a tile-summed type and a device-level type as stats columns, the two fabric columns of one link, and the per-tile columns of one compute engine on each tile.
CONSTANTS
    Null = Null
    None = None
    NA = NA
    Metrics <- MCMetrics
    SumMetrics = {1}
    DeviceData = {2}
    Scale <- MCScale
    Tiles = {0, 1}
    TileId <- MCWholeDevice
    StatsTypes = {1, 2}
    ThrottleTypes = {}
    Values = {1, 3}
    MaxTs = 3
    MaxTicks = 3
    DeviceId = 1
    FabricCount <- MCFabricCount
    LinkInfo <- MCLinkInfo
    ResolvedLinks = {1, 2}
    ZeroType = "tx"
    EngineCountOf <- MCEngineCountOf
    EngineInfo <- MCEngineInfo
    EngineTypes = {"compute"}
SPECIFICATION Spec
PROPERTY CellValueFaithful
PROPERTY EachSampleOnce
PROPERTY FabricCellFaithful
PROPERTY EngineCellFaithful
