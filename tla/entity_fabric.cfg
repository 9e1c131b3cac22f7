\* getFabricThroughputStatistics and getFabricThroughput, buffers of sized-2 .. sized+1.
CONSTANTS
    Null = Null
    NoBuffer = NoBuffer
    NumMetrics = 3
    Enabled <- MCEnabled
    Supported <- MCSupported
    MultiEntity = {1, 2}
    Sparse = {}
    Power = 3
    NumSubdevice = 1
    EngineUtilization = 1
    FabricThroughput = 2
    Handles <- MCHandles
    KnownHandles <- MCKnownHandles
    Links <- MCLinks
    InfoLinks <- MCInfoLinks
    ResolvedLinks <- MCResolvedLinks
    Slack <- SlackWide
    Calls = {"fabric_stats", "fabric_util"}
SPECIFICATION Spec
PROPERTY EntityBufferContract
PROPERTY RowsResolved
