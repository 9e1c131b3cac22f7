\* getEngineUtilizations with buffers of the sized count and one slot short, against both promises of a fill call.
CONSTANTS
    Null = Null
    NoBuffer = NoBuffer
    NumMetrics = 3
    Enabled <- MCEnabled
    Supported <- MCSupported
    MultiEntity = {1, 2}
    Sparse = {}
    Power = 3
    NumSubdevice = 1
    EngineUtilization = 1
    FabricThroughput = 2
    Handles <- MCHandles
    KnownHandles <- MCKnownHandles
    Links <- MCLinks
    InfoLinks <- MCInfoLinks
    ResolvedLinks <- MCResolvedLinks
    Slack <- SlackShort
    Calls = {"engine_util"}
SPECIFICATION Spec
PROPERTY EntityContract
