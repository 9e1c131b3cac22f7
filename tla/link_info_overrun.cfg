\* getFabricLinkInfo on a topology where every link resolves, given the sized count or one slot fewer.
CONSTANTS
    Null = Null
    NoBuffer = NoBuffer
    NumMetrics = 3
    Enabled <- MCEnabled
    Supported <- MCSupported
    MultiEntity = {1, 2}
    Sparse = {}
    Power = 3
    NumSubdevice = 1
    EngineUtilization = 1
    FabricThroughput = 2
    Handles <- MCHandles
    KnownHandles <- MCKnownHandles
    Links <- MCLinks
    InfoLinks <- MCInfoLinks
    ResolvedLinks <- MCAllResolved
    Slack <- SlackShort
    Calls = {"link_info"}
SPECIFICATION Spec
PROPERTY EntityBufferContract
