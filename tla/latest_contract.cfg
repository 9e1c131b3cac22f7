\* getLatestMetrics with an idle-power probe that has data, given the sized count or one row fewer.
CONSTANTS
    Null = Null
    NoBuffer = NoBuffer
    NumMetrics = 4
    Enabled <- MCEnabled
    Supported <- MCSupported
    MultiEntity = {3}
    Sparse = {2}
    Power <- PowerType
    NumSubdevice = 1
    RetryWindow = 2
    IdleProbe = TRUE
    Slack <- SlackShort
    Calls = {"latest"}
SPECIFICATION Spec
PROPERTY LatestContract
