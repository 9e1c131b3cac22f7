\* getMetricsStatistics on a one-tile device whose idle-power probe has data,
\* buffers of the sized count -2 .. +1; getLatestMetrics as DumpRawDataTask calls it.
CONSTANTS
    Null = Null
    NoBuffer = NoBuffer
    NumMetrics = 4
    Enabled <- MCEnabled
    Supported <- MCSupported
    MultiEntity = {3}
    Sparse = {2}
    Power <- PowerType
    NumSubdevice = 1
    RetryWindow = 2
    IdleProbe = TRUE
    Slack <- SlackMixed
    Calls = {"stats", "latest"}
SPECIFICATION Spec
INVARIANT TypeOK
PROPERTY BufferContract
PROPERTY QueryTerminates
