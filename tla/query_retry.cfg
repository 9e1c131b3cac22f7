\* getMetricsStatistics waiting for one sparse type that gets no data,
\* with the 30 s window scaled down to 2 s.
CONSTANTS
    Null = Null
    NoBuffer = NoBuffer
    NumMetrics = 4
    Enabled <- MCEnabled
    Supported <- MCSupported
    MultiEntity = {3}
    Sparse = {2}
    Power <- PowerType
    NumSubdevice = 0
    RetryWindow = 2
    IdleProbe = FALSE
    Slack <- SlackExact
    Calls = {"stats"}
SPECIFICATION Spec
INVARIANT RetryBounded
