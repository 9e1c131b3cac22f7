\* One device with two tiles and one session: rates, overflow handling and
\* the baseline hand-over.
CONSTANTS
    Null = Null
    NoEntry = NoEntry
    NoWindow = NoWindow
    d1 = d1
    d2 = d2
    s1 = s1
    s2 = s2
    Devices <- MCDevices1
    Sessions <- MCSessions1
    Subdevices = {0, 1}
    Width = 2
    MaxStores = 3
    RawReadings = {0, 1, 3}
    TsSteps = {0, 1}
SPECIFICATION Spec
PROPERTY NoWrappedRate
PROPERTY DeviceRateComputed
