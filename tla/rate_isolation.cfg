\* Two devices with two tiles each and a clock that may step back: does a restart, a missing tile or a backward timestamp cost an entity its rate or give it a wrong one?
CONSTANTS
    Null = Null
    NoEntry = NoEntry
    NoWindow = NoWindow
    d1 = d1
    d2 = d2
    s1 = s1
    s2 = s2
    Devices <- MCDevices2
    Sessions <- MCSessions1
    Subdevices = {0, 1}
    Width = 2
    MaxStores = 3
    RawReadings = {0, 1, 3}
    TsSteps <- MCTsBackTwo
SPECIFICATION Spec
PROPERTY RateContract
