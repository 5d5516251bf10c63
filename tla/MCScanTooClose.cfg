SPECIFICATION Spec
CONSTANTS
    Configs <- MCConfigs
    NoTime = NoTime
    MinMs = 2
    SleepMs = 3
    Epoch = 2
    MaxTime = 11
    MaxPeers = 1
    MaxHups = 1
PROPERTIES CallsNeverTooClose
