SPECIFICATION LiveSpec
CONSTANTS
    Configs <- MCConfigs
    NoTime = NoTime
    MinMs = 2
    SleepMs = 3
    Epoch = 2
    MaxTime = 7
    MaxPeers = 1
    MaxHups = 1
INVARIANTS AttemptedIsPrefix PassNeverEarly PollWakesInTime GetNextAgrees
PROPERTIES CallsSpaced EveryBlockReadAgain TermExits HupServed
