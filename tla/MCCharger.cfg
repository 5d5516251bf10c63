SPECIFICATION LiveSpec
CONSTANTS
    Configs <- MCConfigs
    Outcomes = {"done", "refused", "cannotRun", "killed"}
    MaxTime = 5
    MaxHups = 1
INVARIANTS ChargerFollowsState OffAtExit
PROPERTIES ChargingEnds
