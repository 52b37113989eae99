SPECIFICATION SystemSpec
CONSTANTS
    Firmwares = {11, 12}
    Deployable = {11, 12}
    MaxDeployments = 2
    Keys = {}
    Values <- MCValues
    VersionMax = 6
    MaxHandlers = 1
    Attempts = {1, 2}
    ImageOf <- MCImageOf
    Factory = 10
    Broken = {12}
    RestartOnSuccess = TRUE
    MaxCommands = 2
    MaxCrashes = 1
    MaxPowerLosses = 0
INVARIANTS OutcomeTruthful
CHECK_DEADLOCK FALSE
