SPECIFICATION DeviceLiveSpec
CONSTANTS
    Attempts = {1, 2}
    ImageOf <- MCImageOf
    Factory = 10
    Broken = {12}
    RestartOnSuccess = FALSE
    MaxCommands = 1
    MaxCrashes = 0
    MaxPowerLosses = 0
PROPERTIES ComesBack
CHECK_DEADLOCK FALSE
