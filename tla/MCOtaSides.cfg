SPECIFICATION SidesSpec
CONSTANTS
    Firmwares = {11, 12}
    Deployable = {11, 12}
    MaxDeployments = 2
    Keys = {"k"}
    Values <- MCValues
    VersionMax = 5
    MaxHandlers = 2
    Attempts = {1, 2, 3}
    ImageOf <- MCImageOf
    Factory = 10
    Broken = {12}
    RestartOnSuccess = TRUE
    MaxCommands = 3
    MaxCrashes = 2
    MaxPowerLosses = 1
    MaxUploads = 2
    Backends = {"local", "s3"}
    Callers = {"q1", "q2"}
INVARIANTS OnlyNewestLive CommandIsLive AlwaysRecoverable SuccessWasConfirmed ReportedIsStored LinkServesItsImage
PROPERTIES CommandKeptWhileLive ConfirmedNotUndone DeviceRecovers
CHECK_DEADLOCK FALSE
