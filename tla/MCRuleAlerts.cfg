SPECIFICATION AlertsSpec
CONSTANTS
    Rules = {1}
    h1 = h1
    h2 = h2
    Handlers = {h1, h2}
    MaxActions = 2
    Cooldown = 2
    CooldownRetention = 2
    AlertRetention = 1
    MaxLag = 1
    MaxTime = 5
    OperatorActs = TRUE
    RulesToggle = TRUE
    Dwell = 2
    ZoneTime = 4
SYMMETRY HandlerSymmetry
CHECK_DEADLOCK FALSE
INVARIANT OneOpenAlert
INVARIANT QuietPeriodKept
INVARIANT ZoneAlertsDeserved
PROPERTY NoResurrection
