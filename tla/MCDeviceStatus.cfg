SPECIFICATION StatusSpec
CONSTANTS
    Rules = {1}
    h1 = h1
    h2 = h2
    Handlers = {h1, h2}
    MaxActions = 2
    Cooldown = 0
    CooldownRetention = 2
    AlertRetention = 1
    MaxLag = 1
    MaxTime = 4
    OperatorActs = FALSE
    RulesToggle = FALSE
    Timeout = 2
    Retries = 2
SYMMETRY HandlerSymmetry
CHECK_DEADLOCK FALSE
INVARIANT StatusEvaluated
PROPERTY OnlySilentGoOffline
