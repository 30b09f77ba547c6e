\* The bunker is armed again after a revoke.
CONSTANTS
    a1 = a1  a2 = a2
    worker = worker
    App = {a1}
    Caller = {worker}
    Ask <- SensitiveAsks
    NoKind = NoKind
    PromptTtl = 1
    RememberFor = 1
    LogCap = 0
    MaxNow = 1
    MaxPrompt = 0
    WriteFails = FALSE
    TornWrite = FALSE
    Key = {k1}
    NoKey = NoKey
    MaxSecret = 2
    KeyringRefuses = FALSE
SPECIFICATION DaemonSpec
CONSTRAINT DaemonFocus
PROPERTIES TombstoneRefuses
CHECK_DEADLOCK FALSE
