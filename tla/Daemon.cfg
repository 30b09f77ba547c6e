\* Two apps, one key.
CONSTANTS
    a1 = a1  a2 = a2
    worker = worker
    App = {a1, a2}
    Caller = {worker}
    Ask <- SensitiveAsks
    NoKind = NoKind
    PromptTtl = 1
    RememberFor = 1
    LogCap = 0
    MaxNow = 1
    MaxPrompt = 0
    WriteFails = FALSE
    TornWrite = FALSE
    Key = {k1}
    NoKey = NoKey
    MaxSecret = 2
    KeyringRefuses = TRUE
SPECIFICATION DaemonSpec
CONSTRAINT DaemonFocus
VIEW PairingView
SYMMETRY AppSymmetry
INVARIANTS DaemonTypeOK GateKeepsVault
PROPERTIES DoorsHold
\* The clock is bounded, so a behaviour ends.
CHECK_DEADLOCK FALSE
