\* Two askers of one app: joins, answers, timeouts and restarts.
CONSTANTS
    a1 = a1  a2 = a2  c1 = c1  c2 = c2
    App = {a1}
    Caller = {c1, c2}
    Ask <- OneAppAsks
    NoKind = NoKind
    PromptTtl = 1
    RememberFor = 1
    LogCap = 1
    MaxNow = 2
    MaxPrompt = 2
    WriteFails = TRUE
    TornWrite = TRUE
SPECIFICATION Spec
CONSTRAINT QueueFocus
SYMMETRY CallerSymmetry
INVARIANTS TypeOK QueueServed
PROPERTIES GrantsStand
\* The clock is bounded, so a behaviour ends.
CHECK_DEADLOCK FALSE
