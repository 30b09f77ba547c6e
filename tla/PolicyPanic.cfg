\* A delete between the two critical sections of one ask.
CONSTANTS
    a1 = a1  a2 = a2  c1 = c1  c2 = c2
    App = {a1}
    Caller = {c1}
    Ask <- OneAppAsks
    NoKind = NoKind
    PromptTtl = 1
    RememberFor = 1
    LogCap = 1
    MaxNow = 1
    MaxPrompt = 1
    WriteFails = FALSE
    TornWrite = FALSE
SPECIFICATION Spec
INVARIANTS PairingStillThere
\* The clock is bounded, so a behaviour ends.
CHECK_DEADLOCK FALSE
