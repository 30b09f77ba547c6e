\* One app, and every request the worker takes is finished; two connections of
\* one sender that may send one event a minute, and a store that answers a query
\* with one event.
CONSTANTS
    a1 = a1  a2 = a2
    worker = worker
    App = {a1}
    Caller = {worker}
    Ask <- SensitiveAsks
    NoKind = NoKind
    PromptTtl = 1
    RememberFor = 1
    LogCap = 0
    MaxNow = 1
    MaxPrompt = 1
    WriteFails = FALSE
    TornWrite = FALSE
    Key = {k1}
    NoKey = NoKey
    MaxSecret = 1
    KeyringRefuses = TRUE
    Conns = {1, 2}
    Notes <- TwoNotes
    Filters <- SomeFilters
    SubIds = {"s"}
    Window = 2
    HeldFor = 5
    Minute = 2
    Rate = 1
    Limit = 1
    Stall = 1
    MaxSecond = 6
    Pubkey = {1, 2, 3}
    Token = 2
    Refill = 1
    Burst = 4
    BucketsMax = 2
    Stale = 4
    MaxInstant = 7
SPECIFICATION WiresFairSpec
INVARIANTS WiresTypeOK TakenOnce BudgetsHold
PROPERTIES WorkerReturns ReplayIsFresh QueuesDrain
\* The clocks are bounded, so a behaviour ends.
CHECK_DEADLOCK FALSE
