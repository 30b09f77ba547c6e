\* Two apps and one asker, under the person's verbs; two keys, four secrets and
\* every blob version in the keyring at the start; replay windows in the
\* proportions of the source (Ttl = Fresh, a smaller drift and slack), where the
\* id cache overflows and the marks do not.
CONSTANTS
    a1 = a1  a2 = a2
    App = {a1, a2}
    Caller = {c1}
    Ask <- TwoAppAsks
    NoKind = NoKind
    PromptTtl = 1
    RememberFor = 1
    LogCap = 1
    MaxNow = 1
    MaxPrompt = 0
    WriteFails = FALSE
    TornWrite = FALSE
    Key = {k1, k2}
    NoKey = NoKey
    MaxSecret = 4
    KeyringRefuses = TRUE
    Sender = {1, 2}
    Event <- TwoSenders
    Ttl = 4
    Fresh = 4
    Drift = 3
    Slack = 1
    CacheMax = 3
    MaxClock = 10
SPECIFICATION BunkerSpec
INVARIANTS BunkerTypeOK MemoryMirrorsStore
PROPERTIES RecordsStand VaultKeeps AnsweredOnce
\* The clocks are bounded, so a behaviour ends.
CHECK_DEADLOCK FALSE
