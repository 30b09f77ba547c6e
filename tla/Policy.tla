------------------------------- MODULE Policy -------------------------------
(***************************************************************************)
(* The policy engine of the Nostr signer (src/src/nostr/policy.rs): the    *)
(* pairing records, the queue of asks waiting for a person, the standing   *)
(* answers and the activity log, all behind one mutex.  Two kinds of       *)
(* threads use it: callers of Gate::decide, which take the mutex several   *)
(* times and wait between, and the socket verbs (approve, deny, revoke,    *)
(* unrevoke, delete, rename, level), each one critical section.  An action *)
(* is one critical section.  A restart reloads apps.json and log.json and  *)
(* forgets the prompts and the standing answers.                           *)
(***************************************************************************)
EXTENDS Naturals, Sequences, FiniteSets

CONSTANTS
    App,          \* client public keys
    Caller,       \* threads inside Gate::decide
    Ask,          \* the requests that arrive: [app, method, kind]
    NoKind,       \* event_kind of an event that does not parse
    PromptTtl,    \* PROMPT_TTL_SECS, in clock ticks
    RememberFor,  \* the longest standing answer (one hour), in ticks
    LogCap,       \* LOG_CAP
    MaxNow,       \* bound on the clock
    MaxPrompt,    \* bound on next_id
    WriteFails,   \* whether fs::write of apps.json may fail
    TornWrite     \* whether a crash may land inside fs::write of apps.json

Level == {"basic", "ask", "trust"}
Method == {"sign_event", "get_public_key", "nip04_encrypt", "nip04_decrypt",
           "nip44_encrypt", "nip44_decrypt"}

ASSUME PolicyAssumption ==
    /\ Ask \subseteq [app : App, method : Method, kind : Nat \cup {NoKind}]
    /\ PromptTtl \in Nat \ {0} /\ RememberFor \in Nat /\ LogCap \in Nat
    /\ MaxNow \in Nat /\ MaxPrompt \in Nat
    /\ WriteFails \in BOOLEAN /\ TornWrite \in BOOLEAN

VARIABLES
    apps,        \* Inner.apps, as a function of the public key
    disk,        \* what apps.json holds
    remembered,  \* Inner.remembered: 0, or the time the standing answer ends
    prompts,     \* Inner.prompts
    nextId,      \* Inner.next_id
    log,         \* Inner.log: app and verdict of each line
    poisoned,    \* a thread panicked holding the mutex
    now,         \* unix_now()
    pc,          \* where each caller is in decide
    asking,      \* the request each caller carries
    deadline,    \* when its wait times out
    chan,        \* its oneshot channel
    card         \* the prompt the person has on screen: none, or one

engine == <<apps, disk, remembered, prompts, nextId, log, poisoned, now>>
callers == <<pc, asking, deadline, chan>>
vars == <<engine, callers, card>>

-----------------------------------------------------------------------------
(* Records.                                                                *)

Name == {"none", "claimed", "given"}   \* no name, the client's, the person's
Paired == [paired : BOOLEAN, level : Level, name : Name, revoked : BOOLEAN]
Absent == [paired |-> FALSE, level |-> "ask", name |-> "none", revoked |-> FALSE]
NoApps == [a \in App |-> Absent]
NewApp(name) == [Absent EXCEPT !.paired = TRUE, !.name = name]

PromptId == (0 .. MaxNow) \X (1 .. MaxPrompt)   \* "{unix_now}-{next_id}"
Prompt == [id : PromptId, ask : Ask, waiters : SUBSET Caller]
Verdict == {"paired at ask", "allowed (trust)", "allowed (remembered)",
            "allowed (basic)", "allowed", "denied", "expired unanswered",
            "an answer came after the window closed", "tombstoned", "cleared",
            "removed", "named", "noted"}
Line(a, verdict) == [app |-> a, verdict |-> verdict]

\* An asker's place: before and after its first critical section, waiting on
\* its channel, timed out with the receiver still alive, timed out with the
\* receiver dropped, finished, or dead in a panic.
Place == {"idle", "pairing", "reading", "asking", "waiting", "elapsed",
          "closed", "allowed", "denied", "panicked"}
Channel == {"none", "open", "allow", "deny", "dropped"}

-----------------------------------------------------------------------------
(* Pure helpers.                                                           *)

SAFE_KINDS == {1, 6, 7, 16, 1111, 30023, 30024, 1808, 9735, 10001, 30000,
               30001, 24242}

\* The kind is read as u64 and compared as u16.
is_sensitive(ask) ==
    \/ ask.method \in {"nip04_decrypt", "nip44_decrypt", "nip04_encrypt"}
    \/ /\ ask.method = "sign_event"
       /\ ask.kind = NoKind \/ ask.kind % 65536 \notin SAFE_KINDS

trusted_here(ask) == remembered[ask.app, ask.method] > now

allowed_without_asking(ask) ==
    \/ apps[ask.app].level = "trust"
    \/ trusted_here(ask)
    \/ apps[ask.app].level = "basic" /\ ~is_sensitive(ask)

standing_verdict(ask) ==
    IF apps[ask.app].level = "trust" THEN "allowed (trust)"
    ELSE IF trusted_here(ask) THEN "allowed (remembered)" ELSE "allowed (basic)"

\* The log's one door: push, then drop from the front down to the cap.
record_log_keeps_oldest(line) ==       \* mutant
    log' = IF Len(log) < LogCap THEN Append(log, line) ELSE log
record_log_uncapped(line) == log' = Append(log, line)       \* mutant
record_log(line) ==
    LET longer == Append(log, line)
        over == IF Len(longer) > LogCap THEN Len(longer) - LogCap ELSE 0
    IN  log' = SubSeq(longer, over + 1, Len(longer))

\* apps.json is rewritten whole; a failed write is reported and forgotten.
persist_apps == disk' = apps' \/ (WriteFails /\ disk' = disk)

\* retain(|key| !key.starts_with("{app}:"))
without_grants(a) ==
    [k \in App \X Method |-> IF k[1] = a THEN 0 ELSE remembered[k]]

-----------------------------------------------------------------------------
Init ==
    /\ apps = NoApps /\ disk = NoApps
    /\ remembered = [k \in App \X Method |-> 0]
    /\ prompts = {} /\ nextId = 0 /\ log = <<>> /\ poisoned = FALSE /\ now = 0
    /\ pc = [c \in Caller |-> "idle"]
    /\ asking \in [Caller -> Ask]
    /\ deadline = [c \in Caller |-> 0]
    /\ chan = [c \in Caller |-> "none"]
    /\ card = {}

(***************************************************************************)
(* Gate::decide                                                            *)
(***************************************************************************)
Goto(c, place) == pc' = [pc EXCEPT ![c] = place]

\* A request reaches decide.
Begin(c, ask) ==
    /\ pc[c] \in {"idle", "allowed", "denied"}
    /\ Goto(c, "pairing")
    /\ asking' = [asking EXCEPT ![c] = ask]
    /\ UNCHANGED <<engine, deadline, chan, card>>

PairRecord_forgives(a, name) ==       \* mutant: a re-pair clears the tombstone
    /\ apps' = [apps EXCEPT ![a] = NewApp(name)]
    /\ record_log(Line(a, "paired at ask"))
    /\ persist_apps
\* An existing record only gains what it lacked; a new one starts at Ask.
PairRecord(a, name) ==
    IF apps[a].paired
    THEN /\ apps' = [apps EXCEPT ![a].name = IF @ = "none" THEN name ELSE @]
         /\ UNCHANGED <<disk, log>>
    ELSE /\ apps' = [apps EXCEPT ![a] = NewApp(name)]
         /\ record_log(Line(a, "paired at ask"))
         /\ persist_apps

pair_with_metadata(a, name) ==
    /\ ~poisoned
    /\ PairRecord(a, name)
    /\ UNCHANGED <<remembered, prompts, nextId, poisoned, now, callers, card>>

\* decide's own self.pair(app).
DecidePair(c) ==
    /\ pc[c] = "pairing" /\ ~poisoned
    /\ PairRecord(asking[c].app, "none")
    /\ Goto(c, "reading")
    /\ UNCHANGED <<remembered, prompts, nextId, poisoned, now,
                   asking, deadline, chan, card>>

\* The second critical section: the record must still be there, then the level
\* and the standing answers decide, or the ask goes on to the queue.
DecideRead(c) ==
    LET ask == asking[c] IN
    /\ pc[c] = "reading" /\ ~poisoned
    /\ UNCHANGED <<apps, remembered, prompts, nextId, now,
                   asking, deadline, chan, card>>
    /\ IF ~apps[ask.app].paired
       THEN /\ poisoned' = TRUE          \* .expect("the pairing ...")
            /\ Goto(c, "panicked")
            /\ UNCHANGED <<disk, log>>
       ELSE /\ UNCHANGED poisoned
            /\ IF allowed_without_asking(ask)
               THEN /\ Goto(c, "allowed")
                    /\ record_log(Line(ask.app, standing_verdict(ask)))
                    /\ persist_apps
               ELSE Goto(c, "asking") /\ UNCHANGED <<disk, log>>

same_card_any_params(p, ask) ==       \* mutant
    p.ask.app = ask.app /\ p.ask.method = ask.method
same_card(p, ask) == p.ask = ask

prompt_id(n) == <<now, n>>

\* The third: join the card of an identical ask, or push a new one.
DecideAsk(c) ==
    LET same == {p \in prompts : same_card(p, asking[c])} IN
    /\ pc[c] = "asking" /\ ~poisoned
    /\ now + PromptTtl <= MaxNow
    /\ IF same # {}
       THEN /\ \E p \in same : prompts' =
                 (prompts \ {p}) \cup {[p EXCEPT !.waiters = @ \cup {c}]}
            /\ UNCHANGED nextId
       ELSE /\ nextId < MaxPrompt
            /\ nextId' = nextId + 1
            /\ prompts' = prompts \cup
                 {[id |-> prompt_id(nextId + 1), ask |-> asking[c], waiters |-> {c}]}
    /\ Goto(c, "waiting")
    /\ chan' = [chan EXCEPT ![c] = "open"]
    /\ deadline' = [deadline EXCEPT ![c] = now + PromptTtl]
    /\ UNCHANGED <<apps, disk, remembered, log, poisoned, now, asking, card>>

\* The channel resolved: an answer, or every sender dropped.
Receive(c) ==
    /\ pc[c] = "waiting" /\ chan[c] \in {"allow", "deny", "dropped"}
    /\ Goto(c, IF chan[c] = "allow" THEN "allowed" ELSE "denied")
    /\ chan' = [chan EXCEPT ![c] = "none"]
    /\ deadline' = [deadline EXCEPT ![c] = 0]
    /\ UNCHANGED <<engine, asking, card>>

\* timeout() polls the channel first and the clock second; the receiver is
\* dropped only when the elapsed result is handed back.
Elapse_never(c) == FALSE /\ UNCHANGED vars       \* mutant: no timeout
Elapse(c) ==
    /\ pc[c] = "waiting" /\ chan[c] = "open" /\ now >= deadline[c]
    /\ Goto(c, "elapsed")
    /\ UNCHANGED <<engine, asking, deadline, chan, card>>

DropReceiver(c) ==
    /\ pc[c] = "elapsed"
    /\ Goto(c, "closed")
    /\ UNCHANGED <<engine, asking, deadline, chan, card>>

\* The expiry arm: a card still queued leaves with every responder on it.
Expire(c) ==
    LET mine == {p \in prompts : c \in p.waiters} IN
    /\ pc[c] = "closed" /\ ~poisoned
    /\ prompts' = prompts \ mine
    /\ chan' = [w \in Caller |->
                  IF w = c THEN "none"
                  ELSE IF chan[w] = "open" /\ (\E p \in mine : w \in p.waiters)
                  THEN "dropped" ELSE chan[w]]
    /\ deadline' = [deadline EXCEPT ![c] = 0]
    /\ IF mine # {} THEN record_log(Line(asking[c].app, "expired unanswered"))
                    ELSE UNCHANGED log
    /\ Goto(c, "denied")
    /\ UNCHANGED <<apps, disk, remembered, nextId, poisoned, now, asking, card>>

\* .lock().expect("the policy lock") on a poisoned mutex.
LockPoisoned(c) ==
    /\ poisoned /\ pc[c] \in {"pairing", "reading", "asking", "closed"}
    /\ Goto(c, "panicked")
    /\ UNCHANGED <<engine, asking, deadline, chan, card>>

(***************************************************************************)
(* The person's verbs                                                      *)
(***************************************************************************)
\* prompts: the panel shows the queue; the person looks at one card.
View(p) ==
    /\ ~poisoned
    /\ card' = {[id |-> p.id, ask |-> p.ask]}
    /\ UNCHANGED <<engine, callers>>

\* A send lands on a receiver that is still alive.
receiver_alive(c) == pc[c] \in {"waiting", "elapsed"} /\ chan[c] = "open"

\* answer: the card leaves the queue whoever still waits, the standing answer
\* is written before the send, and the log says whether anyone received it.
answer(id, decision, remember) ==
    /\ ~poisoned
    /\ \E p \in prompts : LET alive == {c \in p.waiters : receiver_alive(c)} IN
        /\ p.id = id
        /\ prompts' = prompts \ {p}
        /\ remembered' = IF remember = 0 THEN remembered
                         ELSE [remembered EXCEPT ![<<p.ask.app, p.ask.method>>] =
                                 now + remember]
        /\ chan' = [c \in Caller |-> IF c \in alive THEN decision ELSE chan[c]]
        /\ record_log(Line(p.ask.app,
             IF alive = {} THEN "an answer came after the window closed"
             ELSE IF decision = "allow" THEN "allowed" ELSE "denied"))
    /\ UNCHANGED <<apps, disk, nextId, poisoned, now, pc, asking, deadline>>

Approve == /\ \E shown \in card, remember \in {0, RememberFor} :
                answer(shown.id, "allow", remember)
           /\ UNCHANGED card
Deny == /\ \E shown \in card : answer(shown.id, "deny", 0)
        /\ UNCHANGED card

verb == <<prompts, nextId, poisoned, now, callers, card>>

set_level(a, level) ==
    /\ ~poisoned /\ apps[a].paired
    /\ apps' = [apps EXCEPT ![a].level = level]
    /\ persist_apps
    /\ UNCHANGED <<remembered, log, verb>>

revoke(a) ==
    /\ ~poisoned /\ apps[a].paired
    /\ apps' = [apps EXCEPT ![a].revoked = TRUE]
    /\ remembered' = without_grants(a)
    /\ IF apps[a].revoked THEN UNCHANGED log
                          ELSE record_log(Line(a, "tombstoned"))
    /\ persist_apps
    /\ UNCHANGED verb

unrevoke(a) ==
    /\ ~poisoned /\ apps[a].paired /\ apps[a].revoked
    /\ apps' = [apps EXCEPT ![a].revoked = FALSE]
    /\ record_log(Line(a, "cleared"))
    /\ persist_apps
    /\ UNCHANGED <<remembered, verb>>

rename(a) ==
    /\ ~poisoned /\ apps[a].paired
    /\ apps' = [apps EXCEPT ![a].name = "given"]
    /\ record_log(Line(a, "named"))
    /\ persist_apps
    /\ UNCHANGED <<remembered, verb>>

\* delete, and logout (the app's own goodbye): remove_app, then log and persist.
delete(a) ==
    /\ ~poisoned
    /\ apps' = [apps EXCEPT ![a] = Absent]
    /\ remembered' = without_grants(a)
    /\ IF apps[a].paired THEN record_log(Line(a, "removed")) /\ persist_apps
                         ELSE UNCHANGED <<log, disk>>
    /\ UNCHANGED verb

\* noted: a fact the bunker served or shed without the gate.
noted(a) ==
    /\ ~poisoned
    /\ record_log(Line(a, "noted"))
    /\ UNCHANGED <<apps, disk, remembered, verb>>

(***************************************************************************)
(* The environment                                                         *)
(***************************************************************************)
Tick ==
    /\ now < MaxNow
    /\ now' = now + 1
    /\ UNCHANGED <<apps, disk, remembered, prompts, nextId, log, poisoned,
                   callers, card>>

\* The process dies and Engine::new loads the files.  A restart takes at least
\* a second.  The log survives with the pairings; an apps.json cut off inside
\* its rewrite does not parse and loads as no pairings.
Restart ==
    /\ now < MaxNow
    /\ now' = now + 1
    /\ \/ apps' = disk
       \/ TornWrite /\ apps' = NoApps
    /\ disk' = apps'
    /\ remembered' = [k \in App \X Method |-> 0]
    /\ prompts' = {} /\ nextId' = 0 /\ poisoned' = FALSE
    /\ pc' = [c \in Caller |-> "idle"]
    /\ chan' = [c \in Caller |-> "none"]
    /\ deadline' = [c \in Caller |-> 0]
    /\ UNCHANGED <<log, asking, card>>

Decide(c) == \/ DecidePair(c) \/ DecideRead(c) \/ DecideAsk(c) \/ Receive(c)
             \/ Elapse(c) \/ DropReceiver(c) \/ Expire(c) \/ LockPoisoned(c)

Verb(a) == \/ \E level \in Level : set_level(a, level)
           \/ revoke(a) \/ unrevoke(a) \/ rename(a) \/ delete(a)
           \/ \E name \in Name : pair_with_metadata(a, name)
           \/ noted(a)

Next == \/ \E c \in Caller : Decide(c) \/ \E ask \in Ask : Begin(c, ask)
        \/ \E a \in App : Verb(a)
        \/ \E p \in prompts : View(p)
        \/ Approve \/ Deny \/ Tick \/ Restart

Spec == Init /\ [][Next]_vars

-----------------------------------------------------------------------------
(* Properties.                                                             *)

LogLine == [app : App, verdict : Verdict]

\* The ranges of the variables; the log never outgrows its cap.
TypeOK ==
    /\ apps \in [App -> Paired] /\ disk \in [App -> Paired]
    /\ remembered \in [App \X Method -> Nat]
    /\ prompts \subseteq Prompt
    /\ nextId \in 0 .. MaxPrompt
    /\ log \in Seq(LogLine) /\ Len(log) <= LogCap
    /\ poisoned \in BOOLEAN
    /\ now \in 0 .. MaxNow
    /\ pc \in [Caller -> Place] /\ asking \in [Caller -> Ask]
    /\ deadline \in [Caller -> 0 .. MaxNow] /\ chan \in [Caller -> Channel]
    /\ card \subseteq [id : PromptId, ask : Ask] /\ Cardinality(card) <= 1

\* Nobody waits on a card that is gone: as long as an asker's channel is open
\* the queue holds one card with its sender, for the very request it carries.
\* decide, answer and the expiry arm each remove cards and move senders.
WaiterHasCard ==
    \A c \in Caller : pc[c] = "waiting" /\ chan[c] = "open" =>
        \E p \in prompts : /\ c \in p.waiters
                          /\ p.ask = asking[c]
                          /\ \A q \in prompts \ {p} : c \notin q.waiters

\* Identical asks share one card, and an id names one card: a retry joins the
\* waiting ask whatever order the askers and the answers come in.
OneCardPerAsk ==
    \A p, q \in prompts : p.ask = q.ask \/ p.id = q.id => p = q

\* The queue, whatever order asks, joins, answers and expiries come in: every
\* open wait has its card, and the retry its wait.
QueueServed == WaiterHasCard /\ OneCardPerAsk

Granted(c) == chan[c] = "allow" \/ pc[c] = "allowed"

\* A request is granted only by what stands for it at that moment, or by an
\* approval of a card that showed the person that very request: no stale card,
\* no id reused after a restart, no joined request that differs.
GrantIsEarned ==
    [][\A c \in Caller : ~Granted(c) /\ Granted(c)' =>
          \/ pc[c] = "reading" /\ allowed_without_asking(asking[c])
          \/ Approve /\ \E shown \in card : shown.ask = asking[c]]_vars

\* Every grant leaves its line: the step that settles a request for allow is
\* the step that logs an allowance of that app as the newest line.
GrantIsLogged ==
    [][\A c \in Caller : ~Granted(c) /\ Granted(c)' =>
          /\ log'[Len(log')].app = asking[c].app
          /\ log'[Len(log')].verdict \in
               {"allowed (trust)", "allowed (remembered)", "allowed (basic)",
                "allowed"}]_vars

\* A grant has its cause and its line in the log.
GrantsStand == GrantIsEarned /\ GrantIsLogged

\* A tombstone is cleared by un-revoke alone; asks, re-pairings and restarts
\* leave it (the record may go whole, by delete or logout).
TombstoneStands ==
    [][\A a \in App : apps[a].revoked =>
          apps'[a].revoked \/ unrevoke(a) \/ delete(a)]_vars

\* No path changes a level except the panel's toggle, and the person's name
\* for an app outranks the app's own claim; a restart forgets it only when it
\* was filled into a record on file, which pair_with_metadata does not save.
PersonsWordStands ==
    [][\A a \in App : apps[a].paired /\ apps'[a].paired =>
          /\ \/ apps'[a].level = apps[a].level
             \/ \E level \in Level : set_level(a, level)
          /\ apps[a].name = "given" => \/ apps'[a].name = "given"
                                       \/ Restart /\ disk[a].name # "given"]_vars

\* What the person decided of an app outlives everything the app and the
\* process do: its tombstone, its level and its name.
RecordsStand == TombstoneStands /\ PersonsWordStands

-----------------------------------------------------------------------------
(* What the source says of itself, and its steps do not keep.              *)

\* policy.rs's .expect: the record decide just paired is there when it reads
\* the level.
PairingStillThere == ~poisoned

\* policy.rs on remove_app and revoke: the record and its standing answers go
\* together.
GrantHasRecord ==
    \A a \in App, m \in Method :
        remembered[a, m] > now => apps[a].paired /\ ~apps[a].revoked
=============================================================================
