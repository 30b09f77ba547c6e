-------------------------------- MODULE Relay --------------------------------
(* The relay side of NIP-46 (nip46-relay.rs over relay/mod.rs): one thread   *)
(* per connection, the event store, the subscriptions, the outbound queues   *)
(* and the budgets behind a lock each, and the evictor's own thread.  A step *)
(* is what a thread does under one lock, so another thread, the clock or the *)
(* end of the connection may come between any two.                           *)
EXTENDS Integers, FiniteSets, Sequences

CONSTANTS Conns,      \* connections; one that left may come back
          Notes,      \* events: [id, by, to, created]
          Filters,    \* what a REQ asks: [p : addresses, other : scoped by ids or authors]
          SubIds,
          Window, HeldFor, Minute, Rate, Limit,
          Stall,      \* how long a thread may take from its reading of the clock to its insert
          MaxSecond

ASSUME RelayAssumption ==
    /\ Window \in Nat /\ HeldFor \in Nat /\ Minute \in Nat /\ Rate \in Nat /\ Limit \in Nat
    /\ Stall \in Nat /\ MaxSecond \in Nat
    /\ HeldFor >= 2 * Window + Stall
    /\ \A e \in Notes : e.created \in Int

VARIABLES relayNow,
          thread,     \* where each connection's thread is in its loop
          work,       \* the event or the request it has in hand
          held,       \* events in memory, each with its time of arrival
          budget,     \* per pubkey, the times of the last minute, in order
          subs,       \* per connection, its subscriptions
          queue,      \* per connection, frames other threads left for it
          got,        \* what went out to each connection, by subscription
          accepted    \* history: every event newly held, with its time

relayVars == <<relayNow, thread, work, held, budget, subs, queue, got, accepted>>
store_state == <<held, budget, accepted>>
paths == <<subs, queue, got>>

Pubkeys == {e.by : e \in Notes}
Frames == SubIds \X Notes
NoWork == [none |-> TRUE]

RelayTypeOK ==
    /\ relayNow \in 0..MaxSecond
    /\ thread \in [Conns -> {"gone", "loop", "read", "admitted", "held", "cast", "asked"}]
    /\ \A h \in held : h.event \in Notes /\ h.at \in 0..MaxSecond
    /\ \A k \in Pubkeys : budget[k] \in Seq(0..MaxSecond) /\ Len(budget[k]) <= Rate
    /\ \A c \in Conns : /\ subs[c] \subseteq SubIds \X Filters
                        /\ queue[c] \subseteq Frames /\ got[c] \subseteq Frames
                        /\ (thread[c] = "gone" => subs[c] = {} /\ queue[c] = {})
    /\ accepted \subseteq Notes \X (0..MaxSecond)

RelayInit ==
    /\ relayNow = 0
    /\ thread = [c \in Conns |-> "gone"] /\ work = [c \in Conns |-> NoWork]
    /\ held = {} /\ budget = [k \in Pubkeys |-> <<>>] /\ accepted = {}
    /\ subs = [c \in Conns |-> {}] /\ queue = subs /\ got = subs

-----------------------------------------------------------------------------
(* relay/mod.rs: the rules.                                                  *)

\* A timestamp exactly one window away is outside.
admission_at_edge(e, t) == e.created >= t - Window /\ e.created <= t + Window    \* mutant
admission(e, t) == e.created > t - Window /\ e.created < t + Window

\* Unscoped by anything, a query is refused at the door.
reject_reason(f) == f.p = {} /\ ~f.other
\* Of what scopes a filter, only the addresses are compared.
matches(f, e) == f.p = {} \/ e.to \in f.p

unexpired(t) == {h \in held : t - h.at < HeldFor}

\* The newest first, as many as the limit lets through.
query(events, f, out) ==
    LET matched == {h.event : h \in {h \in events : matches(f, h.event)}}
    IN  /\ out \subseteq matched
        /\ Cardinality(out) = IF Cardinality(matched) <= Limit THEN Cardinality(matched) ELSE Limit
        /\ \A e \in out, x \in matched \ out : e.created >= x.created

\* The sliding minute: times leave from the front as long as they are too old.
front(b, t) == {i \in 1..Len(b) + 1 : i <= Len(b) => b[i] >= t - Minute}
popped(b, t) == SubSeq(b, CHOOSE i \in front(b, t) : \A j \in front(b, t) : i <= j, Len(b))

-----------------------------------------------------------------------------
(* A connection's thread.                                                    *)

goes(c, to, doing) ==
    /\ thread' = [thread EXCEPT ![c] = to]
    /\ work' = [work EXCEPT ![c] = doing]

Accept(c) ==
    /\ thread[c] = "gone" /\ goes(c, "loop", NoWork)
    /\ UNCHANGED <<relayNow, store_state, paths>>

\* Outbound first, on every beat.
Drain(c) ==
    /\ thread[c] = "loop" /\ goes(c, "read", NoWork)
    /\ got' = [got EXCEPT ![c] = @ \cup queue[c]]
    /\ queue' = [queue EXCEPT ![c] = {}]
    /\ UNCHANGED <<relayNow, store_state, subs>>

\* The read gives up after a beat, or it met a frame that changes nothing.
ReadTimeout_never(c) ==                   \* mutant: no read timeout on the socket
    /\ thread[c] = "read" /\ queue[c] = {} /\ goes(c, "loop", NoWork)
    /\ UNCHANGED <<relayNow, store_state, paths>>
ReadTimeout(c) ==
    /\ thread[c] = "read" /\ goes(c, "loop", NoWork)
    /\ UNCHANGED <<relayNow, store_state, paths>>

\* EVENT: the admission questions, at the time the thread then reads.
ReadEvent(c) == \E e \in Notes :
    /\ thread[c] = "read"
    /\ IF admission(e, relayNow) THEN goes(c, "admitted", [event |-> e, at |-> relayNow])
                                 ELSE goes(c, "loop", NoWork)
    /\ UNCHANGED <<relayNow, store_state, paths>>

\* The pubkey's budget, whatever the connection; then the store, which knows
\* what it holds.  A duplicate has spent its share.
Budgeted(c) ==
    LET e == work[c].event  t == work[c].at
        left == popped(budget[e.by], t)
        full == Len(left) >= Rate
        known == \E h \in held : h.event = e
    IN  /\ thread[c] = "admitted"
        /\ budget' = [budget EXCEPT ![e.by] = IF full THEN left ELSE Append(left, t)]
        /\ IF full \/ known THEN goes(c, "loop", NoWork) /\ UNCHANGED <<held, accepted>>
           ELSE /\ goes(c, "held", work[c])
                /\ held' = held \cup {[event |-> e, at |-> t]}
                /\ accepted' = accepted \cup {<<e, t>>}
        /\ UNCHANGED <<relayNow, paths>>
\* The OK goes to the sender before the event goes to anyone.
SendOk(c) ==
    /\ thread[c] = "held" /\ goes(c, "cast", work[c])
    /\ UNCHANGED <<relayNow, store_state, paths>>
broadcast(c) ==
    /\ thread[c] = "cast" /\ goes(c, "loop", NoWork)
    /\ queue' = [d \in Conns |-> queue[d] \cup
                    {<<s[1], work[c].event>> : s \in {s \in subs[d] : matches(s[2], work[c].event)}}]
    /\ UNCHANGED <<relayNow, store_state, subs, got>>

\* REQ: a query never meets an expired event.
swept_not == held                         \* mutant: the evictor's beat alone sweeps
swept == unexpired(relayNow)
ReadReq(c) == \E i \in SubIds, f \in Filters :
    /\ thread[c] = "read"
    /\ IF reject_reason(f) THEN goes(c, "loop", NoWork) /\ UNCHANGED held
       ELSE /\ held' = swept
            /\ \E out \in SUBSET Notes :
                   /\ query(swept, f, out)
                   /\ goes(c, "asked", [sub |-> <<i, f>>, replay |-> out])
    /\ UNCHANGED <<relayNow, budget, accepted, paths>>
\* The replay and its end are sent; then the subscription is remembered.
Subscribe(c) ==
    /\ thread[c] = "asked" /\ goes(c, "loop", NoWork)
    /\ got' = [got EXCEPT ![c] = @ \cup {<<work[c].sub[1], e>> : e \in work[c].replay}]
    /\ subs' = [subs EXCEPT ![c] = @ \cup {work[c].sub}]
    /\ UNCHANGED <<relayNow, store_state, queue>>
ReadClose(c) == \E i \in SubIds :
    /\ thread[c] = "read" /\ goes(c, "loop", NoWork)
    /\ subs' = [subs EXCEPT ![c] = {s \in @ : s[1] # i}]
    /\ UNCHANGED <<relayNow, store_state, queue, got>>

\* mutant: a connection that ends leaves its subscriptions to the next
Leave_subscribed(c) ==
    /\ thread[c] \notin {"gone", "admitted", "cast"} /\ goes(c, "gone", NoWork)
    /\ queue' = [queue EXCEPT ![c] = {}] /\ got' = [got EXCEPT ![c] = {}]
    /\ UNCHANGED <<relayNow, store_state, subs>>
\* The connection ends: while reading, or at any frame the thread sends.
Leave(c) ==
    /\ thread[c] \notin {"gone", "admitted", "cast"} /\ goes(c, "gone", NoWork)
    /\ subs' = [subs EXCEPT ![c] = {}] /\ queue' = [queue EXCEPT ![c] = {}]
    /\ got' = [got EXCEPT ![c] = {}]
    /\ UNCHANGED <<relayNow, store_state>>

-----------------------------------------------------------------------------
(* The evictor and the clock.                                                *)

Evict ==
    /\ held # unexpired(relayNow) /\ held' = unexpired(relayNow)
    /\ UNCHANGED <<relayNow, thread, work, budget, accepted, paths>>
RelayTick ==
    /\ relayNow < MaxSecond /\ relayNow' = relayNow + 1
    /\ \A c \in Conns : thread[c] = "admitted" => relayNow' - work[c].at <= Stall
    /\ UNCHANGED <<thread, work, store_state, paths>>

Serves(c) == Drain(c) \/ ReadTimeout(c) \/ Budgeted(c) \/ SendOk(c) \/ broadcast(c) \/ Subscribe(c)
RelayNext ==
    \/ \E c \in Conns : Accept(c) \/ Serves(c) \/ ReadEvent(c) \/ ReadReq(c) \/ ReadClose(c) \/ Leave(c)
    \/ Evict \/ RelayTick
RelaySpec == RelayInit /\ [][RelayNext]_relayVars
\* A thread goes on, its peer reading what it sends, and a read that meets
\* nothing gives up after its beat.
RelayFairSpec == RelaySpec /\ \A c \in Conns : WF_relayVars(Serves(c))

-----------------------------------------------------------------------------

\* An event is taken in once, whoever sends it and however often: memory
\* outlives the window its timestamp may be in, and a thread that read the
\* clock a moment ago does not let it in again.
TakenOnce == \A a, b \in accepted : a[1] = b[1] => a = b

\* The budget is the pubkey's: no minute holds more of its events than the
\* rate, over however many connections and reconnections they came.  A thread
\* that read a later clock makes room for one that read an earlier one, so the
\* minute is shorter by what a thread may stall.
BudgetHolds ==
    \A k \in Pubkeys : \A t \in 0..MaxSecond :
        Cardinality({a \in accepted : a[1].by = k /\ a[2] >= t /\ a[2] <= t + Minute - Stall}) <= Rate

\* A query never meets an expired event, whatever the evictor's beat is doing:
\* what a REQ is about to replay came in less than a TTL ago.
ReplayIsFresh ==
    [][\A c \in Conns : (thread[c] = "read" /\ thread'[c] = "asked") =>
          \A e \in work'[c].replay : \E a \in accepted : a[1] = e /\ relayNow - a[2] < HeldFor]_relayVars

\* A frame another thread left for a connection goes out, or the connection
\* ends: no queue waits for its own client to speak first.
QueuesDrain == \A c \in Conns : (queue[c] # {}) ~> (queue[c] = {})

\* A held event goes to every connection whose subscriptions match: replayed,
\* queued or sent, once no thread is on its way from holding it to sending it.
HeldReachesSubscribers ==
    \A h \in held : (\A c \in Conns : thread[c] \in {"held", "cast"} => work[c].event # h.event) =>
        \A c \in Conns : \A s \in subs[c] :
            matches(s[2], h.event) => <<s[1], h.event>> \in got[c] \cup queue[c]
=============================================================================
