-------------------------------- MODULE Pool --------------------------------
(***************************************************************************)
(* The relay pool (src/src/nostr/pool.rs) and the daemon's use of it: one  *)
(* thread, queue and stop flag per road.  The daemon's verbs run one at a  *)
(* time under its mutex, which a teardown holds until the threads it       *)
(* stopped have ended; the threads take no lock, so each of their steps    *)
(* may fall between any two verbs, and a dropped road's thread outlives    *)
(* its place in the pool.                                                  *)
(*                                                                         *)
(* What arrives on a road is for the bunker's gates and not kept here; how *)
(* long a back-off sleeps is not either.                                   *)
(***************************************************************************)
EXTENDS Naturals, Sequences, FiniteSets

CONSTANTS
    Url, App,
    Own,               \* the owner of the declared roads
    Declared,          \* Daemon.relays
    BeatsPerPing, MaxUnanswered,      \* Timing
    MaxRoads, MaxEvents, MaxBreaks    \* bounds: threads, answers, wire failures

ASSUME PoolAssumption ==
    /\ Own \notin App /\ Declared \subseteq Url
    /\ BeatsPerPing \in Nat \ {0} /\ MaxUnanswered \in Nat
    /\ MaxRoads \in Nat /\ MaxEvents \in Nat /\ MaxBreaks \in Nat

VARIABLES
    threads,     \* every relay thread ever spawned, in order
    book,        \* RelayPool.roads: the threads the pool can reach
    own_urls, app_urls,
    armed,       \* Daemon.pool is there
    verb,        \* what holds the daemon's mutex across joins
    joining,     \* the threads it waits for
    events,      \* how many events were handed to send
    up,          \* the relays that accept a connection
    breaks

roads == <<threads, book, own_urls, app_urls, armed>>
daemon == <<verb, joining>>
relays == <<up, breaks>>
poolVars == <<roads, daemon, events, relays>>

-----------------------------------------------------------------------------
Place == {"top", "dial", "serve", "read", "gone"}
Serving == {"serve", "read"}
Wire == {"none", "live", "silent", "dead"}
\* only marks the handshake, which the app's own relays carry.
Event == [n : 1 .. MaxEvents, to : App, only : BOOLEAN]
Thread == [url : Url, app : App \cup {Own}, stop : BOOLEAN, place : Place,
           wire : Wire, beats : 0 .. BeatsPerPing, unanswered : 0 .. MaxUnanswered,
           queue : Seq(Event), written : Seq(Event)]

NewRoad(url, app) ==
    [url |-> url, app |-> app, stop |-> FALSE, place |-> "top", wire |-> "none",
     beats |-> 0, unanswered |-> 0, queue |-> <<>>, written |-> <<>>]

\* The ways to spawn one road for each of some urls.
Orders(urls) == {list \in UNION {[1 .. n -> urls] : n \in 0 .. MaxRoads} :
                    /\ \A url \in urls : \E i \in DOMAIN list : list[i] = url
                    /\ \A i, j \in DOMAIN list : list[i] = list[j] => i = j}
Spawned(list, app) == threads \o [i \in DOMAIN list |-> NewRoad(list[i], app)]
spawned(all) == Len(threads) + 1 .. Len(all)

PoolInit ==
    /\ threads = <<>> /\ book = {}
    /\ own_urls = {} /\ app_urls = [a \in App |-> {}]
    /\ armed = FALSE /\ verb = "free" /\ joining = {} /\ events = 0
    /\ up = Url /\ breaks = 0

-----------------------------------------------------------------------------
(* RelayPool, under the daemon's mutex.                                    *)

Stop(ts, which) ==
    [r \in DOMAIN ts |-> IF r \in which THEN [ts[r] EXCEPT !.stop = TRUE] ELSE ts[r]]

\* send: one copy down each road the fan names.
Send(ts, fan, event) ==
    [r \in DOMAIN ts |-> IF r \in fan THEN [ts[r] EXCEPT !.queue = Append(@, event)] ELSE ts[r]]

can_send == events < MaxEvents
NextEvent(a, only) == [n |-> events + 1, to |-> a, only |-> only]

fan_app(a) == {r \in book : threads[r].app \in {Own, a}}

\* Daemon::publish: an answer goes down the declared roads and its app's own.
Publish(a) ==
    /\ verb = "free" /\ armed /\ can_send
    /\ threads' = Send(threads, fan_app(a), NextEvent(a, FALSE))
    /\ events' = events + 1
    /\ UNCHANGED <<book, own_urls, app_urls, armed, daemon, relays>>

\* The connect verb: a road for each relay of the URI not known yet, then the
\* handshake down the app's own roads, or the declared ones when it has none.
known(a) == own_urls \cup app_urls[a]
Connect(a, urls) ==
    \E list \in Orders(urls \ known(a)) :
        LET all == Spawned(list, a)
            road == IF app_urls[a] \cup (urls \ own_urls) = {} THEN Own ELSE a
        IN
        /\ verb = "free" /\ armed /\ can_send /\ Len(all) <= MaxRoads
        /\ app_urls' = [app_urls EXCEPT ![a] = @ \cup (urls \ own_urls)]
        /\ book' = book \cup spawned(all)
        /\ threads' = Send(all, {r \in book' : all[r].app = road}, NextEvent(a, TRUE))
        /\ events' = events + 1
        /\ UNCHANGED <<own_urls, armed, daemon, relays>>

DropApp_keeps_urls(a) ==       \* mutant: the app's next connect finds them known
    LET its == {r \in book : threads[r].app = a} IN
    /\ verb = "free" /\ armed
    /\ threads' = Stop(threads, its) /\ book' = book \ its
    /\ UNCHANGED <<own_urls, app_urls, armed, daemon, events, relays>>
DropApp_kept(a) ==       \* mutant: the stopped roads stay in the book
    /\ verb = "free" /\ armed
    /\ threads' = Stop(threads, {r \in book : threads[r].app = a})
    /\ app_urls' = [app_urls EXCEPT ![a] = {}]
    /\ UNCHANGED <<book, own_urls, armed, daemon, events, relays>>
\* drop_app, by a revoke or a delete: the app's roads are told to stop and are
\* not waited for.
DropApp(a) ==
    LET its == {r \in book : threads[r].app = a} IN
    /\ verb = "free" /\ armed
    /\ threads' = Stop(threads, its)
    /\ book' = book \ its
    /\ app_urls' = [app_urls EXCEPT ![a] = {}]
    /\ UNCHANGED <<own_urls, armed, daemon, events, relays>>

\* teardown_bunker, by a lock, a destroy or an arming: the pool is taken, every
\* road of it told to stop, and the mutex kept until all have ended.
Teardown(for) ==
    /\ verb = "free"
    /\ for = "arm" => Len(threads) + Cardinality(Declared) <= MaxRoads
    /\ threads' = Stop(threads, book)
    /\ joining' = book /\ verb' = for
    /\ book' = {} /\ own_urls' = {} /\ app_urls' = [a \in App |-> {}]
    /\ armed' = FALSE
    /\ UNCHANGED <<events, relays>>

joined == \A r \in joining : threads[r].place = "gone"

Locked == /\ verb = "lock" /\ joined
          /\ verb' = "free" /\ joining' = {}
          /\ UNCHANGED <<roads, events, relays>>

\* The rest of arm_bunker: RelayPool::spawn on the declared relays.
Armed ==
    /\ verb = "arm" /\ joined
    /\ verb' = "free" /\ joining' = {}
    /\ \E list \in Orders(Declared) :
          /\ threads' = Spawned(list, Own)
          /\ book' = spawned(threads')
    /\ own_urls' = Declared /\ armed' = TRUE
    /\ UNCHANGED <<app_urls, events, relays>>

-----------------------------------------------------------------------------
(* One relay thread.                                                       *)

Becomes(r, thread) ==
    /\ threads' = [threads EXCEPT ![r] = thread]
    /\ UNCHANGED <<book, own_urls, app_urls, armed, daemon, events, relays>>

\* A thread that returns takes its queue with it; what it wrote is history.
ended(t) == [NewRoad(t.url, t.app) EXCEPT !.stop = t.stop, !.place = "gone"]

\* connect_and_serve's Err: report, then back off.
failed(t) == [t EXCEPT !.place = "top", !.wire = "none", !.beats = 0, !.unanswered = 0]

\* The top of one_relay's loop; also the end of a back-off.
Top(r) ==
    LET t == threads[r] IN
    /\ t.place = "top"
    /\ Becomes(r, IF t.stop THEN ended(t) ELSE [t EXCEPT !.place = "dial"])

\* Connect and subscribe; the stop flag is not read again before the first beat.
Dial(r) ==
    LET t == threads[r] IN
    /\ t.place = "dial"
    /\ Becomes(r, IF t.url \in up
                  THEN [t EXCEPT !.place = "serve", !.wire = "live"]
                  ELSE failed(t))

\* Every event is out of the queue before the first is written.
drained(t) == [t EXCEPT !.place = "read", !.queue = <<>>]
delivered(t) == [drained(t) EXCEPT !.written = @ \o t.queue]

\* The write after the first k fails: the rest goes with the call.
refused(t, k) == [failed(t) EXCEPT !.queue = <<>>, !.written = @ \o SubSeq(t.queue, 1, k)]

Serve_unasked(r) ==       \* mutant: a served road never reads its flag
    LET t == threads[r] IN
    /\ t.place = "serve"
    /\ Becomes(r, IF t.wire = "live" THEN delivered(t) ELSE drained(t))
\* A beat: the stop flag, the drain, the writes.  A wire that died in silence
\* takes them and delivers nothing; one that was cut may take them too.
Serve(r) ==
    LET t == threads[r] IN
    /\ t.place = "serve"
    /\ \/ t.stop /\ Becomes(r, ended(t))
       \/ ~t.stop /\ t.wire = "live" /\ Becomes(r, delivered(t))
       \/ ~t.stop /\ t.wire # "live" /\ Becomes(r, drained(t))
       \/ ~t.stop /\ t.wire = "dead" /\ t.queue # <<>> /\ Becomes(r, refused(t, 0))

\* The connection breaks between two writes of a beat.
BreakMidway(r) ==
    LET t == threads[r] IN
    /\ t.place = "serve" /\ ~t.stop /\ t.wire = "live"
    /\ breaks < MaxBreaks /\ breaks' = breaks + 1
    /\ \E k \in 1 .. Len(t.queue) - 1 : threads' = [threads EXCEPT ![r] = refused(t, k)]
    /\ UNCHANGED <<book, own_urls, app_urls, armed, daemon, events, up>>

\* Any frame is proof the wire lives.
Frame(r) ==
    LET t == threads[r] IN
    /\ t.place = "read" /\ t.wire = "live"
    /\ Becomes(r, [t EXCEPT !.place = "serve", !.unanswered = 0])

quiet_one_more(t) == t.unanswered > MaxUnanswered       \* mutant: off by one
quiet(t) == t.unanswered + 1 > MaxUnanswered

pinged(t) == [t EXCEPT !.place = "serve", !.beats = 0, !.unanswered = @ + 1]

\* The read timeout: every so many beats a ping, and too many pings with no
\* frame between them end the connection.
Timeout(r) ==
    LET t == threads[r] IN
    /\ t.place = "read" /\ t.wire \in {"live", "silent"}
    /\ Becomes(r, IF t.beats + 1 < BeatsPerPing
                  THEN [t EXCEPT !.place = "serve", !.beats = @ + 1]
                  ELSE IF quiet(t) THEN failed(t) ELSE pinged(t))

ReadError(r) ==
    LET t == threads[r] IN
    /\ t.place = "read" /\ t.wire = "dead"
    /\ Becomes(r, failed(t))

Road(r) == Top(r) \/ Dial(r) \/ Serve(r) \/ Frame(r) \/ Timeout(r) \/ ReadError(r)

-----------------------------------------------------------------------------
(* The network: a relay goes and comes; a connection breaks, or dies unseen.*)

Down(url) == /\ url \in up /\ breaks < MaxBreaks /\ breaks' = breaks + 1
             /\ up' = up \ {url}
             /\ UNCHANGED <<roads, daemon, events>>
Back(url) == /\ url \notin up
             /\ up' = up \cup {url}
             /\ UNCHANGED <<roads, daemon, events, breaks>>

Cut(r) == /\ breaks < MaxBreaks /\ breaks' = breaks + 1
          /\ threads[r].wire = "live"
          /\ \E wire \in {"silent", "dead"} :
                threads' = [threads EXCEPT ![r].wire = wire]
          /\ UNCHANGED <<book, own_urls, app_urls, armed, daemon, events, up>>

Verb == \/ \E a \in App : Publish(a) \/ DropApp(a) \/ \E urls \in SUBSET Url \ {{}} : Connect(a, urls)
        \/ Teardown("lock") \/ Teardown("arm")

PoolNext == \/ Verb \/ Locked \/ Armed
            \/ \E r \in DOMAIN threads : Road(r) \/ Cut(r) \/ BreakMidway(r)
            \/ \E url \in Url : Down(url) \/ Back(url)

PoolSpec == PoolInit /\ [][PoolNext]_poolVars

\* The threads run, and a teardown whose threads ended goes on.
PoolFairSpec ==
    /\ PoolSpec
    /\ \A r \in 1 .. MaxRoads : WF_poolVars(r \in DOMAIN threads /\ Road(r))
    /\ WF_poolVars(Locked) /\ WF_poolVars(Armed)

-----------------------------------------------------------------------------
(* Properties.                                                             *)

running(r) == threads[r].place # "gone"
Elements(seq) == {seq[i] : i \in DOMAIN seq}
carried(t) == t.written \o t.queue

\* The ranges of the variables; a ping count never passes its fuse.
PoolTypeOK ==
    /\ threads \in Seq(Thread) /\ Len(threads) <= MaxRoads
    /\ book \subseteq DOMAIN threads /\ joining \subseteq DOMAIN threads
    /\ own_urls \subseteq Url /\ app_urls \in [App -> SUBSET Url]
    /\ armed \in BOOLEAN /\ verb \in {"free", "lock", "arm"}
    /\ events \in 0 .. MaxEvents /\ up \subseteq Url /\ breaks \in 0 .. MaxBreaks

\* The books name the roads: one road for each url an app or the declaration
\* owns, none for an app on a declared relay, whatever order connects, drops and
\* re-armings come in.
BooksMatchRoads ==
    /\ \A r, q \in book : threads[r].url = threads[q].url =>
            r = q \/ (threads[r].app # threads[q].app /\ Own \notin {threads[r].app, threads[q].app})
    /\ own_urls = {threads[r].url : r \in {q \in book : threads[q].app = Own}}
    /\ \A a \in App : app_urls[a] = {threads[r].url : r \in {q \in book : threads[q].app = a}}

\* A road in the pool has its thread, so no send ever finds its receiver gone;
\* and a thread outside the pool was told to stop, so a lock leaves no road that
\* serves on.
RoadsAndThreads ==
    \A r \in DOMAIN threads :
        IF r \in book THEN running(r) /\ ~threads[r].stop
                      ELSE running(r) => threads[r].stop

\* A pool is spawned only after the one before it ended: no declared relay is
\* served twice.
NoTwoPools ==
    \A r, q \in DOMAIN threads :
        r # q /\ {threads[r].app, threads[q].app} = {Own}
              /\ threads[r].url = threads[q].url => ~running(r) \/ ~running(q)

\* The books, the threads and the roads name the same things.
RoadsKept == BooksMatchRoads /\ RoadsAndThreads /\ NoTwoPools

\* An event for one app is never on another app's relays, and a handshake is
\* either on the client's relays or on the declared ones.
OnlyItsRoads ==
    \A r \in DOMAIN threads : \A i \in DOMAIN carried(threads[r]) :
        LET event == carried(threads[r])[i] IN
        /\ threads[r].app \in {Own, event.to}
        /\ event.only => \A q \in DOMAIN threads :
              event \in Elements(carried(threads[q])) => threads[q].app = threads[r].app

\* A road delivers in the order of publishing and nothing twice, across cuts and
\* reconnections.
InOrder ==
    \A r \in DOMAIN threads :
        LET all == carried(threads[r]) IN
        \A i, j \in DOMAIN all : i < j => all[i].n < all[j].n

\* A road that was told to stop is given nothing more to carry.
StopIsFinal ==
    [][\A r \in DOMAIN threads : threads[r].stop =>
          Elements(carried(threads'[r])) \subseteq Elements(carried(threads[r]))]_poolVars

\* What a road carries: what is its to carry, in order, and nothing once it was
\* told to stop.
Delivers == []OnlyItsRoads /\ []InOrder /\ StopIsFinal

\* Stopping is prompt enough to be waited for: the verb that holds the daemon's
\* mutex across the joins gives it back.
TeardownReturns == verb # "free" ~> verb = "free"

\* A connection that died in silence is noticed.
silent == {r \in DOMAIN threads : threads[r].wire = "silent"}
SilenceNoticed == \A r \in 1 .. MaxRoads : r \in silent ~> r \notin silent

\* A relay that comes back finds the bunker: as long as a road is wanted and its
\* relay is up, the road is served again and again.
waiting == {r \in DOMAIN threads : /\ threads[r].place \notin Serving
                                   /\ ~threads[r].stop /\ threads[r].url \in up}
Reconnects == \A r \in 1 .. MaxRoads : []<>(r \notin waiting)

\* No road stands still, and no verb waits for one that does.
RoadsLive == TeardownReturns /\ SilenceNoticed /\ Reconnects
=============================================================================
