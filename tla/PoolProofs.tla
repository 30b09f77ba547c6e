----------------------------- MODULE PoolProofs -----------------------------
(***************************************************************************)
(* Books and threads stay together, and pools do not overlap.  The thread  *)
(* of a road ends only when it was told to, so a thread of the pool runs;  *)
(* a thread that serves a declared relay is in the pool or is waited for,  *)
(* so the pool an arming spawns meets none.  The books name the roads one  *)
(* for one, because a verb changes both in one step.  A road only ever     *)
(* loses what it carries, but for the next event of a verb, which goes to  *)
(* roads of the book: none of them was told to stop.                       *)
(***************************************************************************)
EXTENDS Pool, TLAPS, FiniteSetTheorems, SequenceTheorems

Owner == App \cup {Own}

\* What the steps of a thread never do to it: change its road, unset its flag,
\* come back from the end, or end unasked.
Keeps(t, u) ==
    /\ u.url = t.url /\ u.app = t.app /\ u.stop = t.stop
    /\ t.place = "gone" => u.place = "gone"
    /\ u.place = "gone" => t.place = "gone" \/ t.stop

LEMMA NewRoadType ==
    ASSUME NEW url \in Url, NEW app \in Owner
    PROVE  /\ NewRoad(url, app) \in Thread
           /\ NewRoad(url, app).url = url /\ NewRoad(url, app).app = app
           /\ ~NewRoad(url, app).stop /\ NewRoad(url, app).place = "top"
           /\ NewRoad(url, app).queue = <<>> /\ NewRoad(url, app).written = <<>>
BY PoolAssumption, EmptySeq DEF NewRoad, Thread, Owner, Place, Wire

\* Rebuilding a thread from its fields.
LEMMA ThreadFields ==
    ASSUME NEW t \in Thread
    PROVE  /\ t.url \in Url /\ t.app \in Owner /\ t.stop \in BOOLEAN /\ t.place \in Place
           /\ t.wire \in Wire /\ t.beats \in 0 .. BeatsPerPing
           /\ t.unanswered \in 0 .. MaxUnanswered
           /\ t.queue \in Seq(Event) /\ t.written \in Seq(Event)
BY DEF Thread, Owner

\* Putting one event more on a queue, or telling a thread to stop.
LEMMA QueueType ==
    ASSUME NEW t \in Thread, NEW event \in Event
    PROVE  LET u == [t EXCEPT !.queue = Append(@, event)] IN
           u \in Thread /\ Keeps(t, u)
<1> DEFINE q == Append(t.queue, event)
<1>1. q \in Seq(Event)
  BY ThreadFields
<1> HIDE DEF q
<1>2. [t EXCEPT !.queue = q] \in Thread
  BY <1>1 DEF Thread
<1>3. Keeps(t, [t EXCEPT !.queue = q])
  BY DEF Thread, Keeps
<1> QED BY <1>2, <1>3 DEF q

LEMMA FlagType ==
    ASSUME NEW t \in Thread
    PROVE  LET u == [t EXCEPT !.stop = TRUE] IN
           u \in Thread /\ u.url = t.url /\ u.app = t.app /\ u.place = t.place /\ u.stop
BY DEF Thread

\* The ends a step of a thread may come to.
LEMMA EndedType ==
    ASSUME NEW t \in Thread
    PROVE  /\ ended(t) \in Thread
           /\ t.stop => Keeps(t, ended(t))
<1>1. NewRoad(t.url, t.app) \in Thread
  BY ThreadFields, NewRoadType
<1>2. ended(t) \in Thread
  BY <1>1, ThreadFields DEF ended, Thread, Place
<1>3. /\ ended(t).url = t.url /\ ended(t).app = t.app /\ ended(t).stop = t.stop
      /\ ended(t).place = "gone"
  BY <1>1, ThreadFields DEF ended, Thread, NewRoad
<1> QED BY <1>2, <1>3 DEF Keeps

LEMMA FailedType ==
    ASSUME NEW t \in Thread, t.place # "gone"
    PROVE  failed(t) \in Thread /\ Keeps(t, failed(t)) /\ failed(t).written = t.written
<1>1. 0 \in 0 .. BeatsPerPing /\ 0 \in 0 .. MaxUnanswered
  BY PoolAssumption
<1>2. failed(t) \in Thread
  BY <1>1, ThreadFields DEF failed, Thread, Place, Wire
<1>3. /\ failed(t).url = t.url /\ failed(t).app = t.app /\ failed(t).stop = t.stop
      /\ failed(t).place = "top" /\ failed(t).written = t.written
  BY ThreadFields DEF failed, Thread
<1> QED BY <1>2, <1>3 DEF Keeps

LEMMA DrainedType ==
    ASSUME NEW t \in Thread, t.place # "gone", NEW k \in 0 .. Len(t.queue)
    PROVE  /\ drained(t) \in Thread /\ Keeps(t, drained(t))
           /\ delivered(t) \in Thread /\ Keeps(t, delivered(t))
           /\ refused(t, k) \in Thread /\ Keeps(t, refused(t, k))
<1>1. t.queue \in Seq(Event) /\ t.written \in Seq(Event) /\ <<>> \in Seq(Event)
  BY ThreadFields, EmptySeq
<1>2. SubSeq(t.queue, 1, k) \in Seq(Event)
  BY <1>1, SubSeqProperties
<1>3. t.written \o t.queue \in Seq(Event) /\ t.written \o SubSeq(t.queue, 1, k) \in Seq(Event)
  BY <1>1, <1>2, ConcatProperties
<1>4. drained(t) \in Thread /\ Keeps(t, drained(t)) /\ drained(t).written = t.written
  BY <1>1 DEF drained, Thread, Keeps, Place
<1> DEFINE all == t.written \o t.queue
           some == t.written \o SubSeq(t.queue, 1, k)
<1>5. all \in Seq(Event) /\ some \in Seq(Event)
  BY <1>3
<1>6. delivered(t) = [drained(t) EXCEPT !.written = all]
  BY <1>4 DEF delivered
<1>7. refused(t, k) = [failed(t) EXCEPT !.queue = <<>>, !.written = some]
  BY FailedType DEF refused
<1> HIDE DEF all, some
<1>8. delivered(t) \in Thread /\ Keeps(t, delivered(t))
  BY <1>4, <1>5, <1>6 DEF Thread, Keeps
<1>9. refused(t, k) \in Thread /\ Keeps(t, refused(t, k))
  BY <1>1, <1>5, <1>7, FailedType DEF Thread, Keeps
<1> QED BY <1>4, <1>8, <1>9

-----------------------------------------------------------------------------
(* One step of one thread, and of its connection.                          *)

LEMMA RoadStep ==
    ASSUME PoolTypeOK, NEW r \in DOMAIN threads, Road(r) \/ Cut(r) \/ BreakMidway(r)
    PROVE  /\ \E u \in Thread : threads' = [threads EXCEPT ![r] = u] /\ Keeps(threads[r], u)
           /\ UNCHANGED <<book, own_urls, app_urls, armed, verb, joining, events, up>>
           /\ breaks' \in 0 .. MaxBreaks
<1> DEFINE t == threads[r]
<1>0. t \in Thread /\ breaks \in 0 .. MaxBreaks
  BY ElementOfSeq DEF PoolTypeOK
<1>1. ASSUME NEW u \in Thread, Keeps(t, u), Becomes(r, u)
      PROVE  /\ \E v \in Thread : threads' = [threads EXCEPT ![r] = v] /\ Keeps(threads[r], v)
             /\ UNCHANGED <<book, own_urls, app_urls, armed, verb, joining, events, up>>
             /\ breaks' \in 0 .. MaxBreaks
  BY <1>0, <1>1 DEF Becomes, daemon, relays
<1>2. CASE Top(r)
  <2>1. CASE t.stop
    BY <1>0, <1>1, <1>2, <2>1, EndedType DEF Top
  <2>2. CASE ~t.stop
    <3> DEFINE u == [t EXCEPT !.place = "dial"]
    <3>1. Becomes(r, u) /\ t.place = "top"
      BY <1>2, <2>2 DEF Top
    <3>2. u \in Thread /\ Keeps(t, u)
      BY <1>0, <3>1 DEF Thread, Keeps, Place
    <3> QED BY <1>1, <3>1, <3>2
  <2> QED BY <2>1, <2>2
<1>3. CASE Dial(r)
  <2> DEFINE u == [t EXCEPT !.place = "serve", !.wire = "live"]
  <2>1. u \in Thread /\ (t.place = "dial" => Keeps(t, u))
    BY <1>0 DEF Thread, Keeps, Place, Wire
  <2> QED BY <1>0, <1>1, <1>3, <2>1, FailedType DEF Dial
<1>4. CASE Serve(r)
  <2>1. 0 \in 0 .. Len(t.queue)
    BY <1>0, ThreadFields
  <2> QED BY <1>0, <1>1, <1>4, <2>1, EndedType, DrainedType DEF Serve
<1>5. CASE Frame(r)
  <2> DEFINE u == [t EXCEPT !.place = "serve", !.unanswered = 0]
  <2>0. 0 \in 0 .. MaxUnanswered
    BY PoolAssumption
  <2>1. u \in Thread /\ (t.place = "read" => Keeps(t, u))
    BY <1>0, <2>0 DEF Thread, Keeps, Place
  <2> QED BY <1>1, <1>5, <2>1 DEF Frame
<1>6. CASE Timeout(r)
  <2>1. CASE t.beats + 1 < BeatsPerPing
    <3> DEFINE u == [t EXCEPT !.place = "serve", !.beats = @ + 1]
    <3>1. t.beats + 1 \in 0 .. BeatsPerPing /\ t.place = "read" /\ Becomes(r, u)
      BY <1>0, <1>6, <2>1, ThreadFields, PoolAssumption DEF Timeout
    <3>2. u \in Thread /\ Keeps(t, u)
      BY <1>0, <3>1 DEF Thread, Keeps, Place
    <3> QED BY <1>1, <3>1, <3>2
  <2>2. CASE ~(t.beats + 1 < BeatsPerPing) /\ quiet(t)
    BY <1>0, <1>1, <1>6, <2>2, FailedType DEF Timeout
  <2>3. CASE ~(t.beats + 1 < BeatsPerPing) /\ ~quiet(t)
    <3>1. t.unanswered + 1 \in 0 .. MaxUnanswered /\ 0 \in 0 .. BeatsPerPing
      BY <1>0, <2>3, ThreadFields, PoolAssumption DEF quiet
    <3>2. pinged(t) \in Thread /\ (t.place = "read" => Keeps(t, pinged(t)))
      BY <1>0, <3>1 DEF pinged, Thread, Keeps, Place
    <3> QED BY <1>1, <1>6, <2>3, <3>2 DEF Timeout
  <2> QED BY <2>1, <2>2, <2>3
<1>7. CASE ReadError(r)
  BY <1>0, <1>1, <1>7, FailedType DEF ReadError
<1>8. CASE Cut(r)
  <2>1. PICK wire \in {"silent", "dead"} : threads' = [threads EXCEPT ![r].wire = wire]
    BY <1>8 DEF Cut
  <2> DEFINE u == [t EXCEPT !.wire = wire]
  <2>2. u \in Thread /\ Keeps(t, u)
    BY <1>0 DEF Thread, Keeps, Wire
  <2>3. threads' = [threads EXCEPT ![r] = u]
    BY <2>1
  <2>4. /\ UNCHANGED <<book, own_urls, app_urls, armed, verb, joining, events, up>>
        /\ breaks' \in 0 .. MaxBreaks
    BY <1>0, <1>8, PoolAssumption DEF Cut, daemon
  <2> QED BY <2>2, <2>3, <2>4
<1>9. CASE BreakMidway(r)
  <2>1. PICK k \in 1 .. Len(t.queue) - 1 : threads' = [threads EXCEPT ![r] = refused(t, k)]
    BY <1>9 DEF BreakMidway
  <2>2. k \in 0 .. Len(t.queue) /\ t.place # "gone"
    BY <1>0, <1>9, <2>1, ThreadFields DEF BreakMidway
  <2>3. refused(t, k) \in Thread /\ Keeps(t, refused(t, k))
    BY <1>0, <2>2, DrainedType
  <2>4. /\ UNCHANGED <<book, own_urls, app_urls, armed, verb, joining, events, up>>
        /\ breaks' \in 0 .. MaxBreaks
    BY <1>0, <1>9, PoolAssumption DEF BreakMidway, daemon
  <2> QED BY <2>1, <2>3, <2>4
<1> QED BY <1>2, <1>3, <1>4, <1>5, <1>6, <1>7, <1>8, <1>9 DEF Road

-----------------------------------------------------------------------------
(* What the daemon's verbs do to all threads at once.                      *)

LEMMA StopAll ==
    ASSUME threads \in Seq(Thread), NEW which
    PROVE  LET ts == Stop(threads, which) IN
           /\ ts \in Seq(Thread) /\ Len(ts) = Len(threads) /\ DOMAIN ts = DOMAIN threads
           /\ \A r \in DOMAIN threads :
                 /\ ts[r].url = threads[r].url /\ ts[r].app = threads[r].app
                 /\ ts[r].place = threads[r].place
                 /\ r \in which \/ threads[r].stop => ts[r].stop
                 /\ r \notin which => ts[r] = threads[r]
<1> DEFINE ts == Stop(threads, which)
<1>1. \A r \in 1 .. Len(threads) : threads[r] \in Thread
  BY ElementOfSeq
<1>2. ts = [r \in 1 .. Len(threads) |->
              IF r \in which THEN [threads[r] EXCEPT !.stop = TRUE] ELSE threads[r]]
  BY DEF Stop
<1>3. \A r \in 1 .. Len(threads) : ts[r] \in Thread
  BY <1>1, <1>2, FlagType
<1>4. ts \in Seq(Thread) /\ Len(ts) = Len(threads) /\ DOMAIN ts = DOMAIN threads
  BY <1>2, <1>3
<1>5. ASSUME NEW r \in DOMAIN threads
      PROVE  /\ ts[r].url = threads[r].url /\ ts[r].app = threads[r].app
             /\ ts[r].place = threads[r].place
             /\ r \in which \/ threads[r].stop => ts[r].stop
             /\ r \notin which => ts[r] = threads[r]
  BY <1>1, <1>2, FlagType
<1> QED BY <1>4, <1>5

LEMMA SendAll ==
    ASSUME NEW ts \in Seq(Thread), NEW fan, NEW event \in Event
    PROVE  LET us == Send(ts, fan, event) IN
           /\ us \in Seq(Thread) /\ Len(us) = Len(ts) /\ DOMAIN us = DOMAIN ts
           /\ \A r \in DOMAIN ts : Keeps(ts[r], us[r])
<1> DEFINE us == Send(ts, fan, event)
<1>1. \A r \in 1 .. Len(ts) : ts[r] \in Thread
  BY ElementOfSeq
<1>2. us = [r \in 1 .. Len(ts) |->
              IF r \in fan THEN [ts[r] EXCEPT !.queue = Append(@, event)] ELSE ts[r]]
  BY DEF Send
<1>3. \A r \in 1 .. Len(ts) : us[r] \in Thread /\ Keeps(ts[r], us[r])
  <2> TAKE r \in 1 .. Len(ts)
  <2>1. CASE r \in fan
    BY <1>1, <1>2, <2>1, QueueType
  <2>2. CASE r \notin fan
    BY <1>1, <1>2, <2>2 DEF Keeps
  <2> QED BY <2>1, <2>2
<1>4. us = [r \in 1 .. Len(ts) |-> us[r]]
  BY <1>2
<1> HIDE DEF us
<1>5. us \in Seq(Thread) /\ Len(us) = Len(ts) /\ DOMAIN us = DOMAIN ts
  BY <1>3, <1>4
<1>6. \A r \in DOMAIN ts : Keeps(ts[r], us[r])
  BY <1>3
<1> QED BY <1>5, <1>6 DEF us

LEMMA SpawnAll ==
    ASSUME threads \in Seq(Thread), NEW urls \in SUBSET Url, NEW list \in Orders(urls),
           NEW app \in Owner
    PROVE  LET all == Spawned(list, app) IN
           /\ all \in Seq(Thread) /\ Len(list) \in Nat
           /\ Len(all) = Len(threads) + Len(list)
           /\ \A r \in DOMAIN threads : r \in DOMAIN all /\ all[r] = threads[r]
           /\ \A r \in DOMAIN all : r \in DOMAIN threads \/ r \in spawned(all)
           /\ \A r \in spawned(all) :
                 /\ r \in DOMAIN all /\ r \notin DOMAIN threads
                 /\ all[r].app = app /\ all[r].place = "top" /\ ~all[r].stop
                 /\ all[r].url \in urls /\ all[r].queue = <<>> /\ all[r].written = <<>>
                 /\ \A q \in spawned(all) : all[r].url = all[q].url => r = q
           /\ \A url \in urls : \E r \in spawned(all) : all[r].url = url
           /\ Cardinality(urls) = Len(list)
<1> DEFINE all == Spawned(list, app)
           n == Len(threads)
<1>1. PICK m \in 0 .. MaxRoads : list \in [1 .. m -> urls]
  BY DEF Orders
<1>2. m \in Nat /\ list \in Seq(urls) /\ Len(list) = m /\ DOMAIN list = 1 .. m
  BY <1>1, PoolAssumption
<1> DEFINE news == [i \in 1 .. m |-> NewRoad(list[i], app)]
<1>3. \A i \in 1 .. m : list[i] \in Url /\ news[i] \in Thread
  BY <1>1, NewRoadType
<1>4. news \in Seq(Thread) /\ Len(news) = m
  BY <1>2, <1>3
<1>5. all = threads \o news
  BY <1>2 DEF Spawned
<1> HIDE DEF news
<1>6. /\ all \in Seq(Thread) /\ Len(all) = n + m
      /\ \A r \in 1 .. n : all[r] = threads[r]
      /\ \A r \in n + 1 .. n + m : all[r] = news[r - n]
  BY <1>2, <1>4, <1>5, ConcatProperties
<1>7. DOMAIN threads = 1 .. n /\ DOMAIN all = 1 .. n + m /\ n \in Nat
  BY <1>6
<1>8. spawned(all) = n + 1 .. n + m
  BY <1>6 DEF spawned
<1>9. \A i, j \in 1 .. m : list[i] = list[j] => i = j
  BY <1>2 DEF Orders
<1>10. ASSUME NEW r \in n + 1 .. n + m
       PROVE  /\ r - n \in 1 .. m /\ all[r].url = list[r - n]
              /\ all[r].app = app /\ all[r].place = "top" /\ ~all[r].stop
              /\ all[r].url \in urls /\ all[r].queue = <<>> /\ all[r].written = <<>>
  <2>1. r - n \in 1 .. m
    BY <1>2, <1>7
  <2>2. all[r] = NewRoad(list[r - n], app)
    BY <1>6, <2>1 DEF news
  <2> QED BY <1>1, <1>3, <2>1, <2>2, NewRoadType
<1>11. \A r, q \in n + 1 .. n + m : all[r].url = all[q].url => r = q
  BY <1>2, <1>7, <1>9, <1>10
<1>12. Cardinality(urls) = m
  <2>1. \A url \in urls : \E i \in 1 .. m : list[i] = url
    BY <1>2 DEF Orders
  <2>2. list \in Bijection(1 .. m, urls)
    BY <1>1, <1>9, <2>1 DEF Bijection, Injection, Surjection, IsInjective
  <2> QED BY <1>2, <2>2, FS_CountingElements DEF ExistsBijection
<1>13. ASSUME NEW url \in urls PROVE \E r \in n + 1 .. n + m : all[r].url = url
  <2>1. PICK i \in 1 .. m : list[i] = url
    BY <1>2 DEF Orders
  <2>2. n + i \in n + 1 .. n + m /\ (n + i) - n = i
    BY <1>2, <1>7
  <2>3. all[n + i].url = list[(n + i) - n]
    BY <1>10, <2>2
  <2> QED BY <2>1, <2>2, <2>3
<1>14. \A r \in spawned(all) :
          /\ r \in DOMAIN all /\ r \notin DOMAIN threads
          /\ all[r].app = app /\ all[r].place = "top" /\ ~all[r].stop
          /\ all[r].url \in urls /\ all[r].queue = <<>> /\ all[r].written = <<>>
          /\ \A q \in spawned(all) : all[r].url = all[q].url => r = q
  BY <1>2, <1>7, <1>8, <1>10, <1>11
<1>15. \A url \in urls : \E r \in spawned(all) : all[r].url = url
  BY <1>8, <1>13
<1>16. \A r \in DOMAIN all : r \in DOMAIN threads \/ r \in spawned(all)
  BY <1>2, <1>7, <1>8
<1>17. \A r \in DOMAIN threads : r \in DOMAIN all /\ all[r] = threads[r]
  BY <1>2, <1>6, <1>7
<1> QED BY <1>2, <1>6, <1>12, <1>14, <1>15, <1>16, <1>17

-----------------------------------------------------------------------------
(* The inductive invariant.                                                *)

\* Whoever serves a declared relay is in the pool or is being waited for.
OwnReached ==
    \A r \in DOMAIN threads :
        threads[r].app = Own /\ running(r) => r \in book \cup joining

\* Where the mutex is: nothing is waited for when it is free, a teardown left no
\* pool, and an arming knows that its roads fit the bound.
Mutex ==
    /\ verb = "free" => joining = {}
    /\ verb # "free" => ~armed
    /\ ~armed => book = {}
    /\ verb = "arm" => Len(threads) + Cardinality(Declared) <= MaxRoads

PoolIInv == PoolTypeOK /\ Mutex /\ OwnReached /\ RoadsAndThreads /\ NoTwoPools

\* Two roads on one relay stay two only if both run on.
LEMMA NoRoadStarts ==
    ASSUME NoTwoPools, DOMAIN threads' = DOMAIN threads,
           \A r \in DOMAIN threads :
              /\ threads'[r].url = threads[r].url /\ threads'[r].app = threads[r].app
              /\ running(r)' => running(r)
    PROVE  NoTwoPools'
<1> SUFFICES ASSUME NEW r \in DOMAIN threads, NEW q \in DOMAIN threads, r # q,
                    {threads'[r].app, threads'[q].app} = {Own},
                    threads'[r].url = threads'[q].url,
                    running(r)', running(q)'
             PROVE  FALSE
  BY DEF NoTwoPools
<1>1. /\ threads[r].app = threads'[r].app /\ threads[q].app = threads'[q].app
      /\ threads[r].url = threads[q].url /\ running(r) /\ running(q)
  OBVIOUS
<1> QED BY <1>1 DEF NoTwoPools

\* A step that changes threads only as threads change themselves keeps all of it.
LEMMA KeepStep ==
    ASSUME PoolIInv, threads' \in Seq(Thread), Len(threads') = Len(threads),
           \A r \in DOMAIN threads : Keeps(threads[r], threads'[r]),
           UNCHANGED <<book, verb, joining, armed>>
    PROVE  Mutex' /\ OwnReached' /\ RoadsAndThreads' /\ NoTwoPools'
<1>1. DOMAIN threads' = DOMAIN threads /\ book \subseteq DOMAIN threads
  BY DEF PoolIInv, PoolTypeOK
<1>2. Mutex'
  BY DEF PoolIInv, Mutex
<1>3. OwnReached'
  BY <1>1 DEF PoolIInv, OwnReached, running, Keeps
<1>4. RoadsAndThreads'
  BY <1>1 DEF PoolIInv, RoadsAndThreads, running, Keeps
<1>5. NoTwoPools'
  BY <1>1, NoRoadStarts DEF PoolIInv, running, Keeps
<1> QED BY <1>2, <1>3, <1>4, <1>5

LEMMA PublishStep ==
    ASSUME PoolIInv, NEW a \in App, Publish(a) PROVE PoolIInv'
<1> DEFINE event == NextEvent(a, FALSE)
<1>1. event \in Event /\ events' \in 0 .. MaxEvents
  BY PoolAssumption DEF PoolIInv, PoolTypeOK, Publish, NextEvent, Event, can_send
<1>2. /\ threads' \in Seq(Thread) /\ Len(threads') = Len(threads)
      /\ DOMAIN threads' = DOMAIN threads
      /\ \A r \in DOMAIN threads : Keeps(threads[r], threads'[r])
  <2> HIDE DEF event
  <2>1. threads' = Send(threads, fan_app(a), event) /\ threads \in Seq(Thread)
    BY DEF Publish, PoolIInv, PoolTypeOK, event
  <2> QED BY <1>1, <2>1, SendAll
<1>3. UNCHANGED <<book, own_urls, app_urls, armed, verb, joining, up, breaks>>
  BY DEF Publish, daemon, relays
<1>4. PoolTypeOK'
  BY <1>1, <1>2, <1>3 DEF PoolIInv, PoolTypeOK
<1> QED BY <1>2, <1>3, <1>4, KeepStep DEF PoolIInv

LEMMA ThreadStep ==
    ASSUME PoolIInv, NEW r \in DOMAIN threads, Road(r) \/ Cut(r) \/ BreakMidway(r)
    PROVE  PoolIInv'
<1>1. PoolTypeOK
  BY DEF PoolIInv
<1>2. PICK u \in Thread : threads' = [threads EXCEPT ![r] = u] /\ Keeps(threads[r], u)
  BY <1>1, RoadStep
<1>3. /\ UNCHANGED <<book, own_urls, app_urls, armed, verb, joining, events, up>>
      /\ breaks' \in 0 .. MaxBreaks
  BY <1>1, RoadStep
<1>4. threads' \in Seq(Thread) /\ Len(threads') = Len(threads) /\ DOMAIN threads' = DOMAIN threads
  BY <1>1, <1>2 DEF PoolTypeOK
<1>5. \A q \in DOMAIN threads : Keeps(threads[q], threads'[q])
  BY <1>2 DEF Keeps
<1>6. PoolTypeOK'
  BY <1>1, <1>3, <1>4 DEF PoolTypeOK
<1> QED BY <1>3, <1>4, <1>5, <1>6, KeepStep DEF PoolIInv

\* A road told to stop leaves the book in the same step; a declared one stays.
LEMMA DropStep ==
    ASSUME PoolIInv, NEW a \in App, DropApp(a) PROVE PoolIInv'
<1> DEFINE its == {r \in book : threads[r].app = a}
<1>0. threads \in Seq(Thread) /\ book \subseteq DOMAIN threads /\ joining \subseteq DOMAIN threads
  BY DEF PoolIInv, PoolTypeOK
<1>1. threads' = Stop(threads, its) /\ book' = book \ its
  BY DEF DropApp
<1>2. /\ UNCHANGED <<own_urls, armed, verb, joining, events, up, breaks>>
      /\ verb = "free" /\ armed
      /\ \A r \in its : threads[r].app # Own
  BY PoolAssumption DEF DropApp, daemon, relays
<1> HIDE DEF its
<1>3. /\ threads' \in Seq(Thread) /\ Len(threads') = Len(threads)
      /\ DOMAIN threads' = DOMAIN threads
      /\ \A r \in DOMAIN threads :
            /\ threads'[r].url = threads[r].url /\ threads'[r].app = threads[r].app
            /\ threads'[r].place = threads[r].place
            /\ r \in its \/ threads[r].stop => threads'[r].stop
            /\ r \notin its => threads'[r] = threads[r]
  BY <1>0, <1>1, StopAll
<1>4. PoolTypeOK'
  BY <1>0, <1>1, <1>2, <1>3 DEF PoolIInv, PoolTypeOK, DropApp
<1>5. Mutex'
  BY <1>1, <1>2, <1>3 DEF PoolIInv, Mutex
<1>6. OwnReached'
  BY <1>1, <1>2, <1>3 DEF PoolIInv, OwnReached, running
<1>7. RoadsAndThreads'
  BY <1>1, <1>3 DEF PoolIInv, RoadsAndThreads, running
<1>8. NoTwoPools'
  BY <1>3, NoRoadStarts DEF PoolIInv, running
<1> QED BY <1>4, <1>5, <1>6, <1>7, <1>8 DEF PoolIInv

\* The declared roads leave the pool to be waited for.
LEMMA TeardownStep ==
    ASSUME PoolIInv, NEW for \in {"lock", "arm"}, Teardown(for) PROVE PoolIInv'
<1>0. threads \in Seq(Thread) /\ book \subseteq DOMAIN threads
  BY DEF PoolIInv, PoolTypeOK
<1>1. /\ threads' = Stop(threads, book) /\ joining' = book /\ verb' = for /\ book' = {}
      /\ own_urls' = {} /\ app_urls' = [a \in App |-> {}] /\ armed' = FALSE
      /\ UNCHANGED <<events, up, breaks>>
  BY DEF Teardown, relays
<1>2. verb = "free" /\ joining = {}
  BY DEF Teardown, PoolIInv, Mutex
<1>3. /\ threads' \in Seq(Thread) /\ Len(threads') = Len(threads)
      /\ DOMAIN threads' = DOMAIN threads
      /\ \A r \in DOMAIN threads :
            /\ threads'[r].url = threads[r].url /\ threads'[r].app = threads[r].app
            /\ threads'[r].place = threads[r].place
            /\ r \in book \/ threads[r].stop => threads'[r].stop
  BY <1>0, <1>1, StopAll
<1>4. PoolTypeOK'
  BY <1>0, <1>1, <1>3 DEF PoolIInv, PoolTypeOK
<1>5. Mutex'
  BY <1>1, <1>3 DEF Mutex, Teardown
<1>6. OwnReached'
  BY <1>1, <1>2, <1>3 DEF PoolIInv, OwnReached, running
<1>7. RoadsAndThreads'
  BY <1>1, <1>3 DEF PoolIInv, RoadsAndThreads, running
<1>8. NoTwoPools'
  BY <1>3, NoRoadStarts DEF PoolIInv, running
<1> QED BY <1>4, <1>5, <1>6, <1>7, <1>8 DEF PoolIInv

\* Who was waited for has ended.
LEMMA LockedStep == ASSUME PoolIInv, Locked PROVE PoolIInv'
<1>1. /\ UNCHANGED <<threads, book, own_urls, app_urls, armed, events, up, breaks>>
      /\ verb' = "free" /\ joining' = {} /\ \A r \in joining : ~running(r)
  BY DEF Locked, roads, relays, joined, running
<1>2. PoolTypeOK' /\ Mutex'
  BY <1>1 DEF Locked, PoolIInv, PoolTypeOK, Mutex
<1>3. OwnReached'
  BY <1>1 DEF PoolIInv, OwnReached, running
<1>4. RoadsAndThreads' /\ NoTwoPools'
  BY <1>1 DEF PoolIInv, RoadsAndThreads, NoTwoPools, running
<1> QED BY <1>2, <1>3, <1>4 DEF PoolIInv

\* New roads of an app join the book at once; they are nobody else's.
LEMMA ConnectStep ==
    ASSUME PoolIInv, NEW a \in App, NEW urls \in SUBSET Url, Connect(a, urls)
    PROVE  PoolIInv'
<1> DEFINE event == NextEvent(a, TRUE)
<1>0. threads \in Seq(Thread) /\ book \subseteq DOMAIN threads /\ a \in Owner /\ a # Own
  BY PoolAssumption DEF PoolIInv, PoolTypeOK, Owner
<1>1. PICK list \in Orders(urls \ known(a)) :
            /\ Len(Spawned(list, a)) <= MaxRoads
            /\ book' = book \cup spawned(Spawned(list, a))
            /\ \E fan : threads' = Send(Spawned(list, a), fan, event)
  BY DEF Connect
<1> DEFINE all == Spawned(list, a)
<1>2. /\ UNCHANGED <<own_urls, armed, verb, joining, up, breaks>>
      /\ app_urls' = [app_urls EXCEPT ![a] = @ \cup (urls \ own_urls)]
      /\ events' = events + 1 /\ verb = "free" /\ armed /\ event \in Event
      /\ events' \in 0 .. MaxEvents
  BY PoolAssumption DEF Connect, daemon, relays, NextEvent, Event, can_send, PoolIInv, PoolTypeOK
<1> HIDE DEF event
<1>3. /\ all \in Seq(Thread) /\ Len(all) <= MaxRoads
      /\ \A r \in DOMAIN threads : r \in DOMAIN all /\ all[r] = threads[r]
      /\ \A r \in DOMAIN all : r \in DOMAIN threads \/ r \in spawned(all)
      /\ \A r \in spawned(all) :
            /\ r \in DOMAIN all /\ r \notin DOMAIN threads
            /\ all[r].app = a /\ all[r].place = "top" /\ ~all[r].stop
  BY <1>0, <1>1, SpawnAll
<1> DEFINE news == spawned(all)
<1>4. PICK fan : book' = book \cup news /\ threads' = Send(all, fan, event)
  BY <1>1
<1> HIDE DEF all, news
<1>5. /\ threads' \in Seq(Thread) /\ Len(threads') = Len(all) /\ DOMAIN threads' = DOMAIN all
      /\ \A r \in DOMAIN all : Keeps(all[r], threads'[r])
  BY <1>2, <1>3, <1>4, SendAll
<1>6. /\ DOMAIN threads' = DOMAIN threads \cup news /\ DOMAIN threads \cap news = {}
      /\ \A r \in DOMAIN threads : Keeps(threads[r], threads'[r])
      /\ \A r \in news : threads'[r].app = a /\ running(r)' /\ ~threads'[r].stop
  BY <1>3, <1>5 DEF news, Keeps, running
<1>7. PoolTypeOK'
  BY <1>0, <1>2, <1>3, <1>4, <1>5, <1>6 DEF PoolIInv, PoolTypeOK
<1>8. Mutex'
  BY <1>2 DEF PoolIInv, Mutex
<1>9. OwnReached'
  BY <1>0, <1>2, <1>4, <1>6 DEF PoolIInv, OwnReached, running, Keeps
<1>10. RoadsAndThreads'
  BY <1>0, <1>4, <1>6 DEF PoolIInv, RoadsAndThreads, running, Keeps
<1>11. NoTwoPools'
  <2> SUFFICES ASSUME NEW r \in DOMAIN threads', NEW q \in DOMAIN threads', r # q,
                      {threads'[r].app, threads'[q].app} = {Own},
                      threads'[r].url = threads'[q].url,
                      running(r)', running(q)'
               PROVE  FALSE
    BY DEF NoTwoPools
  <2>1. threads'[r].app = Own /\ threads'[q].app = Own
    OBVIOUS
  <2>2. r \in DOMAIN threads /\ q \in DOMAIN threads
    BY <1>0, <1>6, <2>1
  <2>3. /\ threads[r].app = Own /\ threads[q].app = Own
        /\ threads[r].url = threads[q].url /\ running(r) /\ running(q)
    BY <1>6, <2>1, <2>2 DEF Keeps, running
  <2> QED BY <2>2, <2>3 DEF PoolIInv, NoTwoPools
<1> QED BY <1>7, <1>8, <1>9, <1>10, <1>11 DEF PoolIInv

\* A pool is spawned where no declared road runs, so its roads are the only ones.
LEMMA ArmedStep == ASSUME PoolIInv, Armed PROVE PoolIInv'
<1>0. /\ threads \in Seq(Thread) /\ Own \in Owner /\ Declared \in SUBSET Url
      /\ verb = "arm" /\ book = {} /\ Len(threads) + Cardinality(Declared) <= MaxRoads
      /\ \A r \in joining : ~running(r)
  BY PoolAssumption DEF PoolIInv, PoolTypeOK, Mutex, Armed, joined, running, Owner
<1>1. PICK list \in Orders(Declared) :
            threads' = Spawned(list, Own) /\ book' = spawned(threads')
  BY DEF Armed
<1>2. /\ verb' = "free" /\ joining' = {} /\ own_urls' = Declared /\ armed' = TRUE
      /\ UNCHANGED <<app_urls, events, up, breaks>>
  BY DEF Armed, relays
<1>3. /\ threads' \in Seq(Thread) /\ Len(threads') = Len(threads) + Cardinality(Declared)
      /\ \A r \in DOMAIN threads : r \in DOMAIN threads' /\ threads'[r] = threads[r]
      /\ \A r \in DOMAIN threads' : r \in DOMAIN threads \/ r \in book'
      /\ \A r \in book' :
            /\ r \in DOMAIN threads' /\ r \notin DOMAIN threads
            /\ threads'[r].app = Own /\ threads'[r].place = "top" /\ ~threads'[r].stop
            /\ \A q \in book' : threads'[r].url = threads'[q].url => r = q
  BY <1>0, <1>1, SpawnAll
<1>4. PoolTypeOK'
  BY <1>0, <1>2, <1>3, PoolAssumption DEF PoolIInv, PoolTypeOK
<1>5. Mutex'
  BY <1>2 DEF Mutex
<1>6. \A r \in DOMAIN threads : threads[r].app = Own => ~running(r)
  BY <1>0 DEF PoolIInv, OwnReached
<1>7. OwnReached'
  BY <1>3, <1>6 DEF OwnReached, running
<1>8. RoadsAndThreads'
  BY <1>0, <1>3 DEF PoolIInv, RoadsAndThreads, running
<1>9. NoTwoPools'
  <2> SUFFICES ASSUME NEW r \in DOMAIN threads', NEW q \in DOMAIN threads', r # q,
                      {threads'[r].app, threads'[q].app} = {Own},
                      threads'[r].url = threads'[q].url,
                      running(r)', running(q)'
               PROVE  FALSE
    BY DEF NoTwoPools
  <2>1. threads'[r].app = Own /\ threads'[q].app = Own
    OBVIOUS
  <2>2. r \in book' /\ q \in book'
    BY <1>3, <1>6, <2>1 DEF running
  <2> QED BY <1>3, <2>2
<1> QED BY <1>4, <1>5, <1>7, <1>8, <1>9 DEF PoolIInv

-----------------------------------------------------------------------------
(* The theorems.                                                           *)

LEMMA PoolStep == PoolIInv /\ [PoolNext]_poolVars => PoolIInv'
<1> SUFFICES ASSUME PoolIInv, [PoolNext]_poolVars PROVE PoolIInv'
  OBVIOUS
<1>1. CASE Verb
  BY <1>1, PublishStep, DropStep, ConnectStep, TeardownStep DEF Verb
<1>2. CASE Locked
  BY <1>2, LockedStep
<1>3. CASE Armed
  BY <1>3, ArmedStep
<1>4. CASE \E r \in DOMAIN threads : Road(r) \/ Cut(r) \/ BreakMidway(r)
  BY <1>4, ThreadStep
<1>5. CASE (\E url \in Url : Down(url) \/ Back(url)) \/ UNCHANGED poolVars
  <2>1. /\ UNCHANGED <<threads, book, own_urls, app_urls, armed, verb, joining, events>>
        /\ up' \subseteq Url /\ breaks' \in 0 .. MaxBreaks
    BY <1>5, PoolAssumption
       DEF Down, Back, poolVars, roads, daemon, relays, PoolIInv, PoolTypeOK
  <2>2. PoolTypeOK' /\ Mutex'
    BY <2>1 DEF PoolIInv, PoolTypeOK, Mutex
  <2>3. OwnReached'
    BY <2>1 DEF PoolIInv, OwnReached, running
  <2>4. RoadsAndThreads'
    BY <2>1 DEF PoolIInv, RoadsAndThreads, running
  <2>5. NoTwoPools'
    BY <2>1 DEF PoolIInv, NoTwoPools, running
  <2> QED BY <2>2, <2>3, <2>4, <2>5 DEF PoolIInv
<1> QED BY <1>1, <1>2, <1>3, <1>4, <1>5 DEF PoolNext

\* What PoolIInv says holds in every behaviour of the pool.
THEOREM PoolHolds == PoolSpec => []PoolIInv
<1>1. PoolInit => PoolIInv
  <2> SUFFICES ASSUME PoolInit PROVE PoolIInv
    OBVIOUS
  <2>1. threads \in Seq(Thread) /\ Len(threads) = 0 /\ DOMAIN threads = {}
    BY EmptySeq DEF PoolInit
  <2>2. /\ book = {} /\ joining = {} /\ own_urls = {} /\ up = Url
        /\ ~armed /\ armed \in BOOLEAN /\ verb = "free" /\ events = 0 /\ breaks = 0
    BY DEF PoolInit
  <2>3. app_urls \in [App -> SUBSET Url]
    BY DEF PoolInit
  <2>4. 0 \in 0 .. MaxEvents /\ 0 \in 0 .. MaxBreaks /\ 0 <= MaxRoads
    BY PoolAssumption
  <2>5. PoolTypeOK
    BY <2>1, <2>2, <2>3, <2>4 DEF PoolTypeOK
  <2> QED BY <2>1, <2>2, <2>5 DEF PoolIInv, Mutex, OwnReached, RoadsAndThreads, NoTwoPools
<1> QED BY <1>1, PoolStep, PTL DEF PoolSpec

\* The ranges; a road's count of unanswered pings never passes its fuse.
THEOREM PoolTypeCorrect == PoolSpec => []PoolTypeOK
<1>1. PoolIInv => PoolTypeOK
  BY DEF PoolIInv
<1> QED BY <1>1, PoolHolds, PTL

\* A road in the pool is served by a thread nobody told to stop, and a thread out
\* of it was told to.
THEOREM RoadsServed == PoolSpec => []RoadsAndThreads
<1>1. PoolIInv => RoadsAndThreads
  BY DEF PoolIInv
<1> QED BY <1>1, PoolHolds, PTL

\* No declared relay is served by two running threads, across locks and arming.
THEOREM OnePool == PoolSpec => []NoTwoPools
<1>1. PoolIInv => NoTwoPools
  BY DEF PoolIInv
<1> QED BY <1>1, PoolHolds, PTL

-----------------------------------------------------------------------------
(* The books.                                                              *)

\* The relays the pool's roads of one owner lead to.
Served(o) == {threads[r].url : r \in {q \in book : threads[q].app = o}}
OneEach ==
    \A r, q \in book : threads[r].url = threads[q].url =>
        r = q \/ (threads[r].app # threads[q].app /\ Own \notin {threads[r].app, threads[q].app})

Booked == own_urls = Served(Own) /\ \A a \in App : app_urls[a] = Served(a)

LEMMA BooksAre == BooksMatchRoads <=> OneEach /\ Booked
BY DEF BooksMatchRoads, OneEach, Booked, Served

\* What leaves the roads of the pool where they are leaves the books right.
LEMMA BooksStay ==
    ASSUME BooksMatchRoads, UNCHANGED <<book, own_urls, app_urls>>,
           \A r \in book : threads'[r].url = threads[r].url /\ threads'[r].app = threads[r].app
    PROVE  BooksMatchRoads'
<1>1. \A o : Served(o)' = Served(o)
  BY DEF Served
<1>2. OneEach'
  BY BooksAre DEF OneEach
<1>3. Booked'
  BY <1>1, BooksAre DEF Booked
<1>4. (BooksMatchRoads <=> OneEach /\ Booked)'
  BY BooksAre, PTL
<1> QED BY <1>2, <1>3, <1>4

\* A drop takes the app's relays and its roads together.
LEMMA BooksDrop ==
    ASSUME PoolIInv, BooksMatchRoads, NEW a \in App, DropApp(a) PROVE BooksMatchRoads'
<1> DEFINE its == {r \in book : threads[r].app = a}
<1>1. /\ threads' = Stop(threads, its) /\ book' = book \ its
      /\ app_urls' = [app_urls EXCEPT ![a] = {}] /\ own_urls' = own_urls
      /\ threads \in Seq(Thread) /\ book \subseteq DOMAIN threads
      /\ app_urls \in [App -> SUBSET Url]
  BY DEF DropApp, PoolIInv, PoolTypeOK
<1>2. \A r \in DOMAIN threads :
         threads'[r].url = threads[r].url /\ threads'[r].app = threads[r].app
  <2> HIDE DEF its
  <2> QED BY <1>1, StopAll
<1>3. OneEach'
  BY <1>1, <1>2, BooksAre DEF OneEach
<1>4. ASSUME NEW o, o # a PROVE Served(o)' = Served(o)
  <2>1. \A r \in DOMAIN threads :
           r \in book' /\ threads'[r].app = o <=> r \in book /\ threads[r].app = o
    BY <1>1, <1>2, <1>4
  <2> QED BY <1>1, <1>2, <2>1 DEF Served
<1>5. Served(a)' = {}
  BY <1>1, <1>2 DEF Served
<1>6. Booked'
  BY <1>1, <1>4, <1>5, BooksAre, PoolAssumption DEF Booked
<1>7. (BooksMatchRoads <=> OneEach /\ Booked)'
  BY BooksAre, PTL
<1> QED BY <1>3, <1>6, <1>7

\* A connect opens one road for each relay nobody of the app's or the
\* declaration's leads to, and books it.
LEMMA BooksConnect ==
    ASSUME PoolIInv, BooksMatchRoads, NEW a \in App, NEW urls \in SUBSET Url, Connect(a, urls)
    PROVE  BooksMatchRoads'
<1> DEFINE event == NextEvent(a, TRUE)
           more == urls \ known(a)
<1>0. /\ threads \in Seq(Thread) /\ book \subseteq DOMAIN threads /\ a \in Owner /\ a # Own
      /\ app_urls \in [App -> SUBSET Url] /\ more \in SUBSET Url
  BY PoolAssumption DEF PoolIInv, PoolTypeOK, Owner
<1>1. PICK list \in Orders(more) :
            /\ book' = book \cup spawned(Spawned(list, a))
            /\ \E fan : threads' = Send(Spawned(list, a), fan, event)
  BY DEF Connect
<1>2. /\ own_urls' = own_urls
      /\ app_urls' = [app_urls EXCEPT ![a] = @ \cup (urls \ own_urls)]
      /\ event \in Event
  BY PoolAssumption DEF Connect, NextEvent, Event, can_send, PoolIInv, PoolTypeOK
<1>3. more = (urls \ own_urls) \ app_urls[a]
  BY DEF known
<1> DEFINE all == Spawned(list, a)
           news == spawned(all)
<1> HIDE DEF event, more
<1>4. /\ all \in Seq(Thread)
      /\ \A r \in DOMAIN threads : r \in DOMAIN all /\ all[r] = threads[r]
      /\ \A r \in news : /\ r \in DOMAIN all /\ r \notin DOMAIN threads
                         /\ all[r].app = a /\ all[r].url \in more
                         /\ \A q \in news : all[r].url = all[q].url => r = q
      /\ \A url \in more : \E r \in news : all[r].url = url
  BY <1>0, <1>1, SpawnAll
<1>5. PICK fan : book' = book \cup news /\ threads' = Send(all, fan, event)
  BY <1>1
<1> HIDE DEF all, news
<1>6. \A r \in DOMAIN all : threads'[r].url = all[r].url /\ threads'[r].app = all[r].app
  BY <1>2, <1>4, <1>5, SendAll DEF Keeps
<1>7. /\ \A r \in book : /\ threads'[r].url = threads[r].url /\ threads'[r].app = threads[r].app
                         /\ r \notin news
      /\ \A r \in news : threads'[r].url = all[r].url /\ threads'[r].app = a
  BY <1>0, <1>4, <1>6
<1>8. OneEach /\ Booked
  BY BooksAre
<1>9. ASSUME NEW r \in news, NEW q \in book, threads'[r].url = threads'[q].url
      PROVE  threads'[q].app # a /\ threads'[q].app # Own
  <2>1. threads[q].url \notin Served(Own) /\ threads[q].url \notin Served(a)
    BY <1>3, <1>4, <1>7, <1>8, <1>9 DEF Booked
  <2> QED BY <1>7, <2>1 DEF Served
<1>10. OneEach'
  <2> SUFFICES ASSUME NEW r \in book', NEW q \in book', threads'[r].url = threads'[q].url, r # q
               PROVE  /\ threads'[r].app # threads'[q].app
                      /\ threads'[r].app # Own /\ threads'[q].app # Own
    BY DEF OneEach
  <2>1. CASE r \in book /\ q \in book
    BY <1>7, <1>8, <2>1 DEF OneEach
  <2>2. CASE r \in news /\ q \in news
    BY <1>4, <1>7, <2>2
  <2>3. CASE r \in news /\ q \in book
    BY <1>0, <1>7, <1>9, <2>3
  <2>4. CASE r \in book /\ q \in news
    BY <1>0, <1>7, <1>9, <2>4
  <2> QED BY <1>5, <2>1, <2>2, <2>3, <2>4
<1>11. ASSUME NEW o, o # a PROVE Served(o)' = Served(o)
  <2>1. \A r \in book' : threads'[r].app = o <=> r \in book /\ threads[r].app = o
    BY <1>5, <1>7, <1>11
  <2> QED BY <1>5, <1>7, <2>1 DEF Served
<1>12. Served(a)' = Served(a) \cup more
  <2>1. \A url : url \in Served(a)' <=> \E r \in book' : threads'[r].app = a /\ threads'[r].url = url
    BY DEF Served
  <2>2. \A url : url \in Served(a) <=> \E r \in book : threads[r].app = a /\ threads[r].url = url
    BY DEF Served
  <2>3. ASSUME NEW url \in Served(a)' PROVE url \in Served(a) \cup more
    BY <1>4, <1>5, <1>7, <2>1, <2>2
  <2>4. ASSUME NEW url \in Served(a) \cup more PROVE url \in Served(a)'
    BY <1>4, <1>5, <1>7, <2>1, <2>2
  <2> QED BY <2>3, <2>4
<1>13. app_urls'[a] = Served(a)'
  BY <1>0, <1>2, <1>3, <1>8, <1>12 DEF Booked
<1>14. Booked'
  BY <1>0, <1>2, <1>8, <1>11, <1>13 DEF Booked
<1>15. (BooksMatchRoads <=> OneEach /\ Booked)'
  BY BooksAre, PTL
<1> QED BY <1>10, <1>14, <1>15

\* A new pool has the declared relays, one road each, and no app's.
LEMMA BooksArmed ==
    ASSUME PoolIInv, BooksMatchRoads, Armed PROVE BooksMatchRoads'
<1>0. /\ threads \in Seq(Thread) /\ Own \in Owner /\ Declared \in SUBSET Url /\ book = {}
      /\ Own \notin App
  BY PoolAssumption DEF PoolIInv, PoolTypeOK, Mutex, Armed, Owner
<1>1. PICK list \in Orders(Declared) :
            threads' = Spawned(list, Own) /\ book' = spawned(threads')
  BY DEF Armed
<1>2. own_urls' = Declared /\ app_urls' = app_urls
  BY DEF Armed
<1>3. /\ \A r \in book' : /\ threads'[r].app = Own /\ threads'[r].url \in Declared
                          /\ \A q \in book' : threads'[r].url = threads'[q].url => r = q
      /\ \A url \in Declared : \E r \in book' : threads'[r].url = url
  BY <1>0, <1>1, SpawnAll
<1>4. OneEach'
  BY <1>3 DEF OneEach
<1>5. Served(Own)' = Declared
  BY <1>3 DEF Served
<1>6. ASSUME NEW a \in App PROVE app_urls'[a] = Served(a)'
  <2>1. app_urls[a] = {}
    BY <1>0, BooksAre DEF Booked, Served
  <2>2. Served(a)' = {}
    BY <1>0, <1>3 DEF Served
  <2> QED BY <1>2, <2>1, <2>2
<1>7. (BooksMatchRoads <=> OneEach /\ Booked)'
  BY BooksAre, PTL
<1>8. Booked'
  BY <1>2, <1>5, <1>6 DEF Booked
<1> QED BY <1>4, <1>7, <1>8

LEMMA BooksStep ==
    ASSUME PoolIInv, BooksMatchRoads, [PoolNext]_poolVars PROVE BooksMatchRoads'
<1>0. threads \in Seq(Thread) /\ book \subseteq DOMAIN threads
  BY DEF PoolIInv, PoolTypeOK
<1>1. ASSUME NEW a \in App, Publish(a) PROVE BooksMatchRoads'
  <2> DEFINE event == NextEvent(a, FALSE)
  <2>1. event \in Event
    BY <1>1, PoolAssumption DEF PoolIInv, PoolTypeOK, Publish, NextEvent, Event, can_send
  <2>2. threads' = Send(threads, fan_app(a), event) /\ UNCHANGED <<book, own_urls, app_urls>>
    BY <1>1 DEF Publish
  <2> HIDE DEF event
  <2>3. \A r \in DOMAIN threads : Keeps(threads[r], threads'[r])
    BY <1>0, <2>1, <2>2, SendAll
  <2> QED BY <1>0, <2>2, <2>3, BooksStay DEF Keeps
<1>2. ASSUME NEW for \in {"lock", "arm"}, Teardown(for) PROVE BooksMatchRoads'
  BY <1>2 DEF Teardown, BooksMatchRoads
<1>3. CASE Locked
  BY <1>3, BooksStay DEF Locked, roads
<1>4. ASSUME NEW r \in DOMAIN threads, Road(r) \/ Cut(r) \/ BreakMidway(r) PROVE BooksMatchRoads'
  <2>1. PoolTypeOK
    BY DEF PoolIInv
  <2>2. /\ \E u \in Thread : threads' = [threads EXCEPT ![r] = u] /\ Keeps(threads[r], u)
        /\ UNCHANGED <<book, own_urls, app_urls>>
    BY <1>4, <2>1, RoadStep
  <2>3. \A q \in DOMAIN threads :
           threads'[q].url = threads[q].url /\ threads'[q].app = threads[q].app
    BY <1>0, <2>2 DEF Keeps
  <2> QED BY <1>0, <2>2, <2>3, BooksStay
<1>5. CASE (\E url \in Url : Down(url) \/ Back(url)) \/ UNCHANGED poolVars
  BY <1>5, BooksStay DEF Down, Back, poolVars, roads
<1> QED BY <1>1, <1>2, <1>3, <1>4, <1>5, BooksDrop, BooksConnect, BooksArmed DEF PoolNext, Verb

\* The books name the roads, the roads have their threads, and no two pools
\* serve one declared relay, whatever order connects, drops and re-armings
\* come in.
THEOREM RoadsAreKept == PoolSpec => []RoadsKept
<1>1. PoolInit => BooksMatchRoads
  BY DEF PoolInit, BooksMatchRoads
<1>2. PoolSpec => []BooksMatchRoads
  BY <1>1, BooksStep, PoolHolds, PTL DEF PoolSpec
<1>3. BooksMatchRoads /\ RoadsAndThreads /\ NoTwoPools => RoadsKept
  BY DEF RoadsKept
<1> QED BY <1>2, <1>3, RoadsServed, OnePool, PTL

-----------------------------------------------------------------------------
(* What the roads carry.                                                   *)

\* A sequence that begins another.
Begins(c, d) == Len(c) <= Len(d) /\ \A i \in 1 .. Len(c) : c[i] = d[i]

\* A thread that carries what another carried, or the first of it.
Carries(t, u) == u.app = t.app /\ Begins(carried(u), carried(t))

LEMMA BeginsItself ==
    ASSUME NEW w \in Seq(Event), NEW q \in Seq(Event)
    PROVE  Begins(w \o q, w \o q)
<1>1. w \o q \in Seq(Event)
  BY ConcatProperties
<1>2. Len(w \o q) \in Nat
  BY <1>1
<1> QED BY <1>2 DEF Begins

\* What was written before a queue, and the first of the queue.
LEMMA FirstOf ==
    ASSUME NEW w \in Seq(Event), NEW q \in Seq(Event), NEW k \in 0 .. Len(q)
    PROVE  Begins((w \o SubSeq(q, 1, k)) \o <<>>, w \o q)
<1> DEFINE some == SubSeq(q, 1, k)
           part == w \o some
           all == w \o q
<1>1. some \in Seq(Event) /\ Len(some) = k /\ \A i \in 1 .. k : some[i] = q[i]
  BY SubSeqProperties
<1>2. Len(w) \in Nat /\ Len(q) \in Nat /\ k \in Nat /\ k <= Len(q)
  OBVIOUS
<1> HIDE DEF some
<1>3. /\ part \in Seq(Event) /\ Len(part) = Len(w) + Len(some)
      /\ \A i \in 1 .. Len(w) + Len(some) :
            part[i] = IF i <= Len(w) THEN w[i] ELSE some[i - Len(w)]
  BY <1>1, ConcatProperties
<1>4. /\ all \in Seq(Event) /\ Len(all) = Len(w) + Len(q)
      /\ \A i \in 1 .. Len(w) + Len(q) :
            all[i] = IF i <= Len(w) THEN w[i] ELSE q[i - Len(w)]
  BY ConcatProperties
<1> HIDE DEF part, all
<1>5. part \o <<>> = part
  BY <1>3
<1>6. ASSUME NEW i \in 1 .. Len(part) PROVE part[i] = all[i]
  <2>1. i \in 1 .. Len(w) + k /\ i \in 1 .. Len(w) + Len(q)
    BY <1>1, <1>2, <1>3
  <2>2. CASE i <= Len(w)
    BY <1>1, <1>3, <1>4, <2>1, <2>2
  <2>3. CASE ~(i <= Len(w))
    <3>1. i - Len(w) \in 1 .. k
      BY <1>2, <2>1, <2>3
    <3>2. part[i] = some[i - Len(w)] /\ all[i] = q[i - Len(w)]
      BY <1>1, <1>3, <1>4, <2>1, <2>3
    <3> QED BY <1>1, <3>1, <3>2
  <2> QED BY <2>2, <2>3
<1>7. Len(part) <= Len(all)
  BY <1>1, <1>2, <1>3, <1>4
<1>8. Begins(part \o <<>>, all)
  BY <1>5, <1>6, <1>7 DEF Begins
<1> QED BY <1>8 DEF part, all, some

\* One event more on the queue is one more at the end.
LEMMA OneMore ==
    ASSUME NEW w \in Seq(Event), NEW q \in Seq(Event), NEW event \in Event
    PROVE  /\ Len(w \o Append(q, event)) = Len(w \o q) + 1 /\ Len(w \o q) \in Nat
           /\ \A i \in 1 .. Len(w \o q) : (w \o Append(q, event))[i] = (w \o q)[i]
           /\ (w \o Append(q, event))[Len(w \o q) + 1] = event
<1> DEFINE longer == Append(q, event)
           all == w \o q
           more == w \o longer
<1>1. /\ longer \in Seq(Event) /\ Len(longer) = Len(q) + 1
      /\ \A i \in 1 .. Len(q) : longer[i] = q[i]
      /\ longer[Len(q) + 1] = event
  BY AppendProperties
<1>2. Len(w) \in Nat /\ Len(q) \in Nat
  OBVIOUS
<1> HIDE DEF longer
<1>3. /\ Len(more) = Len(w) + Len(longer)
      /\ \A i \in 1 .. Len(w) + Len(longer) :
            more[i] = IF i <= Len(w) THEN w[i] ELSE longer[i - Len(w)]
  BY <1>1, ConcatProperties
<1>4. /\ Len(all) = Len(w) + Len(q)
      /\ \A i \in 1 .. Len(w) + Len(q) :
            all[i] = IF i <= Len(w) THEN w[i] ELSE q[i - Len(w)]
  BY ConcatProperties
<1> HIDE DEF more, all
<1>5. Len(more) = Len(all) + 1 /\ Len(all) \in Nat
  BY <1>1, <1>2, <1>3, <1>4
<1>6. ASSUME NEW i \in 1 .. Len(all) PROVE more[i] = all[i]
  <2>1. i \in 1 .. Len(w) + Len(longer) /\ i \in 1 .. Len(w) + Len(q)
    BY <1>1, <1>2, <1>4
  <2>2. CASE i <= Len(w)
    BY <1>3, <1>4, <2>1, <2>2
  <2>3. CASE ~(i <= Len(w))
    <3>1. i - Len(w) \in 1 .. Len(q)
      BY <1>2, <2>1, <2>3
    <3>2. more[i] = longer[i - Len(w)] /\ all[i] = q[i - Len(w)]
      BY <1>3, <1>4, <2>1, <2>3
    <3> QED BY <1>1, <3>1, <3>2
  <2> QED BY <2>2, <2>3
<1>7. more[Len(all) + 1] = event
  <2> DEFINE last == Len(w) + Len(longer)
  <2>1. last \in 1 .. last /\ ~(last <= Len(w)) /\ last - Len(w) = Len(q) + 1
        /\ Len(all) + 1 = last
    BY <1>1, <1>2, <1>4
  <2>2. more[last] = longer[last - Len(w)]
    BY <1>3, <2>1
  <2> QED BY <1>1, <2>1, <2>2
<1> QED BY <1>5, <1>6, <1>7 DEF all, more, longer

LEMMA CarriedType ==
    ASSUME NEW t \in Thread PROVE carried(t) \in Seq(Event) /\ Len(carried(t)) \in Nat
<1>1. t.written \in Seq(Event) /\ t.queue \in Seq(Event)
  BY ThreadFields
<1>2. carried(t) \in Seq(Event)
  BY <1>1, ConcatProperties DEF carried
<1> QED BY <1>2

\* A thread with the queue and the history of another carries the same.
LEMMA SameCarried ==
    ASSUME NEW t \in Thread, NEW u, u.app = t.app, u.queue = t.queue, u.written = t.written
    PROVE  Carries(t, u)
<1>1. t.written \in Seq(Event) /\ t.queue \in Seq(Event)
  BY ThreadFields
<1>2. Begins(t.written \o t.queue, t.written \o t.queue)
  BY <1>1, BeginsItself
<1>3. carried(u) = t.written \o t.queue /\ carried(t) = t.written \o t.queue
  BY DEF carried
<1> QED BY <1>2, <1>3 DEF Carries

\* One that lost its queue, but for the first of it that it wrote, carries the
\* first of what it carried.
LEMMA FirstCarried ==
    ASSUME NEW t \in Thread, NEW u, u.app = t.app, NEW k \in 0 .. Len(t.queue),
           u.queue = <<>>, u.written = t.written \o SubSeq(t.queue, 1, k)
    PROVE  Carries(t, u)
<1>1. t.written \in Seq(Event) /\ t.queue \in Seq(Event)
  BY ThreadFields
<1>2. Begins((t.written \o SubSeq(t.queue, 1, k)) \o <<>>, t.written \o t.queue)
  BY <1>1, FirstOf
<1>3. carried(u) = (t.written \o SubSeq(t.queue, 1, k)) \o <<>>
  BY DEF carried
<1>4. carried(t) = t.written \o t.queue
  BY DEF carried
<1> QED BY <1>2, <1>3, <1>4 DEF Carries

\* One that carries nothing.
LEMMA NothingCarried ==
    ASSUME NEW u, u.queue = <<>>, u.written = <<>>
    PROVE  Len(carried(u)) = 0
<1>1. carried(u) = <<>> \o <<>>
  BY DEF carried
<1>2. <<>> \o <<>> = <<>> /\ Len(<<>>) = 0
  OBVIOUS
<1> QED BY <1>1, <1>2

\* Whatever a thread or its connection does, its road carries nothing more.
LEMMA RoadCarries ==
    ASSUME PoolTypeOK, NEW r \in DOMAIN threads, Road(r) \/ Cut(r) \/ BreakMidway(r)
    PROVE  \E u \in Thread : threads' = [threads EXCEPT ![r] = u] /\ Carries(threads[r], u)
<1> DEFINE t == threads[r]
<1>0. t \in Thread
  BY ElementOfSeq DEF PoolTypeOK
<1>1. PICK u \in Thread : threads' = [threads EXCEPT ![r] = u] /\ u.app = t.app
  BY RoadStep DEF Keeps
<1>2. u = threads'[r] /\ \A v : threads' = [threads EXCEPT ![r] = v] => v = u
  BY <1>1
<1> SUFFICES Carries(t, u)
  BY <1>1
<1>3. ASSUME u = ended(t) PROVE Carries(t, u)
  <2>1. u.queue = <<>> /\ u.written = <<>>
    BY <1>0, <1>3, ThreadFields, NewRoadType DEF ended, NewRoad
  <2>2. Len(carried(u)) = 0 /\ Len(carried(t)) \in Nat
    BY <1>0, <2>1, NothingCarried, CarriedType
  <2> QED BY <1>1, <2>2 DEF Carries, Begins
<1>4. ASSUME u.queue = t.queue, u.written = t.written PROVE Carries(t, u)
  BY <1>0, <1>1, <1>4, SameCarried
<1>5. ASSUME u.queue = <<>>, NEW k \in 0 .. Len(t.queue),
             u.written = t.written \o SubSeq(t.queue, 1, k)
      PROVE  Carries(t, u)
  BY <1>0, <1>1, <1>5, FirstCarried
<1>6. failed(t).queue = t.queue /\ failed(t).written = t.written
  BY <1>0 DEF failed, Thread
<1>7. t.queue \in Seq(Event) /\ t.written \in Seq(Event) /\ Len(t.queue) \in Nat
  BY <1>0, ThreadFields
<1>8. SubSeq(t.queue, 1, 0) = <<>> /\ t.written \o <<>> = t.written
  BY <1>7
<1>9. SubSeq(t.queue, 1, Len(t.queue)) = t.queue
  BY <1>7
<1>10. CASE Top(r)
  <2>1. CASE t.stop
    BY <1>2, <1>3, <1>10, <2>1 DEF Top, Becomes
  <2>2. CASE ~t.stop
    <3>1. u = [t EXCEPT !.place = "dial"]
      BY <1>2, <1>10, <2>2 DEF Top, Becomes
    <3> QED BY <1>0, <1>4, <3>1 DEF Thread
  <2> QED BY <2>1, <2>2
<1>11. CASE Dial(r)
  <2>1. u = [t EXCEPT !.place = "serve", !.wire = "live"] \/ u = failed(t)
    BY <1>2, <1>11 DEF Dial, Becomes
  <2> QED BY <1>0, <1>4, <1>6, <2>1 DEF Thread
<1>12. ASSUME NEW k \in 0 .. Len(t.queue), u = refused(t, k) PROVE Carries(t, u)
  <2>1. u.queue = <<>> /\ u.written = t.written \o SubSeq(t.queue, 1, k)
    BY <1>0, <1>6, <1>12 DEF refused, failed, Thread
  <2> QED BY <1>5, <2>1
<1>13. CASE Serve(r)
  <2>1. u \in {ended(t), delivered(t), drained(t), refused(t, 0)}
    BY <1>2, <1>13 DEF Serve, Becomes
  <2>2. drained(t).queue = <<>> /\ drained(t).written = t.written
    BY <1>0 DEF drained, Thread
  <2>3. delivered(t).queue = <<>> /\ delivered(t).written = t.written \o t.queue
    BY <1>0 DEF delivered, drained, Thread
  <2>4. 0 \in 0 .. Len(t.queue) /\ Len(t.queue) \in 0 .. Len(t.queue)
    BY <1>7
  <2>5. CASE u = drained(t)
    BY <1>5, <1>8, <2>2, <2>4, <2>5
  <2>6. CASE u = delivered(t)
    BY <1>5, <1>9, <2>3, <2>4, <2>6
  <2> QED BY <1>3, <1>12, <2>1, <2>4, <2>5, <2>6
<1>14. CASE Frame(r)
  <2>1. u = [t EXCEPT !.place = "serve", !.unanswered = 0]
    BY <1>2, <1>14 DEF Frame, Becomes
  <2> QED BY <1>0, <1>4, <2>1 DEF Thread
<1>15. CASE Timeout(r)
  <2>1. u = [t EXCEPT !.place = "serve", !.beats = @ + 1] \/ u = failed(t) \/ u = pinged(t)
    BY <1>2, <1>15 DEF Timeout, Becomes
  <2> QED BY <1>0, <1>4, <1>6, <2>1 DEF Thread, pinged
<1>16. CASE ReadError(r)
  BY <1>2, <1>4, <1>6, <1>16 DEF ReadError, Becomes
<1>17. CASE Cut(r)
  <2>1. PICK wire \in {"silent", "dead"} : threads' = [threads EXCEPT ![r].wire = wire]
    BY <1>17 DEF Cut
  <2>2. u = [t EXCEPT !.wire = wire]
    BY <1>2, <2>1
  <2> QED BY <1>0, <1>4, <2>2 DEF Thread
<1>18. CASE BreakMidway(r)
  <2>1. PICK k \in 1 .. Len(t.queue) - 1 : threads' = [threads EXCEPT ![r] = refused(t, k)]
    BY <1>18 DEF BreakMidway
  <2>2. k \in 0 .. Len(t.queue) /\ u = refused(t, k)
    BY <1>2, <1>7, <2>1
  <2> QED BY <1>12, <2>2
<1> QED BY <1>10, <1>11, <1>13, <1>14, <1>15, <1>16, <1>17, <1>18 DEF Road

\* What some threads carry when n events were sent: none that was not, each in
\* its order, and only what is theirs.
Sent(ts, n) ==
    \A r \in DOMAIN ts : \A i \in DOMAIN carried(ts[r]) : carried(ts[r])[i].n <= n
Ordered(ts) ==
    \A r \in DOMAIN ts : \A i, j \in DOMAIN carried(ts[r]) :
        i < j => carried(ts[r])[i].n < carried(ts[r])[j].n
Theirs(ts) ==
    \A r \in DOMAIN ts : \A i \in DOMAIN carried(ts[r]) :
        LET event == carried(ts[r])[i] IN
        /\ ts[r].app \in {Own, event.to}
        /\ event.only => \A q \in DOMAIN ts :
              event \in Elements(carried(ts[q])) => ts[q].app = ts[r].app
Fit(ts, n) == Sent(ts, n) /\ Ordered(ts) /\ Theirs(ts)

\* Roads that lost some of what they carried, and new ones that carry nothing.
LEMMA FitLess ==
    ASSUME NEW ts \in Seq(Thread), NEW us \in Seq(Thread), NEW n \in Nat, NEW m \in Nat,
           n <= m, Fit(ts, n),
           \A r \in DOMAIN us : \/ r \in DOMAIN ts /\ Carries(ts[r], us[r])
                                \/ Len(carried(us[r])) = 0
    PROVE  Fit(us, m)
<1>1. ASSUME NEW r \in DOMAIN us
      PROVE  /\ DOMAIN carried(us[r]) = 1 .. Len(carried(us[r]))
             /\ r \in DOMAIN ts => /\ DOMAIN carried(ts[r]) = 1 .. Len(carried(ts[r]))
                                   /\ carried(ts[r]) \in Seq(Event)
  <2>1. us[r] \in Thread /\ (r \in DOMAIN ts => ts[r] \in Thread)
    BY ElementOfSeq
  <2>2. carried(us[r]) \in Seq(Event) /\ (r \in DOMAIN ts => carried(ts[r]) \in Seq(Event))
    BY <2>1, CarriedType
  <2> QED BY <2>2
<1>2. ASSUME NEW r \in DOMAIN us, NEW i \in DOMAIN carried(us[r])
      PROVE  /\ r \in DOMAIN ts /\ i \in DOMAIN carried(ts[r]) /\ us[r].app = ts[r].app
             /\ carried(us[r])[i] = carried(ts[r])[i] /\ carried(ts[r])[i].n \in Nat
  <2>1. i \in 1 .. Len(carried(us[r])) /\ Len(carried(us[r])) # 0
    BY <1>1
  <2>2. r \in DOMAIN ts /\ us[r].app = ts[r].app /\ Begins(carried(us[r]), carried(ts[r]))
    BY <2>1 DEF Carries
  <2>3. ts[r] \in Thread /\ us[r] \in Thread
    BY <2>2, ElementOfSeq
  <2>4. /\ Len(carried(us[r])) \in Nat /\ Len(carried(ts[r])) \in Nat
        /\ carried(ts[r]) \in Seq(Event)
    BY <2>3, CarriedType
  <2>5. i \in 1 .. Len(carried(ts[r])) /\ carried(us[r])[i] = carried(ts[r])[i]
    BY <2>1, <2>2, <2>4 DEF Begins
  <2>6. carried(ts[r])[i] \in Event
    BY <2>4, <2>5, ElementOfSeq
  <2> QED BY <1>1, <2>2, <2>5, <2>6, PoolAssumption DEF Event
<1>3. Sent(us, m)
  BY <1>2 DEF Fit, Sent
<1>4. Ordered(us)
  BY <1>2 DEF Fit, Ordered
<1>5. Theirs(us)
  <2> SUFFICES ASSUME NEW r \in DOMAIN us, NEW i \in DOMAIN carried(us[r])
               PROVE  LET event == carried(us[r])[i] IN
                      /\ us[r].app \in {Own, event.to}
                      /\ event.only => \A q \in DOMAIN us :
                            event \in Elements(carried(us[q])) => us[q].app = us[r].app
    BY DEF Theirs
  <2> DEFINE event == carried(us[r])[i]
  <2>1. /\ r \in DOMAIN ts /\ i \in DOMAIN carried(ts[r]) /\ us[r].app = ts[r].app
        /\ event = carried(ts[r])[i]
    BY <1>2
  <2> HIDE DEF event
  <2>2. /\ ts[r].app \in {Own, event.to}
        /\ event.only => \A q \in DOMAIN ts :
              event \in Elements(carried(ts[q])) => ts[q].app = ts[r].app
    BY <2>1 DEF Fit, Theirs
  <2>3. ASSUME event.only, NEW q \in DOMAIN us, event \in Elements(carried(us[q]))
        PROVE  us[q].app = us[r].app
    <3>1. PICK j \in DOMAIN carried(us[q]) : event = carried(us[q])[j]
      BY <2>3 DEF Elements
    <3>2. /\ q \in DOMAIN ts /\ us[q].app = ts[q].app
          /\ j \in DOMAIN carried(ts[q]) /\ event = carried(ts[q])[j]
      BY <1>2, <3>1
    <3>3. event \in Elements(carried(ts[q]))
      BY <3>2 DEF Elements
    <3> QED BY <2>1, <2>2, <2>3, <3>2, <3>3
  <2>4. us[r].app \in {Own, event.to}
    BY <2>1, <2>2
  <2> QED BY <2>3, <2>4 DEF event
<1> QED BY <1>3, <1>4, <1>5 DEF Fit

\* One copy of the next event down each road of a fan that is its to go down.
LEMMA FitSend ==
    ASSUME NEW ts \in Seq(Thread), NEW n \in Nat, NEW event \in Event, event.n = n + 1,
           NEW fan, Fit(ts, n),
           \A r \in DOMAIN ts : r \in fan => ts[r].app \in {Own, event.to},
           event.only => \A r, q \in DOMAIN ts : r \in fan /\ q \in fan => ts[q].app = ts[r].app
    PROVE  Fit(Send(ts, fan, event), n + 1)
<1> DEFINE us == Send(ts, fan, event)
<1>1. us \in Seq(Thread) /\ DOMAIN us = DOMAIN ts
      /\ \A r \in DOMAIN ts : us[r].app = ts[r].app
  BY SendAll DEF Keeps
<1>2. \A r \in DOMAIN ts :
         us[r] = IF r \in fan THEN [ts[r] EXCEPT !.queue = Append(@, event)] ELSE ts[r]
  BY DEF Send
<1>3. \A r \in DOMAIN ts : ts[r] \in Thread /\ us[r] \in Thread
  BY <1>1, ElementOfSeq
<1> HIDE DEF us
<1> DEFINE old(r) == carried(ts[r])
           new(r) == carried(us[r])
<1>4. ASSUME NEW r \in DOMAIN ts
      PROVE  /\ old(r) \in Seq(Event) /\ new(r) \in Seq(Event) /\ Len(old(r)) \in Nat
             /\ DOMAIN old(r) = 1 .. Len(old(r)) /\ DOMAIN new(r) = 1 .. Len(new(r))
             /\ r \notin fan => new(r) = old(r)
             /\ r \in fan => /\ Len(new(r)) = Len(old(r)) + 1
                             /\ \A i \in 1 .. Len(old(r)) : new(r)[i] = old(r)[i]
                             /\ new(r)[Len(old(r)) + 1] = event
  <2>1. old(r) \in Seq(Event) /\ new(r) \in Seq(Event) /\ Len(old(r)) \in Nat
    BY <1>3, CarriedType
  <2>2. CASE r \notin fan
    <3>1. us[r] = ts[r]
      BY <1>2, <2>2
    <3>2. new(r) = old(r)
      BY <3>1
    <3> HIDE DEF old, new
    <3> QED BY <2>1, <2>2, <3>2
  <2>3. CASE r \in fan
    <3>1. us[r].written = ts[r].written /\ us[r].queue = Append(ts[r].queue, event)
      BY <1>2, <1>3, <2>3 DEF Thread
    <3>2. ts[r].written \in Seq(Event) /\ ts[r].queue \in Seq(Event)
      BY <1>3, ThreadFields
    <3>3. /\ old(r) = ts[r].written \o ts[r].queue
          /\ new(r) = ts[r].written \o Append(ts[r].queue, event)
      BY <3>1 DEF carried
    <3> HIDE DEF old, new
    <3> DEFINE w == ts[r].written
               q == ts[r].queue
    <3>5. /\ Len(w \o Append(q, event)) = Len(w \o q) + 1
          /\ \A i \in 1 .. Len(w \o q) : (w \o Append(q, event))[i] = (w \o q)[i]
          /\ (w \o Append(q, event))[Len(w \o q) + 1] = event
      <4>1. w \in Seq(Event) /\ q \in Seq(Event)
        BY <3>2
      <4> HIDE DEF w, q
      <4> QED BY ONLY <4>1, OneMore, event \in Event
    <3>4. /\ Len(new(r)) = Len(old(r)) + 1
          /\ \A i \in 1 .. Len(old(r)) : new(r)[i] = old(r)[i]
          /\ new(r)[Len(old(r)) + 1] = event
      BY ONLY <3>3, <3>5
    <3> QED BY <2>1, <2>3, <3>4
  <2> QED BY <2>2, <2>3
<1> HIDE DEF old, new
\* Each thing carried is one carried before, or the new one at the end.
<1>5. ASSUME NEW r \in DOMAIN ts, NEW i \in DOMAIN new(r)
      PROVE  \/ i \in DOMAIN old(r) /\ new(r)[i] = old(r)[i]
             \/ r \in fan /\ i = Len(old(r)) + 1 /\ new(r)[i] = event
  BY <1>4
<1>6. ASSUME NEW r \in DOMAIN ts, NEW i \in DOMAIN old(r)
      PROVE  old(r)[i].n <= n /\ old(r)[i].n \in Nat /\ old(r)[i] # event
  <2>1. old(r)[i] \in Event
    BY <1>4, ElementOfSeq
  <2>2. old(r)[i].n <= n
    BY DEF Fit, Sent, old
  <2> QED BY <2>1, <2>2, PoolAssumption DEF Event
<1>7. Sent(us, n + 1)
  <2> SUFFICES ASSUME NEW r \in DOMAIN ts, NEW i \in DOMAIN new(r) PROVE new(r)[i].n <= n + 1
    BY <1>1 DEF Sent, new
  <2> QED BY <1>5, <1>6
<1>8. Ordered(us)
  <2> SUFFICES ASSUME NEW r \in DOMAIN ts, NEW i \in DOMAIN new(r), NEW j \in DOMAIN new(r), i < j
               PROVE  new(r)[i].n < new(r)[j].n
    BY <1>1 DEF Ordered, new
  <2>1. i \in DOMAIN old(r) /\ new(r)[i] = old(r)[i]
    BY <1>4, <1>5
  <2>2. CASE j \in DOMAIN old(r) /\ new(r)[j] = old(r)[j]
    BY <2>1, <2>2 DEF Fit, Ordered, old
  <2>3. CASE new(r)[j] = event
    BY <1>6, <2>1, <2>3
  <2> QED BY <1>5, <2>2, <2>3
<1>9. Theirs(us)
  <2> SUFFICES ASSUME NEW r \in DOMAIN ts, NEW i \in DOMAIN new(r)
               PROVE  /\ us[r].app \in {Own, new(r)[i].to}
                      /\ new(r)[i].only => \A q \in DOMAIN ts :
                            new(r)[i] \in Elements(new(q)) => us[q].app = us[r].app
    BY <1>1 DEF Theirs, new
  <2>1. CASE i \in DOMAIN old(r) /\ new(r)[i] = old(r)[i]
    <3>1. /\ ts[r].app \in {Own, old(r)[i].to}
          /\ old(r)[i].only => \A q \in DOMAIN ts :
                old(r)[i] \in Elements(old(q)) => ts[q].app = ts[r].app
      BY <2>1 DEF Fit, Theirs, old
    <3>2. ASSUME old(r)[i].only, NEW q \in DOMAIN ts, old(r)[i] \in Elements(new(q))
          PROVE  us[q].app = us[r].app
      <4>1. PICK j \in DOMAIN new(q) : old(r)[i] = new(q)[j]
        BY <3>2 DEF Elements
      <4>2. j \in DOMAIN old(q) /\ old(r)[i] = old(q)[j]
        BY <1>5, <1>6, <2>1, <4>1
      <4>3. old(r)[i] \in Elements(old(q))
        BY <4>2 DEF Elements
      <4> QED BY <1>1, <3>1, <3>2, <4>3
    <3> QED BY <1>1, <2>1, <3>1, <3>2
  <2>2. CASE r \in fan /\ new(r)[i] = event
    <3>1. ASSUME event.only, NEW q \in DOMAIN ts, event \in Elements(new(q))
          PROVE  us[q].app = us[r].app
      <4>1. PICK j \in DOMAIN new(q) : event = new(q)[j]
        BY <3>1 DEF Elements
      <4>2. q \in fan
        BY <1>5, <1>6, <4>1
      <4> QED BY <1>1, <2>2, <3>1, <4>2
    <3>2. us[r].app \in {Own, event.to}
      BY <1>1, <2>2
    <3> QED BY <2>2, <3>1, <3>2
  <2> QED BY <1>5, <2>1, <2>2
<1> QED BY <1>7, <1>8, <1>9 DEF Fit, us

\* What StopIsFinal forbids, for one step.
Stays ==
    \A r \in DOMAIN threads : threads[r].stop =>
        Elements(carried(threads'[r])) \subseteq Elements(carried(threads[r]))

LEMMA CarriesLess ==
    ASSUME NEW t \in Thread, NEW u \in Thread, Carries(t, u)
    PROVE  Elements(carried(u)) \subseteq Elements(carried(t))
<1> DEFINE old == carried(t)
           new == carried(u)
<1>1. old \in Seq(Event) /\ new \in Seq(Event) /\ Len(old) \in Nat /\ Len(new) \in Nat
  BY CarriedType
<1>2. Len(new) <= Len(old) /\ \A i \in 1 .. Len(new) : new[i] = old[i]
  BY DEF Carries, Begins
<1> HIDE DEF old, new
<1>3. DOMAIN old = 1 .. Len(old) /\ DOMAIN new = 1 .. Len(new)
  BY <1>1
<1>4. \A i \in DOMAIN new : i \in DOMAIN old /\ new[i] = old[i]
  BY <1>1, <1>2, <1>3
<1>5. Elements(new) \subseteq Elements(old)
  BY <1>4 DEF Elements
<1> QED BY <1>5 DEF old, new

\* A step that sends nothing.
LEMMA NothingSent ==
    ASSUME PoolIInv, PoolTypeOK', Fit(threads, events), events' = events,
           \A r \in DOMAIN threads : r \in DOMAIN threads' /\ Carries(threads[r], threads'[r]),
           \A r \in DOMAIN threads' : r \in DOMAIN threads \/ Len(carried(threads'[r])) = 0
    PROVE  Fit(threads', events') /\ Stays
<1>1. /\ threads \in Seq(Thread) /\ threads' \in Seq(Thread)
      /\ events \in Nat /\ events' \in Nat /\ events <= events'
  BY PoolAssumption DEF PoolIInv, PoolTypeOK
<1>2. Fit(threads', events')
  BY <1>1, FitLess
<1>3. \A r \in DOMAIN threads : threads[r] \in Thread /\ threads'[r] \in Thread
  BY <1>1, ElementOfSeq
<1> QED BY <1>2, <1>3, CarriesLess DEF Stays

\* Telling threads to stop takes nothing from them.
LEMMA StopCarries ==
    ASSUME threads \in Seq(Thread), NEW which, threads' = Stop(threads, which)
    PROVE  /\ DOMAIN threads' = DOMAIN threads
           /\ \A r \in DOMAIN threads : Carries(threads[r], threads'[r])
<1>1. \A r \in DOMAIN threads : threads[r] \in Thread
  BY ElementOfSeq
<1>2. DOMAIN threads' = DOMAIN threads
      /\ \A r \in DOMAIN threads :
            \/ threads'[r] = threads[r]
            \/ threads'[r] = [threads[r] EXCEPT !.stop = TRUE]
  BY DEF Stop
<1>3. ASSUME NEW r \in DOMAIN threads PROVE Carries(threads[r], threads'[r])
  <2>1. /\ threads'[r].app = threads[r].app /\ threads'[r].queue = threads[r].queue
        /\ threads'[r].written = threads[r].written
    BY <1>1, <1>2 DEF Thread
  <2> QED BY <1>1, <2>1, SameCarried
<1> QED BY <1>2, <1>3

\* An answer goes down roads of the book: none of them was told to stop.
LEMMA PublishCarries ==
    ASSUME PoolIInv, Fit(threads, events), NEW a \in App, Publish(a)
    PROVE  Fit(threads', events') /\ Stays
<1> DEFINE event == NextEvent(a, FALSE)
           fan == fan_app(a)
<1>1. threads \in Seq(Thread) /\ events \in Nat
  BY PoolAssumption DEF PoolIInv, PoolTypeOK
<1>2. event \in Event /\ event.n = events + 1 /\ event.to = a /\ ~event.only
  BY PoolAssumption DEF PoolIInv, PoolTypeOK, Publish, NextEvent, Event, can_send
<1>3. threads' = Send(threads, fan, event) /\ events' = events + 1
  BY DEF Publish
<1>4. \A r \in fan : r \in book /\ threads[r].app \in {Own, a}
  BY DEF fan_app
<1> HIDE DEF event, fan
<1>5. Fit(threads', events')
  BY <1>1, <1>2, <1>3, <1>4, FitSend
<1>6. ASSUME NEW r \in DOMAIN threads, threads[r].stop PROVE threads'[r] = threads[r]
  <2>1. r \notin fan
    BY <1>4, <1>6 DEF PoolIInv, RoadsAndThreads
  <2> QED BY <1>3, <2>1 DEF Send
<1>7. Stays
  BY <1>6 DEF Stays
<1> QED BY <1>5, <1>7

\* A handshake goes down roads of the book of one owner; the new ones among them
\* carried nothing before.
LEMMA ConnectCarries ==
    ASSUME PoolIInv, Fit(threads, events), NEW a \in App, NEW urls \in SUBSET Url,
           Connect(a, urls)
    PROVE  Fit(threads', events') /\ Stays
<1> DEFINE event == NextEvent(a, TRUE)
<1>1. /\ threads \in Seq(Thread) /\ events \in Nat /\ book \subseteq DOMAIN threads
      /\ a \in Owner /\ urls \ known(a) \in SUBSET Url
  BY PoolAssumption DEF PoolIInv, PoolTypeOK, Owner
<1>2. event \in Event /\ event.n = events + 1 /\ event.to = a
  BY PoolAssumption DEF PoolIInv, PoolTypeOK, Connect, NextEvent, Event, can_send
<1>3. PICK list \in Orders(urls \ known(a)) :
            /\ book' = book \cup spawned(Spawned(list, a))
            /\ \E road \in {Own, a} :
                  threads' = Send(Spawned(list, a),
                                  {r \in book' : Spawned(list, a)[r].app = road}, event)
  BY DEF Connect
<1> DEFINE all == Spawned(list, a)
<1>4. PICK road \in {Own, a} : threads' = Send(all, {r \in book' : all[r].app = road}, event)
  BY <1>3
<1> DEFINE fan == {r \in book' : all[r].app = road}
<1>5. /\ all \in Seq(Thread)
      /\ \A r \in DOMAIN threads : r \in DOMAIN all /\ all[r] = threads[r]
      /\ \A r \in DOMAIN all : r \in DOMAIN threads \/ r \in spawned(all)
      /\ \A r \in spawned(all) : /\ r \in DOMAIN all /\ r \notin DOMAIN threads
                                 /\ all[r].queue = <<>> /\ all[r].written = <<>>
  BY <1>1, SpawnAll
<1>6. book' = book \cup spawned(all) /\ events' = events + 1
  BY <1>3 DEF Connect
<1> HIDE DEF event, all
<1>7. ASSUME NEW r \in DOMAIN all
      PROVE  \/ r \in DOMAIN threads /\ Carries(threads[r], all[r])
             \/ Len(carried(all[r])) = 0
  <2>1. CASE r \in DOMAIN threads
    <3>1. all[r] = threads[r] /\ threads[r] \in Thread
      BY <1>1, <1>5, <2>1, ElementOfSeq
    <3> QED BY <2>1, <3>1, SameCarried
  <2>2. CASE r \in spawned(all)
    BY <1>5, <2>2, NothingCarried
  <2> QED BY <1>5, <2>1, <2>2
<1>8. Fit(all, events)
  <2>1. events <= events
    BY <1>1
  <2> QED BY <1>1, <1>5, <1>7, <2>1, FitLess
<1>9. Fit(threads', events')
  <2>1. threads' = Send(all, fan, event)
    BY <1>4
  <2>2. \A r \in fan : all[r].app = road
    OBVIOUS
  <2>3. road \in {Own, event.to}
    BY <1>2
  <2> HIDE DEF fan
  <2> QED BY <1>1, <1>2, <1>5, <1>6, <1>8, <2>1, <2>2, <2>3, FitSend
<1>10. ASSUME NEW r \in DOMAIN threads, threads[r].stop PROVE threads'[r] = threads[r]
  <2>1. r \notin book'
    BY <1>5, <1>6, <1>10 DEF PoolIInv, RoadsAndThreads
  <2>2. r \notin fan /\ r \in DOMAIN all /\ all[r] = threads[r]
    BY <1>5, <2>1
  <2> QED BY <1>4, <2>2 DEF Send
<1>11. Stays
  BY <1>10 DEF Stays
<1> QED BY <1>9, <1>11

LEMMA DeliverStep ==
    ASSUME PoolIInv, Fit(threads, events), [PoolNext]_poolVars
    PROVE  Fit(threads', events') /\ Stays
<1>0. /\ threads \in Seq(Thread) /\ book \subseteq DOMAIN threads /\ PoolTypeOK /\ PoolTypeOK'
      /\ \A r \in DOMAIN threads : threads[r] \in Thread
  BY PoolStep, ElementOfSeq DEF PoolIInv, PoolTypeOK
<1>1. ASSUME UNCHANGED <<threads, events>> PROVE Fit(threads', events') /\ Stays
  BY <1>1 DEF Stays
<1>2. ASSUME NEW which, threads' = Stop(threads, which), events' = events
      PROVE  Fit(threads', events') /\ Stays
  BY <1>0, <1>2, StopCarries, NothingSent
<1>3. ASSUME NEW a \in App, DropApp(a) PROVE Fit(threads', events') /\ Stays
  BY <1>2, <1>3 DEF DropApp
<1>4. ASSUME NEW for \in {"lock", "arm"}, Teardown(for) PROVE Fit(threads', events') /\ Stays
  BY <1>2, <1>4 DEF Teardown
<1>5. CASE Locked
  BY <1>1, <1>5 DEF Locked, roads
<1>6. CASE Armed
  <2>1. PICK list \in Orders(Declared) : threads' = Spawned(list, Own)
    BY <1>6 DEF Armed
  <2>2. Own \in Owner /\ Declared \in SUBSET Url
    BY PoolAssumption DEF Owner
  <2>3. /\ \A r \in DOMAIN threads : r \in DOMAIN threads' /\ threads'[r] = threads[r]
        /\ \A r \in DOMAIN threads' : r \in DOMAIN threads \/ r \in spawned(threads')
        /\ \A r \in spawned(threads') : threads'[r].queue = <<>> /\ threads'[r].written = <<>>
    BY <1>0, <2>1, <2>2, SpawnAll
  <2>4. \A r \in DOMAIN threads : Carries(threads[r], threads'[r])
    BY <1>0, <2>3, SameCarried
  <2>5. \A r \in DOMAIN threads' : r \in DOMAIN threads \/ Len(carried(threads'[r])) = 0
    BY <2>3, NothingCarried
  <2>6. events' = events
    BY <1>6 DEF Armed
  <2> QED BY <1>0, <2>3, <2>4, <2>5, <2>6, NothingSent
<1>7. ASSUME NEW r \in DOMAIN threads, Road(r) \/ Cut(r) \/ BreakMidway(r)
      PROVE  Fit(threads', events') /\ Stays
  <2>1. PICK u \in Thread : threads' = [threads EXCEPT ![r] = u] /\ Carries(threads[r], u)
    BY <1>0, <1>7, RoadCarries
  <2>2. events' = events
    BY <1>0, <1>7, RoadStep
  <2>3. DOMAIN threads' = DOMAIN threads
    BY <2>1
  <2>4. ASSUME NEW q \in DOMAIN threads PROVE Carries(threads[q], threads'[q])
    <3>1. CASE q = r
      BY <2>1, <3>1
    <3>2. CASE q # r
      BY <1>0, <2>1, <3>2, SameCarried
    <3> QED BY <3>1, <3>2
  <2> QED BY <1>0, <2>2, <2>3, <2>4, NothingSent
<1>8. CASE (\E url \in Url : Down(url) \/ Back(url)) \/ UNCHANGED poolVars
  BY <1>1, <1>8 DEF Down, Back, poolVars, roads
<1> QED BY <1>3, <1>4, <1>5, <1>6, <1>7, <1>8, PublishCarries, ConnectCarries DEF PoolNext, Verb

\* A road carries what is its to carry, in the order of publishing and nothing
\* twice, across cuts and reconnections, and nothing new once it was told to stop.
THEOREM RoadsDeliver == PoolSpec => Delivers
<1>1. PoolInit => Fit(threads, events)
  <2> SUFFICES ASSUME PoolInit PROVE Fit(threads, events)
    OBVIOUS
  <2>1. DOMAIN threads = {}
    BY DEF PoolInit
  <2> QED BY <2>1 DEF Fit, Sent, Ordered, Theirs
<1>2. PoolIInv /\ Fit(threads, events) /\ [PoolNext]_poolVars => Fit(threads, events)' /\ [Stays]_poolVars
  BY DeliverStep
<1>3. PoolSpec => [](Fit(threads, events) /\ PoolIInv) /\ [][Stays]_poolVars
  BY <1>1, <1>2, PoolHolds, PTL DEF PoolSpec
<1>4. Fit(threads, events) /\ PoolIInv => OnlyItsRoads /\ InOrder
  BY DEF Fit, Ordered, Theirs, OnlyItsRoads, InOrder
<1>5. [Stays]_poolVars => [\A r \in DOMAIN threads : threads[r].stop =>
          Elements(carried(threads'[r])) \subseteq Elements(carried(threads[r]))]_poolVars
  BY DEF Stays
<1> QED BY <1>3, <1>4, <1>5, PTL DEF Delivers, StopIsFinal
=============================================================================
