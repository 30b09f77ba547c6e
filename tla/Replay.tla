------------------------------- MODULE Replay -------------------------------
(***************************************************************************)
(* The replay gates of the bunker (src/src/nostr/bunker.rs, Replay).  Any  *)
(* relay may deliver any event again at any time; admit answers whether    *)
(* this is a first, fresh sighting.  Both caches are bounded.              *)
(***************************************************************************)
EXTENDS Naturals, FiniteSets

CONSTANTS
    Event,        \* requests: [sender, created_at]
    Sender,
    Ttl,          \* DEDUP_TTL_SECS
    Fresh,        \* FRESHNESS_WINDOW_SECS
    Drift,        \* FUTURE_DRIFT_SECS
    Slack,        \* WATERMARK_SLACK_SECS
    CacheMax,     \* REPLAY_CACHE_MAX
    MaxClock      \* bound on the clock

ASSUME ReplayAssumption ==
    /\ \A e \in Event : e.sender \in Sender /\ e.created_at \in Nat
    /\ Ttl \in Nat \ {0} /\ Fresh \in Nat /\ Drift \in Nat /\ Slack \in Nat
    /\ CacheMax \in Nat \ {0} /\ MaxClock \in Nat
    /\ Fresh <= Ttl
    /\ IsFiniteSet(Sender)      \* public keys, of 32 bytes

VARIABLES
    seen,         \* event -> expiry, 0 when the map has no entry
    watermark,    \* sender -> (newest created_at, expiry), expiry 0 when none
    clock,          \* unix_now()
    admitted,     \* history: when this bunker last admitted each event, or Never
    shedding      \* history: make_room has dropped an entry still alive

replayVars == <<seen, watermark, clock, admitted, shedding>>

Never == 0        \* the clock starts at 1

-----------------------------------------------------------------------------
(* The gates.                                                              *)

alive(expires) == expires > clock

is_duplicate(e) == alive(seen[e])
in_time_late(e) == e.created_at <= clock + Drift       \* mutant: never stale
in_time(e) == clock <= e.created_at + Fresh /\ e.created_at <= clock + Drift
is_backwards(e) == LET mark == watermark[e.sender] IN
    alive(mark.expires) /\ e.created_at + Slack < mark.newest

\* make_room, for a map given as a function to expiries: nothing below the
\* bound; else the expired go; else every entry up to the expiry that stands
\* at an eighth of the sorted list.
entries(map) == {x \in DOMAIN map : map[x] # 0}
is_full(set) == Cardinality(set) >= CacheMax
cutoff(map, set) == CHOOSE t \in {map[x] : x \in set} :
    LET eighth == Cardinality(set) \div 8 IN
    /\ Cardinality({x \in set : map[x] < t}) <= eighth
    /\ Cardinality({x \in set : map[x] <= t}) > eighth
kept(map) ==
    LET held == entries(map)
        live == {x \in held : alive(map[x])}
    IN  IF ~is_full(held) THEN held
        ELSE IF ~is_full(live) THEN live
        ELSE {x \in live : map[x] > cutoff(map, live)}

expiry_of == [s \in Sender |-> watermark[s].expires]

-----------------------------------------------------------------------------
ReplayInit ==
    /\ seen = [e \in Event |-> 0]
    /\ watermark = [s \in Sender |-> [newest |-> 0, expires |-> 0]]
    /\ clock = 1
    /\ admitted = [e \in Event |-> Never]
    /\ shedding = FALSE

\* The mark moves up with its sender's newest request and is renewed by it; a
\* request behind a live mark leaves it alone.
marked(e, room) ==
    LET mark == room[e.sender] IN
    IF alive(mark.expires) /\ e.created_at < mark.newest THEN room
    ELSE [room EXCEPT ![e.sender] = [newest |-> e.created_at, expires |-> clock + Ttl]]

admit(e) ==
    /\ ~is_duplicate(e) /\ in_time(e) /\ ~is_backwards(e)
    /\ LET ids == kept(seen)
           marks == kept(expiry_of)
       IN  /\ seen' = [x \in Event |-> IF x = e THEN clock + Ttl
                                       ELSE IF x \in ids THEN seen[x] ELSE 0]
           /\ watermark' = marked(e, [s \in Sender |->
                 IF s \in marks THEN watermark[s] ELSE [newest |-> 0, expires |-> 0]])
           /\ shedding' = (shedding
                 \/ (\E x \in Event : alive(seen[x]) /\ x \notin ids)
                 \/ (\E s \in Sender : alive(expiry_of[s]) /\ s \notin marks))
    /\ admitted' = [admitted EXCEPT ![e] = clock]
    /\ UNCHANGED clock

ClockTick == clock < MaxClock /\ clock' = clock + 1
        /\ UNCHANGED <<seen, watermark, admitted, shedding>>

\* Each arming makes a new Bunker, with an empty Replay.
Rearm == /\ seen' = [e \in Event |-> 0]
         /\ watermark' = [s \in Sender |-> [newest |-> 0, expires |-> 0]]
         /\ admitted' = [e \in Event |-> Never] /\ shedding' = FALSE
         /\ UNCHANGED clock

ReplayNext == ClockTick \/ Rearm \/ \E e \in Event : admit(e)

ReplaySpec == ReplayInit /\ [][ReplayNext]_replayVars

-----------------------------------------------------------------------------
\* The ranges of the variables; neither cache outgrows its bound, whatever the
\* flood.
ReplayTypeOK ==
    /\ seen \in [Event -> Nat]
    /\ watermark \in [Sender -> [newest : Nat, expires : Nat]]
    /\ clock \in Nat \ {0}
    /\ admitted \in [Event -> Nat]
    /\ shedding \in BOOLEAN
    /\ Cardinality(entries(seen)) <= CacheMax
    /\ Cardinality(entries(expiry_of)) <= CacheMax

Admits(e) == admitted'[e] \notin {admitted[e], Never}
readmits(e) == admitted[e] # Never /\ admitted'[e] \notin {admitted[e], Never}

\* As long as nothing alive was shed, a request is admitted again only when it
\* was dated at or ahead of the moment of its admission: a request from the
\* past of the bunker's clock is answered once, however often it is delivered.
PastAnsweredOnce ==
    [][\A e \in Event : ~shedding /\ readmits(e) => e.created_at >= admitted[e]]_replayVars

\* Within one dedup window of its admission no request is admitted again,
\* unless the caches shed something alive.
OncePerWindow ==
    [][\A e \in Event : ~shedding /\ readmits(e) => clock >= admitted[e] + Ttl]_replayVars

\* What the watermark carries when the id cache sheds: nothing is admitted that
\* lies behind its sender's newest request by more than the slack while that
\* request is younger than the window - with room for every sender's mark.
newest_of_sender(f) == \A g \in Event :
    g.sender = f.sender /\ admitted[g] # Never => g.created_at <= f.created_at

NeverFarBackwards ==
    [][Cardinality(Sender) < CacheMax =>
          \A e \in Event : Admits(e) =>
              \A f \in {g \in Event : g.sender = e.sender /\ admitted[g] # Never} :
                  newest_of_sender(f) /\ clock < admitted[f] + Ttl
                      => e.created_at + Slack >= f.created_at]_replayVars

\* What the two gates give together.
AnsweredOnce == PastAnsweredOnce /\ OncePerWindow /\ NeverFarBackwards

=============================================================================
