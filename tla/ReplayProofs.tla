----------------------------- MODULE ReplayProofs -----------------------------
(***************************************************************************)
(* What the replay gates keep for every event set, window and cache bound, *)
(* and what the bunker's three parts keep together.  The argument on the   *)
(* gates has two invariants: until something alive is shed, the id cache   *)
(* holds the last admission of every request with its full time to live;   *)
(* and with room for every sender, a mark stands for its sender's newest   *)
(* request as long as that one is remembered.                              *)
(***************************************************************************)
EXTENDS BunkerMC, PolicyProofs, VaultProofs, WellFoundedInduction

Ranges ==
    /\ seen \in [Event -> Nat]
    /\ clock \in Nat \ {0}
    /\ admitted \in [Event -> Nat]
    /\ shedding \in BOOLEAN

\* The cache holds what was admitted within the last Ttl seconds.
Remembers ==
    \A e \in Event : ~shedding /\ admitted[e] # Never /\ clock < admitted[e] + Ttl =>
        seen[e] = admitted[e] + Ttl

ReplayInv == Ranges /\ Remembers

\* The ranges hold at the start, when nothing was admitted.
LEMMA ReplayInitInv == ReplayInit => ReplayInv
<1> SUFFICES ASSUME ReplayInit PROVE ReplayInv
  OBVIOUS
<1>1. seen \in [Event -> Nat] /\ clock \in Nat \ {0} /\ admitted \in [Event -> Nat]
  BY DEF ReplayInit, Never
<1>2. shedding \in BOOLEAN
  BY DEF ReplayInit
<1>3. Remembers
  BY DEF ReplayInit, Remembers
<1> QED BY <1>1, <1>2, <1>3 DEF ReplayInv, Ranges

\* An admission stores the full time to live of its request, and drops another
\* entry only when that entry is dead or the drop is recorded as shedding.
LEMMA AdmitInv ==
    ASSUME ReplayInv, NEW e \in Event, admit(e)
    PROVE  ReplayInv'
<1> DEFINE ids == kept(seen)
<1>1. /\ seen' = [x \in Event |-> IF x = e THEN clock + Ttl
                                  ELSE IF x \in ids THEN seen[x] ELSE 0]
      /\ admitted' = [admitted EXCEPT ![e] = clock]
      /\ clock' = clock
      /\ shedding' \in BOOLEAN
      /\ ~shedding' => ~shedding /\ \A x \in Event : alive(seen[x]) => x \in ids
  <2>1. shedding' = (shedding
           \/ (\E x \in Event : alive(seen[x]) /\ x \notin ids)
           \/ (\E s \in Sender : alive(expiry_of[s]) /\ s \notin kept(expiry_of)))
    BY DEF admit
  <2> QED BY <2>1, ReplayAssumption DEF admit
<1> HIDE DEF ids
<1>2. Ranges'
  BY <1>1, ReplayAssumption DEF ReplayInv, Ranges
<1>3. ASSUME NEW x \in Event, ~shedding', admitted'[x] # Never,
             clock' < admitted'[x] + Ttl
      PROVE  seen'[x] = admitted'[x] + Ttl
  <2>1. CASE x = e
    BY <1>1, <2>1, ReplayAssumption DEF ReplayInv, Ranges
  <2>2. CASE x # e
    <3>1. admitted'[x] = admitted[x] /\ seen[x] = admitted[x] + Ttl
      BY <1>1, <1>3, <2>2 DEF ReplayInv, Ranges, Remembers
    <3>2. alive(seen[x])
      BY <1>1, <1>3, <3>1 DEF alive
    <3> QED BY <1>1, <1>3, <2>2, <3>1, <3>2
  <2> QED BY <2>1, <2>2
<1> QED BY <1>2, <1>3 DEF ReplayInv, Remembers

\* No step of the gates, the clock or a re-arming breaks the invariant.
LEMMA ReplayStepInv == ReplayInv /\ [ReplayNext]_replayVars => ReplayInv'
<1> SUFFICES ASSUME ReplayInv, [ReplayNext]_replayVars PROVE ReplayInv'
  OBVIOUS
<1>1. CASE ClockTick
  BY <1>1, ReplayAssumption DEF ClockTick, ReplayInv, Ranges, Remembers, Never
<1>2. CASE Rearm
  BY <1>2 DEF Rearm, ReplayInv, Ranges, Remembers, Never
<1>3. ASSUME NEW e \in Event, admit(e) PROVE ReplayInv'
  BY <1>3, AdmitInv
<1>4. CASE UNCHANGED replayVars
  BY <1>4 DEF replayVars, ReplayInv, Ranges, Remembers
<1> QED BY <1>1, <1>2, <1>3, <1>4 DEF ReplayNext

\* The id cache remembers every admission for its time to live, as long as
\* nothing alive was shed.
THEOREM Remembering == ReplaySpec => []ReplayInv
BY ReplayInitInv, ReplayStepInv, PTL DEF ReplaySpec

\* A step that admits a request the bunker had admitted is an admit of it that
\* the id cache let pass.
LEMMA Readmission ==
    ASSUME ReplayInv, [ReplayNext]_replayVars, NEW e \in Event, readmits(e)
    PROVE  admit(e)
<1>1. CASE ClockTick
  BY <1>1 DEF ClockTick, readmits
<1>2. CASE Rearm
  BY <1>2 DEF Rearm, readmits, Never
<1>3. ASSUME NEW f \in Event, admit(f) PROVE admit(e)
  <2>1. admitted' = [admitted EXCEPT ![f] = clock]
    BY <1>3 DEF admit
  <2>2. f = e
    BY <2>1 DEF readmits, ReplayInv, Ranges
  <2> QED BY <1>3, <2>2
<1>4. CASE UNCHANGED replayVars
  BY <1>4 DEF replayVars, readmits
<1> QED BY <1>1, <1>2, <1>3, <1>4 DEF ReplayNext

\* One dedup window apart: while nothing alive was shed, a request is admitted
\* again only when the time to live of its last admission is over.
THEOREM OneAdmissionPerWindow == ReplaySpec => OncePerWindow
<1>1. ASSUME ReplayInv, [ReplayNext]_replayVars
      PROVE  [\A e \in Event : ~shedding /\ readmits(e) => clock >= admitted[e] + Ttl]_replayVars
  <2> SUFFICES ASSUME NEW e \in Event, ~shedding, readmits(e)
               PROVE  clock >= admitted[e] + Ttl
    OBVIOUS
  <2>1. ~alive(seen[e]) /\ admitted[e] # Never
    BY <1>1, Readmission DEF admit, is_duplicate, readmits
  <2> QED BY <1>1, <2>1, ReplayAssumption DEF ReplayInv, Ranges, Remembers, alive
<1> QED BY <1>1, Remembering, PTL DEF ReplaySpec, OncePerWindow

\* A request from the past of the bunker's clock is answered once: by the time
\* the id cache lets it go it is no longer fresh.
THEOREM PastRequestsOnce == ReplaySpec => PastAnsweredOnce
<1>1. ASSUME ReplayInv, [ReplayNext]_replayVars
      PROVE  [\A e \in Event : ~shedding /\ readmits(e) => e.created_at >= admitted[e]]_replayVars
  <2> SUFFICES ASSUME NEW e \in Event, ~shedding, readmits(e)
               PROVE  e.created_at >= admitted[e]
    OBVIOUS
  <2>1. ~alive(seen[e]) /\ admitted[e] # Never /\ clock <= e.created_at + Fresh
    BY <1>1, Readmission DEF admit, is_duplicate, in_time, readmits
  <2>2. clock >= admitted[e] + Ttl
    BY <1>1, <2>1, ReplayAssumption DEF ReplayInv, Ranges, Remembers, alive
  <2> QED BY <1>1, <2>1, <2>2, ReplayAssumption DEF ReplayInv, Ranges
<1> QED BY <1>1, Remembering, PTL DEF ReplaySpec, PastAnsweredOnce

-----------------------------------------------------------------------------
(* The bounds of the caches.                                               *)

\* The least of a set of naturals.
LEMMA LeastNat ==
    ASSUME NEW S \in SUBSET Nat, S # {}
    PROVE  \E m \in S : \A n \in S : m <= n
<1> DEFINE R == {p \in Nat \X Nat : p[1] < p[2]}
<1>1. R = OpToRel(<, Nat)
  BY DEF OpToRel
<1>2. IsWellFoundedOn(R, Nat)
  BY <1>1, NatLessThanWellFounded
<1> HIDE DEF R
<1>3. PICK m \in S : \A n \in S : <<n, m>> \notin R
  BY <1>2, WFMin
<1>4. \A n \in S : ~(n < m)
  BY <1>3 DEF R
<1> QED BY <1>4

\* The greatest of a finite set of naturals: a smallest set without one would
\* still be without one when an element is taken from it.
LEMMA Greatest ==
    ASSUME NEW S \in SUBSET Nat, IsFiniteSet(S), S # {}
    PROVE  \E m \in S : \A n \in S : n <= m
<1> DEFINE Topped(T) == \E m \in T : \A n \in T : n <= m
           Bad == {k \in Nat : \E T \in SUBSET Nat :
                      IsFiniteSet(T) /\ T # {} /\ Cardinality(T) = k /\ ~Topped(T)}
<1> SUFFICES ASSUME ~Topped(S) PROVE FALSE
  OBVIOUS
<1>1. Cardinality(S) \in Bad
  BY FS_CardinalityType
<1>2. Bad \in SUBSET Nat /\ Bad # {}
  BY <1>1
<1>3. PICK k \in Bad : \A n \in Bad : k <= n
  <2> HIDE DEF Bad
  <2> QED BY <1>2, LeastNat
<1>4. PICK T \in SUBSET Nat : IsFiniteSet(T) /\ T # {} /\ Cardinality(T) = k /\ ~Topped(T)
  BY <1>3
<1>5. PICK x \in T : TRUE
  BY <1>4
<1> DEFINE U == T \ {x}
<1>6. IsFiniteSet(U) /\ Cardinality(U) = k - 1 /\ k \in Nat
  BY <1>2, <1>3, <1>4, <1>5, FS_RemoveElement
<1>7. CASE U = {}
  BY <1>4, <1>5, <1>7
<1>8. CASE U # {}
  <2>1. Topped(U)
    <3>1. SUFFICES ASSUME ~Topped(U) PROVE FALSE
      OBVIOUS
    <3>2. Cardinality(U) \in Nat /\ U \in SUBSET Nat
      BY <1>4, <1>6, FS_CardinalityType
    <3>3. Cardinality(U) \in Bad
      BY <1>6, <1>8, <3>1, <3>2
    <3>4. k <= Cardinality(U)
      BY <1>3, <3>3
    <3> HIDE DEF Bad, U
    <3> QED BY <1>6, <3>4
  <2>2. PICK y \in U : \A n \in U : n <= y
    BY <2>1
  <2>3. x \in Nat /\ y \in Nat /\ T = U \cup {x}
    BY <1>4, <1>5, <2>2
  <2>4. CASE x <= y
    BY <1>4, <2>2, <2>3, <2>4
  <2>5. CASE y <= x
    <3>1. \A n \in U : n \in Nat /\ n <= x
      BY <1>4, <2>2, <2>3, <2>5
    <3>2. \A n \in T : n <= x
      BY <2>3, <3>1
    <3> QED BY <1>4, <1>5, <3>2
  <2> QED BY <2>3, <2>4, <2>5
<1> QED BY <1>7, <1>8

\* The cutoff is the expiry of an entry: counted up to the least expiry that
\* more than an eighth of the entries do not exceed.
LEMMA CutoffIsOne ==
    ASSUME NEW D, NEW map \in [D -> Nat], NEW set \in SUBSET D, IsFiniteSet(set), set # {}
    PROVE  \E x \in set : map[x] = cutoff(map, set)
<1> DEFINE V == {map[x] : x \in set}
           below(t) == {x \in set : map[x] < t}
           upto(t) == {x \in set : map[x] <= t}
           eighth == Cardinality(set) \div 8
           T == {t \in V : Cardinality(upto(t)) > eighth}
<1>1. V \in SUBSET Nat /\ V # {} /\ IsFiniteSet(V)
  <2> DEFINE f == [x \in set |-> map[x]]
  <2>1. f \in Surjection(set, V)
    BY DEF Surjection
  <2>2. IsFiniteSet(V)
    <3> HIDE DEF f, V
    <3> QED BY <2>1, FS_Surjection
  <2>3. \A x \in set : map[x] \in Nat
    OBVIOUS
  <2> QED BY <2>2, <2>3
<1>2. /\ Cardinality(set) \in Nat /\ Cardinality(set) > 0
      /\ eighth \in Nat /\ eighth < Cardinality(set)
  <2>1. Cardinality(set) \in Nat /\ Cardinality(set) # 0
    BY FS_CardinalityType, FS_EmptySet
  <2> QED BY <2>1
<1>3. \A t : /\ IsFiniteSet(upto(t)) /\ Cardinality(upto(t)) \in Nat
             /\ IsFiniteSet(below(t)) /\ Cardinality(below(t)) \in Nat
  <2> TAKE t
  <2>1. upto(t) \in SUBSET set /\ below(t) \in SUBSET set
    OBVIOUS
  <2> HIDE DEF upto, below
  <2> QED BY <2>1, FS_Subset, FS_CardinalityType
<1>4. T # {}
  <2>1. PICK m \in V : \A n \in V : n <= m
    <3> HIDE DEF V
    <3> QED BY <1>1, Greatest
  <2>2. upto(m) = set
    BY <2>1
  <2>3. m \in T
    BY <1>2, <2>1, <2>2
  <2> QED BY <2>3
<1>5. PICK t \in T : \A u \in T : t <= u
  <2>1. T \in SUBSET Nat
    BY <1>1
  <2> HIDE DEF T
  <2> QED BY <1>4, <2>1, LeastNat
<1>6. Cardinality(below(t)) <= eighth
  <2> DEFINE W == {v \in V : v < t}
  <2>1. CASE W = {}
    <3>1. below(t) = {}
      BY <2>1
    <3>2. Cardinality({}) = 0
      BY FS_EmptySet
    <3> QED BY <1>2, <3>1, <3>2
  <2>2. CASE W # {}
    <3>1. W \in SUBSET V /\ W \in SUBSET Nat
      BY <1>1
    <3>2. PICK m \in W : \A n \in W : n <= m
      <4> HIDE DEF W, V
      <4> QED BY <1>1, <2>2, <3>1, FS_Subset, Greatest
    <3>3. m \in V /\ m < t /\ t \in Nat /\ m \in Nat /\ \A v \in V : v \in Nat
      BY <1>1, <1>5, <3>2
    <3>4. m \notin T
      BY <1>5, <3>3
    <3>5. \A x \in set : map[x] \in V
      OBVIOUS
    <3>6. \A x \in set : map[x] < t <=> map[x] <= m
      <4> SUFFICES ASSUME NEW x \in set PROVE map[x] < t <=> map[x] <= m
        OBVIOUS
      <4>1. map[x] < t => map[x] \in W
        BY <3>5
      <4>2. map[x] \in Nat
        OBVIOUS
      <4> HIDE DEF W, V
      <4> QED BY <3>2, <3>3, <4>1, <4>2
    <3>7. below(t) = upto(m)
      BY <3>6
    <3>8. ~(Cardinality(upto(m)) > eighth)
      BY <3>3, <3>4
    <3> HIDE DEF upto, below, eighth
    <3> QED BY <1>2, <1>3, <3>7, <3>8
  <2> QED BY <2>1, <2>2
<1>7. t \in V /\ Cardinality(upto(t)) > eighth
  BY <1>5
<1>8. cutoff(map, set) \in V
  BY <1>6, <1>7 DEF cutoff
<1> QED BY <1>8

\* A map within its bound has room for one entry more once room was made, and
\* one below its bound loses nothing.
LEMMA KeptFits ==
    ASSUME NEW D, NEW map \in [D -> Nat],
           IsFiniteSet(entries(map)), Cardinality(entries(map)) <= CacheMax
    PROVE  /\ kept(map) \subseteq entries(map)
           /\ IsFiniteSet(kept(map)) /\ Cardinality(kept(map)) \in Nat
           /\ Cardinality(kept(map)) < CacheMax
           /\ Cardinality(entries(map)) < CacheMax => kept(map) = entries(map)
<1> DEFINE all == entries(map)
           live == {x \in all : alive(map[x])}
           rest == {x \in live : map[x] > cutoff(map, live)}
<1>1. all \subseteq D
  BY DEF entries
<1>2. live \in SUBSET all /\ live \in SUBSET D /\ rest \in SUBSET live
  BY <1>1
<1>3. /\ IsFiniteSet(live) /\ Cardinality(live) \in Nat /\ Cardinality(all) \in Nat
      /\ Cardinality(live) <= Cardinality(all) /\ CacheMax \in Nat /\ CacheMax > 0
  <2> HIDE DEF live, all
  <2> QED BY <1>2, FS_Subset, FS_CardinalityType, ReplayAssumption DEF all
<1>4. kept(map) = IF ~(Cardinality(all) >= CacheMax) THEN all
                  ELSE IF ~(Cardinality(live) >= CacheMax) THEN live ELSE rest
  BY DEF kept, is_full
<1>5. CASE ~(Cardinality(all) >= CacheMax)
  <2>1. kept(map) = all
    BY <1>4, <1>5
  <2> HIDE DEF live, rest
  <2> QED BY <1>3, <1>5, <2>1
<1>6. CASE Cardinality(all) >= CacheMax /\ ~(Cardinality(live) >= CacheMax)
  <2>1. kept(map) = live
    BY <1>4, <1>6
  <2> HIDE DEF live, rest
  <2> QED BY <1>2, <1>3, <1>6, <2>1
<1>7. CASE Cardinality(all) >= CacheMax /\ Cardinality(live) >= CacheMax
  <2>1. kept(map) = rest
    BY <1>4, <1>7
  <2>2. live # {}
    <3> HIDE DEF live
    <3> QED BY <1>3, <1>7, FS_EmptySet
  <2>3. PICK x \in live : map[x] = cutoff(map, live)
    <3> HIDE DEF live
    <3> QED BY <1>2, <1>3, <2>2, CutoffIsOne
  <2>4. x \notin rest
    <3>1. map[x] \in Nat
      BY <1>1, <1>2
    <3> QED BY <2>3, <3>1
  <2>5. IsFiniteSet(rest) /\ Cardinality(rest) \in Nat /\ Cardinality(rest) < Cardinality(live)
    <3> HIDE DEF live, rest
    <3>1. /\ IsFiniteSet(rest) /\ Cardinality(rest) <= Cardinality(live)
          /\ Cardinality(live) = Cardinality(rest) => live = rest
      BY <1>2, <1>3, FS_Subset
    <3> QED BY <1>3, <2>3, <2>4, <3>1, FS_CardinalityType
  <2> HIDE DEF live, rest
  <2> QED BY <1>2, <1>3, <1>7, <2>1, <2>5
<1> QED BY <1>5, <1>6, <1>7

-----------------------------------------------------------------------------
(* The caches and the marks.                                               *)

\* Both caches within their bounds.
Books ==
    /\ IsFiniteSet(entries(seen)) /\ Cardinality(entries(seen)) <= CacheMax
    /\ IsFiniteSet(entries(expiry_of)) /\ Cardinality(entries(expiry_of)) <= CacheMax
Marks == watermark \in [Sender -> [newest : Nat, expires : Nat]]

Seen(e) == admitted[e] # Never
\* A mark stands for a request of its sender that this bunker admitted.
Earned ==
    \A s \in Sender : watermark[s].expires # 0 =>
        \E e \in Event : e.sender = s /\ Seen(e) /\ e.created_at = watermark[s].newest
\* With room for every sender's mark, a sender's newest request has marked it
\* for as long as it is remembered.
Marked ==
    \A f \in Event : Seen(f) =>
        /\ admitted[f] <= clock
        /\ Cardinality(Sender) < CacheMax /\ newest_of_sender(f) /\ clock < admitted[f] + Ttl =>
              /\ watermark[f.sender].newest = f.created_at
              /\ watermark[f.sender].expires >= admitted[f] + Ttl
MarksInv == ReplayInv /\ Marks /\ Books /\ Earned /\ Marked

\* One entry more in a map of kept ones stays within the bound.
LEMMA OneMore ==
    ASSUME NEW D, NEW map \in [D -> Nat],
           IsFiniteSet(entries(map)), Cardinality(entries(map)) <= CacheMax,
           NEW new \in [D -> Nat], NEW x \in D,
           \A y \in D : y # x /\ new[y] # 0 => y \in kept(map)
    PROVE  IsFiniteSet(entries(new)) /\ Cardinality(entries(new)) <= CacheMax
<1>1. IsFiniteSet(kept(map)) /\ Cardinality(kept(map)) \in Nat /\ Cardinality(kept(map)) < CacheMax
  BY KeptFits
<1> DEFINE room == kept(map) \cup {x}
<1>2. IsFiniteSet(room) /\ Cardinality(room) <= Cardinality(kept(map)) + 1
  <2>1. /\ IsFiniteSet(room)
        /\ Cardinality(room) = IF x \in kept(map) THEN Cardinality(kept(map))
                               ELSE Cardinality(kept(map)) + 1
    BY <1>1, FS_AddElement
  <2> HIDE DEF room
  <2> QED BY <1>1, <2>1
<1>3. entries(new) \in SUBSET room
  BY DEF entries
<1> HIDE DEF room
<1>4. /\ IsFiniteSet(entries(new)) /\ Cardinality(entries(new)) <= Cardinality(room)
      /\ Cardinality(entries(new)) \in Nat /\ Cardinality(room) \in Nat
  BY <1>2, <1>3, FS_Subset, FS_CardinalityType
<1> QED BY <1>1, <1>2, <1>4, ReplayAssumption

\* With room for every sender no mark is dropped.
LEMMA RoomForAll ==
    ASSUME Marks, Books, Cardinality(Sender) < CacheMax
    PROVE  \A s \in Sender : expiry_of[s] # 0 => s \in kept(expiry_of)
<1>1. expiry_of \in [Sender -> Nat]
  BY DEF expiry_of, Marks
<1>2. entries(expiry_of) \in SUBSET Sender
  BY <1>1 DEF entries
<1>3. /\ Cardinality(entries(expiry_of)) <= Cardinality(Sender)
      /\ Cardinality(entries(expiry_of)) \in Nat /\ Cardinality(Sender) \in Nat
  BY <1>2, FS_Subset, FS_CardinalityType, ReplayAssumption DEF Books
<1>4. kept(expiry_of) = entries(expiry_of)
  BY <1>1, <1>3, KeptFits, ReplayAssumption DEF Books
<1> QED BY <1>1, <1>4 DEF entries

\* What an admission does to the marks.
LEMMA AdmitMarks ==
    ASSUME Marks, ReplayInv, NEW e \in Event, admit(e)
    PROVE  LET room == [s \in Sender |-> IF s \in kept(expiry_of) THEN watermark[s]
                                         ELSE [newest |-> 0, expires |-> 0]]
           IN  /\ room \in [Sender -> [newest : Nat, expires : Nat]]
               /\ \/ /\ alive(room[e.sender].expires) /\ e.created_at < room[e.sender].newest
                     /\ watermark' = room
                  \/ /\ ~(alive(room[e.sender].expires) /\ e.created_at < room[e.sender].newest)
                     /\ watermark' = [room EXCEPT ![e.sender] =
                                        [newest |-> e.created_at, expires |-> clock + Ttl]]
<1> DEFINE room == [s \in Sender |-> IF s \in kept(expiry_of) THEN watermark[s]
                                     ELSE [newest |-> 0, expires |-> 0]]
<1>1. room \in [Sender -> [newest : Nat, expires : Nat]]
  BY DEF Marks
<1>2. watermark' = marked(e, room)
  BY DEF admit
<1> HIDE DEF room
<1>3. watermark' = IF alive(room[e.sender].expires) /\ e.created_at < room[e.sender].newest
                   THEN room
                   ELSE [room EXCEPT ![e.sender] =
                           [newest |-> e.created_at, expires |-> clock + Ttl]]
  BY <1>2 DEF marked
<1> QED BY <1>1, <1>3 DEF room

\* An admission keeps the caches within their bounds and the marks true.
LEMMA AdmitKeeps ==
    ASSUME MarksInv, NEW e \in Event, admit(e)
    PROVE  MarksInv'
<1> DEFINE s == e.sender
           room == [z \in Sender |-> IF z \in kept(expiry_of) THEN watermark[z]
                                     ELSE [newest |-> 0, expires |-> 0]]
           stays == alive(room[s].expires) /\ e.created_at < room[s].newest
<1>1. /\ s \in Sender /\ e.created_at \in Nat /\ clock \in Nat /\ clock > 0 /\ Ttl \in Nat /\ Ttl > 0
      /\ clock' = clock /\ clock + Ttl \in Nat /\ \A f \in Event : f.sender \in Sender /\ f.created_at \in Nat
  BY ReplayAssumption DEF MarksInv, ReplayInv, Ranges, admit
<1>2. /\ admitted' = [admitted EXCEPT ![e] = clock]
      /\ seen' = [x \in Event |-> IF x = e THEN clock + Ttl
                                  ELSE IF x \in kept(seen) THEN seen[x] ELSE 0]
      /\ admitted \in [Event -> Nat] /\ seen \in [Event -> Nat]
  BY DEF admit, MarksInv, ReplayInv, Ranges
<1>3. /\ room \in [Sender -> [newest : Nat, expires : Nat]]
      /\ \/ stays /\ watermark' = room
         \/ /\ ~stays
            /\ watermark' = [room EXCEPT ![s] = [newest |-> e.created_at, expires |-> clock + Ttl]]
  BY AdmitMarks DEF MarksInv
<1>4. \A z \in Sender : z \notin kept(expiry_of) => room[z].expires = 0
  OBVIOUS
<1>5. \A z \in Sender : z \in kept(expiry_of) => room[z] = watermark[z]
  OBVIOUS
<1> HIDE DEF room
<1>6. ReplayInv'
  BY AdmitInv DEF MarksInv
<1>7. Marks'
  BY <1>1, <1>3 DEF Marks
<1>8. Books'
  <2>1. IsFiniteSet(entries(seen')) /\ Cardinality(entries(seen')) <= CacheMax
    <3>1. seen' \in [Event -> Nat]
      BY <1>1, <1>2
    <3>2. \A y \in Event : y # e /\ seen'[y] # 0 => y \in kept(seen)
      BY <1>2
    <3>3. IsFiniteSet(entries(seen)) /\ Cardinality(entries(seen)) <= CacheMax
      BY DEF MarksInv, Books
    <3> QED BY <1>2, <3>1, <3>2, <3>3, OneMore
  <2>2. IsFiniteSet(entries(expiry_of')) /\ Cardinality(entries(expiry_of')) <= CacheMax
    <3>1. expiry_of' \in [Sender -> Nat] /\ \A z \in Sender : expiry_of'[z] = watermark'[z].expires
      BY <1>7 DEF expiry_of, Marks
    <3>2. \A z \in Sender : z # s /\ expiry_of'[z] # 0 => z \in kept(expiry_of)
      BY <1>3, <1>4, <3>1
    <3>3. /\ IsFiniteSet(entries(expiry_of)) /\ Cardinality(entries(expiry_of)) <= CacheMax
          /\ expiry_of \in [Sender -> Nat]
      BY DEF MarksInv, Books, Marks, expiry_of
    <3> QED BY <1>1, <3>1, <3>2, <3>3, OneMore
  <2>3. entries(seen)' = entries(seen') /\ entries(expiry_of)' = entries(expiry_of')
    BY DEF entries
  <2> QED BY <2>1, <2>2, <2>3 DEF Books
<1>9. \A f \in Event : (Seen(f) => Seen(f)') /\ (Seen(f)' => f = e \/ Seen(f)) /\ Seen(e)'
  BY <1>1, <1>2 DEF Seen, Never
<1>10. Earned'
  <2> SUFFICES ASSUME NEW z \in Sender, watermark'[z].expires # 0
               PROVE  \E f \in Event : f.sender = z /\ Seen(f)' /\ f.created_at = watermark'[z].newest
    BY DEF Earned
  <2>1. CASE watermark'[z] = room[z]
    <3>1. z \in kept(expiry_of) /\ watermark'[z] = watermark[z]
      BY <1>4, <1>5, <2>1
    <3>2. PICK f \in Event : f.sender = z /\ Seen(f) /\ f.created_at = watermark[z].newest
      BY <3>1 DEF MarksInv, Earned
    <3> QED BY <1>9, <3>1, <3>2
  <2>2. CASE watermark'[z] # room[z]
    <3>1. z = s /\ watermark'[z].newest = e.created_at
      BY <1>1, <1>3, <2>2
    <3> QED BY <1>9, <3>1
  <2> QED BY <2>1, <2>2
<1>11. Marked'
  <2> SUFFICES ASSUME NEW f \in Event, Seen(f)'
               PROVE  /\ admitted'[f] <= clock'
                      /\ /\ Cardinality(Sender) < CacheMax /\ newest_of_sender(f)'
                         /\ clock' < admitted'[f] + Ttl
                         => /\ watermark'[f.sender].newest = f.created_at
                            /\ watermark'[f.sender].expires >= admitted'[f] + Ttl
    BY DEF Marked
  <2>1. admitted'[f] <= clock'
    <3>1. CASE f = e
      BY <1>1, <1>2, <3>1
    <3>2. CASE f # e
      BY <1>1, <1>2, <1>9, <3>2 DEF MarksInv, Marked
    <3> QED BY <3>1, <3>2
  <2>2. ASSUME Cardinality(Sender) < CacheMax, newest_of_sender(f)', clock' < admitted'[f] + Ttl
        PROVE  /\ watermark'[f.sender].newest = f.created_at
               /\ watermark'[f.sender].expires >= admitted'[f] + Ttl
    <3>1. \A z \in Sender : watermark[z].expires # 0 => room[z] = watermark[z]
      <4>1. \A z \in Sender : expiry_of[z] = watermark[z].expires
        BY DEF expiry_of
      <4> QED BY <1>5, <2>2, <4>1, RoomForAll DEF MarksInv
    <3>2. \A g \in Event : g.sender = f.sender /\ Seen(g)' => g.created_at <= f.created_at
      BY <2>2 DEF newest_of_sender, Seen
    <3>3. newest_of_sender(f)
      BY <1>9, <3>2 DEF newest_of_sender, Seen
    <3>4. CASE f = e
      <4>1. admitted'[f] = clock
        BY <1>2, <3>4
      <4>2. ~stays
        <5>1. SUFFICES ASSUME stays PROVE FALSE
          OBVIOUS
        <5>2. room[s].expires # 0
          BY <1>1, <1>3, <5>1 DEF alive
        <5>3. room[s] = watermark[s] /\ watermark[s].expires # 0
          BY <1>1, <1>4, <1>5, <5>2
        <5>4. PICK g \in Event : g.sender = s /\ Seen(g) /\ g.created_at = watermark[s].newest
          BY <1>1, <5>3 DEF MarksInv, Earned
        <5>5. g.created_at <= e.created_at
          BY <1>9, <3>2, <3>4, <5>4
        <5> QED BY <1>1, <5>1, <5>3, <5>4, <5>5
      <4>3. watermark'[s] = [newest |-> e.created_at, expires |-> clock + Ttl]
        BY <1>1, <1>3, <4>2
      <4> QED BY <1>1, <3>4, <4>1, <4>3
    <3>5. CASE f # e
      <4>1. Seen(f) /\ admitted'[f] = admitted[f] /\ admitted[f] \in Nat
        BY <1>2, <1>9, <3>5
      <4>2. /\ watermark[f.sender].newest = f.created_at
            /\ watermark[f.sender].expires >= admitted[f] + Ttl
            /\ admitted[f] <= clock
        BY <1>1, <2>2, <3>3, <4>1 DEF MarksInv, Marked
      <4>3. room[f.sender] = watermark[f.sender] /\ watermark[f.sender].expires \in Nat
        BY <1>1, <3>1, <4>1, <4>2 DEF MarksInv, Marks
      <4>4. CASE f.sender # s
        <5>1. watermark'[f.sender] = room[f.sender]
          BY <1>1, <1>3, <4>4
        <5> QED BY <4>1, <4>2, <4>3, <5>1
      <4>5. CASE f.sender = s
        <5>1. alive(room[s].expires)
          BY <1>1, <2>2, <4>1, <4>2, <4>3, <4>5 DEF alive
        <5>2. e.created_at <= f.created_at
          BY <1>9, <3>2, <4>5
        <5>3. CASE stays
          BY <1>3, <4>1, <4>2, <4>3, <4>5, <5>3
        <5>4. CASE ~stays
          <6>1. e.created_at = f.created_at
            BY <1>1, <4>2, <4>3, <4>5, <5>1, <5>2, <5>4
          <6>2. watermark'[s] = [newest |-> e.created_at, expires |-> clock + Ttl]
            BY <1>1, <1>3, <5>4
          <6> QED BY <1>1, <4>1, <4>2, <4>5, <6>1, <6>2
        <5> QED BY <5>3, <5>4
      <4> QED BY <4>4, <4>5
    <3> QED BY <3>4, <3>5
  <2> QED BY <2>1, <2>2
<1> QED BY <1>6, <1>7, <1>8, <1>10, <1>11 DEF MarksInv

\* The bounds and the marks hold at the start and through every step.
LEMMA MarksHold == ReplaySpec => []MarksInv
<1>1. ReplayInit => MarksInv
  <2> SUFFICES ASSUME ReplayInit PROVE MarksInv
    OBVIOUS
  <2>1. ReplayInv /\ Marks /\ CacheMax \in Nat /\ 0 <= CacheMax
    BY ReplayInitInv, ReplayAssumption DEF ReplayInit, Marks
  <2>2. entries(seen) = {} /\ entries(expiry_of) = {}
    BY DEF ReplayInit, entries, expiry_of
  <2>3. Books
    BY <2>1, <2>2, FS_EmptySet DEF Books
  <2>4. Earned /\ Marked
    BY DEF ReplayInit, Earned, Marked, Seen
  <2> QED BY <2>1, <2>3, <2>4 DEF MarksInv
<1>2. MarksInv /\ [ReplayNext]_replayVars => MarksInv'
  <2> SUFFICES ASSUME MarksInv, [ReplayNext]_replayVars PROVE MarksInv'
    OBVIOUS
  <2>0. ReplayInv'
    BY ReplayStepInv DEF MarksInv
  <2>1. CASE ClockTick
    <3>1. /\ clock' = clock + 1 /\ clock \in Nat
          /\ UNCHANGED <<seen, watermark, admitted, shedding>>
          /\ admitted \in [Event -> Nat]
      BY <2>1 DEF ClockTick, MarksInv, ReplayInv, Ranges
    <3>2. Marks' /\ Books' /\ Earned'
      BY <3>1 DEF MarksInv, Marks, Books, Earned, entries, expiry_of, Seen
    <3>3. Marked'
      <4> SUFFICES ASSUME NEW f \in Event, Seen(f)'
                   PROVE  /\ admitted'[f] <= clock'
                          /\ /\ Cardinality(Sender) < CacheMax /\ newest_of_sender(f)'
                             /\ clock' < admitted'[f] + Ttl
                             => /\ watermark'[f.sender].newest = f.created_at
                                /\ watermark'[f.sender].expires >= admitted'[f] + Ttl
        BY DEF Marked
      <4>1. Seen(f) /\ (newest_of_sender(f)' => newest_of_sender(f)) /\ admitted[f] \in Nat
        BY <3>1 DEF Seen, newest_of_sender
      <4>2. clock' < admitted'[f] + Ttl => clock < admitted[f] + Ttl
        BY <3>1, <4>1, ReplayAssumption
      <4>3. admitted[f] <= clock => admitted'[f] <= clock'
        BY <3>1, <4>1
      <4> QED BY <3>1, <4>1, <4>2, <4>3 DEF MarksInv, Marked
    <3> QED BY <2>0, <3>2, <3>3 DEF MarksInv
  <2>2. CASE Rearm
    <3>1. Marks' /\ CacheMax \in Nat /\ 0 <= CacheMax
      BY <2>2, ReplayAssumption DEF Rearm, Marks
    <3>2. entries(seen)' = {} /\ entries(expiry_of)' = {}
      BY <2>2 DEF Rearm, entries, expiry_of
    <3>3. Books'
      BY <3>1, <3>2, FS_EmptySet DEF Books
    <3>4. Earned' /\ Marked'
      BY <2>2 DEF Rearm, Earned, Marked, Seen
    <3> QED BY <2>0, <3>1, <3>3, <3>4 DEF MarksInv
  <2>3. ASSUME NEW e \in Event, admit(e) PROVE MarksInv'
    BY <2>3, AdmitKeeps
  <2>4. CASE UNCHANGED replayVars
    BY <2>0, <2>4 DEF replayVars, MarksInv, Marks, Books, Earned, Marked, entries, expiry_of, Seen,
       newest_of_sender
  <2> QED BY <2>1, <2>2, <2>3, <2>4 DEF ReplayNext
<1> QED BY <1>1, <1>2, PTL DEF ReplaySpec

\* The ranges of the gates' state, and neither cache outgrows its bound however
\* many requests are dated at one second: what make_room drops leaves room.
THEOREM ReplayTypeHolds == ReplaySpec => []ReplayTypeOK
<1>1. MarksInv => ReplayTypeOK
  BY DEF MarksInv, ReplayInv, Ranges, Marks, Books, ReplayTypeOK
<1> QED BY <1>1, MarksHold, PTL

\* Nothing is admitted from further behind a sender's newest request than the
\* slack, whatever the id cache sheds.
THEOREM NothingFarBehind == ReplaySpec => NeverFarBackwards
<1>1. ASSUME MarksInv, [ReplayNext]_replayVars, Cardinality(Sender) < CacheMax,
             NEW e \in Event, Admits(e), NEW f \in Event,
             f.sender = e.sender, admitted[f] # Never,
             newest_of_sender(f), clock < admitted[f] + Ttl
      PROVE  e.created_at + Slack >= f.created_at
  <2>1. admit(e)
    <3>1. CASE ClockTick
      BY <1>1, <3>1 DEF ClockTick, Admits
    <3>2. CASE Rearm
      BY <1>1, <3>2 DEF Rearm, Admits
    <3>3. ASSUME NEW g \in Event, admit(g) PROVE admit(e)
      <4>1. admitted' = [admitted EXCEPT ![g] = clock] /\ admitted \in [Event -> Nat]
        BY <1>1, <3>3 DEF admit, MarksInv, ReplayInv, Ranges
      <4>2. g = e
        BY <1>1, <4>1 DEF Admits
      <4> QED BY <3>3, <4>2
    <3>4. CASE UNCHANGED replayVars
      BY <1>1, <3>4 DEF replayVars, Admits
    <3> QED BY <1>1, <3>1, <3>2, <3>3, <3>4 DEF ReplayNext
  <2>2. /\ watermark[e.sender].newest = f.created_at
        /\ watermark[e.sender].expires >= admitted[f] + Ttl
    BY <1>1 DEF MarksInv, Marked, Seen
  <2>3. /\ e.sender \in Sender /\ e.created_at \in Nat /\ f.created_at \in Nat
        /\ {Ttl, Slack, clock, admitted[f], watermark[e.sender].expires} \subseteq Nat
    BY <1>1, ReplayAssumption DEF MarksInv, ReplayInv, Ranges, Marks
  <2>4. alive(watermark[e.sender].expires)
    BY <1>1, <2>2, <2>3 DEF alive
  <2>5. ~(e.created_at + Slack < f.created_at)
    BY <2>1, <2>2, <2>4 DEF admit, is_backwards
  <2> QED BY <2>3, <2>5
<1>2. ASSUME MarksInv, [ReplayNext]_replayVars
      PROVE  [Cardinality(Sender) < CacheMax =>
                \A e \in Event : Admits(e) =>
                    \A f \in {g \in Event : g.sender = e.sender /\ admitted[g] # Never} :
                        newest_of_sender(f) /\ clock < admitted[f] + Ttl
                            => e.created_at + Slack >= f.created_at]_replayVars
  BY <1>1, <1>2
<1> QED BY <1>2, MarksHold, PTL DEF ReplaySpec, NeverFarBackwards

\* What the gates give together: a request from the past is answered once, none
\* twice within a window, none from far behind.
THEOREM RequestsAnsweredOnce == ReplaySpec => AnsweredOnce
BY PastRequestsOnce, OneAdmissionPerWindow, NothingFarBehind DEF AnsweredOnce

-----------------------------------------------------------------------------
(* The three parts side by side.                                           *)

\* A behaviour of the bunker's parts is a behaviour of each of them.
THEOREM BunkerIsEach == BunkerSpec => Spec /\ VaultSpec /\ ReplaySpec
<1>1. BunkerInit => Init /\ VaultInit /\ ReplayInit
  BY DEF BunkerInit
<1>2. [BunkerNext]_bunkerVars => [Next]_vars /\ [VaultNext]_vaultVars /\ [ReplayNext]_replayVars
  BY DEF BunkerNext, bunkerVars
<1> QED BY <1>1, <1>2, PTL DEF BunkerSpec, Spec, VaultSpec, ReplaySpec

\* The vault's and the gates' state stays in its ranges: no name outlives its
\* secret, no cache its bound.
THEOREM BunkerTypeHolds == BunkerSpec => []BunkerTypeOK
<1>1. VaultTypeOK /\ ReplayTypeOK => BunkerTypeOK
  BY DEF BunkerTypeOK
<1> QED BY <1>1, BunkerIsEach, VaultTypeCorrect, ReplayTypeHolds, PTL

\* What the bunker stands on, together: the vault's memory is its store, its
\* identity and doors are kept, and no request is answered twice.
THEOREM BunkerKeeps == BunkerSpec => []MemoryMirrorsStore /\ VaultKeeps /\ AnsweredOnce
BY BunkerIsEach, MirrorCorrect, VaultKept, RequestsAnsweredOnce, PTL
=============================================================================
