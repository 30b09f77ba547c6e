----------------------------- MODULE PolicyProofs -----------------------------
(***************************************************************************)
(* What the policy engine keeps for every number of apps, askers, requests *)
(* and every bound.  TypeOK is inductive by itself.  The queue's properties *)
(* need Queue: who sits on a card, and which ids can still be issued.      *)
(***************************************************************************)
EXTENDS Policy, FiniteSetTheorems, SequenceTheorems, TLAPS

-----------------------------------------------------------------------------
(* Types of what the actions are built from.                               *)

\* What a request is made of.
LEMMA AskFields ==
    ASSUME NEW ask \in Ask
    PROVE  ask.app \in App /\ ask.method \in Method
BY PolicyAssumption

\* The records that pairing writes.
LEMMA RecordTypes ==
    /\ Absent \in Paired
    /\ \A name \in Name : NewApp(name) \in Paired
BY DEF Absent, NewApp, Paired, Level, Name

\* Changing one field of a record leaves a record.
LEMMA FieldTypes ==
    ASSUME NEW r \in Paired
    PROVE  /\ \A level \in Level : [r EXCEPT !.level = level] \in Paired
           /\ \A name \in Name : [r EXCEPT !.name = name] \in Paired
           /\ \A b \in BOOLEAN : [r EXCEPT !.revoked = b] \in Paired
BY DEF Paired

\* The log keeps its lines, ends with the newest and stays within its cap.
LEMMA LogGrows ==
    ASSUME log \in Seq(LogLine), NEW line \in LogLine, record_log(line)
    PROVE  /\ log' \in Seq(LogLine) /\ Len(log') <= LogCap
           /\ LogCap # 0 => Len(log') \in Nat \ {0} /\ log'[Len(log')] = line
<1> DEFINE longer == Append(log, line)
           over == IF Len(longer) > LogCap THEN Len(longer) - LogCap ELSE 0
<1>1. /\ longer \in Seq(LogLine) /\ Len(longer) \in Nat \ {0}
      /\ longer[Len(longer)] = line
      /\ \A i \in 1 .. Len(longer) : longer[i] \in LogLine
  <2>1. longer \in Seq(LogLine) /\ Len(longer) = Len(log) + 1 /\ longer[Len(log) + 1] = line
    OBVIOUS
  <2>2. Len(log) \in Nat
    OBVIOUS
  <2> QED BY <2>1, <2>2, ElementOfSeq
<1>2. LogCap \in Nat
  BY PolicyAssumption
<1>3. over \in Nat /\ over <= Len(longer) /\ Len(longer) - over <= LogCap
  BY <1>1, <1>2
<1>4. LogCap # 0 => over < Len(longer)
  BY <1>1, <1>2
<1>5. log' = SubSeq(longer, over + 1, Len(longer))
  BY DEF record_log
<1> HIDE DEF longer, over
<1>6. /\ log' \in Seq(LogLine)
      /\ Len(log') = IF over + 1 <= Len(longer) THEN Len(longer) - (over + 1) + 1 ELSE 0
      /\ \A i \in 1 .. Len(longer) - (over + 1) + 1 : log'[i] = longer[(over + 1) + i - 1]
  <2>1. \A i \in over + 1 .. Len(longer) : longer[i] \in LogLine
    BY <1>1, <1>3
  <2> QED BY <1>1, <1>3, <1>5, <2>1, SubSeqProperties
<1>7. Len(log') <= LogCap
  BY <1>1, <1>2, <1>3, <1>6
<1>8. ASSUME LogCap # 0 PROVE Len(log') \in Nat \ {0} /\ log'[Len(log')] = line
  <2>1. Len(log') = Len(longer) - over
    BY <1>1, <1>3, <1>4, <1>6, <1>8
  <2>2. Len(log') \in 1 .. Len(longer) - (over + 1) + 1
    BY <1>1, <1>3, <1>4, <1>8, <2>1
  <2>3. log'[Len(log')] = longer[(over + 1) + Len(log') - 1]
    BY <1>6, <2>2
  <2>4. (over + 1) + Len(log') - 1 = Len(longer)
    BY <1>1, <1>3, <2>1
  <2> QED BY <1>1, <2>2, <2>3, <2>4, <1>3
<1> QED BY <1>6, <1>7, <1>8

\* Every line the actions write is a line.
LEMMA LineTypes ==
    ASSUME NEW a \in App, NEW verdict \in Verdict
    PROVE  Line(a, verdict) \in LogLine
BY DEF Line, LogLine

\* Persisting leaves a map of records in the file, written or not.
LEMMA PersistTypes ==
    ASSUME apps' \in [App -> Paired], disk \in [App -> Paired], persist_apps
    PROVE  disk' \in [App -> Paired]
BY DEF persist_apps

\* Clearing an app's standing answers keeps the map.
LEMMA GrantTypes ==
    ASSUME remembered \in [App \X Method -> Nat], NEW a \in App
    PROVE  without_grants(a) \in [App \X Method -> Nat]
BY DEF without_grants

-----------------------------------------------------------------------------
(* TypeOK.                                                                 *)

\* The part of TypeOK about the records and the log, and the part about the
\* queue and its callers.
RecordsOK ==
    /\ apps \in [App -> Paired] /\ disk \in [App -> Paired]
    /\ log \in Seq(LogLine) /\ Len(log) <= LogCap
QueueOK ==
    /\ prompts \subseteq Prompt
    /\ nextId \in 0 .. MaxPrompt
    /\ now \in 0 .. MaxNow
    /\ pc \in [Caller -> Place] /\ asking \in [Caller -> Ask]
    /\ deadline \in [Caller -> 0 .. MaxNow] /\ chan \in [Caller -> Channel]
    /\ card \subseteq [id : PromptId, ask : Ask] /\ Cardinality(card) <= 1

OthersOK == remembered \in [App \X Method -> Nat] /\ poisoned \in BOOLEAN

\* The clock is a number.
LEMMA Clock ==
    ASSUME QueueOK
    PROVE  now \in Nat
<1>1. now \in 0 .. MaxNow
  BY DEF QueueOK
<1>2. MaxNow \in Nat
  BY PolicyAssumption
<1> QED BY ONLY <1>1, <1>2

\* TypeOK is its three parts.
LEMMA TypeParts == TypeOK <=> RecordsOK /\ QueueOK /\ OthersOK
BY DEF TypeOK, RecordsOK, QueueOK, OthersOK

\* The same of the next state.
LEMMA NextTypeParts == TypeOK' <=> RecordsOK' /\ QueueOK' /\ OthersOK'
BY DEF TypeOK, RecordsOK, QueueOK, OthersOK

\* A step that leaves the records, the file and the log alone.
LEMMA RecordsStay ==
    ASSUME RecordsOK, UNCHANGED <<apps, disk, log>>
    PROVE  RecordsOK'
BY DEF RecordsOK

\* A step that leaves the queue and the callers alone.
LEMMA QueueStays ==
    ASSUME QueueOK, UNCHANGED <<prompts, nextId, now, callers, card>>
    PROVE  QueueOK'
BY DEF QueueOK, callers

\* A critical section that writes records and logs a line.
LEMMA RecordsMove ==
    ASSUME RecordsOK, apps' \in [App -> Paired], NEW a \in App, NEW verdict \in Verdict,
           log' = log \/ record_log(Line(a, verdict)),
           disk' = disk \/ persist_apps
    PROVE  RecordsOK'
<1>1. disk' \in [App -> Paired]
  BY PersistTypes DEF RecordsOK
<1>2. log' \in Seq(LogLine) /\ Len(log') <= LogCap
  BY LineTypes, LogGrows DEF RecordsOK
<1> QED BY <1>1, <1>2 DEF RecordsOK

\* pair, from decide or from a connect.
LEMMA PairRecordTypes ==
    ASSUME RecordsOK, NEW a \in App, NEW name \in Name, PairRecord(a, name)
    PROVE  RecordsOK'
<1>1. apps' \in [App -> Paired]
  <2>1. CASE apps[a].paired
    <3>1. apps[a].name \in Name
      BY DEF RecordsOK, Paired
    <3>2. apps' = [apps EXCEPT ![a] = [apps[a] EXCEPT !.name =
                     IF apps[a].name = "none" THEN name ELSE apps[a].name]]
      BY <2>1 DEF PairRecord
    <3> QED BY <3>1, <3>2, FieldTypes DEF RecordsOK
  <2>2. CASE ~apps[a].paired
    BY <2>2, RecordTypes DEF PairRecord, RecordsOK
  <2> QED BY <2>1, <2>2
<1>2. "paired at ask" \in Verdict
  BY DEF Verdict
<1>3. /\ log' = log \/ record_log(Line(a, "paired at ask"))
      /\ disk' = disk \/ persist_apps
  BY DEF PairRecord
<1> QED BY <1>1, <1>2, <1>3, RecordsMove

\* TypeOK at the start.
LEMMA InitTypes == Init => TypeOK
<1> SUFFICES ASSUME Init PROVE TypeOK
  OBVIOUS
<1>1. RecordsOK
  <2>1. log \in Seq(LogLine) /\ Len(log) <= LogCap
    BY EmptySeq, PolicyAssumption DEF Init
  <2>2. apps \in [App -> Paired] /\ disk \in [App -> Paired]
    BY RecordTypes DEF Init, NoApps
  <2> QED BY <2>1, <2>2 DEF RecordsOK
<1>2. QueueOK
  <2>1. Cardinality(card) <= 1
    BY FS_EmptySet DEF Init
  <2>2. /\ nextId \in 0 .. MaxPrompt /\ now \in 0 .. MaxNow
        /\ deadline \in [Caller -> 0 .. MaxNow]
    BY PolicyAssumption DEF Init
  <2>3. pc \in [Caller -> Place] /\ asking \in [Caller -> Ask] /\ chan \in [Caller -> Channel]
    BY DEF Init, Place, Channel
  <2> QED BY <2>1, <2>2, <2>3 DEF Init, QueueOK
<1>3. remembered \in [App \X Method -> Nat]
  BY DEF Init
<1>4. poisoned \in BOOLEAN
  BY DEF Init
<1> QED BY <1>1, <1>2, <1>3, <1>4, TypeParts DEF OthersOK

\* An asker's steps.
LEMMA DecideTypes ==
    ASSUME TypeOK, NEW c \in Caller, Decide(c)
    PROVE  TypeOK'
<1>0. /\ RecordsOK /\ QueueOK /\ OthersOK
      /\ asking[c] \in Ask /\ asking[c].app \in App
  BY TypeParts, AskFields DEF QueueOK
<1>1. CASE DecidePair(c)
  <2>1. RecordsOK'
    <3>1. "none" \in Name
      BY DEF Name
    <3> QED BY <1>0, <1>1, <3>1, PairRecordTypes DEF DecidePair
  <2>2. QueueOK'
    BY <1>0, <1>1 DEF DecidePair, QueueOK, Goto, Place
  <2> QED BY <1>0, <1>1, <2>1, <2>2, NextTypeParts DEF DecidePair, OthersOK
<1>2. CASE DecideRead(c)
  <2>1. QueueOK'
    BY <1>0, <1>2 DEF DecideRead, QueueOK, Goto, Place
  <2>2. poisoned' \in BOOLEAN
    BY <1>0, <1>2 DEF DecideRead, OthersOK
  <2>3. RecordsOK'
    <3>1. standing_verdict(asking[c]) \in Verdict
      BY DEF standing_verdict, Verdict
    <3>2. /\ apps' = apps
          /\ log' = log \/ record_log(Line(asking[c].app, standing_verdict(asking[c])))
          /\ disk' = disk \/ persist_apps
      BY <1>2 DEF DecideRead
    <3>3. apps' \in [App -> Paired]
      BY <1>0, <3>2 DEF RecordsOK
    <3> QED BY <1>0, <3>1, <3>2, <3>3, RecordsMove
  <2> QED BY <1>0, <1>2, <2>1, <2>2, <2>3, NextTypeParts DEF DecideRead, OthersOK
<1>3. CASE DecideAsk(c)
  <2>1. RecordsOK'
    BY <1>0, <1>3, RecordsStay DEF DecideAsk
  <2>2. /\ nextId' \in 0 .. MaxPrompt
        /\ prompts' \subseteq Prompt
    <3> DEFINE same == {p \in prompts : same_card(p, asking[c])}
    <3>1. CASE same # {}
      <4>1. /\ nextId' = nextId
            /\ \E p \in same : prompts' =
                 (prompts \ {p}) \cup {[p EXCEPT !.waiters = p.waiters \cup {c}]}
        BY <1>3, <3>1 DEF DecideAsk
      <4>2. \A p \in Prompt : [p EXCEPT !.waiters = p.waiters \cup {c}] \in Prompt
        BY DEF Prompt
      <4> QED BY <1>0, <4>1, <4>2 DEF QueueOK
    <3>2. CASE same = {}
      <4>1. /\ nextId < MaxPrompt /\ nextId' = nextId + 1
            /\ prompts' = prompts \cup
                 {[id |-> prompt_id(nextId + 1), ask |-> asking[c], waiters |-> {c}]}
        BY <1>3, <3>2 DEF DecideAsk
      <4>2. prompt_id(nextId + 1) \in PromptId
        BY <1>0, <4>1, PolicyAssumption DEF prompt_id, PromptId, QueueOK
      <4>3. [id |-> prompt_id(nextId + 1), ask |-> asking[c], waiters |-> {c}] \in Prompt
        BY <1>0, <4>2 DEF Prompt
      <4>4. nextId' \in 0 .. MaxPrompt
        BY <1>0, <4>1, PolicyAssumption DEF QueueOK
      <4> QED BY <1>0, <4>1, <4>3, <4>4 DEF QueueOK
    <3> QED BY <3>1, <3>2
  <2>3. deadline' \in [Caller -> 0 .. MaxNow]
    BY <1>0, <1>3, PolicyAssumption DEF DecideAsk, QueueOK
  <2>4. QueueOK'
    BY <1>0, <1>3, <2>2, <2>3 DEF DecideAsk, QueueOK, Goto, Place, Channel
  <2> QED BY <1>0, <1>3, <2>1, <2>4, NextTypeParts DEF DecideAsk, OthersOK
<1>4. CASE Receive(c)
  <2>1. RecordsOK'
    BY <1>0, <1>4, RecordsStay DEF Receive, engine
  <2>2. QueueOK'
    BY <1>0, <1>4, PolicyAssumption DEF Receive, engine, QueueOK, Goto, Place, Channel
  <2> QED BY <1>0, <1>4, <2>1, <2>2, NextTypeParts DEF Receive, engine, OthersOK
<1>5. CASE Elapse(c) \/ DropReceiver(c) \/ LockPoisoned(c)
  <2>1. RecordsOK'
    BY <1>0, <1>5, RecordsStay DEF Elapse, DropReceiver, LockPoisoned, engine
  <2>2. pc' \in [Caller -> Place]
    BY <1>0, <1>5 DEF Elapse, DropReceiver, LockPoisoned, QueueOK, Goto, Place
  <2>3. UNCHANGED <<prompts, nextId, now, asking, deadline, chan, card>>
    BY <1>5 DEF Elapse, DropReceiver, LockPoisoned, engine
  <2>4. QueueOK'
    BY <1>0, <2>2, <2>3 DEF QueueOK
  <2> QED BY <1>0, <1>5, <2>1, <2>4, NextTypeParts DEF Elapse, DropReceiver, LockPoisoned, engine,
             OthersOK
<1>6. CASE Expire(c)
  <2>1. RecordsOK'
    <3>1. "expired unanswered" \in Verdict
      BY DEF Verdict
    <3>2. /\ UNCHANGED <<apps, disk>>
          /\ log' = log \/ record_log(Line(asking[c].app, "expired unanswered"))
      BY <1>6 DEF Expire
    <3>3. apps' \in [App -> Paired]
      BY <1>0, <3>2 DEF RecordsOK
    <3> QED BY <1>0, <3>1, <3>2, <3>3, RecordsMove
  <2>2. chan' \in [Caller -> Channel]
    BY <1>0, <1>6 DEF Expire, QueueOK, Channel
  <2>3. deadline' \in [Caller -> 0 .. MaxNow]
    <3>1. 0 \in 0 .. MaxNow
      BY PolicyAssumption
    <3> QED BY <1>0, <1>6, <3>1 DEF Expire, QueueOK
  <2>4. pc' \in [Caller -> Place]
    BY <1>0, <1>6 DEF Expire, QueueOK, Goto, Place
  <2>5. prompts' \subseteq Prompt
    BY <1>0, <1>6 DEF Expire, QueueOK
  <2>6. QueueOK'
    BY <1>0, <1>6, <2>2, <2>3, <2>4, <2>5 DEF Expire, QueueOK
  <2> QED BY <1>0, <1>6, <2>1, <2>6, NextTypeParts DEF Expire, OthersOK
<1> QED BY <1>1, <1>2, <1>3, <1>4, <1>5, <1>6 DEF Decide

\* The person's verbs and the pairing of a connect.
LEMMA VerbTypes ==
    ASSUME TypeOK, NEW a \in App, Verb(a)
    PROVE  TypeOK'
<1>0. RecordsOK /\ QueueOK /\ OthersOK /\ apps[a] \in Paired
  BY TypeParts DEF RecordsOK
<1>1. ASSUME NEW level \in Level, set_level(a, level) PROVE TypeOK'
  <2>1. apps' \in [App -> Paired]
    BY <1>0, <1>1, FieldTypes DEF set_level, RecordsOK
  <2>2. RecordsOK'
    BY <1>0, <1>1, <2>1, PersistTypes DEF set_level, RecordsOK
  <2> QED BY <1>0, <1>1, <2>2, QueueStays, NextTypeParts DEF set_level, verb, OthersOK
<1>2. CASE revoke(a)
  <2>1. apps' \in [App -> Paired]
    BY <1>0, <1>2, FieldTypes DEF revoke, RecordsOK
  <2>2. RecordsOK'
    BY <1>0, <1>2, <2>1, RecordsMove DEF revoke, Verdict
  <2>3. OthersOK'
    BY <1>0, <1>2, GrantTypes DEF revoke, verb, OthersOK
  <2> QED BY <1>0, <1>2, <2>2, <2>3, QueueStays, NextTypeParts DEF revoke, verb
<1>3. CASE unrevoke(a)
  <2>1. apps' \in [App -> Paired]
    BY <1>0, <1>3, FieldTypes DEF unrevoke, RecordsOK
  <2>2. RecordsOK'
    BY <1>0, <1>3, <2>1, RecordsMove DEF unrevoke, Verdict
  <2> QED BY <1>0, <1>3, <2>2, QueueStays, NextTypeParts DEF unrevoke, verb, OthersOK
<1>4. CASE rename(a)
  <2>1. apps' \in [App -> Paired]
    BY <1>0, <1>4, FieldTypes DEF rename, RecordsOK, Name
  <2>2. RecordsOK'
    BY <1>0, <1>4, <2>1, RecordsMove DEF rename, Verdict
  <2> QED BY <1>0, <1>4, <2>2, QueueStays, NextTypeParts DEF rename, verb, OthersOK
<1>5. CASE delete(a)
  <2>1. apps' \in [App -> Paired]
    BY <1>0, <1>5, RecordTypes DEF delete, RecordsOK
  <2>2. RecordsOK'
    BY <1>0, <1>5, <2>1, RecordsMove DEF delete, Verdict
  <2>3. OthersOK'
    BY <1>0, <1>5, GrantTypes DEF delete, verb, OthersOK
  <2> QED BY <1>0, <1>5, <2>2, <2>3, QueueStays, NextTypeParts DEF delete, verb
<1>6. ASSUME NEW name \in Name, pair_with_metadata(a, name) PROVE TypeOK'
  <2>1. RecordsOK'
    BY <1>0, <1>6, PairRecordTypes DEF pair_with_metadata
  <2> QED BY <1>0, <1>6, <2>1, QueueStays, NextTypeParts DEF pair_with_metadata, OthersOK
<1>7. CASE noted(a)
  <2>1. "noted" \in Verdict
    BY DEF Verdict
  <2>2. apps' \in [App -> Paired] /\ disk' = disk /\ record_log(Line(a, "noted"))
    BY <1>0, <1>7 DEF noted, RecordsOK
  <2>3. RecordsOK'
    BY <1>0, <2>1, <2>2, RecordsMove
  <2> QED BY <1>0, <1>7, <2>3, QueueStays, NextTypeParts DEF noted, verb, OthersOK
<1> QED BY <1>1, <1>2, <1>3, <1>4, <1>5, <1>6, <1>7 DEF Verb

\* An answer to a card.
LEMMA AnswerTypes ==
    ASSUME TypeOK, NEW id, NEW decision \in {"allow", "deny"}, NEW remember \in Nat,
           answer(id, decision, remember), UNCHANGED card
    PROVE  TypeOK'
<1>0. RecordsOK /\ QueueOK /\ OthersOK
  BY TypeParts
<1> PICK p \in prompts :
      LET alive == {c \in p.waiters : receiver_alive(c)} IN
      /\ prompts' = prompts \ {p}
      /\ remembered' = IF remember = 0 THEN remembered
                       ELSE [remembered EXCEPT ![<<p.ask.app, p.ask.method>>] =
                               now + remember]
      /\ chan' = [c \in Caller |-> IF c \in alive THEN decision ELSE chan[c]]
      /\ record_log(Line(p.ask.app,
           IF alive = {} THEN "an answer came after the window closed"
           ELSE IF decision = "allow" THEN "allowed" ELSE "denied"))
  BY DEF answer
<1>1. p \in Prompt /\ p.ask \in Ask /\ p.ask.app \in App /\ p.ask.method \in Method
  BY <1>0, AskFields DEF QueueOK, Prompt
<1>2. RecordsOK'
  <2>1. \E verdict \in Verdict : record_log(Line(p.ask.app, verdict))
    BY DEF Verdict
  <2>2. apps' \in [App -> Paired] /\ disk' = disk
    BY <1>0 DEF answer, RecordsOK
  <2> QED BY <1>0, <1>1, <2>1, <2>2, RecordsMove
<1>3. OthersOK'
  <2>1. now + remember \in Nat
    <3>1. now \in Nat /\ remember \in Nat
      BY <1>0, Clock
    <3> QED BY ONLY <3>1
  <2>2. remembered' \in [App \X Method -> Nat]
    BY <1>0, <1>1, <2>1 DEF OthersOK
  <2> QED BY <1>0, <2>2 DEF OthersOK, answer
<1>4. QueueOK'
  <2>1. chan' \in [Caller -> Channel]
    BY <1>0 DEF QueueOK, Channel
  <2>2. prompts' \subseteq Prompt
    BY <1>0 DEF QueueOK
  <2> QED BY <1>0, <2>1, <2>2 DEF QueueOK, answer
<1> QED BY <1>2, <1>3, <1>4, NextTypeParts

\* The rest of Next.
LEMMA OtherTypes ==
    ASSUME TypeOK,
           \/ \E c \in Caller, ask \in Ask : Begin(c, ask)
           \/ \E p \in prompts : View(p)
           \/ Tick \/ Restart \/ UNCHANGED vars
    PROVE  TypeOK'
<1>0. RecordsOK /\ QueueOK /\ OthersOK
  BY TypeParts
<1>1. ASSUME NEW c \in Caller, NEW ask \in Ask, Begin(c, ask) PROVE TypeOK'
  <2>1. QueueOK'
    BY <1>0, <1>1 DEF Begin, engine, QueueOK, Goto, Place
  <2> QED BY <1>0, <1>1, <2>1, RecordsStay, NextTypeParts DEF Begin, engine, OthersOK
<1>2. ASSUME NEW p \in prompts, View(p) PROVE TypeOK'
  <2>1. Cardinality(card') <= 1
    <3>1. card' = {[id |-> p.id, ask |-> p.ask]}
      BY <1>2 DEF View
    <3>2. Cardinality({[id |-> p.id, ask |-> p.ask]}) = 1
      BY FS_Singleton
    <3> QED BY <3>1, <3>2
  <2>2. card' \subseteq [id : PromptId, ask : Ask]
    BY <1>0, <1>2 DEF View, QueueOK, Prompt
  <2>3. QueueOK'
    BY <1>0, <1>2, <2>1, <2>2 DEF View, engine, callers, QueueOK
  <2> QED BY <1>0, <1>2, <2>3, RecordsStay, NextTypeParts DEF View, engine, OthersOK
<1>3. CASE Tick
  <2>1. now' \in 0 .. MaxNow
    BY <1>0, <1>3, PolicyAssumption DEF Tick, QueueOK
  <2>2. QueueOK'
    BY <1>0, <1>3, <2>1 DEF Tick, callers, QueueOK
  <2> QED BY <1>0, <1>3, <2>2, RecordsStay, NextTypeParts DEF Tick, OthersOK
<1>4. CASE Restart
  <2>1. now' \in 0 .. MaxNow /\ 0 \in 0 .. MaxPrompt /\ 0 \in 0 .. MaxNow
    BY <1>0, <1>4, PolicyAssumption DEF Restart, QueueOK
  <2>2. QueueOK'
    BY <1>0, <1>4, <2>1 DEF Restart, QueueOK, Place, Channel
  <2>3. RecordsOK'
    <3>1. NoApps \in [App -> Paired]
      BY RecordTypes DEF NoApps
    <3> QED BY <1>0, <1>4, <3>1 DEF Restart, RecordsOK
  <2>4. OthersOK'
    BY <1>4 DEF Restart, OthersOK
  <2> QED BY <2>2, <2>3, <2>4, NextTypeParts
<1>5. CASE UNCHANGED vars
  BY <1>0, <1>5, RecordsStay, QueueStays, NextTypeParts DEF vars, engine, OthersOK
<1> QED BY <1>1, <1>2, <1>3, <1>4, <1>5

\* Approvals carry a standing answer or none.
LEMMA AnswerForm ==
    ASSUME Approve \/ Deny
    PROVE  /\ UNCHANGED card
           /\ \E shown \in card, decision \in {"allow", "deny"}, remember \in Nat :
                answer(shown.id, decision, remember) /\ (decision = "allow" => Approve)
BY PolicyAssumption DEF Approve, Deny

\* Every step keeps TypeOK.
LEMMA NextTypes == TypeOK /\ [Next]_vars => TypeOK'
BY DecideTypes, VerbTypes, AnswerForm, AnswerTypes, OtherTypes DEF Next

\* Every variable keeps its range, and the log its cap, in every behaviour.
THEOREM TypeCorrect == Spec => []TypeOK
BY InitTypes, NextTypes, PTL DEF Spec

-----------------------------------------------------------------------------
(* The queue.                                                              *)

\* A caller with its name on a card is in decide's wait, or past it and not yet
\* at the expiry arm, holds an unused channel, and asked for what it shows.
Sits(p, c) == /\ pc[c] \in {"waiting", "elapsed", "closed", "panicked"}
              /\ chan[c] = "open"
              /\ p.ask = asking[c]
Cards == \A p \in prompts : \A c \in p.waiters : Sits(p, c)

\* Whoever waits on an unused channel has its name on a card.
Seats == \A c \in Caller :
            pc[c] = "waiting" /\ chan[c] = "open" => \E p \in prompts : c \in p.waiters

\* What the person looks at is what its id names, if the id still names a card.
Shown == \A k \in card, p \in prompts : k.id = p.id => k.ask = p.ask

\* An id that was issued is one that cannot be issued again.
Issued(id) == id[1] < now \/ (id[1] = now /\ id[2] <= nextId)
Ids == (\A p \in prompts : Issued(p.id)) /\ (\A k \in card : Issued(k.id))

Queue == TypeOK /\ Cards /\ Seats /\ OneCardPerAsk /\ Shown /\ Ids

\* The cards and their ids do not depend on the callers, and time only helps.
LEMMA IdsStay ==
    ASSUME Queue, UNCHANGED <<prompts, nextId, card>>, now' = now \/ now' = now + 1
    PROVE  OneCardPerAsk' /\ Shown' /\ Ids'
<1>1. now \in Nat
  BY TypeParts, Clock DEF Queue
<1>2. \A id \in PromptId : id[1] \in Nat
  BY PolicyAssumption DEF PromptId
<1>3. \A id \in PromptId : Issued(id) => Issued(id)'
  BY <1>1, <1>2 DEF Issued
<1>4. (\A p \in prompts : p.id \in PromptId) /\ (\A k \in card : k.id \in PromptId)
  BY DEF Queue, TypeOK, Prompt
<1> QED BY <1>3, <1>4 DEF Queue, OneCardPerAsk, Shown, Ids

\* A caller has its name on one card at most.
LEMMA OneSeat ==
    ASSUME Queue, NEW p \in prompts, NEW q \in prompts, NEW c \in p.waiters, c \in q.waiters
    PROVE  p = q
BY DEF Queue, Cards, Sits, OneCardPerAsk

\* A caller outside the wait has no card.
LEMMA NoSeat ==
    ASSUME Queue, NEW c \in Caller,
           \/ pc[c] \in {"idle", "pairing", "reading", "asking", "allowed", "denied"}
           \/ chan[c] # "open"
    PROVE  \A p \in prompts : c \notin p.waiters
BY DEF Queue, Cards, Sits

\* One caller that is on no card moves, and does not wait afterwards.
LEMMA SeatsStay ==
    ASSUME Queue, UNCHANGED prompts, NEW c \in Caller,
           \A p \in prompts : c \notin p.waiters,
           \A w \in Caller \ {c} :
               pc'[w] = pc[w] /\ chan'[w] = chan[w] /\ asking'[w] = asking[w],
           ~(pc'[c] = "waiting" /\ chan'[c] = "open")
    PROVE  Cards' /\ Seats'
<1>1. \A p \in prompts : p.waiters \subseteq Caller \ {c}
  BY DEF Queue, TypeOK, Prompt
<1> QED BY <1>1 DEF Queue, Cards, Seats, Sits

\* The queue at the start.
LEMMA QueueInit == Init => Queue
<1> SUFFICES ASSUME Init PROVE Queue
  OBVIOUS
<1>1. TypeOK
  BY InitTypes
<1> QED BY <1>1 DEF Init, Queue, Cards, Seats, OneCardPerAsk, Shown, Ids

\* A request that enters decide.
LEMMA BeginQueue ==
    ASSUME Queue, NEW c \in Caller, NEW ask \in Ask, Begin(c, ask)
    PROVE  Queue'
<1>1. TypeOK'
  BY OtherTypes DEF Queue
<1>2. OneCardPerAsk' /\ Shown' /\ Ids'
  BY IdsStay DEF Begin, engine
<1>3. Cards' /\ Seats'
  <2>1. \A p \in prompts : c \notin p.waiters
    BY NoSeat DEF Begin
  <2>2. /\ UNCHANGED <<prompts, chan>>
        /\ pc'[c] = "pairing"
        /\ \A w \in Caller \ {c} : pc'[w] = pc[w] /\ asking'[w] = asking[w]
    BY DEF Begin, engine, Goto, Queue, TypeOK
  <2> QED BY <2>1, <2>2, SeatsStay
<1> QED BY <1>1, <1>2, <1>3 DEF Queue

\* Joining a card or pushing a new one.
LEMMA AskQueue ==
    ASSUME Queue, NEW c \in Caller, DecideAsk(c)
    PROVE  Cards' /\ Seats' /\ OneCardPerAsk' /\ Shown' /\ Ids'
<1> DEFINE same == {p \in prompts : same_card(p, asking[c])}
<1>1. /\ prompts \subseteq Prompt /\ card \subseteq [id : PromptId, ask : Ask]
      /\ pc \in [Caller -> Place] /\ chan \in [Caller -> Channel]
  BY DEF Queue, TypeOK
<1>2. /\ pc' = [pc EXCEPT ![c] = "waiting"] /\ chan' = [chan EXCEPT ![c] = "open"]
      /\ UNCHANGED <<asking, card, now>>
  BY DEF DecideAsk, Goto
<1>3. \A p \in prompts : c \notin p.waiters
  BY NoSeat DEF DecideAsk
<1>4. now \in Nat /\ nextId \in Nat /\ \A id \in PromptId : id[1] \in Nat /\ id[2] \in Nat
  <2>1. now \in Nat
    BY TypeParts, Clock DEF Queue
  <2>2. nextId \in Nat
    BY PolicyAssumption DEF Queue, TypeOK
  <2> QED BY <2>1, <2>2, PolicyAssumption DEF PromptId
<1>5. ASSUME NEW w \in Caller \ {c} PROVE pc'[w] = pc[w] /\ chan'[w] = chan[w]
  BY <1>1, <1>2
<1>6. pc'[c] = "waiting" /\ chan'[c] = "open"
  BY <1>1, <1>2
<1>7. CASE same # {}
  <2>1. PICK p \in same : prompts' = (prompts \ {p}) \cup
                            {[p EXCEPT !.waiters = p.waiters \cup {c}]}
    BY <1>7 DEF DecideAsk
  <2> DEFINE joined == [p EXCEPT !.waiters = p.waiters \cup {c}]
  <2>2. /\ joined.id = p.id /\ joined.ask = p.ask /\ joined.waiters = p.waiters \cup {c}
        /\ p \in prompts /\ p.ask = asking[c]
    BY <1>1, <2>1 DEF Prompt, same_card
  <2>3. nextId' = nextId
    BY <1>7 DEF DecideAsk
  <2>4. \A q \in prompts' : q = joined \/ (q \in prompts /\ q # p)
    BY <2>1
  <2>5. Cards'
    <3>1. ASSUME NEW q \in prompts', NEW w \in q.waiters PROVE Sits(q, w)'
      <4>1. CASE q = joined /\ w = c
        BY <1>2, <1>6, <2>2, <4>1 DEF Sits
      <4>2. CASE q = joined /\ w # c
        <5>1. w \in p.waiters /\ w \in Caller \ {c}
          BY <1>1, <2>2, <4>2 DEF Prompt
        <5> QED BY <1>2, <1>5, <2>2, <4>2, <5>1 DEF Queue, Cards, Sits
      <4>3. CASE q \in prompts /\ q # p
        <5>1. w \in Caller \ {c}
          BY <1>1, <1>3, <4>3 DEF Prompt
        <5> QED BY <1>2, <1>5, <4>3, <5>1 DEF Queue, Cards, Sits
      <4> QED BY <2>4, <4>1, <4>2, <4>3
    <3> QED BY <3>1 DEF Cards
  <2>6. Seats'
    <3>1. ASSUME NEW w \in Caller \ {c}, pc[w] = "waiting", chan[w] = "open"
          PROVE  \E q \in prompts' : w \in q.waiters
      <4>1. PICK q \in prompts : w \in q.waiters
        BY <3>1 DEF Queue, Seats
      <4> QED BY <2>1, <2>2, <4>1
    <3>2. c \in joined.waiters /\ joined \in prompts'
      BY <2>1, <2>2
    <3> HIDE DEF joined
    <3> QED BY <1>5, <3>1, <3>2 DEF Seats
  <2> HIDE DEF joined
  <2>7. OneCardPerAsk' /\ Shown' /\ Ids'
    BY <1>2, <2>2, <2>3, <2>4 DEF Queue, OneCardPerAsk, Shown, Ids, Issued
  <2> QED BY <2>5, <2>6, <2>7
<1>8. CASE same = {}
  <2>1. PICK fresh :
          /\ prompts' = prompts \cup {fresh} /\ nextId' = nextId + 1
          /\ fresh.id = <<now, nextId + 1>> /\ fresh.ask = asking[c] /\ fresh.waiters = {c}
    <3>1. /\ nextId' = nextId + 1
          /\ prompts' = prompts \cup
               {[id |-> prompt_id(nextId + 1), ask |-> asking[c], waiters |-> {c}]}
      BY <1>8 DEF DecideAsk
    <3> WITNESS [id |-> prompt_id(nextId + 1), ask |-> asking[c], waiters |-> {c}]
    <3> QED BY <3>1 DEF prompt_id
  <2>2. \A q \in prompts : q.ask # asking[c]
    BY <1>8 DEF same_card
  <2> HIDE DEF same
  <2>3. Cards'
    <3>1. ASSUME NEW q \in prompts, NEW w \in q.waiters PROVE Sits(q, w)'
      <4>1. w \in Caller \ {c}
        BY <1>1, <1>3 DEF Prompt
      <4> QED BY <1>2, <1>5, <4>1 DEF Queue, Cards, Sits
    <3>2. Sits(fresh, c)'
      BY <1>2, <1>6, <2>1 DEF Sits
    <3> QED BY <2>1, <3>1, <3>2 DEF Cards
  <2>4. Seats'
    <3>1. \A w \in Caller \ {c} : pc[w] = "waiting" /\ chan[w] = "open" =>
             \E q \in prompts : w \in q.waiters
      BY DEF Queue, Seats
    <3> QED BY <1>5, <2>1, <3>1 DEF Seats
  <2>5. /\ \A id \in PromptId : Issued(id) => id # fresh.id /\ Issued(id)'
        /\ Issued(fresh.id)'
    BY <1>2, <1>4, <2>1 DEF Issued
  <2>6. (\A p \in prompts : p.id \in PromptId) /\ (\A k \in card : k.id \in PromptId)
    BY <1>1 DEF Prompt
  <2>7. OneCardPerAsk' /\ Shown' /\ Ids'
    BY <1>2, <2>1, <2>2, <2>5, <2>6 DEF Queue, OneCardPerAsk, Shown, Ids
  <2> QED BY <2>3, <2>4, <2>7
<1> QED BY <1>7, <1>8

\* The expiry arm takes the caller's own card and nobody else's.
LEMMA ExpireQueue ==
    ASSUME Queue, NEW c \in Caller, Expire(c)
    PROVE  Cards' /\ Seats' /\ OneCardPerAsk' /\ Shown' /\ Ids'
<1> DEFINE mine == {p \in prompts : c \in p.waiters}
<1>1. /\ prompts' = prompts \ mine
      /\ chan' = [w \in Caller |->
                    IF w = c THEN "none"
                    ELSE IF chan[w] = "open" /\ (\E p \in mine : w \in p.waiters)
                    THEN "dropped" ELSE chan[w]]
      /\ pc' = [pc EXCEPT ![c] = "denied"]
      /\ UNCHANGED <<nextId, now, asking, card>>
  BY DEF Expire, Goto
<1>2. prompts \subseteq Prompt /\ pc \in [Caller -> Place]
  BY DEF Queue, TypeOK
<1>3. ASSUME NEW q \in prompts', NEW w \in q.waiters
      PROVE  /\ q \in prompts /\ w \in Caller \ {c}
             /\ pc'[w] = pc[w] /\ chan'[w] = chan[w]
  <2>1. q \in prompts /\ c \notin q.waiters
    BY <1>1
  <2>2. w \in Caller \ {c}
    BY <1>2, <2>1 DEF Prompt
  <2>3. \A p \in mine : w \notin p.waiters
    BY <2>1, OneSeat
  <2> QED BY <1>1, <1>2, <2>1, <2>2, <2>3
<1>4. Cards'
  BY <1>1, <1>3 DEF Queue, Cards, Sits
<1>5. Seats'
  <2>1. ASSUME NEW w \in Caller, pc'[w] = "waiting", chan'[w] = "open"
        PROVE  \E q \in prompts' : w \in q.waiters
    <3>1. w # c /\ pc[w] = "waiting" /\ chan[w] = "open" /\ \A p \in mine : w \notin p.waiters
      BY <1>1, <1>2, <2>1
    <3>2. PICK q \in prompts : w \in q.waiters
      BY <3>1 DEF Queue, Seats
    <3> QED BY <1>1, <3>1, <3>2
  <2> QED BY <2>1 DEF Seats
<1>6. OneCardPerAsk' /\ Shown' /\ Ids'
  BY <1>1 DEF Queue, OneCardPerAsk, Shown, Ids, Issued
<1> QED BY <1>4, <1>5, <1>6

\* Every step of decide keeps the queue's invariant.
LEMMA DecideQueue ==
    ASSUME Queue, NEW c \in Caller, Decide(c)
    PROVE  Queue'
<1>0. pc \in [Caller -> Place] /\ chan \in [Caller -> Channel]
  BY DEF Queue, TypeOK
<1>1. TypeOK'
  BY DecideTypes DEF Queue
<1>2. CASE DecidePair(c) \/ DecideRead(c)
  <2>1. /\ UNCHANGED <<prompts, nextId, now, asking, chan, card>>
        /\ pc[c] \in {"pairing", "reading"}
        /\ \E place \in {"reading", "asking", "allowed", "panicked"} : Goto(c, place)
    BY <1>2 DEF DecidePair, DecideRead
  <2>2. pc'[c] # "waiting" /\ \A w \in Caller \ {c} : pc'[w] = pc[w]
    BY <1>0, <2>1 DEF Goto
  <2>3. \A p \in prompts : c \notin p.waiters
    BY <2>1, NoSeat
  <2>4. Cards' /\ Seats'
    BY <2>1, <2>2, <2>3, SeatsStay
  <2> QED BY <1>1, <2>1, <2>4, IdsStay DEF Queue
<1>3. CASE DecideAsk(c)
  BY <1>1, <1>3, AskQueue DEF Queue
<1>4. CASE Receive(c)
  <2>1. /\ UNCHANGED <<prompts, nextId, now, asking, card>>
        /\ chan[c] # "open" /\ chan' = [chan EXCEPT ![c] = "none"]
        /\ \E place \in {"allowed", "denied"} : Goto(c, place)
    BY <1>4 DEF Receive, engine
  <2>2. /\ pc'[c] # "waiting"
        /\ \A w \in Caller \ {c} : pc'[w] = pc[w] /\ chan'[w] = chan[w]
    BY <1>0, <2>1 DEF Goto
  <2>3. \A p \in prompts : c \notin p.waiters
    BY <2>1, NoSeat
  <2>4. Cards' /\ Seats'
    BY <2>1, <2>2, <2>3, SeatsStay
  <2> QED BY <1>1, <2>1, <2>4, IdsStay DEF Queue
<1>5. CASE Elapse(c) \/ DropReceiver(c) \/ LockPoisoned(c)
  <2>1. /\ UNCHANGED <<prompts, nextId, now, asking, chan, card>>
        /\ \E place \in {"elapsed", "closed", "panicked"} : Goto(c, place)
    BY <1>5 DEF Elapse, DropReceiver, LockPoisoned, engine
  <2>2. /\ pc'[c] \in {"elapsed", "closed", "panicked"}
        /\ \A w \in Caller \ {c} : pc'[w] = pc[w]
    BY <1>0, <2>1 DEF Goto
  <2>3. Cards'
    <3>1. \A p \in prompts : p.waiters \subseteq Caller
      BY DEF Queue, TypeOK, Prompt
    <3> QED BY <2>1, <2>2, <3>1 DEF Queue, Cards, Sits
  <2>4. Seats'
    BY <2>1, <2>2 DEF Queue, Seats
  <2> QED BY <1>1, <2>1, <2>3, <2>4, IdsStay DEF Queue
<1>6. CASE Expire(c)
  BY <1>1, <1>6, ExpireQueue DEF Queue
<1> QED BY <1>2, <1>3, <1>4, <1>5, <1>6 DEF Decide

\* An answer takes one card, with every live sender on it.
LEMMA AnswerQueue ==
    ASSUME Queue, NEW id, NEW decision \in {"allow", "deny"}, NEW remember \in Nat,
           answer(id, decision, remember), UNCHANGED card
    PROVE  /\ Queue'
           /\ \E p \in prompts : /\ p.id = id
                                 /\ record_log(Line(p.ask.app, IF decision = "allow"
                                                    THEN "allowed" ELSE "denied"))
                                    \/ chan' = chan
                                 /\ \A c \in Caller : chan'[c] # chan[c] =>
                                      c \in p.waiters /\ chan'[c] = decision
<1> PICK p \in prompts :
      LET alive == {c \in p.waiters : receiver_alive(c)} IN
      /\ p.id = id
      /\ prompts' = prompts \ {p}
      /\ chan' = [c \in Caller |-> IF c \in alive THEN decision ELSE chan[c]]
      /\ record_log(Line(p.ask.app,
           IF alive = {} THEN "an answer came after the window closed"
           ELSE IF decision = "allow" THEN "allowed" ELSE "denied"))
  BY DEF answer
<1>1. /\ prompts \subseteq Prompt /\ pc \in [Caller -> Place] /\ chan \in [Caller -> Channel]
      /\ UNCHANGED <<nextId, now, pc, asking>>
  BY DEF Queue, TypeOK, answer
<1>2. TypeOK'
  BY AnswerTypes DEF Queue
<1>3. OneCardPerAsk' /\ Shown' /\ Ids'
  BY <1>1 DEF Queue, OneCardPerAsk, Shown, Ids, Issued
<1>4. Cards'
  <2>1. ASSUME NEW q \in prompts', NEW w \in q.waiters PROVE Sits(q, w)'
    <3>1. q \in prompts /\ w \in Caller
      BY <1>1 DEF Prompt
    <3>2. w \notin p.waiters
      BY <3>1, OneSeat
    <3>3. chan'[w] = chan[w]
      BY <3>1, <3>2
    <3> QED BY <1>1, <3>1, <3>3 DEF Queue, Cards, Sits
  <2> QED BY <2>1 DEF Cards
<1>5. Seats'
  <2>1. ASSUME NEW w \in Caller, pc[w] = "waiting", chan'[w] = "open"
        PROVE  \E q \in prompts' : w \in q.waiters
    <3>1. chan[w] = "open" /\ ~(w \in p.waiters /\ receiver_alive(w))
      BY <2>1
    <3>2. w \notin p.waiters
      BY <2>1, <3>1 DEF receiver_alive
    <3>3. PICK q \in prompts : w \in q.waiters
      BY <2>1, <3>1 DEF Queue, Seats
    <3> QED BY <3>2, <3>3
  <2> QED BY <1>1, <2>1 DEF Seats
<1>6. \A c \in Caller : chan'[c] # chan[c] => c \in p.waiters /\ chan'[c] = decision
  OBVIOUS
<1>7. \/ record_log(Line(p.ask.app, IF decision = "allow" THEN "allowed" ELSE "denied"))
      \/ chan' = chan
  <2> DEFINE alive == {c \in p.waiters : receiver_alive(c)}
  <2>1. CASE alive = {}
    BY <1>1, <2>1
  <2>2. CASE alive # {}
    BY <2>2
  <2> QED BY <2>1, <2>2
<1> QED BY <1>2, <1>3, <1>4, <1>5, <1>6, <1>7 DEF Queue

\* The verbs, the person's look at the queue, the clock and a restart.
LEMMA OtherQueue ==
    ASSUME Queue,
           \/ \E p \in prompts : View(p)
           \/ \E a \in App : Verb(a)
           \/ Tick \/ Restart \/ UNCHANGED vars
    PROVE  Queue'
<1>0. TypeOK'
  BY OtherTypes, VerbTypes DEF Queue
<1>1. ASSUME NEW p \in prompts, View(p) PROVE Queue'
  <2>1. /\ UNCHANGED <<prompts, nextId, now, pc, chan, asking>>
        /\ card' = {[id |-> p.id, ask |-> p.ask]}
    BY <1>1 DEF View, engine, callers
  <2>2. Cards' /\ Seats'
    BY <2>1 DEF Queue, Cards, Seats, Sits
  <2> QED BY <1>0, <2>1, <2>2 DEF Queue, OneCardPerAsk, Shown, Ids, Issued
<1>2. ASSUME UNCHANGED <<prompts, nextId, callers, card>>, now' = now \/ now' = now + 1
      PROVE  Queue'
  <2>1. Cards' /\ Seats'
    BY <1>2 DEF Queue, Cards, Seats, Sits, callers
  <2> QED BY <1>0, <1>2, <2>1, IdsStay DEF Queue
<1>3. ASSUME NEW a \in App, Verb(a) PROVE Queue'
  BY <1>2, <1>3 DEF Verb, set_level, revoke, unrevoke, rename, delete, pair_with_metadata,
     noted, verb
<1>4. CASE Tick
  BY <1>2, <1>4 DEF Tick
<1>5. CASE Restart
  <2>1. /\ prompts' = {} /\ nextId' = 0 /\ card' = card /\ now' = now + 1
        /\ chan' = [c \in Caller |-> "none"]
    BY <1>5 DEF Restart
  <2>2. now \in Nat
    BY TypeParts, Clock DEF Queue
  <2>3. \A k \in card : k.id[1] \in Nat
    BY PolicyAssumption DEF Queue, TypeOK, PromptId
  <2>4. Ids'
    BY <2>1, <2>2, <2>3 DEF Queue, Ids, Issued
  <2> QED BY <1>0, <2>1, <2>4 DEF Queue, Cards, Seats, OneCardPerAsk, Shown
<1>6. CASE UNCHANGED vars
  BY <1>2, <1>6 DEF vars, engine
<1> QED BY <1>1, <1>3, <1>4, <1>5, <1>6

\* Every step keeps the queue's invariant.
LEMMA QueueNext == Queue /\ [Next]_vars => Queue'
<1> SUFFICES ASSUME Queue, [Next]_vars PROVE Queue'
  OBVIOUS
<1>1. CASE Approve \/ Deny
  BY <1>1, AnswerForm, AnswerQueue
<1> QED BY <1>1, DecideQueue, BeginQueue, OtherQueue DEF Next

\* The inductive invariant of the queue holds in every behaviour of the engine.
THEOREM QueueHolds == Spec => []Queue
BY QueueInit, QueueNext, PTL DEF Spec

\* Nobody waits on a card that is gone: every open wait in Gate::decide has its
\* request's card in the queue, and only that one.
THEOREM WaitersServed == Spec => []WaiterHasCard
<1>1. Queue => WaiterHasCard
  <2>1. ASSUME Queue, NEW c \in Caller, pc[c] = "waiting", chan[c] = "open"
        PROVE  \E p \in prompts : /\ c \in p.waiters
                                  /\ p.ask = asking[c]
                                  /\ \A q \in prompts \ {p} : c \notin q.waiters
    <3>1. PICK p \in prompts : c \in p.waiters
      BY <2>1 DEF Queue, Seats
    <3>2. p.ask = asking[c]
      BY <2>1, <3>1 DEF Queue, Cards, Sits
    <3> QED BY <2>1, <3>1, <3>2, OneSeat
  <2> QED BY <2>1 DEF WaiterHasCard
<1> QED BY <1>1, QueueHolds, PTL

\* Identical asks share one card and an id names one card, across restarts.
THEOREM OneCard == Spec => []OneCardPerAsk
<1>1. Queue => OneCardPerAsk
  BY DEF Queue
<1> QED BY <1>1, QueueHolds, PTL

\* Gate::decide, answer and the expiry arm keep every open wait at its card,
\* and every retry at the card it repeats.
THEOREM QueueIsServed == Spec => []QueueServed
<1>1. WaiterHasCard /\ OneCardPerAsk => QueueServed
  BY DEF QueueServed
<1> QED BY <1>1, WaitersServed, OneCard, PTL

\* The two steps that grant.
LEMMA GrantSteps ==
    ASSUME Queue, [Next]_vars, NEW c \in Caller, ~Granted(c), Granted(c)'
    PROVE  \/ DecideRead(c) /\ allowed_without_asking(asking[c]) /\ apps[asking[c].app].paired
           \/ /\ Approve
              /\ \E shown \in card : /\ shown.ask = asking[c]
                                     /\ record_log(Line(asking[c].app, "allowed"))
<1>0. pc \in [Caller -> Place] /\ chan \in [Caller -> Channel]
  BY DEF Queue, TypeOK
<1>1. ASSUME NEW d \in Caller, Decide(d) PROVE
        DecideRead(c) /\ allowed_without_asking(asking[c]) /\ apps[asking[c].app].paired
  <2>1. CASE DecideRead(d)
    BY <1>0, <2>1 DEF Granted, DecideRead, Goto
  <2>2. CASE Receive(d)
    BY <1>0, <2>2 DEF Granted, Receive, Goto
  <2>3. CASE Expire(d)
    BY <1>0, <2>3 DEF Granted, Expire, Goto
  <2>4. CASE DecidePair(d) \/ DecideAsk(d)
    BY <1>0, <2>4 DEF Granted, DecidePair, DecideAsk, Goto
  <2>5. CASE Elapse(d) \/ DropReceiver(d) \/ LockPoisoned(d)
    BY <1>0, <2>5 DEF Granted, Elapse, DropReceiver, LockPoisoned, Goto
  <2> QED BY <1>1, <2>1, <2>2, <2>3, <2>4, <2>5 DEF Decide
<1>2. ASSUME NEW d \in Caller, NEW ask \in Ask, Begin(d, ask) PROVE FALSE
  BY <1>0, <1>2 DEF Begin, Granted, Goto
<1>3. ASSUME UNCHANGED <<pc, chan>> PROVE FALSE
  BY <1>3 DEF Granted
<1>4. ASSUME \/ \E p \in prompts : View(p)
             \/ \E a \in App : Verb(a)
             \/ Tick \/ UNCHANGED vars
      PROVE  FALSE
  BY <1>3, <1>4 DEF View, Verb, set_level, revoke, unrevoke, rename, delete, noted,
     pair_with_metadata, verb, Tick, vars, callers
<1>5. CASE Restart
  BY <1>5 DEF Restart, Granted
<1>6. CASE Approve \/ Deny
  <2>1. PICK shown \in card, decision \in {"allow", "deny"}, remember \in Nat :
          answer(shown.id, decision, remember) /\ (decision = "allow" => Approve)
    BY <1>6, AnswerForm
  <2>2. PICK p \in prompts :
          /\ p.id = shown.id
          /\ record_log(Line(p.ask.app, IF decision = "allow" THEN "allowed" ELSE "denied"))
             \/ chan' = chan
          /\ \A w \in Caller : chan'[w] # chan[w] => w \in p.waiters /\ chan'[w] = decision
    BY <1>6, <2>1, AnswerForm, AnswerQueue
  <2>3. pc' = pc
    BY <2>1 DEF answer
  <2>4. chan'[c] = "allow" /\ chan[c] # "allow"
    BY <2>3 DEF Granted
  <2>5. c \in p.waiters /\ decision = "allow"
    BY <2>2, <2>4
  <2>6. p.ask = asking[c] /\ p.ask = shown.ask
    BY <2>2, <2>5 DEF Queue, Cards, Sits, Shown
  <2> QED BY <2>1, <2>2, <2>4, <2>5, <2>6
<1> QED BY <1>1, <1>2, <1>4, <1>5, <1>6 DEF Next

\* A request is granted by what stands for it when decide reads it, or by an
\* approval of a card that showed the person that very request.
THEOREM GrantsEarned == Spec => GrantIsEarned
<1>1. Queue /\ [Next]_vars =>
        [\A c \in Caller : ~Granted(c) /\ Granted(c)' =>
            \/ pc[c] = "reading" /\ allowed_without_asking(asking[c])
            \/ Approve /\ \E shown \in card : shown.ask = asking[c]]_vars
  BY GrantSteps DEF DecideRead
<1> QED BY <1>1, QueueHolds, PTL DEF Spec, GrantIsEarned

\* Every grant writes its line, provided the log has room for one.
THEOREM GrantsLogged ==
    ASSUME LogCap # 0
    PROVE  Spec => GrantIsLogged
<1>1. ASSUME Queue, [Next]_vars, NEW c \in Caller, ~Granted(c), Granted(c)'
      PROVE  /\ log'[Len(log')].app = asking[c].app
             /\ log'[Len(log')].verdict \in
                  {"allowed (trust)", "allowed (remembered)", "allowed (basic)", "allowed"}
  <2>1. PICK verdict \in {"allowed (trust)", "allowed (remembered)", "allowed (basic)", "allowed"} :
          record_log(Line(asking[c].app, verdict))
    <3>1. \A ask \in Ask : standing_verdict(ask) \in
            {"allowed (trust)", "allowed (remembered)", "allowed (basic)", "allowed"}
      BY DEF standing_verdict
    <3>2. asking[c] \in Ask
      BY <1>1 DEF Queue, TypeOK
    <3> QED BY <1>1, <3>1, <3>2, GrantSteps DEF DecideRead
  <2>2. asking[c].app \in App /\ log \in Seq(LogLine)
    BY AskFields, <1>1 DEF Queue, TypeOK
  <2>3. verdict \in Verdict
    BY DEF Verdict
  <2>4. Line(asking[c].app, verdict) \in LogLine
    BY <2>2, <2>3, LineTypes
  <2>5. log'[Len(log')] = Line(asking[c].app, verdict)
    BY <2>1, <2>2, <2>4, LogGrows
  <2>6. /\ Line(asking[c].app, verdict).app = asking[c].app
        /\ Line(asking[c].app, verdict).verdict = verdict
    BY DEF Line
  <2>7. verdict \in {"allowed (trust)", "allowed (remembered)", "allowed (basic)", "allowed"}
    BY <2>1
  <2> QED BY ONLY <2>5, <2>6, <2>7
<1>2. Queue /\ [Next]_vars =>
        [\A c \in Caller : ~Granted(c) /\ Granted(c)' =>
          /\ log'[Len(log')].app = asking[c].app
          /\ log'[Len(log')].verdict \in
               {"allowed (trust)", "allowed (remembered)", "allowed (basic)",
                "allowed"}]_vars
  BY <1>1
<1> QED BY <1>2, QueueHolds, PTL DEF Spec, GrantIsLogged

\* A grant of Gate::decide has its cause and, where a log is kept, its line.
THEOREM GrantsHold ==
    ASSUME LogCap # 0
    PROVE  Spec => GrantsStand
BY GrantsEarned, GrantsLogged DEF GrantsStand

-----------------------------------------------------------------------------
(* The records, when every write of apps.json lands whole.                 *)

\* Memory may have a name the file has not, and they differ in nothing else:
\* pair_with_metadata fills an empty name in and leaves the file alone.
Agree(r, s) == /\ r.paired = s.paired /\ r.level = s.level /\ r.revoked = s.revoked
               /\ s.name = "given" => r.name = "given"
Whole(r) == r.paired \/ r = Absent
Kept == TypeOK /\ \A a \in App : Agree(apps[a], disk[a]) /\ Whole(apps[a]) /\ Whole(disk[a])

\* Pairing writes a new record to the file, or agrees with what it finds.
LEMMA PairRecordSteps ==
    ASSUME TypeOK, NEW b \in App, NEW name \in Name, PairRecord(b, name), ~WriteFails
    PROVE  /\ disk' = apps' \/ (disk' = disk /\ \A a \in App : Agree(apps'[a], apps[a]))
           /\ \A a \in App : apps[a].paired => Agree(apps'[a], apps[a])
<1>0. apps \in [App -> Paired]
  BY DEF TypeOK
<1>1. CASE apps[b].paired
  <2>1. apps' = [apps EXCEPT ![b].name = IF apps[b].name = "none" THEN name ELSE apps[b].name]
        /\ disk' = disk
    BY <1>1 DEF PairRecord
  <2>2. \A a \in App : Agree(apps'[a], apps[a])
    BY <1>0, <2>1 DEF Agree, Paired
  <2> QED BY <2>1, <2>2
<1>2. CASE ~apps[b].paired
  <2>1. disk' = apps' /\ apps' = [apps EXCEPT ![b] = NewApp(name)]
    BY <1>2 DEF PairRecord, persist_apps
  <2> QED BY <1>0, <1>2, <2>1 DEF Agree
<1> QED BY <1>1, <1>2

\* What a step may do to the records.
LEMMA RecordSteps ==
    ASSUME Kept, [Next]_vars, ~WriteFails, ~TornWrite
    PROVE  /\ \/ disk' = apps'
              \/ disk' = disk /\ \A a \in App : Agree(apps'[a], apps[a])
           /\ \/ Restart /\ apps' = disk
              \/ \A a \in App : apps[a].paired => Agree(apps'[a], apps[a])
              \/ \E a \in App : /\ \A b \in App \ {a} : apps'[b] = apps[b]
                                /\ \/ \E level \in Level : /\ set_level(a, level)
                                        /\ apps'[a] = [apps[a] EXCEPT !.level = level]
                                   \/ apps'[a] = [apps[a] EXCEPT !.revoked = TRUE]
                                   \/ unrevoke(a) /\ apps'[a] = [apps[a] EXCEPT !.revoked = FALSE]
                                   \/ apps'[a] = [apps[a] EXCEPT !.name = "given"]
                                   \/ delete(a) /\ apps'[a] = Absent
<1>0. TypeOK /\ apps \in [App -> Paired] /\ \A r : Agree(r, r)
  BY DEF Kept, TypeOK, Agree
<1>1. ASSUME UNCHANGED <<apps, disk>> PROVE \A a \in App : Agree(apps'[a], apps[a])
  BY <1>0, <1>1
<1>2. ASSUME NEW c \in Caller, Decide(c)
      PROVE  \/ UNCHANGED apps /\ disk' \in {apps, disk}
             \/ PairRecord(asking[c].app, "none")
  BY <1>2 DEF Decide, DecidePair, DecideRead, DecideAsk, Receive, Elapse, DropReceiver, Expire,
     LockPoisoned, engine, persist_apps
<1>3. ASSUME NEW c \in Caller PROVE asking[c].app \in App
  BY <1>0, AskFields DEF TypeOK
<1>4. CASE \E c \in Caller : Decide(c)
  BY <1>0, <1>2, <1>3, <1>4, PairRecordSteps DEF Name
<1>5. ASSUME NEW a \in App, Verb(a)
      PROVE  \/ UNCHANGED <<apps, disk>>
             \/ \E name \in Name : PairRecord(a, name)
             \/ disk' = apps' /\
                \/ \E level \in Level : set_level(a, level) /\
                       apps' = [apps EXCEPT ![a].level = level]
                \/ apps' = [apps EXCEPT ![a].revoked = TRUE]
                \/ unrevoke(a) /\ apps' = [apps EXCEPT ![a].revoked = FALSE]
                \/ apps' = [apps EXCEPT ![a].name = "given"]
                \/ delete(a) /\ apps' = [apps EXCEPT ![a] = Absent] /\ apps[a].paired
             \/ delete(a) /\ apps' = [apps EXCEPT ![a] = Absent] /\ disk' = disk /\ ~apps[a].paired
  BY <1>5 DEF Verb, set_level, revoke, unrevoke, rename, delete, pair_with_metadata, noted,
     persist_apps
<1>6. CASE \E a \in App : Verb(a)
  <2> PICK a \in App : Verb(a)
    BY <1>6
  <2>1. CASE UNCHANGED <<apps, disk>>
    BY <1>1, <2>1
  <2>2. CASE \E name \in Name : PairRecord(a, name)
    BY <1>0, <2>2, PairRecordSteps
  <2>3. CASE /\ disk' = apps'
             /\ \/ \E level \in Level : set_level(a, level) /\
                       apps' = [apps EXCEPT ![a].level = level]
                \/ apps' = [apps EXCEPT ![a].revoked = TRUE]
                \/ unrevoke(a) /\ apps' = [apps EXCEPT ![a].revoked = FALSE]
                \/ apps' = [apps EXCEPT ![a].name = "given"]
                \/ delete(a) /\ apps' = [apps EXCEPT ![a] = Absent] /\ apps[a].paired
    BY <1>0, <2>3
  <2>4. CASE delete(a) /\ apps' = [apps EXCEPT ![a] = Absent] /\ disk' = disk /\ ~apps[a].paired
    <3>1. apps' = apps
      BY <1>0, <2>4 DEF Kept, Whole
    <3> QED BY <1>1, <2>4, <3>1
  <2> QED BY <1>5, <2>1, <2>2, <2>3, <2>4
<1>7. CASE Restart
  BY <1>7 DEF Restart
<1>8. CASE Approve \/ Deny
  BY <1>1, <1>8, AnswerForm DEF answer
<1>9. CASE \/ \E p \in prompts : View(p)
           \/ \E c \in Caller, ask \in Ask : Begin(c, ask)
           \/ Tick \/ UNCHANGED vars
  BY <1>1, <1>9 DEF View, Begin, Tick, engine, vars
<1> QED BY <1>4, <1>6, <1>7, <1>8, <1>9 DEF Next

\* Memory and file agree at the start.
LEMMA KeptInit == Init => Kept
<1> SUFFICES ASSUME Init PROVE Kept
  OBVIOUS
<1>1. TypeOK
  BY InitTypes
<1> QED BY <1>1 DEF Init, Kept, NoApps, Agree, Whole

\* They agree after every step, when writes land whole.
LEMMA KeptNext ==
    ASSUME ~WriteFails, ~TornWrite
    PROVE  Kept /\ [Next]_vars => Kept'
<1> SUFFICES ASSUME Kept, [Next]_vars PROVE Kept'
  OBVIOUS
<1>0. TypeOK /\ TypeOK' /\ apps \in [App -> Paired]
  BY NextTypes DEF Kept, TypeOK
<1>1. \A a \in App : Agree(apps'[a], disk'[a])
  BY RecordSteps DEF Kept, Agree
<1>2. \A a \in App : Whole(apps'[a])
  <2>1. CASE Restart
    BY <2>1 DEF Restart, Kept
  <2>2. CASE ~Restart
    <3>1. ASSUME NEW c \in Caller, Decide(c)
          PROVE  UNCHANGED apps \/ PairRecord(asking[c].app, "none")
      BY <3>1 DEF Decide, DecidePair, DecideRead, DecideAsk, Receive, Elapse, DropReceiver,
         Expire, LockPoisoned, engine
    <3>2. ASSUME NEW b \in App, NEW name \in Name, PairRecord(b, name)
          PROVE  \A a \in App : Whole(apps'[a])
      BY <1>0, <3>2 DEF PairRecord, Kept, Whole, NewApp, Absent, Paired
    <3>3. \A c \in Caller : asking[c].app \in App
      BY <1>0, AskFields DEF TypeOK
    <3>4. CASE \E c \in Caller : Decide(c)
      BY <3>1, <3>2, <3>3, <3>4 DEF Kept, Name
    <3>5. ASSUME NEW b \in App, Verb(b)
          PROVE  \/ UNCHANGED apps
                 \/ \E name \in Name : PairRecord(b, name)
                 \/ apps[b].paired /\ \/ \E level \in Level : apps' = [apps EXCEPT ![b].level = level]
                                      \/ \E x \in BOOLEAN : apps' = [apps EXCEPT ![b].revoked = x]
                                      \/ apps' = [apps EXCEPT ![b].name = "given"]
                 \/ apps' = [apps EXCEPT ![b] = Absent]
      BY <3>5 DEF Verb, set_level, revoke, unrevoke, rename, delete, pair_with_metadata, noted
    <3>6. ASSUME NEW b \in App, Verb(b) PROVE \A a \in App : Whole(apps'[a])
      <4>1. CASE \E name \in Name : PairRecord(b, name)
        BY <3>2, <4>1
      <4>2. CASE apps[b].paired /\ \/ \E level \in Level : apps' = [apps EXCEPT ![b].level = level]
                                   \/ \E x \in BOOLEAN : apps' = [apps EXCEPT ![b].revoked = x]
                                   \/ apps' = [apps EXCEPT ![b].name = "given"]
        BY <1>0, <4>2 DEF Kept, Whole, Paired
      <4>3. CASE apps' = [apps EXCEPT ![b] = Absent] \/ UNCHANGED apps
        BY <1>0, <4>3 DEF Kept, Whole
      <4> QED BY <3>5, <3>6, <4>1, <4>2, <4>3
    <3>7. CASE Approve \/ Deny
      BY <3>7, AnswerForm DEF answer, Kept
    <3>8. CASE \/ \E p \in prompts : View(p)
               \/ \E c \in Caller, ask \in Ask : Begin(c, ask)
               \/ Tick \/ UNCHANGED vars
      BY <3>8 DEF View, Begin, Tick, engine, vars, Kept
    <3> QED BY <2>2, <3>4, <3>6, <3>7, <3>8 DEF Next
  <2> QED BY <2>1, <2>2
<1>3. \A a \in App : Whole(disk'[a])
  <2>1. CASE disk' = apps'
    BY <1>2, <2>1
  <2>2. CASE disk' = disk
    BY <2>2 DEF Kept
  <2> QED BY <2>1, <2>2, RecordSteps
<1> QED BY <1>0, <1>1, <1>2, <1>3 DEF Kept

\* A tombstone is cleared by un-revoke alone, or goes with its record: asks,
\* re-pairings and restarts leave it, when the writes of apps.json land.
THEOREM TombstonesKept ==
    ASSUME ~WriteFails, ~TornWrite
    PROVE  Spec => TombstoneStands
<1>1. ASSUME Kept, [Next]_vars, NEW a \in App, apps[a].revoked
      PROVE  apps'[a].revoked \/ unrevoke(a) \/ delete(a)
  <2>1. apps[a] \in Paired /\ apps[a].paired
    BY <1>1 DEF Kept, TypeOK, Whole, Absent
  <2>2. CASE apps' = disk \/ \A b \in App : apps[b].paired => Agree(apps'[b], apps[b])
    BY <1>1, <2>1, <2>2 DEF Kept, Agree
  <2>3. ASSUME NEW b \in App, b # a, \A d \in App \ {b} : apps'[d] = apps[d]
        PROVE  apps'[a].revoked
    BY <1>1, <2>3
  <2>4. CASE \/ \E level \in Level : apps'[a] = [apps[a] EXCEPT !.level = level]
             \/ apps'[a] = [apps[a] EXCEPT !.revoked = TRUE]
             \/ unrevoke(a) \/ delete(a)
             \/ apps'[a] = [apps[a] EXCEPT !.name = "given"]
    BY <1>1, <2>1, <2>4 DEF Paired
  <2> QED BY <1>1, <2>2, <2>3, <2>4, RecordSteps
<1>2. Kept /\ [Next]_vars =>
        [\A a \in App : apps[a].revoked => apps'[a].revoked \/ unrevoke(a) \/ delete(a)]_vars
  BY <1>1
<1> QED BY <1>2, KeptInit, KeptNext, PTL DEF Spec, TombstoneStands

\* No path but the panel's toggle changes a level, and the person's name for an
\* app outranks the app's own claim.
THEOREM PersonsWordKept ==
    ASSUME ~WriteFails, ~TornWrite
    PROVE  Spec => PersonsWordStands
<1>1. ASSUME Kept, [Next]_vars, NEW a \in App, apps[a].paired, apps'[a].paired
      PROVE  /\ \/ apps'[a].level = apps[a].level
                \/ \E level \in Level : set_level(a, level)
             /\ apps[a].name = "given" => \/ apps'[a].name = "given"
                                          \/ Restart /\ disk[a].name # "given"
  <2>1. apps[a] \in Paired
    BY <1>1 DEF Kept, TypeOK
  <2>2. CASE (Restart /\ apps' = disk) \/ \A b \in App : apps[b].paired => Agree(apps'[b], apps[b])
    BY <1>1, <2>2 DEF Kept, Agree
  <2>3. ASSUME NEW b \in App, b # a, \A d \in App \ {b} : apps'[d] = apps[d]
        PROVE  apps'[a] = apps[a]
    BY <2>3
  <2>4. CASE \/ \E level \in Level : set_level(a, level) /\ apps'[a] = [apps[a] EXCEPT !.level = level]
             \/ \E x \in BOOLEAN : apps'[a] = [apps[a] EXCEPT !.revoked = x]
             \/ apps'[a] = [apps[a] EXCEPT !.name = "given"]
             \/ apps'[a] = Absent
    <3>1. ASSUME NEW x, apps'[a] = [apps[a] EXCEPT !.revoked = x]
          PROVE  apps'[a].level = apps[a].level /\ apps'[a].name = apps[a].name
      BY <2>1, <3>1 DEF Paired
    <3>2. ASSUME apps'[a] = [apps[a] EXCEPT !.name = "given"]
          PROVE  apps'[a].level = apps[a].level /\ apps'[a].name = "given"
      BY <2>1, <3>2 DEF Paired
    <3>3. ASSUME NEW x, apps'[a] = [apps[a] EXCEPT !.level = x]
          PROVE  apps'[a].name = apps[a].name
      BY <2>1, <3>3 DEF Paired
    <3>4. apps'[a] # Absent
      BY <1>1 DEF Absent
    <3> QED BY <2>4, <3>1, <3>2, <3>3, <3>4
  <2>5. \/ Restart /\ apps' = disk
        \/ \A b \in App : apps[b].paired => Agree(apps'[b], apps[b])
        \/ \E b \in App : /\ \A d \in App \ {b} : apps'[d] = apps[d]
                          /\ \/ \E level \in Level : /\ set_level(b, level)
                                                     /\ apps'[b] = [apps[b] EXCEPT !.level = level]
                             \/ \E x \in BOOLEAN : apps'[b] = [apps[b] EXCEPT !.revoked = x]
                             \/ apps'[b] = [apps[b] EXCEPT !.name = "given"]
                             \/ apps'[b] = Absent
    BY <1>1, RecordSteps
  <2> QED BY <2>2, <2>3, <2>4, <2>5
<1>2. Kept /\ [Next]_vars =>
        [\A a \in App : apps[a].paired /\ apps'[a].paired =>
            /\ \/ apps'[a].level = apps[a].level
               \/ \E level \in Level : set_level(a, level)
            /\ apps[a].name = "given" => \/ apps'[a].name = "given"
                                         \/ Restart /\ disk[a].name # "given"]_vars
  BY <1>1
<1> QED BY <1>2, KeptInit, KeptNext, PTL DEF Spec, PersonsWordStands

\* The person's word on an app stands, as long as nothing is lost on the way to
\* the pairing store.
THEOREM RecordsKept ==
    ASSUME ~WriteFails, ~TornWrite
    PROVE  Spec => RecordsStand
BY TombstonesKept, PersonsWordKept DEF RecordsStand
=============================================================================
