----------------------------- MODULE DaemonProofs -----------------------------
(***************************************************************************)
(* The daemon uses its vault and its engine as they are meant to be used:  *)
(* every step of the daemon is a step of each of them, or leaves it alone, *)
(* so what was proved of the two holds inside the daemon.  The one thing   *)
(* this needs is that the daemon mints only for an open vault, which is    *)
(* GateMatchesVault: it checks the bunker, not the vault.  With the vault's *)
(* promise that nothing is resurrected, who gets into the bunker follows:  *)
(* its live list is only ever filled from the vault.                       *)
(***************************************************************************)
EXTENDS Daemon, PolicyProofs, VaultProofs

\* The verbs and beats that leave the vault alone.
LEMMA VaultUntouched ==
    ASSUME [DaemonNext]_daemonVars,
           ~\E k \in Key : Setup(k),
           ~(Unlock \/ Lock \/ Destroy \/ Rotate \/ Mint \/ BurnBeat \/ DaemonRestart)
    PROVE  UNCHANGED vaultVars /\ armed' = armed
BY DEF DaemonNext, Worker, Plan, PlanConnect, PlanLogout, PlanNoted, PlanAsk, PairBeat, LeaveBeat,
   NoteBeat, DecideBeat, Execute, Revoke, Unrevoke, Delete, Connect, EngineVerb, daemonVars, bunker

\* The gate follows the key through every verb.
LEMMA GateStep == GateMatchesVault /\ [DaemonNext]_daemonVars => GateMatchesVault'
<1> SUFFICES ASSUME GateMatchesVault, [DaemonNext]_daemonVars PROVE GateMatchesVault'
  OBVIOUS
<1>1. ASSUME NEW k \in Key, Setup(k) PROVE GateMatchesVault'
  BY <1>1 DEF Setup, setup, arm_bunker, GateMatchesVault
<1>2. CASE Unlock
  BY <1>2 DEF Unlock, arm_bunker, GateMatchesVault
<1>3. CASE Lock \/ Destroy \/ DaemonRestart
  BY <1>3 DEF Lock, lock, Destroy, destroy, DaemonRestart, vault_restart, teardown_bunker,
     GateMatchesVault
<1>4. CASE Rotate \/ Mint \/ BurnBeat
  BY <1>4 DEF Rotate, rotate_secret, arm_bunker, Mint, mint_secret, BurnBeat, burn_secret, bunker,
     vaultVars, memory, GateMatchesVault
<1>5. CASE UNCHANGED vaultVars /\ armed' = armed
  BY <1>5 DEF vaultVars, memory, GateMatchesVault
<1> QED BY <1>1, <1>2, <1>3, <1>4, <1>5, VaultUntouched

\* The bunker answers with the key the vault holds open, and with no other.
THEOREM GateCorrect == DaemonSpec => []GateMatchesVault
<1>1. DaemonInit => GateMatchesVault
  BY DEF DaemonInit, VaultInit, GateMatchesVault
<1> QED BY <1>1, GateStep, PTL DEF DaemonSpec

-----------------------------------------------------------------------------
(* What the worker carries from one beat to the next.                      *)

Beats == client \in App /\ label \in Name /\ burning \subseteq Secret

\* The worker carries an app, a name and a secret of the vault's.
LEMMA BeatStep == Beats /\ [DaemonNext]_daemonVars => Beats'
<1> SUFFICES ASSUME Beats, [DaemonNext]_daemonVars PROVE Beats'
  OBVIOUS
<1>1. ASSUME NEW a \in App, NEW s \in Secret, PlanConnect(a, s) PROVE Beats'
  BY <1>1 DEF PlanConnect, Carry, Claim, Beats, Name
<1>2. ASSUME NEW a \in App, PlanLogout(a) \/ PlanNoted(a) PROVE Beats'
  BY <1>2 DEF PlanLogout, PlanNoted, Carry, Beats
<1>3. ASSUME NEW ask \in Ask, PlanAsk(ask) PROVE Beats'
  BY <1>3, AskFields DEF PlanAsk, Carry, Beats
<1>4. CASE PairBeat \/ BurnBeat \/ LeaveBeat \/ NoteBeat \/ DecideBeat \/ Execute
  BY <1>4 DEF PairBeat, BurnBeat, LeaveBeat, NoteBeat, DecideBeat, Execute, beats, Beats
<1>5. CASE DaemonRestart
  BY <1>5 DEF DaemonRestart, Beats, Name
<1>6. CASE UNCHANGED beats
  BY <1>6 DEF beats, Beats
<1>7. \/ \E k \in Key : Setup(k)
      \/ Unlock \/ Lock \/ Destroy \/ Rotate \/ Mint
      \/ \E a \in App : Revoke(a) \/ Unrevoke(a) \/ Delete(a) \/ Connect(a)
      \/ EngineVerb
      \/ Tick /\ UNCHANGED <<vaultVars, bunker, beats, spent>>
      \/ UNCHANGED daemonVars
      => UNCHANGED beats
  BY DEF Setup, Unlock, Lock, Destroy, Rotate, Mint, Revoke, Unrevoke, Delete, Connect,
     EngineVerb, daemonVars
<1> QED BY <1>1, <1>2, <1>3, <1>4, <1>5, <1>6, <1>7 DEF DaemonNext, Worker, Plan

\* What the worker carries, always.
LEMMA BeatsHold == DaemonSpec => []Beats
<1>1. DaemonInit => Beats
  BY DEF DaemonInit, Beats, Name
<1> QED BY <1>1, BeatStep, PTL DEF DaemonSpec

-----------------------------------------------------------------------------
(* The daemon as a user of its vault.                                      *)

\* Every step of the daemon is one of the vault's or none.  A mint is: the gate
\* is armed, so the vault is open.
LEMMA VaultStep ==
    ASSUME GateMatchesVault, Beats, [DaemonNext]_daemonVars
    PROVE  [VaultNext]_vaultVars
<1>1. ASSUME NEW k \in Key, Setup(k) PROVE VaultNext
  BY <1>1 DEF Setup, VaultNext
<1>2. CASE Unlock \/ Lock \/ Destroy \/ DaemonRestart
  BY <1>2 DEF Unlock, Lock, Destroy, DaemonRestart, VaultNext
<1>3. CASE Rotate
  BY <1>3 DEF Rotate, VaultNext
<1>4. CASE Mint
  BY <1>4 DEF Mint, is_armed, unlocked, GateMatchesVault, VaultNext
<1>5. CASE BurnBeat
  BY <1>5 DEF BurnBeat, Beats, VaultNext
<1> QED BY <1>1, <1>2, <1>3, <1>4, <1>5, VaultUntouched

\* The daemon uses its vault as the vault is meant to be used.
THEOREM DaemonKeepsVault == DaemonSpec => VaultSpec
<1>1. DaemonInit => VaultInit
  BY DEF DaemonInit
<1> QED BY <1>1, VaultStep, GateCorrect, BeatsHold, PTL DEF DaemonSpec, VaultSpec

-----------------------------------------------------------------------------
(* The live list against the keyring.                                      *)

\* What is being burned has paired, so a burn takes no unused door.
Doors == LiveIsStored /\ \A s \in burning : has_paired(s)

\* A bunker armed against an open vault has the keyring's secrets for its doors.
LEMMA ArmedDoors ==
    ASSUME MemoryMirrorsStore', unlocked', live' = outstanding'
    PROVE  \A s \in live_secrets' : s \in stored'.secrets
BY DEF MemoryMirrorsStore, unlocked, outstanding, live_secrets

\* The vault is open after each verb that arms or mints.
LEMMA OpenAfter ==
    ASSUME IInv, GateMatchesVault,
           (\E k \in Key : Setup(k)) \/ Unlock \/ Rotate \/ Mint
    PROVE  unlocked' /\ live' = outstanding' /\ UNCHANGED <<burning, spent>>
<1>1. CASE (\E k \in Key : Setup(k)) \/ Rotate
  BY <1>1, VaultAssumption DEF Setup, setup, Rotate, rotate_secret, arm_bunker, unlocked, beats
<1>2. CASE Unlock
  <2>1. decodes => stored.key \in Key
    BY DEF IInv, Shape, decodes, exists, NoItem, BLOB_VERSION
  <2>2. unlocked'
    BY <1>2, <2>1, VaultAssumption DEF Unlock, unlock, unlocked, vaultVars, memory
  <2> QED BY <1>2, <2>2 DEF Unlock, arm_bunker, beats
<1>3. CASE Mint
  BY <1>3 DEF Mint, mint_secret, is_armed, unlocked, GateMatchesVault, beats
<1> QED BY <1>1, <1>2, <1>3

\* Every step keeps the unused doors of the bunker among the keyring's.
LEMMA DoorStep ==
    ASSUME IInv, GateMatchesVault, Beats, Doors, [DaemonNext]_daemonVars
    PROVE  Doors'
<1>0. IInv' /\ MemoryMirrorsStore'
  BY VaultStep, StepInv DEF IInv
<1>1. CASE (\E k \in Key : Setup(k)) \/ Unlock \/ Rotate \/ Mint
  <2>1. unlocked' /\ live' = outstanding' /\ UNCHANGED <<burning, spent>>
    BY <1>1, OpenAfter
  <2> QED BY <1>0, <2>1, ArmedDoors DEF Doors, LiveIsStored, has_paired
<1>2. CASE Lock \/ Destroy
  BY <1>2 DEF Lock, Destroy, teardown_bunker, beats, Doors, LiveIsStored, live_secrets, has_paired
<1>3. CASE DaemonRestart
  BY <1>3 DEF DaemonRestart, teardown_bunker, Doors, LiveIsStored, live_secrets, has_paired
<1>4. ASSUME NEW a \in App, NEW s \in Secret, PlanConnect(a, s) PROVE Doors'
  <2>1. live' \subseteq live /\ spent \subseteq spent' /\ stored' = stored
    BY <1>4 DEF PlanConnect, burned, vaultVars
  <2>2. \A x \in burning' : \E b \in App : <<x, b>> \in spent'
    BY <1>4 DEF PlanConnect
  <2> QED BY <2>1, <2>2 DEF Doors, LiveIsStored, live_secrets, has_paired
<1>5. CASE BurnBeat
  <2>1. /\ UNCHANGED <<live, spent>> /\ burning' = {}
        /\ \A x \in stored.secrets : x \in stored'.secrets \/ x \in burning
    <3>1. ASSUME NEW x \in burning, burn_secret(x)
          PROVE  stored.secrets \ {x} \subseteq stored'.secrets
      BY <3>1, BurnStores DEF burn_secret, Holds, IInv
    <3>2. KeyringRefuses /\ UNCHANGED vaultVars => stored' = stored
      BY DEF vaultVars
    <3> QED BY <1>5, <3>1, <3>2 DEF BurnBeat, bunker
  <2> QED BY <2>1 DEF Doors, LiveIsStored, live_secrets, has_paired
<1>6. ASSUME NEW a \in App, PlanLogout(a) \/ PlanNoted(a) \/ Revoke(a) \/ Unrevoke(a) \/ Delete(a) \/ Connect(a)
      PROVE  UNCHANGED <<stored, live, burning, spent>>
  BY <1>6 DEF PlanLogout, PlanNoted, Revoke, Unrevoke, Delete, Connect, vaultVars, bunker, beats
<1>7. ASSUME NEW ask \in Ask, PlanAsk(ask)
      PROVE  UNCHANGED <<stored, live, burning, spent>>
  BY <1>7 DEF PlanAsk, vaultVars, bunker
<1>8. PairBeat \/ LeaveBeat \/ NoteBeat \/ DecideBeat \/ Execute \/ EngineVerb
      \/ (Tick /\ UNCHANGED <<vaultVars, bunker, beats, spent>>) \/ UNCHANGED daemonVars
      => UNCHANGED <<stored, live, burning, spent>>
  BY DEF PairBeat, LeaveBeat, NoteBeat, DecideBeat, Execute, EngineVerb, vaultVars, bunker, beats,
     daemonVars
<1>9. CASE UNCHANGED <<stored, live, burning, spent>>
  BY <1>9 DEF Doors, LiveIsStored, live_secrets, has_paired
<1> QED BY <1>1, <1>2, <1>3, <1>4, <1>5, <1>6, <1>7, <1>8, <1>9 DEF DaemonNext, Worker, Plan

\* A secret no app has used pairs only while the keyring still holds it: the
\* bunker's list and the vault's lose it in one step.
THEOREM LiveStored == DaemonSpec => []LiveIsStored
<1>1. DaemonInit => Doors
  BY DEF DaemonInit, Doors, LiveIsStored, live_secrets
<1>2. Doors => LiveIsStored
  BY DEF Doors
<1>3. DaemonSpec => []IInv
  BY DaemonKeepsVault, Invariance, PTL
<1> QED BY <1>1, <1>2, <1>3, DoorStep, GateCorrect, BeatsHold, PTL DEF DaemonSpec

\* The bunker and its vault agree on the key and on the doors.
THEOREM GateKept == DaemonSpec => []GateKeepsVault
<1>1. GateMatchesVault /\ LiveIsStored => GateKeepsVault
  BY DEF GateKeepsVault
<1> QED BY <1>1, GateCorrect, LiveStored, PTL

-----------------------------------------------------------------------------
(* The daemon as a user of its engine.                                     *)

\* Every step of the daemon is one of the engine's or none.
LEMMA EngineStep ==
    ASSUME Beats, [DaemonNext]_daemonVars
    PROVE  [Next]_vars
<1>0. worker \in Caller
  BY DaemonAssumption
<1>1. ASSUME NEW a \in App, Revoke(a) \/ Unrevoke(a) \/ Delete(a) PROVE Next
  <2>1. Verb(a)
    BY <1>1 DEF Revoke, Unrevoke, Delete, Verb
  <2> QED BY <2>1 DEF Next
<1>2. ASSUME NEW a \in App, Connect(a) PROVE Next
  <2>1. Verb(a)
    BY <1>2 DEF Connect, Claim, Name, Verb
  <2> QED BY <2>1 DEF Next
<1>3. CASE PairBeat \/ LeaveBeat \/ NoteBeat
  <2>1. Verb(client)
    BY <1>3 DEF PairBeat, LeaveBeat, NoteBeat, Beats, Verb
  <2> QED BY <2>1 DEF Next, Beats
<1>4. CASE EngineVerb
  <2>1. ASSUME NEW a \in App, (\E level \in Level : set_level(a, level)) \/ rename(a) PROVE Next
    <3>1. Verb(a)
      BY <2>1 DEF Verb
    <3> QED BY <3>1 DEF Next
  <2> QED BY <1>4, <2>1 DEF EngineVerb, Next
<1>5. ASSUME NEW ask \in Ask, PlanAsk(ask) PROVE Next
  BY <1>0, <1>5 DEF PlanAsk, Next
<1>6. CASE DecideBeat
  BY <1>0, <1>6 DEF DecideBeat, Next
<1>7. CASE DaemonRestart \/ (Tick /\ UNCHANGED <<vaultVars, bunker, beats, spent>>)
  BY <1>7 DEF DaemonRestart, Next
<1>8. ASSUME NEW a \in App, (\E s \in Secret : PlanConnect(a, s)) \/ PlanLogout(a) \/ PlanNoted(a)
      PROVE  UNCHANGED vars
  BY <1>8 DEF PlanConnect, PlanLogout, PlanNoted
<1>9. CASE \/ BurnBeat \/ Execute \/ \E k \in Key : Setup(k)
           \/ Unlock \/ Lock \/ Destroy \/ Rotate \/ Mint \/ UNCHANGED daemonVars
  BY <1>9 DEF BurnBeat, Execute, Setup, Unlock, Lock, Destroy, Rotate, Mint, daemonVars
<1> QED BY <1>1, <1>2, <1>3, <1>4, <1>5, <1>6, <1>7, <1>8, <1>9 DEF DaemonNext, Worker, Plan

\* The daemon uses its engine as the engine is meant to be used.
THEOREM DaemonKeepsEngine == DaemonSpec => Spec
<1>1. DaemonInit => Init
  BY DEF DaemonInit
<1> QED BY <1>1, EngineStep, BeatsHold, PTL DEF DaemonSpec, Spec

-----------------------------------------------------------------------------
(* What was proved of the two, of the daemon.                              *)

\* In the daemon, while a bunker answers, the vault's memory is what the keyring
\* holds; the stored key changes only by setup and destroy; and a secret that
\* stopped pairing stays stopped in the vault.
THEOREM DaemonVaultCorrect ==
    DaemonSpec => []MemoryMirrorsStore /\ KeepsIdentity /\ NoResurrection
BY DaemonKeepsVault, MirrorCorrect, IdentityKept, NothingResurrected, PTL

\* In the daemon, every wait has its card and every allowed answer was earned.
THEOREM DaemonEngineCorrect ==
    DaemonSpec => []WaiterHasCard /\ []OneCardPerAsk /\ GrantIsEarned
BY DaemonKeepsEngine, WaitersServed, OneCard, GrantsEarned, PTL

-----------------------------------------------------------------------------
(* Who gets in.                                                            *)

DaemonInv == IInv /\ GateMatchesVault /\ Doors /\ DaemonTypeOK

\* What a step leaves of the live side: a verb that arms starts over from the
\* records and the secrets, one that tears down leaves nothing, the rest admit
\* one app at most.
LEMMA LiveSteps ==
    ASSUME DaemonInv, [DaemonNext]_daemonVars
    PROVE  \/ /\ unlocked' /\ live' = outstanding'
              /\ \/ sessions' = good_standing /\ tombs' = {} /\ armed' \in Key
                 \/ UNCHANGED <<sessions, tombs, armed>>
              /\ UNCHANGED <<beats, spent>>
           \/ armed' = NoKey /\ sessions' = {} /\ tombs' = {} /\ live' = {} /\ spent' = spent
           \/ /\ live' = live /\ armed' = armed /\ spent' = spent /\ sessions' \subseteq sessions
              /\ \/ tombs' \subseteq tombs
                 \/ \E a \in App : tombs' = tombs \cup {a}
           \/ \E a \in App : /\ Connect(a) /\ sessions' = sessions \cup {a}
                             /\ UNCHANGED <<live, tombs, armed, beats, spent>>
           \/ \E a \in App, s \in Secret : /\ door(a, s) /\ sessions' = sessions \cup {a}
                                           /\ burned(s) /\ spent' = spent \cup {<<s, a>>}
                                           /\ tombs' = tombs /\ armed' = armed
<1>1. CASE (\E k \in Key : Setup(k)) \/ Unlock \/ Rotate \/ Mint
  <2>1. unlocked' /\ live' = outstanding'
    BY <1>1, OpenAfter DEF DaemonInv
  <2>2. armed' = key'
    BY GateStep DEF DaemonInv, GateMatchesVault
  <2>3. key' \in Key \cup {NoKey}
    <3>1. IInv'
      BY VaultStep, StepInv DEF DaemonInv, DaemonTypeOK, Beats
    <3> QED BY <3>1 DEF IInv, VaultTypeOK
  <2>4. armed' \in Key
    BY <2>1, <2>2, <2>3 DEF unlocked
  <2> QED BY <1>1, <2>1, <2>4 DEF Setup, Unlock, Rotate, Mint, arm_bunker
<1>2. CASE Lock \/ Destroy \/ DaemonRestart
  BY <1>2 DEF Lock, Destroy, DaemonRestart, teardown_bunker
<1>3. ASSUME NEW a \in App, Revoke(a) \/ Unrevoke(a) \/ Delete(a)
      PROVE  /\ live' = live /\ armed' = armed /\ spent' = spent /\ sessions' \subseteq sessions
             /\ tombs' \subseteq tombs \/ tombs' = tombs \cup {a}
  BY <1>3 DEF Revoke, Unrevoke, Delete, evict
<1>4. ASSUME NEW a \in App, Connect(a)
      PROVE  sessions' = sessions \cup {a} /\ UNCHANGED <<live, tombs, armed, beats, spent>>
  BY <1>4 DEF Connect
<1>5. ASSUME NEW a \in App, NEW s \in Secret, PlanConnect(a, s)
      PROVE  \/ UNCHANGED <<live, sessions, tombs, armed, spent>>
             \/ /\ door(a, s) /\ sessions' = sessions \cup {a}
                /\ burned(s) /\ spent' = spent \cup {<<s, a>>}
                /\ tombs' = tombs /\ armed' = armed
  BY <1>5 DEF PlanConnect
<1>6. ASSUME NEW a \in App, PlanLogout(a) \/ PlanNoted(a)
      PROVE  UNCHANGED <<live, tombs, armed, spent>> /\ sessions' \subseteq sessions
  BY <1>6 DEF PlanLogout, PlanNoted, evict, bunker
<1>7. ASSUME NEW ask \in Ask, PlanAsk(ask) PROVE UNCHANGED <<live, sessions, tombs, armed, spent>>
  BY <1>7 DEF PlanAsk, bunker
<1>8. PairBeat \/ BurnBeat \/ LeaveBeat \/ NoteBeat \/ DecideBeat \/ Execute \/ EngineVerb
      \/ (Tick /\ UNCHANGED <<vaultVars, bunker, beats, spent>>) \/ UNCHANGED daemonVars
      => UNCHANGED <<live, sessions, tombs, armed, spent>>
  BY DEF PairBeat, BurnBeat, LeaveBeat, NoteBeat, DecideBeat, Execute, EngineVerb, bunker,
     daemonVars
<1> QED BY <1>1, <1>2, <1>3, <1>4, <1>5, <1>6, <1>7, <1>8 DEF DaemonNext, Worker, Plan

\* Only a pairing carries a burn.
LEMMA BurnStep ==
    ASSUME DaemonTypeOK, [DaemonNext]_daemonVars
    PROVE  beat' \in Beat /\ (beat' \notin {"pair", "burn"} => burning' = {})
<1>0. beat \in Beat /\ (beat \notin {"pair", "burn"} => burning = {})
  BY DEF DaemonTypeOK
<1>1. ASSUME NEW a \in App, (\E s \in Secret : PlanConnect(a, s)) \/ PlanLogout(a) \/ PlanNoted(a)
      PROVE  beat' \in Beat /\ (beat' \notin {"pair", "burn"} => burning' = {})
  BY <1>0, <1>1 DEF PlanConnect, PlanLogout, PlanNoted, Carry, Beat
<1>2. ASSUME NEW ask \in Ask, PlanAsk(ask)
      PROVE  beat' \in Beat /\ (beat' \notin {"pair", "burn"} => burning' = {})
  BY <1>0, <1>2 DEF PlanAsk, Carry, Beat
<1>3. CASE PairBeat \/ BurnBeat \/ LeaveBeat \/ NoteBeat \/ Execute \/ DaemonRestart
  BY <1>0, <1>3 DEF PairBeat, BurnBeat, LeaveBeat, NoteBeat, Execute, DaemonRestart, Beat
<1>4. \/ DecideBeat \/ EngineVerb \/ UNCHANGED daemonVars
      \/ (\E k \in Key : Setup(k)) \/ Unlock \/ Lock \/ Destroy \/ Rotate \/ Mint
      \/ \E a \in App : Revoke(a) \/ Unrevoke(a) \/ Delete(a) \/ Connect(a)
      \/ Tick /\ UNCHANGED <<vaultVars, bunker, beats, spent>>
      => UNCHANGED <<beat, burning>>
  BY DEF DecideBeat, EngineVerb, Setup, Unlock, Lock, Destroy, Rotate, Mint, Revoke, Unrevoke,
     Delete, Connect, beats, daemonVars
<1> QED BY <1>0, <1>1, <1>2, <1>3, <1>4 DEF DaemonNext, Worker, Plan

\* Every step keeps the bunker, its vault and the worker in their ranges.
LEMMA DaemonStep == DaemonInv /\ [DaemonNext]_daemonVars => DaemonInv'
<1> SUFFICES ASSUME DaemonInv, [DaemonNext]_daemonVars PROVE DaemonInv'
  OBVIOUS
<1>1. Beats
  BY DEF DaemonInv, DaemonTypeOK, Beats
<1>2. IInv' /\ GateMatchesVault' /\ Beats'
  BY <1>1, VaultStep, StepInv, GateStep, BeatStep DEF DaemonInv
<1>3. Doors'
  BY <1>1, DoorStep DEF DaemonInv
<1>4. outstanding' \subseteq Outstanding
  <2>1. secrets' \subseteq Secret
    BY <1>2 DEF IInv, VaultTypeOK
  <2>2. \A s \in secrets' : [secret |-> s, named |-> s \in labels'] \in Outstanding
    <3> TAKE s \in secrets'
    <3>1. s \in Secret /\ (s \in labels') \in BOOLEAN
      BY <2>1
    <3> QED BY <3>1 DEF Outstanding
  <2> QED BY <2>2 DEF outstanding
<1>5. sessions' \subseteq App /\ tombs' \subseteq App /\ live' \subseteq Outstanding
      /\ spent' \subseteq Secret \X App
  <2>1. sessions \subseteq App /\ tombs \subseteq App /\ live \subseteq Outstanding
        /\ spent \subseteq Secret \X App /\ good_standing \subseteq App
    BY DEF DaemonInv, DaemonTypeOK, good_standing
  <2> QED BY <1>4, <2>1, LiveSteps DEF burned
<1>6. armed' \in Key \cup {NoKey}
  BY <1>2 DEF IInv, VaultTypeOK, GateMatchesVault
<1>7. beat' \in Beat /\ (beat' \notin {"pair", "burn"} => burning' = {})
  BY BurnStep DEF DaemonInv
<1> QED BY <1>2, <1>3, <1>5, <1>6, <1>7 DEF DaemonInv, DaemonTypeOK, Beats

LEMMA DaemonHolds == DaemonSpec => []DaemonInv
<1>1. DaemonInit => DaemonInv
  <2> SUFFICES ASSUME DaemonInit PROVE DaemonInv
    OBVIOUS
  <2>1. IInv /\ GateMatchesVault
    BY InitInv DEF DaemonInit, VaultInit, GateMatchesVault
  <2>2. Doors
    BY DEF DaemonInit, Doors, LiveIsStored, live_secrets
  <2>3. DaemonTypeOK
    BY DEF DaemonInit, DaemonTypeOK, Beat, Name
  <2> QED BY <2>1, <2>2, <2>3 DEF DaemonInv
<1> QED BY <1>1, DaemonStep, PTL DEF DaemonSpec

\* The daemon's state stays in its ranges; no beat but a pairing's carries a
\* secret to burn.
THEOREM DaemonTypeHolds == DaemonSpec => []DaemonTypeOK
<1>1. DaemonInv => DaemonTypeOK
  BY DEF DaemonInv
<1> QED BY <1>1, DaemonHolds, PTL

\* A session opens through the bond on record, the person's paste, or a secret
\* that leaves the live list in the same step.
THEOREM SessionsThroughDoors == DaemonSpec => SessionsUseDoors
<1>1. ASSUME DaemonInv, [DaemonNext]_daemonVars, NEW a \in sessions' \ sessions
      PROVE  \/ a \in good_standing /\ live' = outstanding' /\ UNCHANGED beats
             \/ Connect(a)
             \/ \E s \in live_secrets : spent' = spent \cup {<<s, a>>} /\ s \notin live_secrets'
  <2>1. ASSUME NEW s \in Secret, door(a, s), burned(s)
        PROVE  s \in live_secrets /\ s \notin live_secrets'
    BY <2>1 DEF door, burned, live_secrets
  <2> QED BY <1>1, <2>1, LiveSteps
<1>2. DaemonInv /\ [DaemonNext]_daemonVars =>
        [\A a \in sessions' \ sessions :
            \/ a \in good_standing /\ live' = outstanding' /\ UNCHANGED beats
            \/ Connect(a)
            \/ \E s \in live_secrets : spent' = spent \cup {<<s, a>>}
                                     /\ s \notin live_secrets']_daemonVars
  BY <1>1
<1> QED BY <1>2, DaemonHolds, PTL DEF DaemonSpec, SessionsUseDoors

\* A tombstone that stays keeps its app out of the bunker it is in.
THEOREM MarkedAreOut == DaemonSpec => MarkedStayOut
<1>1. ASSUME DaemonInv, [DaemonNext]_daemonVars, NEW a \in tombs \cap tombs',
             a \in sessions' \ sessions
      PROVE  Connect(a)
  BY <1>1, LiveSteps DEF door
<1>2. DaemonInv /\ [DaemonNext]_daemonVars =>
        [\A a \in tombs \cap tombs' : a \in sessions' \ sessions => Connect(a)]_daemonVars
  BY <1>1
<1> QED BY <1>2, DaemonHolds, PTL DEF DaemonSpec, MarkedStayOut

\* A secret gone from the live list and from the vault stays gone: a re-arm
\* reads the vault, which resurrects none.
THEOREM BurnedStayGone == DaemonSpec => BurnedIsGone
<1>1. ASSUME DaemonInv, [DaemonNext]_daemonVars,
             NEW s \in 1 .. minted, s \notin live_secrets, s \notin doors
      PROVE  s \notin live_secrets'
  <2>1. s \notin doors'
    <3>1. s # fresh
      BY <1>1 DEF DaemonInv, IInv, VaultTypeOK, fresh
    <3>2. [VaultNext]_vaultVars
      BY <1>1, VaultStep DEF DaemonInv, DaemonTypeOK, Beats
    <3> QED BY <1>1, <3>1, <3>2, StepDoors DEF DaemonInv
  <2>2. CASE unlocked' /\ live' = outstanding'
    BY <2>1, <2>2 DEF doors, unlocked, outstanding, live_secrets
  <2>3. CASE live' \subseteq live
    BY <1>1, <2>3 DEF live_secrets
  <2>4. \A x \in Secret : burned(x) => live' \subseteq live
    BY DEF burned
  <2> QED BY <1>1, <2>2, <2>3, <2>4, LiveSteps
<1>2. DaemonInv /\ [DaemonNext]_daemonVars =>
        [\A s \in 1 .. minted : s \notin live_secrets /\ s \notin doors =>
            s \notin live_secrets']_daemonVars
  BY <1>1
<1> QED BY <1>2, DaemonHolds, PTL DEF DaemonSpec, BurnedIsGone

\* Who gets in: through a door, past no tombstone the bunker holds, and a door
\* that closed stays closed.
THEOREM DoorsAreHeld == DaemonSpec => DoorsHold
BY SessionsThroughDoors, MarkedAreOut, BurnedStayGone DEF DoorsHold
=============================================================================
