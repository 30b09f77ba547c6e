------------------------------- MODULE Daemon -------------------------------
(***************************************************************************)
(* The signing daemon (src/src/nostr/protocol.rs, bunker.rs, and the worker *)
(* in src/src/nostrd.rs) over its vault and its policy engine.  Three kinds *)
(* of threads meet here: the socket verbs and the inactivity watchdog, each *)
(* one critical section of the daemon's mutex, and the worker, which takes  *)
(* relay-delivered requests one by one and takes and releases that mutex    *)
(* several times for each: it plans under the lock, lets the engine decide  *)
(* with the lock free, executes under it again.  The engine has a lock of   *)
(* its own, so a verb may run between any two beats of the worker.          *)
(*                                                                          *)
(* The bunker exists only while armed.  Relays are not modelled here: any   *)
(* app may have any request delivered at any time.                          *)
(***************************************************************************)
EXTENDS Policy, Vault

CONSTANTS worker       \* the worker thread, the engine's one caller

ASSUME DaemonAssumption == Caller = {worker}

VARIABLES
    armed,       \* the armed bunker's key, or NoKey when there is no bunker
    sessions,    \* Bunker.sessions
    tombs,       \* Bunker.revoked
    live,        \* Bunker.expected_secrets
    beat,        \* what the worker does next
    client,      \* the app of the request it carries
    label,       \* the name the pairing it carries brings
    burning,     \* the secret that pairing used up: none, or one
    spent        \* history: the secrets that paired an app, and their apps

bunker == <<armed, sessions, tombs, live>>
beats == <<beat, client, label, burning>>
daemonVars == <<vars, vaultVars, bunker, beats, spent>>

Beat == {"recv", "pair", "burn", "leave", "note", "decide"}
is_armed == armed # NoKey
live_secrets == {o.secret : o \in live}

-----------------------------------------------------------------------------
(* Arming and disarming.                                                   *)

good_standing == {a \in App : apps[a].paired /\ ~apps[a].revoked}

\* A fresh bunker on the vault's key and secrets, seeded from the engine's
\* records.  The tombstone marks go to self.bunker, which teardown just emptied:
\* the new bunker starts without any.
arm_bunker(k) ==
    /\ ~poisoned
    /\ armed' = k /\ sessions' = good_standing /\ tombs' = {}
    /\ live' = outstanding'

teardown_bunker == armed' = NoKey /\ sessions' = {} /\ tombs' = {} /\ live' = {}

DaemonInit ==
    /\ Init /\ VaultInit
    /\ armed = NoKey /\ sessions = {} /\ tombs = {} /\ live = {}
    /\ beat = "recv" /\ client \in App /\ label = "none" /\ burning = {}
    /\ spent = {}

-----------------------------------------------------------------------------
(* The vault's verbs.                                                      *)

Setup(k) == /\ setup(k) /\ arm_bunker(k)
            /\ UNCHANGED <<vars, beats, spent>>

\* Also startup_unlock, which the process runs before it serves.
Unlock == /\ unlock /\ arm_bunker(key')
          /\ UNCHANGED <<vars, beats, spent>>

Lock_key_first == lock /\ UNCHANGED <<vars, bunker, beats, spent>>       \* mutant
\* The verb, and the watchdog's lock_switch when the window has passed.
Lock == /\ teardown_bunker /\ lock
        /\ UNCHANGED <<vars, beats, spent>>

Destroy == /\ teardown_bunker /\ destroy
           /\ UNCHANGED <<vars, beats, spent>>

Rotate == /\ unlocked /\ rotate_secret /\ arm_bunker(key)
          /\ UNCHANGED <<vars, beats, spent>>

Mint == /\ is_armed
        /\ \E labelled \in BOOLEAN : mint_secret(labelled)
        /\ live' = outstanding'
        /\ UNCHANGED <<vars, armed, sessions, tombs, beats, spent>>

-----------------------------------------------------------------------------
(* The pairing verbs: the engine's record first, then the live side.       *)

Claim == {"none", "claimed"}      \* the name an app sends, or sends none
evict(a) == sessions' = sessions \ {a}

Revoke(a) == /\ revoke(a)
             /\ IF is_armed THEN tombs' = tombs \cup {a} /\ evict(a)
                            ELSE UNCHANGED <<tombs, sessions>>
             /\ UNCHANGED <<vaultVars, armed, live, beats, spent>>

Unrevoke(a) == /\ unrevoke(a)
               /\ tombs' = tombs \ {a}
               /\ UNCHANGED <<vaultVars, armed, sessions, live, beats, spent>>

\* Only a record that was there takes the session with it.
Delete(a) == /\ delete(a)
             /\ IF apps[a].paired THEN evict(a) ELSE UNCHANGED sessions
             /\ UNCHANGED <<vaultVars, armed, tombs, live, beats, spent>>

\* The person pastes the app's own nostrconnect:// URI.
Connect(a) == /\ is_armed
              /\ sessions' = sessions \cup {a}
              /\ \E name \in Claim : pair_with_metadata(a, name)
              /\ UNCHANGED <<vaultVars, armed, tombs, live, beats, spent>>

\* The verbs that are the engine's alone.
EngineVerb == /\ \/ \E a \in App, level \in Level : set_level(a, level)
                 \/ \E a \in App : rename(a)
                 \/ \E p \in prompts : View(p)
                 \/ Approve \/ Deny
              /\ UNCHANGED <<vaultVars, bunker, beats, spent>>

-----------------------------------------------------------------------------
(* The worker.                                                             *)

Carry(next, a) == beat' = next /\ client' = a

\* Plan: a connect.  A tombstone refuses it; a session needs no secret; a live
\* secret opens one and leaves the live list; anything else is refused (a
\* refusal changes nothing).
door(a, s) == a \notin tombs /\ a \notin sessions /\ s \in live_secrets

burned_kept(s) == live' = live       \* mutant: the live list keeps the secret
burned(s) == live' = {o \in live : o.secret # s}

PlanConnect(a, s) ==
    /\ beat = "recv" /\ is_armed
    /\ \/ /\ a \in sessions /\ a \notin tombs
          /\ label' \in Claim /\ burning' = {}
          /\ UNCHANGED <<sessions, live, spent>>
       \/ /\ door(a, s)
          /\ sessions' = sessions \cup {a}
          /\ burned(s)
          /\ burning' = {s}
          /\ label' \in IF [secret |-> s, named |-> TRUE] \in live
                        THEN {"given"} ELSE Claim
          /\ spent' = spent \cup {<<s, a>>}
    /\ Carry("pair", a)
    /\ UNCHANGED <<vars, vaultVars, armed, tombs>>

\* Plan: a goodbye ends the session now; its record goes in the next beat.
PlanLogout(a) ==
    /\ beat = "recv" /\ is_armed
    /\ evict(a)
    /\ IF a \in sessions THEN Carry("leave", a) ELSE UNCHANGED <<beat, client>>
    /\ UNCHANGED <<vars, vaultVars, armed, tombs, live, label, burning, spent>>

\* Plan: switch_relays from a paired app is served and noted; any request over
\* its sender's rate is shed and noted.
PlanNoted(a) ==
    /\ beat = "recv" /\ is_armed
    /\ Carry("note", a)
    /\ UNCHANGED <<vars, vaultVars, bunker, label, burning, spent>>

\* Plan: anything else from a paired app is for the gate.
PlanAsk(ask) ==
    /\ beat = "recv" /\ is_armed /\ ask.app \in sessions
    /\ Begin(worker, ask)
    /\ Carry("decide", ask.app)
    /\ UNCHANGED <<vaultVars, bunker, label, burning, spent>>

Plan == \/ \E a \in App : \/ \E s \in Secret : PlanConnect(a, s)
                          \/ PlanLogout(a) \/ PlanNoted(a)
        \/ \E ask \in Ask : PlanAsk(ask)

\* The record of a pairing, with no daemon lock held.
PairBeat == /\ beat = "pair"
            /\ pair_with_metadata(client, label)
            /\ beat' = IF burning = {} THEN "recv" ELSE "burn"
            /\ UNCHANGED <<vaultVars, bunker, client, label, burning, spent>>

BurnBeat_forgets ==       \* mutant: the next pairing burns again
    /\ beat = "burn" /\ beat' = "recv"
    /\ \E s \in burning : burn_secret(s)
    /\ UNCHANGED <<vars, bunker, client, label, burning, spent>>
\* The stored copy of the secret; a keyring that refuses is reported and left.
BurnBeat == /\ beat = "burn" /\ beat' = "recv" /\ burning' = {}
            /\ \/ \E s \in burning : burn_secret(s)
               \/ KeyringRefuses /\ UNCHANGED vaultVars
            /\ UNCHANGED <<vars, bunker, client, label, spent>>

LeaveBeat == /\ beat = "leave" /\ beat' = "recv"
             /\ delete(client)
             /\ UNCHANGED <<vaultVars, bunker, client, label, burning, spent>>

NoteBeat == /\ beat = "note" /\ beat' = "recv"
            /\ noted(client)
            /\ UNCHANGED <<vaultVars, bunker, client, label, burning, spent>>

DecideBeat == /\ beat = "decide" /\ Decide(worker)
              /\ UNCHANGED <<vaultVars, bunker, beats, spent>>

\* Execute under the lock: a bunker that went away answers nothing, any other
\* runs the method the engine allowed.
Execute == /\ beat = "decide" /\ pc[worker] \in {"allowed", "denied"}
           /\ beat' = "recv"
           /\ UNCHANGED <<vars, vaultVars, bunker, client, label, burning, spent>>

-----------------------------------------------------------------------------
\* The process dies; the next one reads the files and starts locked, until
\* startup_unlock succeeds.
DaemonRestart == /\ Restart /\ vault_restart /\ teardown_bunker
                 /\ beat' = "recv" /\ burning' = {} /\ label' = "none"
                 /\ UNCHANGED <<client, spent>>

Worker == Plan \/ PairBeat \/ BurnBeat \/ LeaveBeat \/ NoteBeat \/ DecideBeat
          \/ Execute

DaemonNext ==
    \/ Worker
    \/ \E k \in Key : Setup(k)
    \/ Unlock \/ Lock \/ Destroy \/ Rotate \/ Mint
    \/ \E a \in App : Revoke(a) \/ Unrevoke(a) \/ Delete(a) \/ Connect(a)
    \/ EngineVerb
    \/ Tick /\ UNCHANGED <<vaultVars, bunker, beats, spent>>
    \/ DaemonRestart

DaemonSpec == DaemonInit /\ [][DaemonNext]_daemonVars

\* The worker thread runs and the clock advances; nothing obliges the person.
BeatGoesOn == PairBeat \/ BurnBeat \/ LeaveBeat \/ NoteBeat \/ DecideBeat \/ Execute
ClockGoesOn == Tick /\ UNCHANGED <<vaultVars, bunker, beats, spent>>
DaemonFairSpec ==
    DaemonSpec /\ WF_daemonVars(BeatGoesOn) /\ WF_daemonVars(ClockGoesOn)

-----------------------------------------------------------------------------
(* Properties.                                                             *)

\* The ranges of the variables the daemon adds; only a pairing carries a burn.
DaemonTypeOK ==
    /\ armed \in Key \cup {NoKey}
    /\ sessions \subseteq App /\ tombs \subseteq App /\ live \subseteq Outstanding
    /\ beat \in Beat /\ client \in App /\ label \in Name
    /\ burning \subseteq Secret /\ (beat \notin {"pair", "burn"} => burning = {})
    /\ spent \subseteq Secret \X App

\* The bunker answers with the key the vault holds open and with no other, and
\* an open vault has its bunker: a lock, a destroy that the keyring refuses, a
\* second setup or a rotation leaves no moment where the two part.
GateMatchesVault == armed = key

has_paired(s) == \E a \in App : <<s, a>> \in spent

\* A secret no app has used pairs only while the keyring still holds it: a
\* rotation or a destroy closes a door for the bunker and the vault at once.
LiveIsStored == \A s \in live_secrets : s \in stored.secrets \/ has_paired(s)

\* The bunker and the vault it stands on agree, on the key and on the doors.
GateKeepsVault == GateMatchesVault /\ LiveIsStored

\* A session opens through the bond on record when arming, the person's paste,
\* or a secret that leaves the live list in the same step.
SessionsUseDoors ==
    [][\A a \in sessions' \ sessions :
          \/ a \in good_standing /\ live' = outstanding' /\ UNCHANGED beats
          \/ Connect(a)
          \/ \E s \in live_secrets : spent' = spent \cup {<<s, a>>}
                                   /\ s \notin live_secrets']_daemonVars

\* While one bunker stays armed, a tombstone it holds keeps the app out; only
\* the person's own paste goes past it.
MarkedStayOut ==
    [][\A a \in tombs \cap tombs' :
          a \in sessions' \ sessions => Connect(a)]_daemonVars

\* A secret gone from the live list and from the vault never pairs again.
BurnedIsGone ==
    [][\A s \in 1 .. minted : s \notin live_secrets /\ s \notin doors =>
          s \notin live_secrets']_daemonVars

\* Who gets in: through a door, past no tombstone the bunker holds, and a door
\* that closed stays closed.
DoorsHold == SessionsUseDoors /\ MarkedStayOut /\ BurnedIsGone

\* Every request the worker took is finished, whatever the person, the lock
\* verb or the keyring does meanwhile, as long as its thread lives (and the
\* bounds of the model leave room for the ask).
out_of_bounds == pc[worker] = "asking"
                 /\ (now + PromptTtl > MaxNow \/ nextId >= MaxPrompt)
WorkerReturns ==
    beat # "recv" ~> (beat = "recv" \/ pc[worker] = "panicked" \/ out_of_bounds)

-----------------------------------------------------------------------------
(* What the documents and comments say, and the steps above do not keep.   *)

\* concepts.md: a second connect with the same secret is refused.
OneTimeSecret == \A p, q \in spent : p[1] = q[1] => p = q

\* concepts.md: a revoked app's connect is refused whatever it carries, and the
\* tombstone survives restarts.
TombstoneRefuses ==
    [][\A a \in App : apps[a].revoked /\ a \in sessions' \ sessions => Connect(a)]_daemonVars

\* bunker.rs: the connect that burns a secret pairs under its label, and the
\* app walking through the door does not get to rename it.
GivenNameStands ==
    [][\A a \in App : apps[a].paired /\ apps'[a].paired /\ apps[a].name = "given" =>
          apps'[a].name = "given"]_daemonVars
=============================================================================
