------------------------------ MODULE DaemonMC ------------------------------
(***************************************************************************)
(* Small instances of Daemon for TLC.                                      *)
(***************************************************************************)
EXTENDS Daemon, TLC

CONSTANTS a1, a2

SensitiveAsks == {[app |-> a, method |-> "sign_event", kind |-> 0] : a \in App}

\* The names and the levels of the records, and the version of a blob before
\* it was first opened, are the other modules' business; an app is trusted at
\* most while the worker carries its ask, so that some request is allowed.
RecordFocus == \A a \in App :
    /\ apps[a].name = "none" /\ apps[a].level # "basic"
    /\ apps[a].level = "trust" => beat = "decide" /\ client = a
FreshVault == stored.v \in {0, 4} /\ stored.labels = {}
DaemonFocus == RecordFocus /\ FreshVault

\* What the pairing properties can tell apart: the request and the client of a
\* beat that is over are forgotten.
PairingView ==
    <<apps, disk, remembered, prompts, poisoned, now, pc, card,
      IF pc[worker] \in {"idle", "allowed", "denied"} THEN {} ELSE {asking},
      vaultVars, bunker, beat, burning, spent,
      IF beat = "recv" THEN {} ELSE {client, label}>>

AppSymmetry == Permutations({a1, a2})
=============================================================================
