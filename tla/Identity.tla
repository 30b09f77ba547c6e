------------------------------ MODULE Identity ------------------------------
(***************************************************************************)
(* What the signer's vault promises of its key, whatever the storage does: *)
(* there is one identity or none, the gate opens on that identity alone,   *)
(* and another takes its place only after it was erased.  Nothing outside  *)
(* the owner's hand replaces or erases it.                                 *)
(***************************************************************************)
CONSTANTS Key, NoKey

VARIABLES identity, gate    \* the key on record, the key in use

vars == <<identity, gate>>

Init == identity \in Key \cup {NoKey} /\ gate = NoKey

Provision(k) == identity = NoKey /\ identity' = k /\ gate' = k
Open == identity # NoKey /\ gate' = identity /\ UNCHANGED identity
Close == gate' = NoKey /\ UNCHANGED identity
Erase == identity' = NoKey /\ gate' = NoKey

Next == (\E k \in Key : Provision(k)) \/ Open \/ Close \/ Erase

Spec == Init /\ [][Next]_vars
=============================================================================
