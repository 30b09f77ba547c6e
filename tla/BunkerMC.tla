------------------------------- MODULE BunkerMC -------------------------------
(***************************************************************************)
(* A small instance of what the bunker stands on: the engine's records     *)
(* (Policy), the vault and the replay gates.  Here they share no state: a  *)
(* behaviour is one component's, the others stay where they start.  Daemon *)
(* has the engine and the vault together.                                  *)
(***************************************************************************)
EXTENDS Policy, Vault, Replay

VARIABLE which
bunkerVars == <<which, vars, vaultVars, replayVars>>

CONSTANTS a1, a2

\* Two apps with one ask each.
TwoAppAsks ==
    {[app |-> a, method |-> "sign_event", kind |-> 0] : a \in {a1, a2}}
\* One busy sender whose requests are dated over the run of the clock, and
\* another that fills the cache.
TwoSenders ==
    {[sender |-> 1, created_at |-> t] : t \in {1, 3, 4, 5}}
        \cup {[sender |-> 2, created_at |-> 3]}

BunkerInit ==
    /\ which \in {"policy", "vault", "replay"}
    /\ Init /\ ReplayInit /\ VaultInit
    /\ which # "vault" => stored = NoVault

BunkerNext ==
    /\ which' = which
    /\ \/ which = "policy" /\ Next /\ UNCHANGED <<vaultVars, replayVars>>
       \/ which = "vault" /\ VaultNext /\ UNCHANGED <<vars, replayVars>>
       \/ which = "replay" /\ ReplayNext /\ UNCHANGED <<vars, vaultVars>>

BunkerSpec == BunkerInit /\ [][BunkerNext]_bunkerVars

(* The vault's and the gates' ranges, and the bounds of the replay caches.   *)
BunkerTypeOK == VaultTypeOK /\ ReplayTypeOK
=============================================================================
