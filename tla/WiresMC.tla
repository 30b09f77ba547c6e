------------------------------- MODULE WiresMC -------------------------------
(***************************************************************************)
(* A small instance of the two ends of a NIP-46 wire whose threads must go *)
(* on, the daemon's worker (Daemon) and the relay (Relay), and of the rate *)
(* the bunker asks of each sender (Bucket).  They share no state: a        *)
(* behaviour is one part's, the others stay where they start, and fairness *)
(* is asked of the part that runs.                                         *)
(***************************************************************************)
EXTENDS DaemonMC, Relay, Bucket

VARIABLE which
wiresVars == <<which, daemonVars, relayVars, bucketVars>>

DaemonStill == client = (CHOOSE a \in App : TRUE) /\ stored = NoVault
WiresInit ==
    /\ which \in {"daemon", "relay", "bucket"}
    /\ DaemonInit /\ RelayInit /\ BucketInit
    /\ which # "daemon" => DaemonStill
WiresNext ==
    /\ which' = which
    /\ \/ which = "daemon" /\ DaemonNext /\ UNCHANGED <<relayVars, bucketVars>>
       \/ which = "relay" /\ RelayNext /\ UNCHANGED <<daemonVars, bucketVars>>
       \/ which = "bucket" /\ BucketNext /\ UNCHANGED <<daemonVars, relayVars>>

\* DaemonFairSpec and RelayFairSpec, each where it runs.
WiresFairSpec ==
    /\ WiresInit /\ [][WiresNext]_wiresVars
    /\ WF_daemonVars(which = "daemon" /\ BeatGoesOn)
    /\ WF_daemonVars(which = "daemon" /\ ClockGoesOn)
    /\ \A c \in Conns : WF_relayVars(which = "relay" /\ Serves(c))

-----------------------------------------------------------------------------
E(i, k, a, t) == [id |-> i, by |-> k, to |-> a, created |-> t]
\* Two events of one sender, to two addresses; the filters a REQ may bring.
TwoNotes == {E(1, "x", "p", 1), E(2, "x", "q", 2)}
SomeFilters ==
    {[p |-> {"p"}, other |-> FALSE], [p |-> {}, other |-> FALSE], [p |-> {}, other |-> TRUE]}

-----------------------------------------------------------------------------
\* The ranges of the relay's state and of the buckets.
WiresTypeOK == RelayTypeOK /\ BucketTypeOK

\* What a sender may send: to the relay, by the sliding minute of its pubkey; to
\* the bunker, by the bucket it has there, which it alone can empty.
BudgetsHold == BudgetHolds /\ RateHolds /\ RefusedForItsOwn
=============================================================================
