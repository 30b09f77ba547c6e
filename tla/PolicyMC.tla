------------------------------ MODULE PolicyMC ------------------------------
(***************************************************************************)
(* Small instances of Policy for TLC.                                      *)
(***************************************************************************)
EXTENDS Policy, TLC

CONSTANTS a1, a2, c1, c2

\* One app that asks for an everyday note and for a profile update: the two
\* share the method (and so a standing answer) but not the card.
OneAppAsks ==
    {[app |-> a1, method |-> "sign_event", kind |-> 1],
     [app |-> a1, method |-> "sign_event", kind |-> 0]}

\* The queue does not read names or tombstones: a tombstone is set and cleared
\* while nobody asks, and what it leaves behind is not followed further.
tombstoned(a) ==
    \/ apps[a].revoked \/ disk[a].revoked
    \/ \E i \in DOMAIN log : log[i].verdict \in {"tombstoned", "cleared"}
QueueFocus == \A a \in App :
    /\ apps[a].name = "none"
    /\ tombstoned(a) => /\ apps[a].revoked /\ prompts = {} /\ nextId = 0
                       /\ \A c \in Caller : pc[c] = "idle"

CallerSymmetry == Permutations({c1, c2})
=============================================================================
