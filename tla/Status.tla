-------------------------------- MODULE Status -------------------------------
(* Bare kuma (state.rs): what it observes of a workstation, a foreign bootc  *)
(* machine or a kuma machine, the state it names and the commands it offers; *)
(* with what those commands do, so that a person may follow them.  The       *)
(* declaration, the machine and another kuma move on their own meanwhile.    *)
EXTENDS Naturals, FiniteSets

CONSTANTS Texts,       \* the valid declarations
          Versions,    \* the kumas that may do the building
          Slips,       \* what else happens, a subset of AllSlips
          MaxEvents    \* bound on what happens besides the advice

AllSlips == {"edit", "touch", "race", "cut", "rollback", "drift", "stamp", "kuma", "remove"}
Missing == "no kuma.toml"
Invalid == "invalid"
Idle == "no build"
None == [text |-> "none", by |-> 0]
Image == [text : Texts, by : Versions]

ASSUME StatusAssumption ==
    /\ Slips \subseteq AllSlips /\ MaxEvents \in Nat
    /\ Texts \cap {Missing, Invalid, Idle, None.text} = {}

VARIABLES text,        \* the working copy: a text, Invalid or Missing
          built,       \* the image the default tag names
          store,       \* the images built here, which podman's cache still knows
          older,       \* the images created before the working copy's last write
          baking,      \* the text a running build has read
          kuma,        \* the version that runs
          machine,     \* "workspace", "foreign" or "kuma"
          booted,      \* the image booted
          previous,    \* the deployment behind it
          waiting,      \* the deployment staged
          note,       \* deployed-image-id
          applied,     \* the text the machine's applications match
          converging,  \* a converger runs
          astray,      \* what comes up next is not what the note says
          events

statusVars == <<text, built, store, older, baking, kuma, machine, booted, previous,
                waiting, note, applied, converging, astray, events>>
declaration == <<text, older>>
podman == <<built, store, baking, kuma>>
deployments == <<machine, booted, previous, waiting, note, astray>>
apps == <<applied, converging>>

StatusTypeOK ==
    /\ text \in Texts \cup {Missing, Invalid} /\ baking \in Texts \cup {Idle}
    /\ store \subseteq Image /\ older \subseteq store /\ built \in store \cup {None}
    /\ {booted, previous, waiting, note} \subseteq Image \cup {None}
    /\ machine \in {"workspace", "foreign", "kuma"} /\ (machine = "kuma" <=> booted # None)
    /\ kuma \in Versions /\ converging \in BOOLEAN /\ events \in 0..MaxEvents

StatusInit ==
    /\ text \in Texts \cup {Missing, Invalid} /\ baking = Idle
    /\ \/ machine \in {"workspace", "foreign"} /\ booted = None /\ applied = Idle
       \/ machine = "kuma" /\ booted \in Image /\ applied = booted.text
    /\ built = None /\ store = {} /\ older = {}
    /\ kuma \in Versions
    /\ previous = None /\ waiting = None /\ note = None
    /\ converging = FALSE /\ astray = FALSE /\ events = 0

-----------------------------------------------------------------------------
(* What is observed.                                                         *)

config == CASE text \in Texts -> "loaded"
            [] text = Invalid -> "invalid"
            [] text = Missing /\ machine = "kuma" -> "baked"
            [] OTHER -> "missing"
edited_after == built \in older                     \* mtime > Created
deployed_id == IF machine = "kuma" THEN note ELSE None
drift == machine = "kuma" /\ applied # booted.text
isConverging_or_done == machine = "kuma" /\ (converging \/ applied = booted.text)  \* mutant
isConverging == machine = "kuma" /\ converging

\* classify: the conditions in their order, each with the edges it adds.
Claims == {
    [at |-> 1, state |-> "config-invalid", holds |-> config = "invalid", edges |-> {"edit"}],
    [at |-> 2, state |-> "staged", holds |-> waiting # None, edges |-> {"reboot"}],
    [at |-> 3, state |-> "not-built", holds |-> config = "loaded" /\ built = None,
     edges |-> {"build"}],
    [at |-> 4, state |-> "edited", holds |-> config = "loaded" /\ built # None /\ edited_after,
     edges |-> {"build"}],
    [at |-> 5, state |-> "stale-build", holds |-> built # None /\ built.by # kuma,
     edges |-> {"build"}],
    [at |-> 6, state |-> "built-ahead",
     holds |-> built # None /\ deployed_id \notin {None, built}, edges |-> {"switch"}],
    [at |-> 7, state |-> "converging", holds |-> isConverging, edges |-> {"watch"}],
    [at |-> 8, state |-> "drifted", holds |-> drift,
     edges |-> {"diff"} \cup IF isConverging THEN {} ELSE {"sync"}]}
pending == UNION {c.edges : c \in {d \in Claims : d.holds}}

\* With nothing pending, what the machine is decides.
Quiet == {
    [at |-> 9, state |-> "built", holds |-> built # None /\ machine = "foreign",
     edges |-> {"switch", "vm"}],
    [at |-> 9, state |-> "built", holds |-> built # None /\ machine = "workspace",
     edges |-> {"vm", "iso"}],
    [at |-> 10, state |-> "in-sync", holds |-> machine = "kuma", edges |-> {"update", "doctor"}]}
quiet == IF pending = {} THEN {c \in Quiet : c.holds} ELSE {}
seeding == {
    [at |-> 11, state |-> "no-config", holds |-> config = "missing", edges |-> {"init"}],
    [at |-> 12, state |-> "in-sync", holds |-> config = "baked", edges |-> {"init"}]}

holding == {c \in Claims : c.holds} \cup quiet \cup {c \in seeding : c.holds}
actions == UNION {c.edges : c \in holding}
state == IF holding = {} THEN "in-sync"
         ELSE (CHOOSE c \in holding : \A d \in holding : c.at <= d.at).state

-----------------------------------------------------------------------------
(* The commands.                                                             *)

\* Without the slip "touch", nothing is written again that was built before.
fresh(t, v) == "touch" \in Slips \/ [text |-> t, by |-> v] \notin store

\* kuma init seeds the working copy from the machine's own declaration.
init ==
    /\ text = Missing
    /\ text' \in {t \in IF machine = "kuma" THEN {booted.text} ELSE Texts : fresh(t, kuma)}
    /\ older' = store
    /\ UNCHANGED <<podman, deployments, apps, events>>
fix ==
    /\ text = Invalid
    /\ text' \in {t \in Texts : fresh(t, kuma)} /\ older' = store
    /\ UNCHANGED <<podman, deployments, apps, events>>

\* kuma build reads the declaration, bakes what it read and tags the result;
\* a build that changes nothing is the image that was there, its creation
\* time included.
build ==
    /\ text \in Texts /\ baking = Idle
    /\ baking' = text
    /\ UNCHANGED <<declaration, built, store, kuma, deployments, apps, events>>
build_ends ==
    /\ baking # Idle
    /\ built' = [text |-> baking, by |-> kuma]
    /\ store' = store \cup {built'}
    /\ baking' = Idle
    /\ UNCHANGED <<declaration, kuma, deployments, apps, events>>

\* kuma switch stages what the tag names and notes it on the machine.  What
\* runs already is not staged again, and what is staged stays: the note is then
\* of another image than the next boot's.
switch ==
    /\ built # None /\ machine # "workspace"
    /\ waiting' = IF built = booted THEN waiting ELSE built
    /\ note' = built /\ astray' = (built = booted /\ waiting # None)
    /\ UNCHANGED <<declaration, podman, machine, booted, previous, apps, events>>
reboot ==
    /\ waiting # None
    /\ machine' = "kuma" /\ booted' = waiting /\ previous' = booted /\ waiting' = None
    /\ converging' = TRUE
    /\ UNCHANGED <<declaration, podman, note, astray, applied, events>>
sync ==
    /\ machine = "kuma" /\ ~converging
    /\ converging' = TRUE
    /\ UNCHANGED <<declaration, podman, deployments, applied, events>>
converged ==
    /\ converging /\ converging' = FALSE
    /\ applied' = booted.text
    /\ UNCHANGED <<declaration, podman, deployments, events>>

Follow(edge) ==
    /\ edge \in actions
    /\ \/ edge = "edit" /\ fix
       \/ edge = "init" /\ init
       \/ edge = "build" /\ build
       \/ edge = "switch" /\ switch
       \/ edge = "reboot" /\ reboot
       \/ edge = "sync" /\ sync

-----------------------------------------------------------------------------
(* What happens besides.                                                     *)

Slip(s) == s \in Slips /\ events < MaxEvents /\ events' = events + 1

Edit == \E t \in (Texts \cup {Invalid}) \ {text} :
    /\ Slip(IF baking = Idle THEN "edit" ELSE "race") /\ fresh(t, kuma)
    /\ text' = t /\ older' = store
    /\ UNCHANGED <<podman, deployments, apps>>
Remove ==                                           \* the working copy goes
    /\ Slip("remove") /\ text # Missing /\ baking = Idle
    /\ text' = Missing /\ older' = {}
    /\ UNCHANGED <<podman, deployments, apps>>
Touch ==                                            \* saved as it was
    /\ Slip("touch") /\ text # Missing
    /\ older' = store
    /\ UNCHANGED <<text, podman, deployments, apps>>
OtherKuma ==                                        \* another kuma is installed
    /\ Slip("kuma") /\ baking = Idle
    /\ kuma' \in {v \in Versions \ {kuma} : fresh(text, v)}
    /\ UNCHANGED <<declaration, built, store, baking, deployments, apps>>
LoseStaged ==                                         \* a staged deployment is in /run
    /\ Slip("cut") /\ machine = "kuma"
    /\ waiting' = None /\ converging' = TRUE /\ baking' = Idle
    /\ astray' = (astray \/ waiting # None)
    /\ UNCHANGED <<declaration, built, store, kuma, machine, booted, previous, note, applied>>
rollback_cmd_keeps_stamp ==                             \* mutant
    /\ Slip("rollback") /\ previous # None
    /\ booted' = previous /\ previous' = booted /\ waiting' = None
    /\ converging' = TRUE /\ baking' = Idle
    /\ UNCHANGED <<declaration, built, store, kuma, machine, note, applied, astray>>
rollback_cmd ==                                         \* and the reboot after it
    /\ Slip("rollback") /\ previous # None
    /\ booted' = previous /\ previous' = booted /\ waiting' = None
    /\ note' = None /\ converging' = TRUE /\ baking' = Idle
    /\ UNCHANGED <<declaration, built, store, kuma, machine, applied, astray>>
Drift ==                                            \* a run fails before it is done
    /\ Slip("drift") /\ machine = "kuma"
    /\ applied' = Idle /\ converging' = FALSE
    /\ UNCHANGED <<declaration, podman, deployments>>
StampFails ==                                       \* switch stages, the note does not land
    /\ Slip("stamp") /\ built # None /\ machine # "workspace" /\ built # booted
    /\ waiting' = built /\ astray' = (note # built)
    /\ UNCHANGED <<declaration, podman, machine, booted, previous, note, apps>>

Edges == {"edit", "init", "build", "switch", "reboot", "sync"}
Unasked ==
    \/ Edit \/ Remove \/ Touch \/ OtherKuma \/ LoseStaged \/ rollback_cmd \/ Drift \/ StampFails
Advised == \E e \in Edges : Follow(e)
StatusNext ==
    \/ Advised
    \/ build_ends \/ converged
    \/ Unasked
StatusSpec == StatusInit /\ [][StatusNext]_statusVars

\* A person goes on with what is offered, whichever edge they take; builds and
\* runs end.
StatusFairness == WF_statusVars(Advised) /\ WF_statusVars(build_ends) /\ WF_statusVars(converged)
StatusFairSpec == StatusSpec /\ StatusFairness

-----------------------------------------------------------------------------

\* Whoever follows bare kuma's edges comes to rest: past the last thing that
\* happened besides, the machine is in sync, or the image is built where no
\* machine runs it, and it stays so.
AdviceLeadsHome == <>[](state = IF machine = "kuma" THEN "in-sync" ELSE "built")

\* A machine that reads in sync runs what was built, unless it says nothing of
\* its deployment.  Three things make the word wrong: a power cut that took what
\* was staged, a note that did not land over an older one, and a switch back to
\* what runs while something else is staged.
InSyncRunsTheBuild ==
    state = "in-sync" /\ built # None /\ note # None => booted = built \/ astray

\* The sentence "machine matches its declaration; nothing pending": the
\* working copy of a machine whose build is deployed is what was built.
InSyncMeansBuilt ==
    state = "in-sync" /\ text \in Texts /\ note = built => text = built.text
=============================================================================
