------------------------------- MODULE Converge ------------------------------
(* The application convergers (blocks.rs): the flatpak and brew sync         *)
(* scripts, the boot unit and the daily unit that run them, the gate the     *)
(* daily units pass first, brew's setup, and kuma sync (main.rs).  The boot  *)
(* and the daily unit may run at once; the owner installs and removes apps   *)
(* meanwhile; the machine may go down between any two steps and come back on *)
(* another image.                                                            *)
EXTENDS Naturals, FiniteSets

CONSTANTS Apps,       \* what a declaration may name
          Lists,      \* the declared lists of the images this machine boots
          Brew,       \* the brew side, whose tool a unit of its own sets up
          MaxBoots    \* bound on restarts

ASSUME ConvergeAssumption ==
    /\ Lists \subseteq SUBSET Apps /\ Brew \in BOOLEAN /\ MaxBoots \in Nat

Syncs == {"boot", "daily"}
Units == Syncs \cup {"other"}           \* "other": the other side's daily unit
Daily == {"daily", "other"}             \* the units that pass the gate

VARIABLES declared,   \* the list baked into the running image
          record,     \* the state file: the list the last finished run applied
          installed,  \* what is on the machine
          taken,      \* the apps the owner removed and nobody brought back
          unit,       \* the step each unit's run is at
          left,       \* the lines a run has yet to go through
          skip,       \* the gate's marker, in the directory the daily units share
          moment,     \* "good"; "poor": low on battery or metered; "offline"
          tool,       \* how far brew's setup came, Setup
          ever,       \* every app an image so far declared
          since,      \* some run began to converge since the record was written
          boots

convergeVars == <<declared, record, installed, taken, unit, left, skip, moment, tool, ever, since, boots>>
baked == <<declared, ever, boots>>

Moments == {"good", "poor", "offline"}
Setup == {"none", "untarred", "torn", "done"}   \* "torn": left untarred by a restart
Steps == {"off", "gate", "check", "install", "remove", "full", "failed"}

ConvergeTypeOK ==
    /\ declared \in Lists /\ record \in Lists \cup {{}}
    /\ installed \subseteq Apps /\ taken \subseteq Apps \ installed
    /\ unit \in [Units -> Steps] /\ left \in [Syncs -> SUBSET Apps]
    /\ skip \in BOOLEAN /\ moment \in Moments /\ tool \in Setup
    /\ (~Brew => tool = "done") /\ boots \in 0..MaxBoots

Booting == [u \in Units |-> IF u = "boot" THEN "check" ELSE "off"]

ConvergeInit ==
    /\ declared \in Lists /\ ever = declared
    /\ record = {} /\ installed = {} /\ taken = {}
    /\ unit = Booting /\ left = [u \in Syncs |-> {}]
    /\ skip = FALSE /\ moment = "good"
    /\ tool = IF Brew THEN "none" ELSE "done"
    /\ since = FALSE /\ boots = 0

-----------------------------------------------------------------------------
(* The machine and its owner.                                                *)

OwnerInstalls == \E a \in Apps \ installed :
    /\ tool = "done"
    /\ installed' = installed \cup {a} /\ taken' = taken \ {a}
    /\ UNCHANGED <<baked, record, unit, left, skip, moment, tool, since>>
OwnerRemoves == \E a \in installed :
    /\ installed' = installed \ {a} /\ taken' = taken \cup {a}
    /\ UNCHANGED <<baked, record, unit, left, skip, moment, tool, since>>

MomentChanges ==
    /\ moment' \in Moments
    /\ UNCHANGED <<baked, record, installed, taken, unit, left, skip, tool, since>>

\* Down at any moment and up again, on this image, an older one or a newer
\* one; /run starts empty and the boot unit starts.
Restart == \E list \in Lists :
    /\ boots < MaxBoots /\ boots' = boots + 1
    /\ declared' = list /\ ever' = ever \cup list
    /\ unit' = Booting /\ left' = [u \in Syncs |-> {}]
    /\ skip' = FALSE
    /\ tool' = IF tool = "untarred" THEN "torn" ELSE tool
    /\ UNCHANGED <<record, installed, taken, moment, since>>

\* Brew's setup: its condition tests the file the tarball brings, so a run
\* that ends between the tarball and the link is never made up for.
brew_setup_untar ==
    /\ tool = "none" /\ tool' = "untarred"
    /\ UNCHANGED <<baked, record, installed, taken, unit, left, skip, moment, since>>
brew_setup_link ==
    /\ tool = "untarred" /\ tool' = "done"
    /\ UNCHANGED <<baked, record, installed, taken, unit, left, skip, moment, since>>

-----------------------------------------------------------------------------
(* Starting a unit.                                                          *)

\* kuma sync forgets a spent start limit, then starts the boot unit.
sync_unit ==
    /\ unit["boot"] \in {"off", "failed"}
    /\ unit' = [unit EXCEPT !["boot"] = "check"]
    /\ UNCHANGED <<baked, record, installed, taken, left, skip, moment, tool, since>>

TimerFires_unfailed(u) ==             \* mutant
    /\ unit[u] = "off"
    /\ unit' = [unit EXCEPT ![u] = "gate"]
    /\ UNCHANGED <<baked, record, installed, taken, left, skip, moment, tool, since>>
TimerFires(u) ==
    /\ unit[u] \in {"off", "failed"}
    /\ unit' = [unit EXCEPT ![u] = "gate"]
    /\ UNCHANGED <<baked, record, installed, taken, left, skip, moment, tool, since>>

\* Restart=on-failure, until the start limit is spent.
Retry(u) ==
    /\ unit[u] = "failed"
    /\ unit' = [unit EXCEPT ![u] = IF u = "daily" THEN "gate" ELSE "check"]
    /\ UNCHANGED <<baked, record, installed, taken, left, skip, moment, tool, since>>

\* The gate clears the marker and leaves it again when this is no time.
converge_gate(u) ==
    /\ unit[u] = "gate"
    /\ skip' = (moment = "poor")
    /\ unit' = [unit EXCEPT ![u] = "check"]
    /\ UNCHANGED <<baked, record, installed, taken, left, moment, tool, since>>

\* A run's end: systemd removes a daily unit's runtime directory, the marker
\* with it, whichever other unit shares the directory.
ends(u, how) ==
    /\ unit' = [unit EXCEPT ![u] = how]
    /\ skip' = (skip /\ u \notin Daily)

-----------------------------------------------------------------------------
(* The script.                                                               *)

\* A marker ends the run green, and so does a brew that is not there.
Skipped(u) ==
    /\ unit[u] = "check" /\ (skip \/ tool # "done" \/ u = "other")
    /\ ends(u, "off")
    /\ UNCHANGED <<baked, record, installed, taken, left, moment, tool, since>>

\* Past the convergence: the boot unit's run ends, the daily one has its
\* update and its prune to do.
passes(u) == IF u = "daily" THEN unit' = [unit EXCEPT ![u] = "full"] /\ UNCHANGED skip
                            ELSE ends(u, "off")

Equal(u) ==
    /\ unit[u] = "check" /\ ~skip /\ tool = "done" /\ record = declared
    /\ passes(u)
    /\ UNCHANGED <<baked, record, installed, taken, left, moment, tool, since>>
Unequal(u) ==
    /\ unit[u] = "check" /\ ~skip /\ tool = "done" /\ record # declared
    /\ unit' = [unit EXCEPT ![u] = "install"]
    /\ left' = [left EXCEPT ![u] = declared]
    /\ since' = TRUE
    /\ UNCHANGED <<baked, record, installed, taken, skip, moment, tool>>

\* What a run takes back.
dropped_undeclared == installed \ declared        \* mutant
dropped == record \ declared

\* The list is brought in one by one; then come the recorded apps.
install_one(u) == \E a \in left[u] :
    /\ unit[u] = "install"
    /\ installed' = installed \cup {a} /\ taken' = taken \ {a}
    /\ left' = [left EXCEPT ![u] = @ \ {a}]
    /\ UNCHANGED <<baked, record, unit, skip, moment, tool, since>>
installed_all(u) ==
    /\ unit[u] = "install" /\ left[u] = {}
    /\ unit' = [unit EXCEPT ![u] = "remove"]
    /\ left' = [left EXCEPT ![u] = dropped]
    /\ UNCHANGED <<baked, record, installed, taken, skip, moment, tool, since>>

\* The install fails with every retry: the run ends there, the record as it was.
InstallFails(u) ==
    /\ unit[u] = "install" /\ moment # "good"
    /\ ends(u, "failed")
    /\ UNCHANGED <<baked, record, installed, taken, left, moment, tool, since>>

\* A recorded app the list no longer names is uninstalled; a failure is
\* tolerated, the owner may have been first.  The loop reads the file as it
\* goes: rewritten by the other run, it has no such line any more.
uninstall_one(u) == \E a \in left[u] :
    /\ unit[u] = "remove"
    /\ left' = [left EXCEPT ![u] = @ \ {a}]
    /\ \/ a \in dropped /\ installed' = installed \ {a}
       \/ UNCHANGED installed
    /\ UNCHANGED <<baked, record, taken, unit, skip, moment, tool, since>>

\* The record comes last, and before the daily run's update and prune.
write_record(u) ==
    /\ unit[u] = "remove" /\ left[u] = {}
    /\ record' = declared /\ since' = FALSE
    /\ passes(u)
    /\ UNCHANGED <<baked, installed, taken, left, moment, tool>>

\* The update and the prune of what nothing needs: no app comes or goes.
full == \E how \in {"off", "failed"} :
    /\ unit["daily"] = "full"
    /\ ends("daily", how)
    /\ UNCHANGED <<baked, record, installed, taken, left, moment, tool, since>>

Run(u) ==
    \/ Equal(u) \/ Unequal(u) \/ install_one(u) \/ installed_all(u)
    \/ uninstall_one(u) \/ write_record(u)
ConvergeNext ==
    \/ OwnerInstalls \/ OwnerRemoves \/ MomentChanges \/ Restart
    \/ brew_setup_untar \/ brew_setup_link
    \/ sync_unit
    \/ \E u \in Daily : TimerFires(u) \/ converge_gate(u)
    \/ \E u \in Units : Skipped(u)
    \/ \E u \in Syncs : Retry(u) \/ Run(u) \/ InstallFails(u)
    \/ full

ConvergeSpec == ConvergeInit /\ [][ConvergeNext]_convergeVars

\* systemd goes on with what it started and fires the timers every day; no
\* run counts on being retried, the start limit may be spent.
GoesOn(u) ==
    \/ u \in Daily /\ converge_gate(u)
    \/ Skipped(u)
    \/ u \in Syncs /\ Run(u)
    \/ u = "daily" /\ full
ConvergeFairSpec ==
    /\ ConvergeSpec
    /\ \A u \in Units : WF_convergeVars(GoesOn(u))
    /\ \A u \in Daily : WF_convergeVars(TimerFires(u))

-----------------------------------------------------------------------------
(* What kuma diff and bare kuma read of it (inspect.rs, state.rs).            *)

\* Installed, installed by kuma, and not named any more.
convergence_removes == (installed \cap record) \ declared
\* What is there and undeclared: doomed, or the owner's to keep.
candidates == [doomed |-> convergence_removes,
               yours |-> (installed \ declared) \ convergence_removes]
\* Of a working copy the image carries as it is.
diff == [add |-> declared \ installed, remove |-> candidates.doomed]
drift_counted == diff.add \cup diff.remove

-----------------------------------------------------------------------------

\* Convergence takes back only what it gave: no run of any image, however the
\* runs and the owner interleave, removes an app no image ever declared.
OwnersAppsStay ==
    [][\A a \in installed \ installed' : a \in ever \/ a \in taken']_convergeVars

\* A run that finished did its work: while no later run began, a machine whose
\* record equals its list has drifted by nothing but what the owner took away,
\* whatever the other unit does and however often it restarts.
RecordMeansConverged == record = declared /\ ~since => drift_counted \subseteq taken

\* What a run takes was given by kuma, and what it records it has done.
RunsAreHonest == OwnersAppsStay /\ []RecordMeansConverged

\* A changed declaration reaches the machine: unless it is a bad moment over
\* and over, a record that differs from the list comes to equal it.
Converges ==
    <>[](moment = "good") => ((tool = "done" /\ record # declared) ~> (record = declared))

\* Violated.  "Declared, not installed (convergence installs it)", says kuma
\* diff, and bare kuma offers "converge now (also runs at boot and daily)": what
\* is listed to add is added, where the moment is good and brew is there.  An app
\* the owner uninstalled leaves the record equal to the list, and every run of
\* the script, kuma sync's included, passes it by.
DiffIsHeeded ==
    <>[](moment = "good") =>
        \A a \in Apps : (tool = "done" /\ a \in diff.add) ~> (a \notin diff.add)

\* The sentence the script's shortcut rests on: what is named exists and equal
\* lists mean the last run converged, so there is nothing left to do.
EqualMeansConverged ==
    record = declared /\ (\A u \in Units : unit[u] = "off")
        => declared \subseteq installed \cup taken

\* What kuma sync relies on: the boot unit's green end means converged.
SyncMeansConverged ==
    [][unit["boot"] \notin {"off", "failed"} /\ unit'["boot"] = "off" /\ boots' = boots
          => record' = declared']_convergeVars
=============================================================================
