-------------------------------- MODULE Doctor --------------------------------
(* kuma doctor (inspect.rs) beside the machine it grades: the convergers at  *)
(* boot and by their timers, the backup and snapshot units, the image's files *)
(* in /etc, the links left in override and enablement directories, the bunker, *)
(* what builds leave behind - and an owner who runs the command a finding      *)
(* prints (kuma sync: main.rs).                                               *)
EXTENDS Naturals, FiniteSets

CONSTANTS Declarations,  \* what an image may declare: sets over Parts
          Etc,           \* the files of the image in /etc
          Stale,         \* STALE_CONVERGENCE_DAYS, and the floor of a backup's
          Period,        \* the backup interval in days
          MaxDay,        \* bound on the days
          MaxImage,      \* bound on the images
          MaxMishaps     \* bound on what breaks by itself or by hand

Parts == {"user", "apps", "backup", "snapshots", "links", "etc", "nostr", "builds"}
ASSUME DoctorAssumption ==
    /\ {Stale, Period, MaxDay, MaxImage, MaxMishaps} \subseteq Nat /\ Stale > 0 /\ MaxImage > 0
    /\ \A d \in Declarations : d \subseteq Parts

VARIABLES today,        \* today
          ordered,   \* the declaration the image baked
          facts,       \* what systemd says of each service
          timer,      \* the timers that are active
          apps_day,  \* the last day the applications converged
          skips,      \* convergence-skipped holds a line
          flathub,    \* the remote is configured
          cred,       \* the backup credential
          backup_day, \* the day in backup-last
          snap_target, \* what the snapshot target is
          shots,      \* snapshots are in the store
          dangling,   \* links that point at nothing
          release,    \* the image the machine booted
          etc,        \* what is in /etc
          bunker,     \* what the bunker's socket answers
          stranded,   \* builds left images or containers behind
          boot_counter, \* the boot loader counts boot attempts
          mishaps,    \* how often something broke
          heeded      \* the finding whose command was the last step

doctorVars == <<today, ordered, facts, timer, apps_day, skips, flathub, cred, backup_day,
                snap_target, shots, dangling, release, etc, bunker, stranded, boot_counter, mishaps,
                heeded>>
progress == <<facts, timer, apps_day, skips, backup_day, shots>>
files == <<dangling, release, etc>>
other == <<bunker, stranded, boot_counter>>
setting == <<flathub, cred, snap_target, files, other>>

Graded == {"user", "apps", "daily", "backup", "snapshots"}
Timers == {"apps", "backup", "snapshots"}
NoDay == MaxDay + 1                     \* a field that is not there
Links == {"override", "enablement"}
Owners == MaxImage + 1                  \* what the owner wrote into a file
Gone == MaxImage + 2

find(name, grade, fix, on) == [name |-> name, grade |-> grade, fix |-> fix, on |-> on]
NoFinding == find("nothing", "ok", "none", "nothing")

\* UnitFacts: parse_unit_facts keeps each field with the Id before it.
UnitFacts == [running : BOOLEAN, ok : BOOLEAN, last : 0..NoDay, spent : BOOLEAN]
blank == [running |-> FALSE, ok |-> TRUE, last |-> NoDay, spent |-> FALSE]
begun == [blank EXCEPT !.running = TRUE]
\* What a boot leaves: every field anew, the boot units started.
at_boot == [u \in Graded |-> IF u \in {"user", "apps"} \cap ordered THEN begun ELSE blank]
fired(t) == IF t = "apps" THEN "daily" ELSE t       \* Unit= of the timer

DoctorTypeOK ==
    /\ today \in 0..MaxDay /\ ordered \in Declarations
    /\ facts \in [Graded -> UnitFacts] /\ timer \subseteq Timers \cap ordered
    /\ apps_day \in 0..NoDay /\ skips \in BOOLEAN /\ flathub \in BOOLEAN
    /\ cred \in {"none", "open", "ambiguous", "tight"} /\ backup_day \in 0..NoDay
    /\ snap_target \in {"subvolume", "directory", "ext4"} /\ shots \in BOOLEAN
    /\ dangling \subseteq Links
    /\ release \in 1..MaxImage /\ etc \in [Etc -> 1..Gone] /\ mishaps \in 0..MaxMishaps
    /\ bunker \in {"down", "mute", "unset", "locked", "open"}
    /\ {stranded, boot_counter} \subseteq BOOLEAN
    /\ heeded.grade \in {"ok", "warn", "fail"}

DoctorInit ==
    /\ today = 0 /\ ordered \in Declarations /\ facts = at_boot
    /\ timer = Timers \cap ordered
    /\ apps_day = NoDay /\ skips = FALSE /\ flathub = TRUE
    /\ cred \in (IF "backup" \in ordered THEN {"none", "open", "ambiguous"} ELSE {"none"})
    /\ backup_day = NoDay
    /\ snap_target \in (IF "snapshots" \in ordered THEN {"subvolume", "directory", "ext4"}
                   ELSE {"directory"})
    /\ shots = FALSE /\ dangling = {}
    /\ release = 1 /\ etc = [f \in Etc |-> 1] /\ stranded = FALSE
    /\ bunker = (IF "nostr" \in ordered THEN "unset" ELSE "open")
    /\ boot_counter \in {TRUE, "builds" \notin ordered}
    /\ mishaps = 0 /\ heeded = NoFinding

-----------------------------------------------------------------------------
(* The machine.                                                              *)

\* Midnight: a timer that is active starts its unit, unless that still runs.
DayPasses ==
    LET due == {fired(t) : t \in timer} IN
    /\ today < MaxDay /\ today' = today + 1
    /\ facts' = [u \in Graded |->
           IF u \in due /\ ~facts[u].running
           THEN [facts[u] EXCEPT !.running = TRUE, !.spent = FALSE]
           ELSE [facts[u] EXCEPT !.spent = FALSE]]
    /\ UNCHANGED <<ordered, timer, apps_day, skips, backup_day, shots, setting, mishaps>>

run_ended(u, well) == [facts EXCEPT ![u] =
    [running |-> FALSE, ok |-> well, last |-> today, spent |-> ~well /\ u \in {"apps", "daily"}]]

\* A run does what its unit is for.
RunDoes == \E u \in Graded :
    /\ facts[u].running /\ facts' = run_ended(u, TRUE)
    /\ CASE u \in {"apps", "daily"} ->
              /\ flathub
              /\ apps_day' = today /\ skips' = (skips /\ u = "apps")
              /\ UNCHANGED <<backup_day, shots>>
         [] u = "backup" ->
              /\ cred # "none"
              /\ backup_day' = today /\ UNCHANGED <<apps_day, skips, shots>>
         [] u = "snapshots" ->
              /\ snap_target = "subvolume"
              /\ shots' = TRUE /\ UNCHANGED <<apps_day, skips, backup_day>>
         [] OTHER -> UNCHANGED <<apps_day, skips, backup_day, shots>>
    /\ UNCHANGED <<today, ordered, timer, setting, mishaps>>
\* The gate holds the daily run back: it ends green, the stamp gains a line.
RunSkips ==
    /\ facts["daily"].running /\ facts' = run_ended("daily", TRUE) /\ skips' = TRUE
    /\ UNCHANGED <<today, ordered, timer, apps_day, backup_day, shots, setting, mishaps>>
\* Nothing to copy to, nothing that can be snapshotted: green all the same.
RunDoesNothing == \E u \in {"backup", "snapshots"} :
    /\ facts[u].running /\ (u = "snapshots" => snap_target # "subvolume")
    /\ facts' = run_ended(u, TRUE)
    /\ UNCHANGED <<today, ordered, timer, apps_day, skips, backup_day, shots, setting, mishaps>>
mishap == mishaps < MaxMishaps /\ mishaps' = mishaps + 1
\* The retries are used up (until then the unit is activating); the gate itself
\* never fails a run.
RunFails == \E u \in Graded :
    /\ facts[u].running /\ mishap /\ facts' = run_ended(u, FALSE)
    /\ UNCHANGED <<today, ordered, timer, apps_day, skips, backup_day, shots, setting>>

\* kuma-boot-health-sync puts the counter back at every boot.
Boots ==
    /\ mishap /\ facts' = at_boot /\ timer' = Timers \cap ordered /\ boot_counter' = TRUE
    /\ UNCHANGED <<today, ordered, apps_day, skips, backup_day, shots, flathub, cred, snap_target,
                   files, bunker, stranded>>

-----------------------------------------------------------------------------
(* What somebody does to it.                                                 *)

StopsTimer == \E t \in timer :
    /\ mishap /\ timer' = timer \ {t}
    /\ UNCHANGED <<today, ordered, facts, apps_day, skips, backup_day, shots, setting>>
DropsRemote ==
    /\ mishap /\ flathub /\ "apps" \in ordered /\ flathub' = FALSE
    /\ UNCHANGED <<today, ordered, progress, cred, snap_target, files, other>>
LeavesLink == \E l \in Links \ dangling :
    /\ mishap /\ "links" \in ordered /\ dangling' = dangling \cup {l}
    /\ UNCHANGED <<today, ordered, progress, flathub, cred, snap_target, release, etc, other>>
EditsEtc == \E f \in Etc, c \in {Owners, Gone} :
    /\ mishap /\ "etc" \in ordered /\ etc[f] # c /\ etc' = [etc EXCEPT ![f] = c]
    /\ UNCHANGED <<today, ordered, progress, flathub, cred, snap_target, dangling, release, other>>

BunkerChanges == \E b \in {"down", "mute", "unset", "locked", "open"} \ {bunker} :
    /\ mishap /\ "nostr" \in ordered /\ bunker' = b
    /\ UNCHANGED <<today, ordered, progress, flathub, cred, snap_target, files, stranded,
                   boot_counter>>
BuildDies ==
    /\ mishap /\ "builds" \in ordered /\ ~stranded /\ stranded' = TRUE
    /\ UNCHANGED <<today, ordered, progress, flathub, cred, snap_target, files, bunker,
                   boot_counter>>
\* An old bootloader configuration, or one written over.
LosesCounter ==
    /\ mishap /\ "builds" \in ordered /\ boot_counter /\ boot_counter' = FALSE
    /\ UNCHANGED <<today, ordered, progress, flathub, cred, snap_target, files, bunker, stranded>>

\* External: ostree's merge - a file that is the old image's is the new one's,
\* any other stays as it is, gone included.
etc_merged == [f \in Etc |-> IF etc[f] = release THEN release + 1 ELSE etc[f]]
Updates ==
    /\ release < MaxImage /\ release' = release + 1 /\ etc' = etc_merged
    /\ facts' = at_boot /\ timer' = Timers \cap ordered /\ boot_counter' = TRUE
    /\ UNCHANGED <<today, ordered, apps_day, skips, backup_day, shots, flathub, cred,
                   snap_target, dangling, bunker, stranded, mishaps>>

-----------------------------------------------------------------------------
(* The checks.  A finding: what it is about, its grade, the command it prints *)
(* and what that command is given.                                            *)

when(holds, f) == IF holds THEN {f} ELSE {}
whole_days_between(then) == IF today > then THEN today - then ELSE 0

\* mutant: a week is not stale yet
convergence_staleness_late(on_a_timer, last) ==
    on_a_timer /\ last # NoDay /\ whole_days_between(last) > Stale
convergence_staleness(on_a_timer, last) ==
    on_a_timer /\ last # NoDay /\ whole_days_between(last) >= Stale
\* The services graded, and whether a timer is held to run them again.
convergence_targets == [u \in ordered \cap {"user", "apps"} |-> u = "apps"]
service_finding(u, f) ==
    CASE f.running -> find(u, "ok", "running", u)
      [] ~f.running /\ ~f.ok -> find(u, "fail", "sync", u)
      [] ~f.running /\ f.ok /\ convergence_staleness(convergence_targets[u], f.last) ->
             find(u, "fail", "sync", "stale")
      [] OTHER -> find(u, "ok", "none", u)
timer_finding(t) ==
    IF t \in timer THEN find(t, "ok", "none", "timer") ELSE find(t, "fail", "start", t)
graded_timers_always == {"apps"}          \* mutant: graded on an image without the timer
graded_timers == {"apps"} \cap ordered
check_convergence ==
    {service_finding(u, facts[u]) : u \in DOMAIN convergence_targets}
    \cup {timer_finding(t) : t \in graded_timers}
    \cup when("apps" \in ordered /\ ~flathub, find("flathub", "fail", "add-remote", "flathub"))
    \cup when(skips, find("convergence", "ok", "none", "skipped"))

last_failed(u) == when(~facts[u].ok, find(u, "fail", "logs", u))
backup_stale_after_days == IF Period * 2 > Stale THEN Period * 2 ELSE Stale
\* The stamp, which a run writes that copied something.
backup_age ==
    when(backup_day = NoDay, find("backup", "warn", "seed", "backup"))
    \cup when(backup_day # NoDay /\ whole_days_between(backup_day) >= backup_stale_after_days,
              find("backup", "warn", "logs", "stale"))
\* The credential is root's alone: only root's doctor reads what it says.
check_backup(root) ==
    IF "backup" \notin ordered THEN {}
    ELSE IF cred = "none" THEN {find("backup", "warn", "provision", "backup")}
    ELSE when(cred = "open", find("backup", "fail", "restrict", "backup"))
         \cup when(root /\ cred = "ambiguous", find("backup", "fail", "rewrite", "backup"))
         \cup {timer_finding("backup")} \cup last_failed("backup")
         \cup backup_age
\* The filesystem first, then the subvolume, then the units and the store.
check_snapshots ==
    IF "snapshots" \notin ordered THEN {}
    ELSE IF snap_target # "subvolume" THEN {find("snapshots", "fail", "none", snap_target)}
    ELSE {timer_finding("snapshots")} \cup last_failed("snapshots")
         \cup when(~shots, find("snapshots", "warn", "snapshot", "store"))

\* check_overrides and check_enablements: a link whose target is not there.
check_links == {find(l, "warn", "remove", l) : l \in dangling}

\* mutant: a file that is gone is no business of the image
classify_etc_not_shipped(f) ==
    CASE etc[f] = release -> "matches" [] etc[f] = Gone -> "not_shipped" [] OTHER -> "shadowed"
classify_etc(f) ==
    CASE etc[f] = release -> "matches" [] etc[f] = Gone -> "removed" [] OTHER -> "shadowed"
etc_paths == IF "etc" \in ordered THEN Etc ELSE {}
\* The command names the first file only.
check_etc_drift == UNION {
    LET found == {f \in etc_paths : classify_etc(f) = s} IN
    IF found = {} THEN {} ELSE {find(s, "warn", "restore", CHOOSE f \in found : TRUE)} :
    s \in {"shadowed", "removed"}}
\* policy.json with kuma's rule, the key it names, the registries.d entry.
check_signature_policy ==
    IF ~({"policy", "key", "registries"} \subseteq Etc) THEN {}
    ELSE IF etc["policy"] \in {Owners, Gone}
         THEN {find("signatures", "warn", "rebuild", "policy")}
    ELSE IF etc["key"] = Gone THEN {find("signatures", "fail", "rebuild", "key")}
    ELSE IF etc["registries"] \in {Owners, Gone}
         THEN {find("signatures", "fail", "rebuild", "registries")}
    ELSE {}

\* The socket first: a daemon that does not answer is asked nothing more.
check_nostr ==
    IF "nostr" \notin ordered THEN {}
    ELSE CASE bunker = "down" -> {find("nostr", "warn", "start-bunker", "nostr")}
           [] bunker = "mute" -> {find("nostr", "warn", "restart-bunker", "nostr")}
           [] bunker = "unset" -> {find("nostr", "warn", "setup", "nostr")}
           [] bunker = "locked" -> {find("nostr", "warn", "unlock", "nostr")}
           [] OTHER -> {}
check_boot_health == when(~boot_counter, find("boot health", "warn", "converge", "grub"))
check_build_leftovers == when(stranded, find("storage", "warn", "clean", "podman"))

doctor(root) == check_convergence \cup check_backup(root) \cup check_snapshots \cup check_links
          \cup check_etc_drift \cup check_signature_policy
                \cup check_nostr \cup check_boot_health \cup check_build_leftovers
\* Every line reads ok: "All checks passed."
clean_bill == \A f \in doctor(FALSE) : f.grade = "ok"

-----------------------------------------------------------------------------
(* The owner runs the command a finding prints, and it works.                *)

\* mutant: a unit that spent its start limit is just started
convergence_calls_start_only == {u \in {"apps"} \cap ordered : ~facts[u].spent}
\* sync starts what boot starts of the applications, reset-failed first.
convergence_calls == {"apps"} \cap ordered
synced == [u \in Graded |->
    IF u \in convergence_calls THEN [blank EXCEPT !.last = today] ELSE facts[u]]

Heed(f) ==
    /\ f \in doctor(TRUE)
    /\ \/ /\ f.fix = "sync"
          /\ flathub
          /\ facts' = synced
          /\ apps_day' = IF convergence_calls = {} THEN apps_day ELSE today
          /\ UNCHANGED <<timer, skips, backup_day, shots, setting>>
       \/ /\ f.fix = "start" /\ timer' = timer \cup {f.on}
          /\ UNCHANGED <<facts, apps_day, skips, backup_day, shots, setting>>
       \/ /\ f.fix = "add-remote" /\ flathub' = TRUE
          /\ UNCHANGED <<progress, cred, snap_target, files, other>>
       \/ /\ f.fix \in {"provision", "restrict", "rewrite"}
          /\ cred' = "tight"
          /\ UNCHANGED <<progress, flathub, snap_target, files, other>>
       \/ /\ f.fix = "seed" /\ cred # "ambiguous" /\ backup_day' = today
          /\ UNCHANGED <<facts, timer, apps_day, skips, shots, setting>>
       \/ /\ f.fix = "snapshot" /\ facts' = run_ended("snapshots", TRUE) /\ shots' = TRUE
          /\ UNCHANGED <<timer, apps_day, skips, backup_day, setting>>
       \/ /\ f.fix = "remove" /\ dangling' = dangling \ {f.on}
          /\ UNCHANGED <<progress, flathub, cred, snap_target, release, etc, other>>
       \/ /\ f.fix = "restore" /\ etc' = [etc EXCEPT ![f.on] = release]
          /\ UNCHANGED <<progress, flathub, cred, snap_target, dangling, release, other>>
       \/ /\ f.fix = "rebuild" /\ release < MaxImage
          /\ release' = release + 1 /\ etc' = etc_merged
          /\ facts' = at_boot /\ timer' = Timers \cap ordered /\ boot_counter' = TRUE
          /\ UNCHANGED <<apps_day, skips, backup_day, shots, flathub, cred, snap_target, dangling,
                         bunker, stranded>>
       \/ /\ f.fix \in {"start-bunker", "restart-bunker", "setup", "unlock"}
          /\ bunker' \in (IF f.fix \in {"setup", "unlock"} THEN {"open"}
                          ELSE {"unset", "locked", "open"})
          /\ UNCHANGED <<progress, flathub, cred, snap_target, files, stranded, boot_counter>>
       \/ /\ f.fix = "clean" /\ stranded' = FALSE
          /\ UNCHANGED <<progress, flathub, cred, snap_target, files, bunker, boot_counter>>
       \/ /\ f.fix = "converge" /\ boot_counter' = TRUE
          /\ UNCHANGED <<progress, flathub, cred, snap_target, files, bunker, stranded>>
    /\ heeded' = f
    /\ UNCHANGED <<today, ordered, mishaps>>
OwnerHeeds == \E f \in doctor(TRUE) : Heed(f)

Goes ==
    \/ DayPasses \/ RunDoes \/ RunSkips \/ RunDoesNothing \/ RunFails \/ Boots
    \/ StopsTimer \/ DropsRemote \/ LeavesLink \/ EditsEtc \/ Updates
    \/ BunkerChanges \/ BuildDies \/ LosesCounter
DoctorNext == (Goes /\ heeded' = NoFinding) \/ OwnerHeeds
DoctorSpec == DoctorInit /\ [][DoctorNext]_doctorVars

-----------------------------------------------------------------------------
(* Safety.  "All checks passed." is about the machine and not about the       *)
(* units: unless a run is still going, the applications converged within the  *)
(* week, a backup was copied within its limit by somebody who alone can read  *)
(* the credential, there is a snapshot, and no link points at nothing.        *)
CleanBillIsTrue == clean_bill =>
    /\ "apps" \in ordered /\ ~facts["apps"].running /\ facts["apps"].last # NoDay =>
           /\ apps_day # NoDay /\ today - apps_day < Stale /\ flathub
    /\ "backup" \in ordered =>
           backup_day # NoDay /\ today - backup_day < backup_stale_after_days /\ cred # "open"
    /\ "snapshots" \in ordered => snap_target = "subvolume" /\ shots

(* An action property.  What doctor calls clean in /etc is what the next      *)
(* image may change: no file the image ships keeps its old content over an    *)
(* update that no finding spoke of.                                           *)
QuietEtcTakesUpdates ==
    [][release' # release /\ check_etc_drift = {} => \A f \in Etc : etc'[f] = release']_doctorVars

(* A finding whose command was run and worked is gone: the advice of every     *)
(* check but the two that are dead ends (a failed account sync, which kuma     *)
(* sync does not start, and a hand-edited signature policy, which an update    *)
(* carries forward).                                                           *)
AdviceWorks == heeded.name \notin {"user", "signatures"} => heeded \notin doctor(TRUE)

(* Violated.  The same of every check: "a diagnosis without its next command  *)
(* is a dead end" (inspect.rs, Finding).                                      *)
NoDeadEnds == heeded \notin doctor(TRUE)

(* Violated.  "It cannot be reached by a laptop that was shut for a week, only *)
(* by a loop that has stopped turning" (inspect.rs, STALE_CONVERGENCE_DAYS):  *)
(* a machine told its convergence is stale has not converged for that long.   *)
StaleMeansStopped ==
    find("apps", "fail", "sync", "stale") \in doctor(FALSE) => whole_days_between(apps_day) >= Stale
=============================================================================
