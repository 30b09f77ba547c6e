------------------------------ MODULE Hibernate ------------------------------
(* kuma hibernate and kuma hibernate --off (main.rs), the scripts they run   *)
(* and the verdict doctor gives (hibernate.rs).  Each verb is a row of       *)
(* commands; any may fail and power may be cut between two.  Kernel          *)
(* arguments are those of the deployment the next boot takes, while the verb *)
(* and doctor read the booted kernel's.                                      *)
EXTENDS Naturals, Sequences, SequencesExt

CONSTANTS Offsets,    \* where btrfs may put a swapfile
          MaxVerbs    \* bound on the verbs run

ASSUME HibernateAssumption == Offsets \subseteq Nat \ {0} /\ MaxVerbs \in Nat

VARIABLES swapSubvol,     \* the swap subvolume exists
          file,       \* the offset of the swapfile in it, 0 for none
          block,      \* kuma's lines are in /etc/fstab
          swapMounted,    \* /var/swap is mounted
          active,     \* the kernel swaps to the file
          labelled,   \* the file and its directory carry their SELinux types
          lid,        \* the logind drop-in
          pending,    \* resume_offset arguments of the next boot, in order
          cmdline,    \* those of the booted kernel
          drop,       \* --off: the argument it will delete, 0 for none
          verbStep,       \* the command the verb runs next
          verbs

hibernateVars == <<swapSubvol, file, block, swapMounted, active, labelled, lid, pending, cmdline,
                   drop, verbStep, verbs>>
made_file == <<swapSubvol, file>>
swapOn == <<swapMounted, active, labelled>>
told == <<pending, cmdline>>

HibernateTypeOK ==
    /\ {swapSubvol, block, swapMounted, active, labelled, lid} \subseteq BOOLEAN
    /\ file \in Offsets \cup {0} /\ drop \in Offsets \cup {0}
    /\ pending \in Seq(Offsets) /\ cmdline \in Seq(Offsets)
    /\ verbStep \in {"idle", "create", "mkswapfile", "fstab", "mount", "lid", "kargs", "enabled",
                 "swapoff", "strip", "delete", "unlid", "unkargs", "disabled", "nothing"}
    /\ verbs \in 0..MaxVerbs

HibernateInit ==
    /\ swapSubvol = FALSE /\ file = 0 /\ block = FALSE /\ lid = FALSE
    /\ swapMounted = FALSE /\ active = FALSE /\ labelled = FALSE
    /\ pending = <<>> /\ cmdline = <<>> /\ drop = 0
    /\ verbStep = "idle" /\ verbs = 0

-----------------------------------------------------------------------------
(* Reading the machine.                                                      *)

\* The path is below the mount: an unmounted swapfile is not there.
present == swapMounted /\ file # 0
\* The last argument of its name is the one that counts.
resume_from_cmdline(args) == IF args = <<>> THEN 0 ELSE Last(args)

\* What doctor says, from a probe whose privileged half ran or did not.
verdict(asked) ==
    LET claimed == resume_from_cmdline(cmdline)
        actual == IF asked /\ present THEN file ELSE 0
    IN  CASE claimed = 0 /\ actual = 0 -> "not set"
          [] claimed # 0 /\ actual = 0 -> IF present /\ ~asked THEN "unasked" ELSE "broken"
          [] claimed # actual /\ actual # 0 -> "broken"
          [] OTHER -> IF active /\ labelled THEN "ready" ELSE "broken"
lid_verdict(v) ==
    CASE v = "ready" -> IF lid THEN "ok" ELSE "missing"
      [] v = "not set" /\ lid -> "stale"
      [] OTHER -> "silent"

\* What doctor asks of the owner for it: repair is kuma hibernate --yes, take
\* back and reclaim are kuma hibernate --off --yes.
check_hibernate(asked) ==
    LET v == verdict(asked)
    IN  (CASE v = "broken" -> {"repair"} [] OTHER -> {})
        \cup (CASE lid_verdict(v) = "missing" -> {"repair"}
                [] lid_verdict(v) = "stale" -> {"take back"}
                [] OTHER -> {})

-----------------------------------------------------------------------------
(* kuma hibernate --yes.  A file that is there is never remade.              *)

Resting == verbStep \in {"idle", "enabled", "disabled", "nothing"}
Verb(next) ==
    /\ Resting /\ verbs < MaxVerbs /\ verbs' = verbs + 1
    /\ verbStep' = next
    /\ UNCHANGED <<made_file, block, swapOn, lid, told>>

hibernate_cmd == Verb(IF present THEN "lid" ELSE "create") /\ drop' = 0

create_subvolume ==
    /\ verbStep = "create"
    /\ swapSubvol' = TRUE
    /\ verbStep' = IF swapSubvol THEN "idle" ELSE "mkswapfile"    \* it exists: the script dies
    /\ UNCHANGED <<file, block, swapOn, lid, told, drop, verbs>>
mkswapfile == \E o \in Offsets :
    /\ verbStep = "mkswapfile"
    /\ file' = o /\ verbStep' = "fstab"
    /\ UNCHANGED <<swapSubvol, block, swapOn, lid, told, drop, verbs>>
append_fstab ==
    /\ verbStep = "fstab"
    /\ block' = TRUE /\ verbStep' = "mount"
    /\ UNCHANGED <<made_file, swapOn, lid, told, drop, verbs>>
start_swap ==
    /\ verbStep = "mount"
    /\ swapMounted' = TRUE /\ active' = TRUE /\ labelled' = TRUE /\ verbStep' = "lid"
    /\ UNCHANGED <<made_file, block, lid, told, drop, verbs>>
\* Both paths relabel and write the lid's half.
write_lid ==
    /\ verbStep = "lid"
    /\ lid' = TRUE /\ labelled' = TRUE /\ verbStep' = "kargs"
    /\ UNCHANGED <<made_file, block, swapMounted, active, told, drop, verbs>>

\* --delete-if-present takes one argument of that value away.
deleted(args, value) == IF value = 0 THEN args ELSE RemoveFirst(args, value)
\* mutant: --append-if-missing, which leaves a stale one where it stands
append_if_missing(o) == IF o \in ToSet(pending) THEN pending ELSE Append(pending, o)
\* What the booted kernel was told goes, what the file says is appended.
karg_arguments(o) == Append(deleted(pending, resume_from_cmdline(cmdline)), o)
set_kargs ==
    /\ verbStep = "kargs"
    /\ pending' = karg_arguments(file) /\ verbStep' = "enabled"
    /\ UNCHANGED <<made_file, block, swapOn, lid, cmdline, drop, verbs>>

-----------------------------------------------------------------------------
(* kuma hibernate --off --yes.                                               *)

\* Nothing it looks at is there: it says so and ends.
hibernate_off ==
    /\ drop' = resume_from_cmdline(cmdline)
    /\ Verb(IF ~present /\ ~block /\ drop' = 0 /\ ~lid THEN "nothing" ELSE "swapoff")

\* Every one of these is tolerated when it fails.
swapoff ==
    /\ verbStep = "swapoff"
    /\ \/ swapMounted' = FALSE /\ active' = FALSE
       \/ active /\ UNCHANGED <<swapMounted, active>>
    /\ verbStep' = "strip"
    /\ UNCHANGED <<made_file, block, labelled, lid, told, drop, verbs>>
strip_fstab ==
    /\ verbStep = "strip"
    /\ block' = FALSE /\ verbStep' = "delete"
    /\ UNCHANGED <<made_file, swapOn, lid, told, drop, verbs>>
\* The kernel lets no active swapfile be unlinked.
delete_subvolume ==
    /\ verbStep = "delete"
    /\ IF active THEN verbStep' = "idle" /\ UNCHANGED <<made_file, labelled>>
       ELSE swapSubvol' = FALSE /\ file' = 0 /\ labelled' = FALSE /\ verbStep' = "unlid"
    /\ UNCHANGED <<block, swapMounted, active, lid, told, drop, verbs>>
remove_lid ==
    /\ verbStep = "unlid"
    /\ lid' = FALSE /\ verbStep' = IF drop = 0 THEN "disabled" ELSE "unkargs"
    /\ UNCHANGED <<made_file, block, swapOn, told, drop, verbs>>
karg_removal ==
    /\ verbStep = "unkargs"
    /\ pending' = deleted(pending, drop) /\ verbStep' = "disabled"
    /\ UNCHANGED <<made_file, block, swapOn, lid, cmdline, drop, verbs>>

-----------------------------------------------------------------------------
(* Anything may fail: a disk that is full, rpm-ostree in another transaction,*)
(* a power cut.  A boot mounts what fstab names and swaps to it.             *)

VerbFails ==
    /\ verbStep \in {"mkswapfile", "mount", "lid", "kargs", "unkargs"}
    /\ verbStep' = "idle"
    /\ UNCHANGED <<made_file, block, swapOn, lid, told, drop, verbs>>
Reboot ==
    /\ cmdline' = pending
    /\ swapMounted' = (block /\ swapSubvol) /\ active' = (swapMounted' /\ file # 0)
    /\ labelled' = (file # 0 /\ (labelled \/ swapMounted'))
    /\ verbStep' = "idle" /\ drop' = 0
    /\ UNCHANGED <<made_file, block, lid, pending, verbs>>

Enable == create_subvolume \/ mkswapfile \/ append_fstab \/ start_swap \/ write_lid \/ set_kargs
Disable == swapoff \/ strip_fstab \/ delete_subvolume \/ remove_lid \/ karg_removal
HibernateNext == hibernate_cmd \/ Enable \/ hibernate_off \/ Disable \/ VerbFails \/ Reboot
HibernateSpec == HibernateInit /\ [][HibernateNext]_hibernateVars

-----------------------------------------------------------------------------

\* A verb that says it is done has told the next kernel where the file really
\* starts, whatever verbs failed, were cut short or never saw their reboot
\* before it, and left the file labelled, in use and on the lid.
EnabledResumes ==
    verbStep = "enabled" =>
        /\ file # 0 /\ resume_from_cmdline(pending) = file
        /\ active /\ labelled /\ lid

\* ... and in fstab, so that the next boot swaps to it.
EnabledStays == verbStep = "enabled" => block

\* What doctor calls ready comes back from a hibernate.  Doctor compares the
\* file with the arguments of the kernel that runs; the one that resumes is
\* the next.
ReadyMeansResumes == verdict(TRUE) = "ready" => resume_from_cmdline(pending) = file

\* Violated.  The repair doctor offers gets past its first command: a file that
\* is not mounted (an --off cut short after it took the lines out of fstab) is
\* no file to the verb, and the subvolume it makes anew is already there.
RepairCanStart ==
    Resting /\ "repair" \in check_hibernate(TRUE) => present \/ ~swapSubvol

\* A half-enabled machine (the file made, the fstab written, the boot never
\* taken) is cleaned up by the same command as a working one.
OffTakesItAll ==
    verbStep \in {"disabled", "nothing"} => ~swapSubvol /\ ~block /\ ~lid /\ pending = <<>>
=============================================================================
