------------------------------- MODULE Storage -------------------------------
(* What a home directory survives: the snapshot unit and its retention, the  *)
(* backup unit, the first-boot restore (blocks.rs), kuma snapshot --restore  *)
(* and kuma backup --init / --restore (snapshot.rs, backup.rs).  The units   *)
(* run side by side; the repository may be out of reach, hold what somebody  *)
(* else put there and be seeded or not; power may be cut at every step.      *)
EXTENDS Naturals, FiniteSets, Sequences

CONSTANTS Files,       \* what a home may hold
          KeepRecent,  \* [snapshots] keep_recent
          KeepDaily,   \* [snapshots] keep_daily
          PerDay,      \* snapshots to a day
          MaxTime,     \* bound on the snapshots taken
          MaxCopies,   \* bound on the backups in the repository
          Restores     \* whether a machine is installed with --restore: of BOOLEAN

ASSUME StorageAssumption ==
    /\ {KeepRecent, KeepDaily, MaxTime, MaxCopies} \subseteq Nat
    /\ KeepRecent + KeepDaily > 0       \* validate refuses a policy that keeps nothing
    /\ PerDay \in Nat \ {0} /\ Restores \subseteq BOOLEAN
    /\ TRUE \in Restores => MaxCopies > 0     \* a restore has a backup to restore

VARIABLES now,         \* the time of the last snapshot
          home,        \* what the target holds
          subvol,      \* the target is a btrfs subvolume
          snaps,       \* the store: times of the snapshots in it
          held,        \* what each snapshot taken so far holds
          pruning,     \* the snapshot unit has its retention left to do
          seeded,      \* there is a repository
          repo,        \* its copies, oldest first
          reach,       \* the repository answers
          secret,      \* the declared credential is on the machine
          run,         \* the step of the backup unit
          mounted,     \* the snapshot it mounted over the target
          stamp,       \* backup-last: the time of a run that copied, 0 for none
          request,     \* restore-request
          credential,  \* restore.env is there and names a repository
          lost,        \* what the repository held when the machine was installed
          restored,    \* a restore ran to its end
          running      \* the restore's snapshot while it runs, 0 otherwise

storageVars == <<now, home, subvol, snaps, held, pruning, seeded, repo, reach, secret, run, mounted,
                 stamp, request, credential, lost, restored, running>>
store == <<now, snaps, held, pruning>>
backup == <<run, mounted, stamp>>
restore == <<request, credential, lost, restored, running>>

Copy == [at : Nat, files : SUBSET Files, tag : {"kuma", "other"}]
day(t) == t \div PerDay

StorageTypeOK ==
    /\ now \in 0..MaxTime /\ home \subseteq Files
    /\ snaps \subseteq DOMAIN held /\ DOMAIN held = 1..now
    /\ Len(repo) <= MaxCopies /\ \A i \in 1..Len(repo) : repo[i] \in Copy
    /\ run \in {"off", "probe", "copy", "forget", "stamp", "failed"}
    /\ mounted \in 0..now /\ stamp \in 0..now
    /\ running \in 0..Len(repo)

StorageInit == \E restoring \in Restores :
    /\ now = 0 /\ snaps = {} /\ held = <<>> /\ pruning = FALSE
    /\ subvol \in BOOLEAN
    /\ seeded = restoring
    /\ repo = IF restoring THEN <<[at |-> 0, files |-> Files, tag |-> "kuma"]>> ELSE <<>>
    /\ home = IF restoring THEN {} ELSE Files
    /\ reach \in BOOLEAN /\ secret \in BOOLEAN
    /\ run = "off" /\ mounted = 0 /\ stamp = 0
    /\ request = restoring /\ credential \in (IF restoring THEN BOOLEAN ELSE {FALSE})
    /\ lost = IF restoring THEN Files ELSE {}
    /\ restored = FALSE /\ running = 0

-----------------------------------------------------------------------------
(* The owner, the network, the power.                                        *)

OwnerWrites == \E f \in Files :
    /\ \/ f \in home /\ home' = home \ {f}
       \/ lost = {} /\ f \notin home /\ home' = home \cup {f}
    /\ UNCHANGED <<store, subvol, seeded, repo, reach, secret, backup, restore>>
Provision ==
    /\ ~secret /\ secret' = TRUE
    /\ UNCHANGED <<store, home, subvol, seeded, repo, reach, backup, restore>>
ReachChanges ==
    /\ reach' = ~reach
    /\ UNCHANGED <<store, home, subvol, seeded, repo, secret, backup, restore>>
\* Somebody uses the repository by hand.
OtherCopy ==
    /\ seeded /\ Len(repo) < MaxCopies
    /\ repo' = Append(repo, [at |-> now, files |-> {}, tag |-> "other"])
    /\ UNCHANGED <<store, home, subvol, seeded, reach, secret, backup, restore>>

PowerCut ==
    /\ pruning' = FALSE /\ run' = "off" /\ mounted' = 0 /\ running' = 0
    /\ UNCHANGED <<now, snaps, held, home, subvol, seeded, repo, reach, secret, stamp, request,
                   credential, lost, restored>>

-----------------------------------------------------------------------------
(* The snapshot unit.                                                        *)

\* Not a subvolume: the unit ends green and takes nothing.
TakeSnapshot ==
    /\ ~pruning /\ subvol /\ now < MaxTime
    /\ now' = now + 1
    /\ snaps' = snaps \cup {now'} /\ held' = Append(held, home)
    /\ pruning' = TRUE
    /\ UNCHANGED <<home, subvol, seeded, repo, reach, secret, backup, restore>>

newer(t, s) == {u \in s : u > t}
\* The newest keep_recent, whatever their age.
recent(s) == {t \in s : Cardinality(newer(t, s)) < KeepRecent}
\* The newest of each day the recent ones do not reach.
newest_of_day(s) == {t \in s \ recent(s) :
    day(t) \notin {day(u) : u \in recent(s) \cup newer(t, s)}}
\* keep_daily of them.
daily(s) == {t \in newest_of_day(s) : Cardinality(newer(t, newest_of_day(s))) < KeepDaily}
kept(s) == recent(s) \cup daily(s)

\* The loop walks the list it read once and deletes one by one.
DeleteOne == \E t \in snaps \ kept(snaps) :
    /\ pruning
    /\ \A u \in newer(t, snaps) : u \in kept(snaps)
    /\ snaps' = snaps \ {t}
    /\ UNCHANGED <<now, held, pruning, home, subvol, seeded, repo, reach, secret, backup, restore>>
PruneEnds ==
    /\ pruning /\ snaps \subseteq kept(snaps)
    /\ pruning' = FALSE
    /\ UNCHANGED <<now, snaps, held, home, subvol, seeded, repo, reach, secret, backup, restore>>

-----------------------------------------------------------------------------
(* The backup unit: three guards that end green, then the copy.              *)

newest == CHOOSE t \in snaps : newer(t, snaps) = {}

BackupStarts ==
    /\ run \in {"off", "failed"} /\ secret /\ snaps # {}
    /\ run' = "probe"
    /\ UNCHANGED <<store, home, subvol, seeded, repo, reach, secret, mounted, stamp, restore>>
\* mutant: a run that cannot reach the repository stamps like one that copied
ProbeStamps ==
    /\ run = "probe"
    /\ run' = IF reach /\ seeded THEN "copy" ELSE "stamp"
    /\ mounted' = newest
    /\ UNCHANGED <<store, home, subvol, seeded, repo, reach, secret, stamp, restore>>
\* No repository, or none in reach: the run ends green.
Probe ==
    /\ run = "probe"
    /\ IF reach /\ seeded /\ snaps # {} THEN run' = "copy" /\ mounted' = newest
                         ELSE run' = "off" /\ UNCHANGED mounted
    /\ UNCHANGED <<store, home, subvol, seeded, repo, reach, secret, stamp, restore>>
newest_copy(tag) == {i \in 1..Len(repo) : repo[i].tag = tag
                        /\ \A j \in (i + 1)..Len(repo) : repo[j].tag # tag}
\* restic backup, unless nothing changed since the copy before.
CopySnapshot ==
    /\ run = "copy" /\ reach
    /\ run' = "forget"
    /\ IF \E i \in newest_copy("kuma") : repo[i].files = held[mounted]
       THEN UNCHANGED repo
       ELSE /\ Len(repo) < MaxCopies
            /\ repo' = Append(repo, [at |-> mounted, files |-> held[mounted], tag |-> "kuma"])
    /\ UNCHANGED <<store, home, subvol, seeded, reach, secret, mounted, stamp, restore>>
\* restic forget keeps the newest copy under any policy and may drop any
\* older one of kuma's.
Forget == \E i \in 0..Len(repo) :
    /\ run = "forget" /\ reach /\ running = 0
    /\ run' = "stamp"
    /\ IF i = 0 THEN UNCHANGED repo
       ELSE /\ repo[i].tag = "kuma" /\ i \notin newest_copy("kuma")
            /\ repo' = [j \in 1..(Len(repo) - 1) |-> IF j < i THEN repo[j] ELSE repo[j + 1]]
    /\ UNCHANGED <<store, home, subvol, seeded, reach, secret, mounted, stamp, restore>>
\* The prune is the last thing that may fail; the stamp comes after it.
WriteStamp ==
    /\ run = "stamp"
    /\ run' = "off" /\ mounted' = 0 /\ stamp' = mounted
    /\ UNCHANGED <<store, home, subvol, seeded, repo, reach, secret, restore>>
BackupFails ==
    /\ run \in {"copy", "forget", "stamp"} /\ ~reach
    /\ run' = "failed" /\ mounted' = 0
    /\ UNCHANGED <<store, home, subvol, seeded, repo, reach, secret, stamp, restore>>

\* kuma backup --init: the repository, or a refusal where there is one, and
\* the unit makes the first copy.
seed ==
    /\ secret /\ reach /\ ~seeded /\ run \in {"off", "failed"}
    /\ seeded' = TRUE
    /\ run' = IF snaps # {} THEN "probe" ELSE "off"
    /\ UNCHANGED <<store, home, subvol, repo, reach, secret, mounted, stamp, restore>>

-----------------------------------------------------------------------------
(* Bringing something back.                                                  *)

\* The first-boot restore: a request that nothing can satisfy is dropped, one
\* that fails on a bad day stays for the next boot.
RestoreRefused ==
    /\ request /\ running = 0 /\ ~credential
    /\ request' = FALSE
    /\ UNCHANGED <<store, home, subvol, seeded, repo, reach, secret, backup,
                   credential, lost, restored, running>>
RestoreStarts == \E i \in newest_copy("kuma") :
    /\ request /\ running = 0 /\ credential /\ reach
    /\ running' = i
    /\ UNCHANGED <<store, home, subvol, seeded, repo, reach, secret, backup,
                   request, credential, lost, restored>>
RestoreOne == \E f \in Files :
    /\ running # 0 /\ f \in repo[running].files \ home
    /\ home' = home \cup {f}
    /\ UNCHANGED <<store, subvol, seeded, repo, reach, secret, backup, restore>>
RestoreFails ==
    /\ running # 0 /\ ~reach
    /\ running' = 0
    /\ UNCHANGED <<store, home, subvol, seeded, repo, reach, secret, backup,
                   request, credential, lost, restored>>
RestoreEnds ==
    /\ running # 0 /\ repo[running].files \subseteq home
    /\ running' = 0 /\ request' = FALSE /\ restored' = TRUE
    /\ UNCHANGED <<store, home, subvol, seeded, repo, reach, secret, backup, credential, lost>>

\* kuma snapshot --restore: the newest snapshot that has the path.
snapshot_restore == \E f \in Files :
    /\ \E t \in snaps : f \in held[t]
    /\ home' = home \cup {f}
    /\ UNCHANGED <<store, subvol, seeded, repo, reach, secret, backup, restore>>
\* kuma backup --restore: the newest copy, whoever made it, and it ends well
\* where that one does not have the path.
found(f) == Len(repo) > 0 /\ f \in repo[Len(repo)].files
backup_restore == \E f \in Files :
    /\ secret /\ reach
    /\ home' = IF found(f) THEN home \cup {f} ELSE home
    /\ UNCHANGED <<store, subvol, seeded, repo, reach, secret, backup, restore>>

RestoreNext ==
    RestoreRefused \/ RestoreStarts \/ RestoreOne \/ RestoreFails \/ RestoreEnds
StorageNext ==
    \/ OwnerWrites \/ Provision \/ ReachChanges \/ OtherCopy \/ PowerCut
    \/ TakeSnapshot \/ DeleteOne \/ PruneEnds
    \/ BackupStarts \/ Probe \/ CopySnapshot \/ Forget \/ WriteStamp \/ BackupFails \/ seed
    \/ RestoreNext \/ snapshot_restore \/ backup_restore
StorageSpec == StorageInit /\ [][StorageNext]_storageVars

-----------------------------------------------------------------------------

\* keep_daily buys that many further days, however the prunes before went and
\* wherever one was cut short: of each of the last keep_daily days before the
\* recent snapshots the last snapshot ever taken is in the store.
DaysAreKept ==
    LET days == {day(t) : t \in 1..now} \ {day(t) : t \in recent(snaps)}
        last == {d \in days : Cardinality({e \in days : e > d}) < KeepDaily}
    IN  \A d \in last : \E t \in snaps : day(t) = d /\ \A u \in 1..now : day(u) = d => u <= t

\* The stamp is written only by a run that copied something: what its snapshot
\* held is, or was before newer copies, in the repository.
StampMeansCopied ==
    [][stamp' # stamp => \E i \in newest_copy("kuma") : repo[i].files = held[stamp']]_storageVars

\* What snapshots and backups said they keep is kept.
CopiesAreKept == []DaysAreKept /\ StampMeansCopied

\* A bad day costs a retry at the next boot rather than the data: the restore
\* that reports its end brought back what the repository held at the install,
\* but for what the owner removed since.
RestoreBringsItBack ==
    [][restored' /\ ~restored => lost \subseteq home]_storageVars

\* kuma backup --restore brings a path back from the newest backup that has it.
BackupRestoreFinds ==
    \A f \in Files : (\E i \in 1..Len(repo) : f \in repo[i].files) => found(f)
=============================================================================
