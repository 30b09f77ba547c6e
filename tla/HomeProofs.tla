------------------------------ MODULE HomeProofs ------------------------------
(***************************************************************************)
(* What kuma does around one machine, for every declaration, disk, account *)
(* and number of attempts: hibernation, the installer, the host's accounts,*)
(* builds and their lock, the doctor, the permissions of Flatpak,          *)
(* snapshots and backups, and images.  The components share no state, so   *)
(* each has its own section and its own inductive invariant.               *)
(***************************************************************************)
EXTENDS HomeMC, TLAPS, FiniteSetTheorems, SequenceTheorems, WellFoundedInduction

-----------------------------------------------------------------------------
(* kuma hibernate.  Swap is on exactly while its file is mounted, the lines *)
(* of fstab stand for a file there is, and a step of the verb knows what   *)
(* the steps before it left.                                               *)

SwapIsWhole ==
    /\ file # 0 => swapSubvol
    /\ block => file # 0
    /\ swapMounted = active
    /\ active => file # 0
VerbKnows ==
    /\ verbStep = "mkswapfile" => ~block /\ swapSubvol
    /\ verbStep \in {"fstab", "mount"} => file # 0
    /\ verbStep \in {"lid", "kargs", "enabled"} => active
    /\ verbStep \in {"kargs", "enabled"} => lid /\ labelled
    /\ verbStep = "delete" => ~block
HibernateInv ==
    HibernateTypeOK /\ SwapIsWhole /\ VerbKnows
        /\ (verbStep = "enabled" => resume_from_cmdline(pending) = file)

\* The least of a set of naturals.
LEMMA Least ==
    ASSUME NEW S \in SUBSET Nat, S # {}
    PROVE  \E m \in S : \A n \in S : m <= n
<1> DEFINE R == {p \in Nat \X Nat : p[1] < p[2]}
<1>1. R = OpToRel(<, Nat) BY DEF OpToRel
<1>2. IsWellFoundedOn(R, Nat) BY <1>1, NatLessThanWellFounded
<1> HIDE DEF R
<1>3. PICK m \in S : \A n \in S : <<n, m>> \notin R BY <1>2, WFMin
<1>4. \A n \in S : ~(n < m) BY <1>3 DEF R
<1>5. QED BY <1>4

LEMMA Lowest ==
    ASSUME NEW S \in SUBSET Nat, S # {}
    PROVE  Min(S) \in S
BY Least DEF Min

\* Removing an argument leaves arguments.
LEMMA Removed ==
    ASSUME NEW args \in Seq(Offsets), NEW value
    PROVE  deleted(args, value) \in Seq(Offsets)
<1>1. CASE value = 0 \/ ~(\E i \in 1..Len(args) : args[i] = value)
    BY <1>1 DEF deleted, RemoveFirst
<1>2. CASE value # 0 /\ \E i \in 1..Len(args) : args[i] = value
    <2> DEFINE I == {j \in 1..Len(args) : args[j] = value}
               i == Min(I)
    <2>1. deleted(args, value) = SubSeq(args, 1, i - 1) \o SubSeq(args, i + 1, Len(args))
        BY <1>2 DEF deleted, RemoveFirst, RemoveAt, SelectInSeq
    <2>2. Len(args) \in Nat /\ \A j \in 1..Len(args) : args[j] \in Offsets BY LenProperties
    <2>3. i \in 1..Len(args)
        <3>1. I \in SUBSET Nat /\ I # {} BY <1>2
        <3>2. i \in I BY <3>1, Lowest
        <3>3. QED BY <3>2
    <2> HIDE DEF i
    <2>4. SubSeq(args, 1, i - 1) \in Seq(Offsets)
        <3>1. \A j \in 1..i - 1 : args[j] \in Offsets BY <2>2, <2>3
        <3>2. QED BY <2>3, <3>1, SubSeqProperties
    <2>5. SubSeq(args, i + 1, Len(args)) \in Seq(Offsets)
        <3>1. \A j \in i + 1..Len(args) : args[j] \in Offsets BY <2>2, <2>3
        <3>2. QED BY <2>2, <2>3, <3>1, SubSeqProperties
    <2>6. QED BY <2>1, <2>4, <2>5, ConcatProperties
<1>3. QED BY <1>1, <1>2

LEMMA LastAppended ==
    ASSUME NEW args \in Seq(Offsets), NEW o \in Offsets
    PROVE  /\ Append(args, o) \in Seq(Offsets)
           /\ resume_from_cmdline(Append(args, o)) = o
<1>1. /\ Len(args) \in Nat /\ Append(args, o) \in Seq(Offsets) /\ Append(args, o) # <<>>
      /\ Len(Append(args, o)) = Len(args) + 1 /\ Append(args, o)[Len(args) + 1] = o
    BY LenProperties, AppendProperties
<1>2. QED BY <1>1 DEF resume_from_cmdline, Last

LEMMA Claimed ==
    ASSUME NEW args \in Seq(Offsets)
    PROVE  resume_from_cmdline(args) \in Offsets \cup {0}
<1>1. CASE args = <<>> BY <1>1 DEF resume_from_cmdline
<1>2. CASE args # <<>>
    <2>1. Len(args) \in 1..Len(args) BY <1>2, LenProperties, EmptySeq
    <2>2. QED BY <1>2, <2>1, LenProperties DEF resume_from_cmdline, Last
<1>3. QED BY <1>1, <1>2

LEMMA HibernateStep ==
    ASSUME HibernateInv, HibernateNext
    PROVE  HibernateInv'
<1> USE DEF made_file, swapOn, told
<1> DEFINE Steps == {"idle", "create", "mkswapfile", "fstab", "mount", "lid", "kargs", "enabled",
                 "swapoff", "strip", "delete", "unlid", "unkargs", "disabled", "nothing"}
<1>0. /\ pending \in Seq(Offsets) /\ cmdline \in Seq(Offsets)
      /\ file \in Offsets \cup {0} /\ drop \in Offsets \cup {0} /\ verbs \in 0..MaxVerbs
      /\ Offsets \subseteq Nat \ {0} /\ MaxVerbs \in Nat
    BY HibernateAssumption DEF HibernateInv, HibernateTypeOK
<1> USE DEF HibernateInv, SwapIsWhole, VerbKnows
<1>1. ASSUME NEW next \in {"lid", "create", "nothing", "swapoff"}, Verb(next),
             next = "lid" => present, drop' \in Offsets \cup {0}
      PROVE  HibernateInv'
    <2>1. verbs' \in 0..MaxVerbs BY <1>0, <1>1 DEF Verb
    <2>2. HibernateTypeOK' BY <1>1, <2>1 DEF Verb, HibernateTypeOK
    <2>3. QED BY <1>1, <2>2 DEF Verb, present, resume_from_cmdline
<1>2. CASE hibernate_cmd BY <1>1, <1>2 DEF hibernate_cmd
<1>3. CASE hibernate_off
    <2>1. drop' \in Offsets \cup {0} BY <1>0, <1>3, Claimed DEF hibernate_off
    <2>2. QED BY <1>1, <1>3, <2>1 DEF hibernate_off
<1>4. CASE create_subvolume BY <1>4 DEF create_subvolume, HibernateTypeOK, resume_from_cmdline
<1>5. CASE mkswapfile BY <1>0, <1>5 DEF mkswapfile, HibernateTypeOK, resume_from_cmdline
<1>6. CASE append_fstab BY <1>6 DEF append_fstab, HibernateTypeOK, resume_from_cmdline
<1>7. CASE start_swap BY <1>7 DEF start_swap, HibernateTypeOK, resume_from_cmdline
<1>8. CASE write_lid BY <1>8 DEF write_lid, HibernateTypeOK, resume_from_cmdline
<1>9. CASE set_kargs
    <2>1. file \in Offsets BY <1>0, <1>9 DEF set_kargs
    <2>2. pending' \in Seq(Offsets) /\ resume_from_cmdline(pending') = file
        BY <1>0, <1>9, <2>1, Removed, LastAppended DEF set_kargs, karg_arguments
    <2>3. QED BY <1>9, <2>2 DEF set_kargs, HibernateTypeOK, resume_from_cmdline
<1>10. CASE swapoff BY <1>10 DEF swapoff, HibernateTypeOK, resume_from_cmdline
<1>11. CASE strip_fstab BY <1>11 DEF strip_fstab, HibernateTypeOK, resume_from_cmdline
<1>12. CASE delete_subvolume BY <1>12 DEF delete_subvolume, HibernateTypeOK, resume_from_cmdline
<1>13. CASE remove_lid BY <1>13 DEF remove_lid, HibernateTypeOK, resume_from_cmdline
<1>14. CASE karg_removal
    <2>1. pending' \in Seq(Offsets) BY <1>0, <1>14, Removed DEF karg_removal
    <2>2. QED BY <1>14, <2>1 DEF karg_removal, HibernateTypeOK, resume_from_cmdline
<1>15. CASE VerbFails BY <1>15 DEF VerbFails, HibernateTypeOK, resume_from_cmdline
<1>16. CASE Reboot BY <1>0, <1>16 DEF Reboot, HibernateTypeOK, resume_from_cmdline
<1>17. QED BY <1>2, <1>3, <1>4, <1>5, <1>6, <1>7, <1>8, <1>9, <1>10, <1>11, <1>12, <1>13,
              <1>14, <1>15, <1>16 DEF HibernateNext, Enable, Disable

LEMMA HibernateInvHolds == HibernateSpec => []HibernateInv
<1>1. HibernateInit => HibernateInv
    <2> SUFFICES ASSUME HibernateInit PROVE HibernateInv
        OBVIOUS
    <2>1. <<>> \in Seq(Offsets) /\ MaxVerbs \in Nat BY HibernateAssumption
    <2>2. HibernateTypeOK
        <3>1. pending \in Seq(Offsets) /\ cmdline \in Seq(Offsets) BY <2>1 DEF HibernateInit
        <3>2. verbs \in 0..MaxVerbs BY <2>1 DEF HibernateInit
        <3>3. {swapSubvol, block, swapMounted, active, labelled, lid} \subseteq BOOLEAN
            BY DEF HibernateInit
        <3>4. QED BY <3>1, <3>2, <3>3 DEF HibernateInit, HibernateTypeOK
    <2>3. QED BY <2>2 DEF HibernateInit, HibernateInv, SwapIsWhole, VerbKnows
<1>2. HibernateInv /\ [HibernateNext]_hibernateVars => HibernateInv'
    <2> SUFFICES ASSUME HibernateInv, [HibernateNext]_hibernateVars PROVE HibernateInv'
        OBVIOUS
    <2>1. CASE UNCHANGED hibernateVars
        BY <2>1 DEF hibernateVars, HibernateInv, HibernateTypeOK, SwapIsWhole, VerbKnows,
                    resume_from_cmdline
    <2>2. QED BY <2>1, HibernateStep
<1>3. QED BY <1>1, <1>2, PTL DEF HibernateSpec

\* EnabledResumes: for any offsets btrfs may give and any number of verbs that
\* failed, were cut short or never saw their reboot, a verb that says it is
\* done told the next kernel where the swapfile starts.
THEOREM EnabledIsTrue == HibernateSpec => []EnabledResumes
<1>1. HibernateInv => EnabledResumes
    BY DEF HibernateInv, SwapIsWhole, VerbKnows, EnabledResumes
<1>2. QED BY <1>1, HibernateInvHolds, PTL

-----------------------------------------------------------------------------
(* kuma install.  What a gate let through stays true up to the script's    *)
(* last command: nothing of it is asked again.                             *)

AfterSwap == {"plan", "passphrase", "account", "restore", "sync", "run"} \cup Commands
AfterLayout == {"swap"} \cup AfterSwap
AfterTools == {"layout"} \cup AfterLayout
AfterObjections == {"image", "encrypt", "sizes", "tools"} \cup AfterTools
AfterSource == {"objections"} \cup AfterObjections

GatesStand ==
    /\ step \in AfterSource => asked.updates = "registry"
    /\ step \in AfterObjections => ~target.member
    /\ step \in AfterTools => required \subseteq media.tools
    /\ step \in AfterLayout => plan(target.size)
    /\ step \in AfterSwap => swap + esp + boot + MIN_ROOT_MIB <= target.size
InstallInv == InstallTypeOK /\ asked \in Flags /\ GatesStand /\ NothingHeldBehind

\* The partitions and the swapfile are sizes, and MIN_ROOT_MIB is one.
LEMMA Sizes ==
    /\ Asks \cup {ESP_MIB, BOOT_MIB} \subseteq Nat /\ Swaps \cup {0} \subseteq Nat
    /\ DiskSizes \subseteq Nat /\ MIN_ROOT_MIB \in Nat
BY InstallAssumption DEF ESP_MIB, BOOT_MIB, MIN_ROOT_MIB

LEMMA Rooms ==
    ASSUME NEW mib \in Swaps \cup {0}, InstallTypeOK, plan(target.size),
           ~swap_objection(mib, target.size)
    PROVE  mib + esp + boot + MIN_ROOT_MIB <= target.size
<1>1. mib \in Nat /\ esp \in Nat /\ boot \in Nat /\ MIN_ROOT_MIB \in Nat /\ target.size \in Nat
    BY Sizes DEF InstallTypeOK, Targets
<1>2. target.size >= MIN_ROOT_MIB + esp + boot BY DEF plan, minimum_mib
<1>3. mib = 0 \/ mib <= spare_mib(target.size)
    <2>1. spare_mib(target.size) \in Nat BY <1>1 DEF spare_mib, minimum_mib
    <2>2. QED BY <1>1, <2>1 DEF swap_objection
<1>4. QED BY <1>1, <1>2, <1>3 DEF spare_mib, minimum_mib

\* A step of the verb that only moves on, by a gate that says so or on its way.
LEMMA GatePasses ==
    ASSUME InstallInv, step' \in Gates \cup Commands \cup Ends,
           step \in Gates, step' \in Gates \cup {"refused", "shown", "attach"},
           UNCHANGED <<world, answers, target_disk, runs>>,
           typed' \subseteq {"passphrase", "password"}, GatesStand'
    PROVE  InstallInv'
<1>1. open' = {} BY DEF target_disk, InstallInv, NothingHeldBehind
<1>2. InstallTypeOK' BY DEF InstallInv, InstallTypeOK, world, answers, target_disk
<1>3. QED BY <1>1, <1>2 DEF InstallInv, NothingHeldBehind, world

LEMMA InstallStep ==
    ASSUME InstallInv, InstallNext
    PROVE  InstallInv'
<1> USE DEF world, answers, target_disk
<1> USE DEF AfterSwap, AfterLayout, AfterTools, AfterObjections, AfterSource, Gates, Commands, Ends
<1>1. CASE unreachable_update_source
    <2>1. asked.updates \in {"registry", "localhost"} BY DEF InstallInv, Flags
    <2>2. GatesStand' BY <1>1, <2>1 DEF unreachable_update_source, Gate, GatesStand
    <2>3. QED BY <1>1, <2>2, GatePasses DEF unreachable_update_source, Gate, InstallInv, InstallTypeOK
<1>2. CASE disk_objections
    <2>2. GatesStand' BY <1>2 DEF disk_objections, Gate, GatesStand, InstallInv
    <2>3. QED BY <1>2, <2>2, GatePasses DEF disk_objections, Gate, InstallInv, InstallTypeOK
<1>3. CASE image_reachable
    <2>2. GatesStand' BY <1>3 DEF image_reachable, Gate, GatesStand, InstallInv
    <2>3. QED BY <1>3, <2>2, GatePasses DEF image_reachable, Gate, InstallInv, InstallTypeOK
<1>4. CASE ask_encrypt
    BY <1>4 DEF ask_encrypt, Ask, GatesStand, InstallInv, InstallTypeOK, NothingHeldBehind
<1>5. CASE ask_sizes
    BY <1>5 DEF ask_sizes, Gate, GatesStand, InstallInv, InstallTypeOK, NothingHeldBehind
<1>6. CASE missing_tools
    <2>2. GatesStand' BY <1>6 DEF missing_tools, Gate, GatesStand, InstallInv, required
    <2>3. QED BY <1>6, <2>2, GatePasses DEF missing_tools, Gate, InstallInv, InstallTypeOK
<1>7. CASE layout
    <2>2. GatesStand' BY <1>7 DEF layout, Gate, GatesStand, InstallInv, required, plan, minimum_mib
    <2>3. QED BY <1>7, <2>2, GatePasses DEF layout, Gate, InstallInv, InstallTypeOK
<1>8. CASE ask_swap
    <2>1. PICK mib \in Swaps \cup {0} :
             /\ step = "swap" /\ swap' = mib
             /\ step' = IF ~swap_objection(mib, target.size) THEN "plan" ELSE "refused"
             /\ UNCHANGED <<world, encrypt, esp, boot, typed, target_disk, runs>>
        BY <1>8 DEF ask_swap, Gate
    <2>2. step' = "plan" => mib + esp + boot + MIN_ROOT_MIB <= target.size
        BY <2>1, Rooms DEF InstallInv, GatesStand
    <2>3. GatesStand' BY <2>1, <2>2 DEF GatesStand, InstallInv, required, plan, minimum_mib
    <2>4. InstallTypeOK' BY <2>1 DEF InstallInv, InstallTypeOK
    <2>5. QED BY <2>1, <2>3, <2>4 DEF InstallInv, NothingHeldBehind
<1>9. CASE show_plan
    <2>2. GatesStand' BY <1>9 DEF show_plan, Gate, GatesStand, InstallInv, required, plan, minimum_mib
    <2>3. QED BY <1>9, <2>2, GatePasses DEF show_plan, Gate, InstallInv, InstallTypeOK
<1>10. CASE ask_passphrase \/ ask_account
    <2>2. GatesStand'
        BY <1>10 DEF ask_passphrase, ask_account, Ask, GatesStand, InstallInv, required, plan, minimum_mib
    <2>3. QED BY <1>10, <2>2, GatePasses DEF ask_passphrase, ask_account, Ask, InstallInv, InstallTypeOK
<1>11. CASE restore_file_is_usable \/ sync_image_to_root \/ run_install
    <2>2. GatesStand'
        BY <1>11 DEF restore_file_is_usable, sync_image_to_root, run_install, Gate, GatesStand,
                     InstallInv, required, plan, minimum_mib
    <2>3. QED BY <1>11, <2>2, GatePasses
        DEF restore_file_is_usable, sync_image_to_root, run_install, Gate, InstallInv, InstallTypeOK
<1>12. CASE Script
    <2>1. /\ step \in Commands /\ step' \in Commands \cup {"installed", "failed"}
          /\ UNCHANGED <<world, answers, typed, runs>>
          /\ step' \notin Commands => open' = {}
        BY <1>12 DEF Script, Command, attach, wipe, format, mount, swapfile, build_layer, bootc,
                     swap_fstab, cleanup, CommandFails, open_after
    <2>2. /\ wiped' \in BOOLEAN /\ open' \subseteq {"loop", "mapper", "mounts", "store"}
          /\ writes' \subseteq {"system", "luks karg", "resume karg", "fstab", "swapfile"}
        BY <1>12 DEF Script, Command, attach, wipe, format, mount, swapfile, build_layer, bootc,
                     swap_fstab, cleanup, CommandFails, open_after, InstallInv, InstallTypeOK
    <2>3. GatesStand' BY <2>1 DEF GatesStand, InstallInv, required, plan, minimum_mib
    <2>4. InstallTypeOK' BY <2>1, <2>2 DEF InstallInv, InstallTypeOK
    <2>5. QED BY <2>1, <2>3, <2>4 DEF InstallInv, NothingHeldBehind
<1>13. CASE Automount
    <2>1. /\ target' \in Targets /\ target'.member = target.member /\ target'.size = target.size
          /\ UNCHANGED <<media, asked, step, answers, typed, target_disk, runs>>
        BY <1>13 DEF Automount, InstallInv, InstallTypeOK, Targets
    <2>2. GatesStand' BY <2>1 DEF GatesStand, InstallInv, required, plan, minimum_mib
    <2>3. InstallTypeOK' BY <2>1 DEF InstallInv, InstallTypeOK
    <2>4. QED BY <2>1, <2>2, <2>3 DEF InstallInv, NothingHeldBehind
<1>14. CASE Again
    <2>1. /\ asked' \in Flags /\ step' = "source" /\ step \in Ends
          /\ typed' = {} /\ writes' = {} /\ encrypt' = FALSE
          /\ esp' = ESP_MIB /\ boot' = BOOT_MIB /\ swap' = 0
          /\ UNCHANGED <<target, media, wiped, open>>
        <3>1. [asked EXCEPT !.yes = TRUE] \in Flags /\ [asked EXCEPT !.restore = "usable"] \in Flags
            BY DEF InstallInv, Flags
        <3>2. QED BY <1>14, <3>1 DEF Again, Fresh
    <2>2. runs' \in 1..MaxRuns
        <3>1. runs \in 1..MaxRuns /\ MaxRuns \in Nat BY InstallAssumption DEF InstallInv, InstallTypeOK
        <3>2. runs < MaxRuns /\ runs' = runs + 1 BY <1>14 DEF Again
        <3>3. QED BY <3>1, <3>2
    <2>3. InstallTypeOK' BY <2>1, <2>2 DEF InstallInv, InstallTypeOK
    <2>4. QED BY <2>1, <2>3 DEF InstallInv, NothingHeldBehind, GatesStand
<1>15. QED BY <1>1, <1>2, <1>3, <1>4, <1>5, <1>6, <1>7, <1>8, <1>9, <1>10, <1>11, <1>12, <1>13,
              <1>14 DEF InstallNext, Refusals, Interview

LEMMA InstallInvHolds == InstallSpec => []InstallInv
<1>1. InstallInit => InstallInv
    <2> SUFFICES ASSUME InstallInit PROVE InstallInv
        OBVIOUS
    <2>1. runs \in 1..MaxRuns BY InstallAssumption DEF InstallInit
    <2>2. encrypt \in BOOLEAN /\ wiped \in BOOLEAN BY DEF InstallInit
    <2>3. InstallTypeOK BY <2>1, <2>2 DEF InstallInit, InstallTypeOK, Gates
    <2>4. GatesStand
        BY DEF InstallInit, GatesStand, AfterSwap, AfterLayout, AfterTools, AfterObjections,
               AfterSource, Commands
    <2>5. QED BY <2>3, <2>4 DEF InstallInit, InstallInv, NothingHeldBehind
<1>2. InstallInv /\ [InstallNext]_installVars => InstallInv'
    <2> SUFFICES ASSUME InstallInv, [InstallNext]_installVars PROVE InstallInv'
        OBVIOUS
    <2>1. CASE UNCHANGED installVars
        BY <2>1 DEF installVars, InstallInv, InstallTypeOK, GatesStand, NothingHeldBehind, required,
                    plan, minimum_mib
    <2>2. QED BY <2>1, InstallStep
<1>3. QED BY <1>1, <1>2, PTL DEF InstallSpec

\* InstallKeepsItsWord: for any disk, any partition and swapfile sizes and any
\* number of attempts, a disk is wiped only by a run whose tools, sizes and
\* update source let it finish, and a script that stops lets go of what it
\* opened.
THEOREM InstallIsHonest == InstallSpec => []InstallKeepsItsWord
<1>1. InstallInv => InstallKeepsItsWord
    BY DEF InstallInv, GatesStand, InstallKeepsItsWord, WipedCanBeFinished, AfterSwap, AfterLayout,
           AfterTools, AfterObjections, AfterSource
<1>2. QED BY <1>1, InstallInvHolds, PTL

-----------------------------------------------------------------------------
(* The host's accounts.  A step of kuma-user-sync knows whose account it   *)
(* works on and how far it is: the account it creates was not there, the   *)
(* password it sets is one nobody has set, and the groups it has not to    *)
(* add any more are in the account.                                        *)

Account == [password : Passwords, groups : SUBSET Groups]
SyncKnows ==
    /\ sync \in {"useradd", "chpasswd", "groups"} => user # Nobody /\ todo \subseteq user.groups
    /\ sync \in {"useradd", "chpasswd", "groups"} => wanted = NoHost \/ hostname = wanted
    /\ sync \in {"useradd", "chpasswd"} => todo = user.groups
    /\ sync = "useradd" => ~exists(user.name)
    /\ sync = "chpasswd" => accounts[user.name].password = "locked" /\ user.hash # "none"
    /\ sync = "groups" => exists(user.name) /\ user.groups \subseteq accounts[user.name].groups \cup todo
HostInv == HostTypeOK /\ SyncKnows /\ NothingIsLent /\ InstalledIsShown

\* Whoever the machine's account belongs to is somebody a declaration may name.
LEMMA UserTyped ==
    ASSUME HostTypeOK, user # Nobody
    PROVE  /\ user.name \in Names /\ user.groups \subseteq Groups
           /\ user.hash \in {"image", "installer", "none"}
           /\ person # Nobody => user = person /\ user.hash \in {"installer", "none"}
BY DEF HostTypeOK, user, Users, Nobody

\* A step that changes one account, and neither takes it away nor takes
\* groups from it.
LEMMA AccountStep ==
    ASSUME HostInv, NEW n \in Names, NEW a \in Account, accounts' = [accounts EXCEPT ![n] = a],
           UNCHANGED <<image, person, wanted, hostname>>, given \subseteq given',
           sync' # "useradd", sync' # "chpasswd", a # NoAccount,
           exists(n) => accounts[n].groups \subseteq a.groups,
           person # Nobody /\ n = person.name =>
               /\ a.password # "image"
               /\ \A g \in a.groups : g \in person.groups \/ <<n, g>> \in given',
           sync' = "groups" => /\ sync \in {"useradd", "chpasswd", "groups"} /\ n = user.name
                               /\ todo' \subseteq user.groups /\ user.groups \subseteq a.groups \cup todo',
           sync' = "done" => sync = "done"
    PROVE  SyncKnows' /\ NothingIsLent' /\ InstalledIsShown'
<1>1. /\ accounts'[n] = a /\ \A m \in Names \ {n} : accounts'[m] = accounts[m]
      /\ user' = user
    BY DEF HostInv, HostTypeOK, user
<1>2. SyncKnows'
    <2>1. CASE sync' = "groups"
        <3>1. user # Nobody /\ user.name = n BY <2>1 DEF HostInv, SyncKnows
        <3>2. wanted = NoHost \/ hostname = wanted BY <2>1 DEF HostInv, SyncKnows
        <3>3. QED BY <1>1, <2>1, <3>1, <3>2 DEF SyncKnows, exists
    <2>2. CASE sync' # "groups" BY <2>2 DEF SyncKnows
    <2>3. QED BY <2>1, <2>2
<1>3. person # Nobody => person.name \in Names BY DEF HostInv, HostTypeOK, Users, Nobody
<1>4. NothingIsLent'
    <2> SUFFICES ASSUME person # Nobody, exists(person.name)'
                 PROVE  /\ accounts'[person.name].password # "image"
                        /\ \A g \in accounts'[person.name].groups :
                              g \in person.groups \/ <<person.name, g>> \in given'
        BY DEF NothingIsLent
    <2>1. CASE person.name = n BY <1>1, <2>1
    <2>2. CASE person.name # n
        <3>1. accounts'[person.name] = accounts[person.name] BY <1>1, <1>3, <2>2
        <3>2. exists(person.name) BY <3>1 DEF exists
        <3>3. QED BY <3>1, <3>2 DEF HostInv, NothingIsLent
    <2>3. QED BY <2>1, <2>2
<1>5. InstalledIsShown'
    <2> SUFFICES ASSUME sync' = "done" PROVE InstalledIsShown'
        BY DEF InstalledIsShown
    <2>1. sync = "done" OBVIOUS
    <2>2. wanted # NoHost => hostname = wanted BY <2>1 DEF HostInv, InstalledIsShown
    <2>3. ASSUME person # Nobody
          PROVE  accounts'[person.name] # NoAccount
                 /\ person.groups \subseteq accounts'[person.name].groups
        <3>1. exists(person.name) /\ person.groups \subseteq accounts[person.name].groups
            BY <2>1, <2>3 DEF HostInv, InstalledIsShown
        <3>2. CASE person.name = n BY <1>1, <3>1, <3>2
        <3>3. CASE person.name # n BY <1>1, <1>3, <2>3, <3>1, <3>3 DEF exists
        <3>4. QED BY <3>2, <3>3
    <2>4. QED BY <2>2, <2>3 DEF InstalledIsShown, exists
<1>6. QED BY <1>2, <1>4, <1>5

\* The account a step of kuma-user-sync or the owner leaves: its type, and what
\* of the one before it keeps.
OwnerKept ==
    \A n \in Names : exists(n) =>
        /\ accounts[n].password = "owner" => accounts'[n].password = "owner"
        /\ accounts[n].groups \subseteq accounts'[n].groups

LEMMA HostStep ==
    ASSUME HostInv, HostNext
    PROVE  HostInv' /\ OwnerKept
<1> USE DEF identity, homeState, units, bounds
<1>0. HostTypeOK /\ accounts \in [Names -> Account] BY DEF HostInv, HostTypeOK, Account
<1>1. ASSUME UNCHANGED <<identity, homeStep>>, sync' = sync, todo' = todo, HostTypeOK'
      PROVE  HostInv' /\ OwnerKept
    BY <1>0, <1>1
       DEF HostInv, SyncKnows, NothingIsLent, InstalledIsShown, OwnerKept, user, exists
<1>2. CASE Boot
    <2>1. /\ accounts' = accounts /\ person' = person /\ given' = given /\ sync' = "host"
        BY <1>2 DEF Boot
    <2>2. HostTypeOK'
        <3>1. PICK new \in {image} \cup [user : {image.user, Nobody}, host : Hosts] :
                 image' = new /\ hostname' = merged(new)
            BY <1>2 DEF Boot
        <3>2. image'.user \in Users("image") /\ image' \in [user : Users("image"), host : Hosts]
            BY <1>0, <3>1 DEF HostTypeOK, Users
        <3>3. hostname' \in Hosts BY <1>0, <3>1, <3>2 DEF HostTypeOK, merged
        <3>4. boots' \in 0..MaxBoots
            <4>1. boots \in 0..MaxBoots /\ MaxBoots \in Nat BY <1>0, HostAssumption DEF HostTypeOK
            <4>2. boots < MaxBoots /\ boots' = boots + 1 BY <1>2 DEF Boot
            <4>3. QED BY <4>1, <4>2
        <3>5. homeDir' \in {"none", "empty", "lived in"} \X {"directory", "subvolume"}
            <4>1. homeDir \in {"none", "empty", "lived in"} \X {"directory", "subvolume"}
                BY <1>0 DEF HostTypeOK
            <4>2. homeDir' = homeDir \/ homeDir' = <<"empty", "directory">>
                BY <1>2 DEF Boot, made_home
            <4>3. <<"empty", "directory">> \in {"none", "empty", "lived in"} \X {"directory", "subvolume"}
                OBVIOUS
            <4>4. CASE homeDir' = homeDir BY <4>1, <4>4
            <4>5. CASE homeDir' = <<"empty", "directory">> BY <4>3, <4>5
            <4>6. QED BY <4>2, <4>4, <4>5
        <3>6. dressed' \in BOOLEAN BY <1>0, <1>2 DEF Boot, HostTypeOK
        <3>7. QED BY <1>0, <1>2, <3>2, <3>3, <3>4, <3>5, <3>6 DEF Boot, HostTypeOK
    <2>3. QED BY <2>1, <2>2
        DEF HostInv, SyncKnows, NothingIsLent, InstalledIsShown, OwnerKept, exists
<1>3. CASE BootCut
    BY <1>0, <1>3
       DEF BootCut, HostInv, HostTypeOK, SyncKnows, NothingIsLent, InstalledIsShown, OwnerKept, exists
<1>4. CASE HomeSubvol
    <2>1. /\ UNCHANGED <<identity, fstab, sync, todo, edit, bounds>>
          /\ homeDir' \in {homeDir, <<"none", "directory">>, <<"empty", "subvolume">>}
          /\ dressed' \in {dressed, TRUE, FALSE}
          /\ homeStep' \in {"off", "look", "remove", "create", "dress", "done"}
        BY <1>4 DEF HomeSubvol, Look, RemoveDir, Create, Dress
    <2>2. HostTypeOK'
        <3>1. homeDir' \in {"none", "empty", "lived in"} \X {"directory", "subvolume"}
            <4>1. homeDir \in {"none", "empty", "lived in"} \X {"directory", "subvolume"}
                BY <1>0 DEF HostTypeOK
            <4>2. /\ <<"none", "directory">> \in {"none", "empty", "lived in"} \X {"directory", "subvolume"}
                  /\ <<"empty", "subvolume">> \in {"none", "empty", "lived in"} \X {"directory", "subvolume"}
                OBVIOUS
            <4>3. CASE homeDir' = homeDir BY <4>1, <4>3
            <4>4. CASE homeDir' = <<"none", "directory">> BY <4>2, <4>4
            <4>5. CASE homeDir' = <<"empty", "subvolume">> BY <4>2, <4>5
            <4>6. QED BY <2>1, <4>3, <4>4, <4>5
        <3>2. dressed' \in BOOLEAN BY <1>0, <2>1 DEF HostTypeOK
        <3>3. QED BY <1>0, <2>1, <3>1, <3>2 DEF HostTypeOK
    <2>3. QED BY <1>0, <2>1, <2>2
        DEF HostInv, SyncKnows, NothingIsLent, InstalledIsShown, OwnerKept, user, exists
<1>5. CASE FstabSync
    <2>1. HostTypeOK' BY <1>0, <1>5 DEF FstabSync, ReadFstab, WriteFstab, HostTypeOK
    <2>2. QED BY <1>1, <1>5, <2>1 DEF FstabSync, ReadFstab, WriteFstab
<1>6. CASE SyncHost
    <2>1. /\ UNCHANGED <<image, person, wanted, accounts, given, homeState, homeStep, edit, bounds>>
          /\ hostname' = IF wanted = NoHost THEN hostname ELSE wanted
          /\ user' = user /\ sync' \in {"done", "groups", "useradd"}
        BY <1>6 DEF SyncHost, user
    <2>2. CASE user = Nobody
        <3>1. sync' = "done" /\ todo' = todo /\ person = Nobody
            BY <1>6, <2>2 DEF SyncHost, user
        <3>2. HostTypeOK' BY <1>0, <2>1, <3>1 DEF HostTypeOK
        <3>3. QED BY <1>0, <2>1, <3>1, <3>2
            DEF HostInv, SyncKnows, NothingIsLent, InstalledIsShown, OwnerKept, exists
    <2>3. CASE user # Nobody
        <3>1. /\ sync' = IF exists(user.name) THEN "groups" ELSE "useradd"
              /\ todo' = user.groups
            BY <1>6, <2>3 DEF SyncHost
        <3>2. todo' \subseteq Groups BY <1>0, <2>3, <3>1, UserTyped
        <3>3. HostTypeOK' BY <1>0, <2>1, <3>2 DEF HostTypeOK
        <3>4. SyncKnows' BY <2>1, <2>3, <3>1 DEF SyncKnows, exists
        <3>5. QED BY <1>0, <2>1, <3>1, <3>3, <3>4
            DEF HostInv, NothingIsLent, InstalledIsShown, OwnerKept, exists
    <2>4. QED BY <2>2, <2>3
<1>7. CASE useradd
    <2> DEFINE n == user.name
    <2>1. /\ sync = "useradd" /\ user # Nobody /\ ~exists(n) /\ todo = user.groups
          /\ user.name \in Names /\ user.groups \subseteq Groups
        BY <1>0, <1>7, UserTyped DEF useradd, HostInv, SyncKnows
    <2>2. /\ accounts' = [accounts EXCEPT ![n] = [password |-> "locked", groups |-> {}]]
          /\ sync' = IF user.hash = "none" THEN "groups" ELSE "chpasswd"
          /\ UNCHANGED <<image, person, wanted, hostname, given, dressed, fstab, homeStep, todo, edit, bounds>>
          /\ user' = user
        BY <1>7 DEF useradd, user
    <2>3. /\ accounts'[n] = [password |-> "locked", groups |-> {}]
          /\ \A m \in Names \ {n} : accounts'[m] = accounts[m]
        BY <1>0, <2>1, <2>2
    <2>4. HostTypeOK'
        <3>1. accounts' \in [Names -> Account] BY <1>0, <2>2 DEF Account, Passwords
        <3>2. homeDir' \in {"none", "empty", "lived in"} \X {"directory", "subvolume"}
            BY <1>0, <1>7 DEF useradd, HostTypeOK
        <3>3. QED BY <1>0, <2>2, <3>1, <3>2 DEF HostTypeOK, Account
    <2>5. SyncKnows'
        <3>1. accounts'[n].password = "locked" /\ accounts'[n] # NoAccount BY <2>3 DEF NoAccount
        <3>2. wanted = NoHost \/ hostname = wanted BY <2>1 DEF HostInv, SyncKnows
        <3>3. QED BY <2>1, <2>2, <3>1, <3>2 DEF SyncKnows, exists
    <2>6. NothingIsLent'
        BY <1>0, <2>2, <2>3 DEF HostInv, HostTypeOK, NothingIsLent, exists, Users, Nobody
    <2>7. QED BY <2>1, <2>2, <2>3, <2>4, <2>5, <2>6 DEF HostInv, InstalledIsShown, OwnerKept
<1>8. CASE chpasswd
    <2> DEFINE n == user.name
               a == [accounts[n] EXCEPT !.password = user.hash]
    <2>1. /\ sync = "chpasswd" /\ user # Nobody /\ todo = user.groups /\ user.hash # "none"
          /\ n \in Names /\ user.hash \in {"image", "installer"}
          /\ person # Nobody => user = person /\ user.hash = "installer"
          /\ accounts[n].password = "locked"
        BY <1>0, <1>8, UserTyped DEF chpasswd, HostInv, SyncKnows
    <2>2. /\ accounts' = [accounts EXCEPT ![n] = a] /\ sync' = "groups"
          /\ UNCHANGED <<image, person, wanted, hostname, given, homeState, homeStep, todo, edit, bounds>>
        BY <1>8 DEF chpasswd
    <2>3. /\ accounts[n] \in Account /\ a \in Account /\ a # NoAccount
          /\ a.groups = accounts[n].groups /\ a.password = user.hash
        BY <1>0, <2>1 DEF Account, Passwords, NoAccount
    <2>4. person # Nobody /\ n = person.name =>
              \A g \in accounts[n].groups : g \in person.groups \/ <<n, g>> \in given
        <3>1. exists(n) BY <2>1 DEF exists, NoAccount
        <3>2. QED BY <3>1 DEF HostInv, NothingIsLent
    <2> HIDE DEF a
    <2>5. SyncKnows' /\ NothingIsLent' /\ InstalledIsShown'
        BY <2>1, <2>2, <2>3, <2>4, AccountStep
    <2>6. HostTypeOK' BY <1>0, <2>2, <2>3 DEF HostTypeOK, Account
    <2>7. OwnerKept BY <1>0, <2>1, <2>2, <2>3 DEF OwnerKept
    <2>8. QED BY <2>5, <2>6, <2>7 DEF HostInv
<1>9. CASE usermod
    <2> DEFINE n == user.name
    <2>1. PICK g \in todo :
             /\ sync = "groups"
             /\ IF g \in Missing THEN sync' = "failed" /\ UNCHANGED <<accounts, todo>>
                ELSE /\ accounts' = [accounts EXCEPT ![n].groups = add_group(n, g)]
                     /\ todo' = todo \ {g} /\ UNCHANGED sync
             /\ UNCHANGED <<image, person, wanted, hostname, given, homeState, homeStep, edit, bounds>>
        BY <1>9 DEF usermod
    <2>2. CASE g \in Missing
        BY <1>0, <2>1, <2>2 DEF HostInv, HostTypeOK, SyncKnows, NothingIsLent, InstalledIsShown,
                                OwnerKept, exists
    <2>3. CASE g \notin Missing
        <3> DEFINE a == [accounts[n] EXCEPT !.groups = accounts[n].groups \cup {g}]
        <3>1. /\ user # Nobody /\ todo \subseteq user.groups /\ exists(n)
              /\ user.groups \subseteq accounts[n].groups \cup todo
              /\ n \in Names /\ user.groups \subseteq Groups
              /\ person # Nobody => user = person
            BY <1>0, <2>1, UserTyped DEF HostInv, SyncKnows
        <3>2. /\ accounts' = [accounts EXCEPT ![n] = a] /\ sync' = "groups" /\ todo' = todo \ {g}
            BY <2>1, <2>3 DEF add_group
        <3>3. /\ a \in Account /\ a # NoAccount
              /\ a.groups = accounts[n].groups \cup {g} /\ a.password = accounts[n].password
            BY <1>0, <2>1, <3>1 DEF Account, NoAccount
        <3>4. person # Nobody /\ n = person.name =>
                  /\ a.password # "image"
                  /\ \A h \in a.groups : h \in person.groups \/ <<n, h>> \in given
            BY <2>1, <3>1, <3>3 DEF HostInv, NothingIsLent
        <3> HIDE DEF a
        <3>5. SyncKnows' /\ NothingIsLent' /\ InstalledIsShown'
            BY <2>1, <3>1, <3>2, <3>3, <3>4, AccountStep
        <3>6. HostTypeOK' BY <1>0, <2>1, <3>2, <3>3 DEF HostTypeOK, Account
        <3>7. OwnerKept BY <1>0, <3>1, <3>2, <3>3 DEF OwnerKept
        <3>8. QED BY <3>5, <3>6, <3>7 DEF HostInv
    <2>4. QED BY <2>2, <2>3
<1>10. CASE SyncDone
    <2>1. /\ sync = "groups" /\ todo = {} /\ sync' = "done"
          /\ UNCHANGED <<identity, homeState, homeStep, todo, edit, bounds>>
        BY <1>10 DEF SyncDone
    <2>2. HostTypeOK' BY <1>0, <2>1 DEF HostTypeOK
    <2>3. SyncKnows' /\ NothingIsLent' /\ OwnerKept
        BY <1>0, <2>1 DEF HostInv, SyncKnows, NothingIsLent, OwnerKept, exists
    <2>4. InstalledIsShown'
        <3>1. wanted # NoHost => hostname = wanted BY <2>1 DEF HostInv, SyncKnows
        <3>2. ASSUME person # Nobody
              PROVE  exists(person.name) /\ person.groups \subseteq accounts[person.name].groups
            <4>1. user = person BY <3>2 DEF user
            <4>2. QED BY <2>1, <4>1 DEF HostInv, SyncKnows
        <3>3. QED BY <2>1, <3>1, <3>2 DEF InstalledIsShown, exists
    <2>5. QED BY <2>2, <2>3, <2>4 DEF HostInv
<1>11. CASE passwd
    <2>1. PICK n \in Names :
             /\ Deed /\ exists(n) /\ accounts' = [accounts EXCEPT ![n].password = "owner"]
             /\ UNCHANGED <<image, person, wanted, hostname, given, homeState, units, boots>>
        BY <1>11 DEF passwd
    <2> DEFINE a == [accounts[n] EXCEPT !.password = "owner"]
    <2>2. accounts' = [accounts EXCEPT ![n] = a] BY <2>1
    <2>3. /\ a \in Account /\ a # NoAccount /\ a.groups = accounts[n].groups /\ a.password = "owner"
        BY <1>0 DEF Account, Passwords, NoAccount
    <2>4. person # Nobody /\ n = person.name =>
              \A g \in a.groups : g \in person.groups \/ <<n, g>> \in given
        BY <2>1, <2>3 DEF HostInv, NothingIsLent
    <2>5. sync' = sync /\ sync \in {"done", "failed"} BY <2>1 DEF Deed
    <2> HIDE DEF a
    <2>6. SyncKnows' /\ NothingIsLent' /\ InstalledIsShown'
        BY <2>1, <2>2, <2>3, <2>4, <2>5, AccountStep
    <2>7. deeds' \in 0..MaxDeeds
        <3>1. deeds \in 0..MaxDeeds /\ MaxDeeds \in Nat BY <1>0, HostAssumption DEF HostTypeOK
        <3>2. QED BY <2>1, <3>1 DEF Deed
    <2>8. HostTypeOK' BY <1>0, <2>1, <2>2, <2>3, <2>7 DEF HostTypeOK, Account
    <2>9. OwnerKept BY <1>0, <2>1, <2>2, <2>3 DEF OwnerKept
    <2>10. QED BY <2>6, <2>8, <2>9 DEF HostInv
<1>12. CASE Give
    <2>1. PICK n \in Names, g \in Groups \ Missing :
             /\ Deed /\ exists(n) /\ accounts' = [accounts EXCEPT ![n].groups = @ \cup {g}]
             /\ given' = given \cup {<<n, g>>}
             /\ UNCHANGED <<image, person, wanted, hostname, homeState, units, boots>>
        BY <1>12 DEF Give
    <2> DEFINE a == [accounts[n] EXCEPT !.groups = accounts[n].groups \cup {g}]
    <2>2. accounts' = [accounts EXCEPT ![n] = a] BY <2>1
    <2>3. /\ a \in Account /\ a # NoAccount
          /\ a.groups = accounts[n].groups \cup {g} /\ a.password = accounts[n].password
        BY <1>0 DEF Account, Passwords, NoAccount
    <2>4. person # Nobody /\ n = person.name =>
              /\ a.password # "image"
              /\ \A h \in a.groups : h \in person.groups \/ <<n, h>> \in given'
        BY <2>1, <2>3 DEF HostInv, NothingIsLent
    <2>5. sync' = sync /\ sync \in {"done", "failed"} BY <2>1 DEF Deed
    <2> HIDE DEF a
    <2>6. SyncKnows' /\ NothingIsLent' /\ InstalledIsShown'
        BY <2>1, <2>2, <2>3, <2>4, <2>5, AccountStep
    <2>7. deeds' \in 0..MaxDeeds
        <3>1. deeds \in 0..MaxDeeds /\ MaxDeeds \in Nat BY <1>0, HostAssumption DEF HostTypeOK
        <3>2. QED BY <2>1, <3>1 DEF Deed
    <2>8. given' \subseteq Names \X Groups
        <3>1. <<n, g>> \in Names \X Groups /\ given \subseteq Names \X Groups BY <1>0 DEF HostTypeOK
        <3>2. QED BY <2>1, <3>1
    <2>9. HostTypeOK' BY <1>0, <2>1, <2>2, <2>3, <2>7, <2>8 DEF HostTypeOK, Account
    <2>10. OwnerKept BY <1>0, <2>1, <2>2, <2>3 DEF OwnerKept
    <2>11. QED BY <2>6, <2>9, <2>10 DEF HostInv
<1>13. QED BY <1>2, <1>3, <1>4, <1>5, <1>6, <1>7, <1>8, <1>9, <1>10, <1>11, <1>12
    DEF HostNext, UserSync

LEMMA HostInvHolds == HostSpec => []HostInv /\ OwnersHandStays
<1>1. HostInit => HostInv
    <2> SUFFICES ASSUME HostInit PROVE HostInv
        OBVIOUS
    <2>1. boots \in 0..MaxBoots /\ deeds \in 0..MaxDeeds BY HostAssumption DEF HostInit
    <2>2. accounts \in [Names -> Account] BY DEF HostInit, NoAccount, Account, Passwords
    <2>3. dressed \in BOOLEAN BY DEF HostInit
    <2>4. hostname \in Hosts /\ homeDir \in {"none", "empty", "lived in"} \X {"directory", "subvolume"}
        BY DEF HostInit
    <2>5. HostTypeOK BY <2>1, <2>2, <2>3, <2>4 DEF HostInit, HostTypeOK, Account
    <2>6. SyncKnows /\ InstalledIsShown BY DEF HostInit, SyncKnows, InstalledIsShown
    <2>7. NothingIsLent BY DEF HostInit, NothingIsLent, exists, Users, Nobody
    <2>8. QED BY <2>5, <2>6, <2>7 DEF HostInv
<1>2. HostInv /\ [HostNext]_hostVars => HostInv' /\ [OwnerKept]_hostVars
    <2> SUFFICES ASSUME HostInv, [HostNext]_hostVars PROVE HostInv' /\ [OwnerKept]_hostVars
        OBVIOUS
    <2>1. CASE UNCHANGED hostVars
        <3>1. HostTypeOK' BY <2>1 DEF hostVars, HostInv, HostTypeOK
        <3>2. SyncKnows' BY <2>1 DEF hostVars, HostInv, SyncKnows, user, exists
        <3>3. NothingIsLent' /\ InstalledIsShown'
            BY <2>1 DEF hostVars, HostInv, NothingIsLent, InstalledIsShown, exists
        <3>4. QED BY <2>1, <3>1, <3>2, <3>3 DEF HostInv
    <2>2. QED BY <2>1, HostStep
<1>3. HostSpec => []HostInv /\ [][OwnerKept]_hostVars BY <1>1, <1>2, PTL DEF HostSpec
<1>4. QED BY <1>3 DEF OwnersHandStays, OwnerKept

\* AccountsAreTheirs: for any accounts, groups and images and any number of
\* boots cut at any command, the owner's password and groups stay, the account
\* the installer was told of gets nothing of the image's, and a boot that
\* finished shows what the installer wrote.
THEOREM AccountsStayTheirs == HostSpec => AccountsAreTheirs
<1>1. HostInv => NothingIsLent /\ InstalledIsShown BY DEF HostInv
<1>2. QED BY <1>1, HostInvHolds, PTL DEF AccountsAreTheirs

-----------------------------------------------------------------------------
(* Builds and their lock.  While a command is under way the lock stands    *)
(* still, a base in storage is one its tag once had, and what the command  *)
(* has read is not older than what it will record.                         *)

Pcs == {"idle", "load", "base", "from", "reclaim", "record"}
Under == [pc : Pcs, verb : {"", "build", "update"}, first : Refs \cup {""}, cfg : Refs \cup {""},
          seen : Nat, current : BOOLEAN, pin : Digest \cup {NoDigest}, before : Image \cup {NoImage}]
Shape ==
    /\ BuildTypeOK /\ command \in Under
    /\ command.pc = "idle" \/ (command.first \in Refs /\ command.verb # "")
    /\ command.pc \in {"idle", "load"} \/ command.cfg \in Refs
\* Bases and builds are of versions that were published.
Old ==
    /\ \A r \in Refs : bases[r] # NoDigest => bases[r].ref = r /\ bases[r].v <= published(r)
    /\ named.rpm <= repos
\* The pin a build follows is the lock's, an update follows none.
Pins ==
    /\ command.verb = "update" => command.pin = NoDigest
    /\ command.verb # "update" => ~command.current
    /\ command.pc \in {"base", "from", "reclaim", "record"} /\ command.verb = "build"
          /\ command.cfg \notin Composed => command.pin = pinned(command.cfg)
\* The image that came out, and what the record will say of its base.
Came ==
    command.pc \in {"reclaim", "record"} =>
        /\ named \in Image
        /\ command.pin # NoDigest => named.base = command.pin
        /\ command.pin = NoDigest => bases[command.cfg] \in {NoDigest, named.base}
\* d is no older than what the update saw of its base.
fresh(d) == d = NoDigest \/ d.v >= command.seen
Seen ==
    command.pc # "idle" /\ command.verb = "update" =>
        /\ command.seen <= published(command.first)
        /\ command.pc \in {"load", "base"} /\ command.first \notin Composed => fresh(bases[command.first])
        /\ command.pc = "from" /\ command.cfg = command.first => fresh(bases[command.first])
        /\ command.pc \in {"reclaim", "record"} =>
              /\ command.cfg = command.first =>
                    /\ named.base.ref = command.first
                    /\ named.base.v >= command.seen /\ named.base.v <= published(command.first)
              /\ command.first \in Composed => named.rpm >= command.seen
\* What the check found when it suggested nothing.
Check ==
    command.pc # "idle" /\ command.current =>
        /\ command.first \notin Composed =>
              lock # NoLock /\ lock.digest = [ref |-> command.first, v |-> command.seen]
        /\ command.first \in Composed =>
              (IF command.pc \in {"load", "base", "from"} THEN named ELSE command.before).rpm = command.seen
BuildInv == Shape /\ Old /\ Pins /\ Came /\ Seen /\ Check /\ TagsNameImages

LEMMA Versioned ==
    ASSUME BuildTypeOK, NEW r \in Refs
    PROVE  /\ published(r) \in Versions /\ published(r) \in Nat /\ latest(r) \in Digest
           /\ latest(r).ref = r /\ latest(r).v = published(r) /\ latest(r) # NoDigest
           /\ bases[r] \in Digest \cup {NoDigest}
BY BuildAssumption DEF BuildTypeOK, published, latest, Declared, Digest, NoDigest

LEMMA NoDigestIsNone == NoDigest \notin Digest /\ \A d \in Digest : d.v \in Nat /\ d.ref \in Refs
BY BuildAssumption DEF NoDigest, Digest

\* What storage, the registry and other terminals do under a command.
LEMMA AroundStep ==
    ASSUME BuildInv, UNCHANGED <<command, lock, named>>, BuildTypeOK', TagsNameImages',
           \A r \in Refs : bases'[r] \in {bases[r], NoDigest},
           \A r \in Refs : published(r) <= published(r)', repos <= repos'
    PROVE  BuildInv'
<1>0. /\ Versions \subseteq Nat /\ \A d \in Digest : d.v \in Nat
      /\ repos \in Nat /\ repos' \in Nat /\ command.seen \in Nat
    BY BuildAssumption DEF BuildInv, Shape, BuildTypeOK, Digest, Under
<1>1. \A r \in Refs : published(r) \in Nat /\ published(r)' \in Nat
    BY BuildAssumption DEF BuildInv, Shape, BuildTypeOK, published, Declared
<1>2. Shape' BY DEF BuildInv, Shape
<1>3. Old'
    <2>1. named.rpm \in Nat
        <3>1. named \in Image \cup {NoImage} BY DEF BuildInv, Shape, BuildTypeOK
        <3>2. CASE named \in Image BY <1>0, <3>2 DEF Image
        <3>3. CASE named = NoImage BY <3>3 DEF NoImage
        <3>4. QED BY <3>1, <3>2, <3>3
    <2>2. named'.rpm <= repos' BY <1>0, <2>1 DEF BuildInv, Old
    <2>3. ASSUME NEW r \in Refs, bases'[r] # NoDigest
          PROVE  bases'[r].ref = r /\ bases'[r].v <= published(r)'
        <3>1. bases'[r] = bases[r] /\ bases[r] \in Digest BY <2>3 DEF BuildInv, Shape, BuildTypeOK
        <3>2. QED BY <1>0, <1>1, <2>3, <3>1 DEF BuildInv, Old
    <2>4. QED BY <2>2, <2>3 DEF Old
<1>4. Pins' BY DEF BuildInv, Pins, pinned
<1>5. Came' BY DEF BuildInv, Shape, Came
<1>6. Seen'
    <2> SUFFICES ASSUME command.pc # "idle", command.verb = "update" PROVE Seen'
        BY DEF Seen
    <2>1. command.first \in Refs BY DEF BuildInv, Shape
    <2>2. command.seen <= published(command.first)'
        <3>1. command.seen <= published(command.first) BY DEF BuildInv, Seen
        <3>2. QED BY <1>0, <1>1, <2>1, <3>1
    <2>3. fresh(bases[command.first]) => fresh(bases[command.first])' BY <2>1 DEF fresh
    <2>4. ASSUME command.pc \in {"reclaim", "record"}, command.cfg = command.first
          PROVE  named.base.v <= published(command.first)'
        <3>1. named.base.v <= published(command.first) /\ named.base.v \in Nat
            BY <1>0, <2>4 DEF BuildInv, Seen, Came, Image
        <3>2. QED BY <1>1, <2>1, <3>1
    <2>5. ASSUME command.pc \in {"reclaim", "record"}
          PROVE  /\ command.cfg = command.first =>
                      named.base.ref = command.first /\ named.base.v >= command.seen
                 /\ command.first \in Composed => named.rpm >= command.seen
        BY <2>5 DEF BuildInv, Seen
    <2>6. /\ command.pc \in {"load", "base"} /\ command.first \notin Composed => fresh(bases[command.first])
          /\ command.pc = "from" /\ command.cfg = command.first => fresh(bases[command.first])
        BY DEF BuildInv, Seen
    <2>7. QED BY <2>2, <2>3, <2>4, <2>5, <2>6 DEF Seen
<1>7. Check' BY DEF BuildInv, Check
<1>8. QED BY <1>2, <1>3, <1>4, <1>5, <1>6, <1>7 DEF BuildInv

\* A step that starts a command or ends it.
LEMMA CommandStarts ==
    ASSUME BuildInv, command.pc = "idle", UNCHANGED <<decl, registry, repos, images, named, keptTag, lock>>,
           command' \in Under, command'.pc = "load", command'.first = decl, command'.pin = NoDigest,
           \/ command'.verb = "build" /\ ~command'.current /\ bases' = bases
           \/ /\ command'.verb = "update" /\ command'.seen = published(decl)
              /\ command'.current = update_check
              /\ bases' = IF decl \in Composed THEN bases ELSE [bases EXCEPT ![decl] = latest(decl)]
    PROVE  BuildInv'
<1>0. BuildTypeOK /\ decl \in Refs /\ bases \in [Refs -> Digest \cup {NoDigest}]
    BY DEF BuildInv, Shape, BuildTypeOK
<1>1. /\ published(decl) \in Nat /\ latest(decl) \in Digest /\ latest(decl).ref = decl
      /\ latest(decl).v = published(decl) /\ latest(decl) # NoDigest
    BY <1>0, Versioned
<1>2. \A r \in Refs : published(r)' = published(r) BY DEF published
<1>3. Shape'
    <2>1. bases' \in [Refs -> Digest \cup {NoDigest}] BY <1>0, <1>1
    <2>2. command'.pin \in Digest \cup {NoDigest} /\ command'.before \in Image \cup {NoImage}
        BY DEF Under
    <2>3. BuildTypeOK' BY <1>0, <2>1, <2>2 DEF BuildTypeOK
    <2>4. QED BY <1>0, <2>3 DEF Shape
<1>4. Old'
    <2>1. ASSUME NEW r \in Refs, bases'[r] # NoDigest
          PROVE  bases'[r].ref = r /\ bases'[r].v <= published(r)
        <3>1. CASE bases'[r] = bases[r] BY <2>1, <3>1 DEF BuildInv, Old
        <3>2. CASE bases'[r] # bases[r]
            <4>1. r = decl /\ bases'[r] = latest(decl) BY <1>0, <3>2
            <4>2. QED BY <1>1, <4>1
        <3>3. QED BY <3>1, <3>2
    <2>2. named'.rpm <= repos' BY DEF BuildInv, Old
    <2>3. QED BY <1>2, <2>1, <2>2 DEF Old
<1>5. Pins' /\ Came' BY DEF Pins, Came
<1>6. Seen'
    <2> SUFFICES ASSUME command'.verb = "update" PROVE Seen'
        BY DEF Seen
    <2>1. command'.seen = published(decl) OBVIOUS
    <2>2. decl \notin Composed => fresh(bases[decl])'
        BY <1>0, <1>1 DEF fresh
    <2>3. command'.seen <= published(command.first)' BY <1>0, <1>1, <1>2, <2>1
    <2>4. QED BY <2>2, <2>3 DEF Seen
<1>7. Check'
    <2> SUFFICES ASSUME command'.current PROVE Check'
        BY DEF Check
    <2>1. command'.seen = published(decl) /\ update_check OBVIOUS
    <2>2. decl \notin Composed => lock # NoLock /\ lock.digest = [ref |-> decl, v |-> command'.seen]
        BY <2>1 DEF update_check, base_moved, latest
    <2>3. decl \in Composed => named.rpm = command'.seen
        BY <2>1 DEF update_check, moved, published
    <2>4. QED BY <2>2, <2>3 DEF Check
<1>8. TagsNameImages' BY DEF BuildInv, TagsNameImages
<1>9. QED BY <1>3, <1>4, <1>5, <1>6, <1>7, <1>8 DEF BuildInv

\* An ended command leaves nothing to know.
LEMMA CommandEnds ==
    ASSUME BuildInv, command' = Idle, UNCHANGED <<decl, registry, repos, bases, images, named, keptTag>>,
           lock' \in Lock \cup {NoLock}
    PROVE  BuildInv'
<1>1. Idle \in Under /\ Idle.pc = "idle" /\ Idle.verb = "" /\ Idle.current = FALSE
      /\ Idle.pin = NoDigest /\ Idle.before = NoImage
    BY DEF Idle, Under, Pcs
<1>2. Shape' BY <1>1 DEF BuildInv, Shape, BuildTypeOK
<1>3. Old' BY DEF BuildInv, Old, published
<1>4. Pins' /\ Came' /\ Seen' /\ Check' BY <1>1 DEF Pins, Came, Seen, Check
<1>5. QED BY <1>2, <1>3, <1>4 DEF BuildInv, TagsNameImages

LEMMA LoadStep == ASSUME BuildInv, Load PROVE BuildInv'
<1>0. /\ BuildTypeOK /\ decl \in Refs /\ command \in Under /\ command.pc = "load"
      /\ command.first \in Refs /\ command.verb \in {"build", "update"}
    BY DEF BuildInv, Shape, BuildTypeOK, Load, Under
<1> DEFINE p == IF command.verb = "build" THEN pinned(decl) ELSE NoDigest
<1>1. p \in Digest \cup {NoDigest} BY <1>0 DEF pinned, BuildTypeOK, Lock
<1>2. command' = [command EXCEPT !.pc = "base", !.cfg = decl, !.pin = p]
      /\ UNCHANGED <<decl, registry, repos, bases, images, named, keptTag, lock>>
    BY DEF Load
<1>3. /\ command' \in Under /\ command'.pc = "base" /\ command'.cfg = decl /\ command'.pin = p
      /\ command'.verb = command.verb /\ command'.first = command.first
      /\ command'.seen = command.seen /\ command'.current = command.current
      /\ command'.before = command.before
    BY <1>0, <1>1, <1>2 DEF Under, Pcs
<1>4. Shape'
    <2>1. command'.before \in Image \cup {NoImage} BY <1>3 DEF Under
    <2>2. BuildTypeOK' BY <1>0, <1>1, <1>2, <1>3, <2>1 DEF BuildTypeOK
    <2>3. QED BY <1>0, <1>3, <2>2 DEF Shape
<1>5. Old' BY <1>2 DEF BuildInv, Old, published
<1>6. Pins' BY <1>0, <1>2, <1>3 DEF BuildInv, Pins, pinned
<1>7. Came' BY <1>3 DEF Came
<1>8. Seen' BY <1>0, <1>2, <1>3 DEF BuildInv, Seen, fresh, published
<1>9. Check' BY <1>0, <1>2, <1>3 DEF BuildInv, Check
<1>10. TagsNameImages' BY <1>2 DEF BuildInv, TagsNameImages
<1>11. QED BY <1>4, <1>5, <1>6, <1>7, <1>8, <1>9, <1>10 DEF BuildInv

LEMMA PrepareStep == ASSUME BuildInv, PrepareBase PROVE BuildInv'
<1> DEFINE c == command.cfg
<1>0. /\ BuildTypeOK /\ command \in Under /\ command.pc = "base" /\ c \in Refs
      /\ command.first \in Refs /\ command.verb \in {"build", "update"}
      /\ bases \in [Refs -> Digest \cup {NoDigest}] /\ command.seen \in Nat
    BY DEF BuildInv, Shape, BuildTypeOK, PrepareBase, Under
<1>1. /\ latest(c) \in Digest /\ latest(c).ref = c /\ latest(c).v = published(c)
      /\ latest(c) # NoDigest /\ published(c) \in Nat
    BY <1>0, Versioned
<1>2. PICK p \in {command.pin, NoDigest} :
         /\ command' = [command EXCEPT !.pc = "from", !.pin = p]
         /\ c \notin Composed => p = command.pin
        <2>1. CASE c \in Composed
            <3>1. CASE composes \/ bases[c] # command.pin BY <2>1, <3>1 DEF PrepareBase
            <3>2. CASE ~(composes \/ bases[c] # command.pin) BY <2>1, <3>2 DEF PrepareBase
            <3>3. QED BY <3>1, <3>2
        <2>2. CASE c \notin Composed
            <3>1. command' = [command EXCEPT !.pc = "from"] BY <2>2 DEF PrepareBase
            <3>2. [command EXCEPT !.pc = "from"] = [command EXCEPT !.pc = "from", !.pin = command.pin]
                BY <1>0 DEF Under
            <3>3. QED BY <3>1, <3>2
        <2>3. QED BY <2>1, <2>2
<1>3. /\ UNCHANGED <<decl, registry, repos, images, named, keptTag, lock>>
      /\ \/ bases' = bases /\ (command.verb = "update" => c \notin Composed)
         \/ c \in Composed /\ bases' = [bases EXCEPT ![c] = latest(c)]
    BY <1>0 DEF PrepareBase, composes
<1>4. command.pin \in Digest \cup {NoDigest} BY <1>0 DEF Under
<1>5. /\ command' \in Under /\ command'.pc = "from" /\ command'.cfg = c /\ command'.pin = p
      /\ command'.verb = command.verb /\ command'.first = command.first
      /\ command'.seen = command.seen /\ command'.current = command.current
      /\ command'.before = command.before
    BY <1>0, <1>2, <1>4 DEF Under, Pcs
<1>6. \A r \in Refs : published(r)' = published(r) BY <1>3 DEF published
<1>7. Shape'
    <2>1. command'.before \in Image \cup {NoImage} /\ p \in Digest \cup {NoDigest}
        BY <1>4, <1>5 DEF Under
    <2>2. bases' \in [Refs -> Digest \cup {NoDigest}] BY <1>0, <1>1, <1>3
    <2>3. BuildTypeOK' BY <1>0, <1>3, <1>5, <2>1, <2>2 DEF BuildTypeOK
    <2>4. QED BY <1>0, <1>5, <2>3 DEF Shape
<1>8. Old'
    <2>1. ASSUME NEW r \in Refs, bases'[r] # NoDigest
          PROVE  bases'[r].ref = r /\ bases'[r].v <= published(r)
        <3>1. CASE bases'[r] = bases[r] BY <2>1, <3>1 DEF BuildInv, Old
        <3>2. CASE bases'[r] # bases[r]
            <4>1. r = c /\ bases'[r] = latest(c) BY <1>0, <1>3, <3>2
            <4>2. QED BY <1>1, <4>1
        <3>3. QED BY <3>1, <3>2
    <2>2. named'.rpm <= repos' BY <1>3 DEF BuildInv, Old
    <2>3. QED BY <1>6, <2>1, <2>2 DEF Old
<1>9. Pins' BY <1>0, <1>2, <1>3, <1>5 DEF BuildInv, Pins, pinned
<1>10. Came' BY <1>5 DEF Came
<1>11. Seen'
    <2> SUFFICES ASSUME command.verb = "update" PROVE Seen'
        BY <1>5 DEF Seen
    <2>1. command.seen <= published(command.first) BY <1>0 DEF BuildInv, Seen
    <2>2. command'.seen <= published(command.first)' BY <1>0, <1>5, <1>6, <2>1
    <2>3. ASSUME c = command.first
          PROVE  bases'[c] = NoDigest \/ bases'[c].v >= command.seen
        <3>1. CASE bases' = bases
            <4>1. CASE c \notin Composed BY <1>0, <2>3, <3>1, <4>1 DEF BuildInv, Seen, fresh
            <4>2. CASE c \in Composed
                <5>1. bases'[c] = latest(c) BY <1>0, <1>3, <4>2
                <5>2. QED BY <1>0, <1>1, <2>1, <2>3, <5>1
            <4>3. QED BY <4>1, <4>2
        <3>2. CASE bases' # bases
            <4>1. bases'[c] = latest(c) BY <1>0, <1>3, <3>2
            <4>2. QED BY <1>0, <1>1, <2>1, <2>3, <4>1
        <3>3. QED BY <3>1, <3>2
    <2>4. QED BY <1>5, <2>2, <2>3 DEF Seen, fresh
<1>12. Check' BY <1>0, <1>3, <1>5 DEF BuildInv, Check
<1>13. TagsNameImages' BY <1>3 DEF BuildInv, TagsNameImages
<1>14. QED BY <1>7, <1>8, <1>9, <1>10, <1>11, <1>12, <1>13 DEF BuildInv

LEMMA PodmanStep == ASSUME BuildInv, PodmanBuild PROVE BuildInv'
<1> DEFINE c == command.cfg
           from == IF command.pin # NoDigest THEN command.pin
                   ELSE IF bases[c] # NoDigest \/ c \in Composed THEN bases[c] ELSE latest(c)
           out == [base |-> from, rpm |-> repos]
<1>0. /\ BuildTypeOK /\ command \in Under /\ command.pc = "from" /\ c \in Refs
      /\ command.first \in Refs /\ command.verb \in {"build", "update"}
      /\ bases \in [Refs -> Digest \cup {NoDigest}] /\ command.seen \in Nat
      /\ command.pin \in Digest \cup {NoDigest}
    BY DEF BuildInv, Shape, BuildTypeOK, PodmanBuild, Under
<1>1. /\ latest(c) \in Digest /\ latest(c).ref = c /\ latest(c).v = published(c)
      /\ latest(c) # NoDigest /\ published(c) \in Nat
    BY <1>0, Versioned
<1>2. /\ from # NoDigest /\ images' = images \cup {out} /\ named' = out
      /\ bases' = IF command.pin = NoDigest THEN [bases EXCEPT ![c] = from] ELSE bases
      /\ command' = [command EXCEPT !.pc = "reclaim", !.before = named]
      /\ UNCHANGED <<decl, registry, repos, keptTag, lock>>
    BY DEF PodmanBuild
<1>3. from \in Digest BY <1>0, <1>1, <1>2
<1>4. command.pin = NoDigest =>
          /\ from.ref = c /\ from.v <= published(c)
          /\ from = bases[c] \/ from = latest(c)
    BY <1>0, <1>1, <1>2 DEF BuildInv, Old
<1>5. repos \in Versions /\ repos \in Nat /\ named \in Image \cup {NoImage}
    BY <1>0, BuildAssumption DEF BuildTypeOK
<1> HIDE DEF from
<1>6. out \in Image /\ out.base = from /\ out.rpm = repos BY <1>3, <1>5 DEF Image
<1> HIDE DEF out
<1>7. /\ command' \in Under /\ command'.pc = "reclaim" /\ command'.cfg = c
      /\ command'.pin = command.pin
      /\ command'.verb = command.verb /\ command'.first = command.first
      /\ command'.seen = command.seen /\ command'.current = command.current
      /\ command'.before = named
    BY <1>0, <1>2, <1>5 DEF Under, Pcs
<1>8. \A r \in Refs : published(r)' = published(r) BY <1>2 DEF published
<1>9. Shape'
    <2>1. bases' \in [Refs -> Digest \cup {NoDigest}] BY <1>0, <1>2, <1>3
    <2>2. BuildTypeOK' BY <1>0, <1>2, <1>5, <1>6, <1>7, <2>1 DEF BuildTypeOK
    <2>3. QED BY <1>0, <1>7, <2>2 DEF Shape
<1>10. Old'
    <2>1. ASSUME NEW r \in Refs, bases'[r] # NoDigest
          PROVE  bases'[r].ref = r /\ bases'[r].v <= published(r)
        <3>1. CASE bases'[r] = bases[r] BY <2>1, <3>1 DEF BuildInv, Old
        <3>2. CASE bases'[r] # bases[r]
            <4>1. r = c /\ bases'[r] = from /\ command.pin = NoDigest BY <1>0, <1>2, <3>2
            <4>2. QED BY <1>4, <4>1
        <3>3. QED BY <3>1, <3>2
    <2>2. named'.rpm <= repos' BY <1>2, <1>5, <1>6
    <2>3. QED BY <1>8, <2>1, <2>2 DEF Old
<1>11. Pins' BY <1>0, <1>2, <1>7 DEF BuildInv, Pins, pinned
<1>12. Came'
    <2>1. named' \in Image /\ named'.base = from BY <1>2, <1>6
    <2>2. command.pin = NoDigest => bases'[c] = from BY <1>0, <1>2
    <2>3. command.pin # NoDigest => from = command.pin BY DEF from
    <2>4. QED BY <1>7, <2>1, <2>2, <2>3 DEF Came
<1>13. Seen'
    <2> SUFFICES ASSUME command.verb = "update" PROVE Seen'
        BY <1>7 DEF Seen
    <2>1. /\ command.pin = NoDigest /\ command.seen <= published(command.first)
          /\ c = command.first => fresh(bases[c])
        BY <1>0 DEF BuildInv, Pins, Seen
    <2>2. command'.seen <= published(command.first)' BY <1>0, <1>7, <1>8, <2>1
    <2>3. c = command.first => from.v >= command.seen
        BY <1>0, <1>1, <1>2, <1>4, <2>1 DEF fresh
    <2>4. command.first \in Composed => repos >= command.seen
        BY <1>0, <1>5, <2>1 DEF published
    <2>5. named'.base = from /\ named'.rpm = repos BY <1>2, <1>6
    <2>6. c = command.first => from.v <= published(command.first)'
        BY <1>0, <1>4, <1>7, <1>8, <2>1
    <2>7. QED BY <1>4, <1>7, <2>1, <2>2, <2>3, <2>4, <2>5, <2>6 DEF Seen
<1>14. Check' BY <1>0, <1>2, <1>7 DEF BuildInv, Check
<1>15. TagsNameImages' BY <1>2 DEF BuildInv, TagsNameImages
<1>16. QED BY <1>9, <1>10, <1>11, <1>12, <1>13, <1>14, <1>15 DEF BuildInv

LEMMA ReclaimStep == ASSUME BuildInv, Reclaim PROVE BuildInv'
<1>0. /\ BuildTypeOK /\ command \in Under /\ command.pc = "reclaim" /\ command.cfg \in Refs
      /\ command.first \in Refs /\ command.verb \in {"build", "update"}
    BY DEF BuildInv, Shape, BuildTypeOK, Reclaim, Under
<1>1. /\ command' = [command EXCEPT !.pc = "record"]
      /\ UNCHANGED <<decl, registry, repos, bases, named, keptTag, lock>>
      /\ images' \subseteq images /\ {named, keptTag} \cap images \subseteq images'
    BY DEF Reclaim, has_no_tags
<1>2. /\ command' \in Under /\ command'.pc = "record" /\ command'.cfg = command.cfg
      /\ command'.pin = command.pin
      /\ command'.verb = command.verb /\ command'.first = command.first
      /\ command'.seen = command.seen /\ command'.current = command.current
      /\ command'.before = command.before
    BY <1>0, <1>1 DEF Under, Pcs
<1>3. Shape' BY <1>0, <1>1, <1>2 DEF Shape, BuildTypeOK
<1>4. Old' BY <1>1 DEF BuildInv, Old, published
<1>5. Pins' BY <1>0, <1>1, <1>2 DEF BuildInv, Pins, pinned
<1>6. Came' BY <1>0, <1>1, <1>2 DEF BuildInv, Came
<1>7. Seen' BY <1>0, <1>1, <1>2 DEF BuildInv, Seen, published
<1>8. Check' BY <1>0, <1>1, <1>2 DEF BuildInv, Check
<1>9. TagsNameImages' BY <1>1 DEF BuildInv, TagsNameImages
<1>10. QED BY <1>3, <1>4, <1>5, <1>6, <1>7, <1>8, <1>9 DEF BuildInv

\* What a record says, from what the command knows.
LockTold ==
    lock' # lock =>
        /\ lock'.digest = named.base /\ lock'.rpm = named.rpm
        /\ command.verb = "build" /\ command.cfg \notin Composed /\ lock.ref = command.cfg
              => lock'.digest = lock.digest
        /\ command.verb = "update" /\ command.cfg = command.first => lock'.digest.v >= command.seen
        /\ command.current /\ command.cfg = command.first /\ published(command.cfg) = command.seen
              => IF command.cfg \in Composed THEN lock'.rpm = command.before.rpm
                                             ELSE lock'.digest = lock.digest

LEMMA RecordStep == ASSUME BuildInv, record PROVE BuildInv' /\ LockTold
<1> DEFINE c == command.cfg
<1>0. /\ BuildTypeOK /\ command \in Under /\ command.pc = "record" /\ c \in Refs
      /\ command.first \in Refs /\ command.verb \in {"build", "update"}
      /\ bases \in [Refs -> Digest \cup {NoDigest}] /\ command.seen \in Nat
      /\ command.pin \in Digest \cup {NoDigest} /\ named \in Image
      /\ Versions \subseteq Nat
    BY BuildAssumption DEF BuildInv, Shape, Came, BuildTypeOK, record, Under
<1>1. /\ base_digest # NoDigest /\ command' = Idle
      /\ lock' = [ref |-> c, digest |-> base_digest, rpm |-> named.rpm]
      /\ UNCHANGED <<decl, registry, repos, bases, images, named, keptTag>>
    BY DEF record
<1>2. base_digest = named.base /\ named.base \in Digest /\ named.rpm \in Versions
    BY <1>0, <1>1 DEF BuildInv, Came, base_digest, Image
<1>3. lock' \in Lock BY <1>0, <1>1, <1>2 DEF Lock
<1>4. BuildInv' BY <1>1, <1>3, CommandEnds
<1>5. lock'.digest = named.base /\ lock'.rpm = named.rpm BY <1>1, <1>2
<1>6. ASSUME command.verb = "build", c \notin Composed, lock.ref = c
      PROVE  lock'.digest = lock.digest
    <2>1. lock # NoLock
        <3>1. c # "" BY <1>0, BuildAssumption
        <3>2. NoLock.ref = "" BY DEF NoLock
        <3>3. QED BY <1>6, <3>1, <3>2
    <2>2. lock.digest \in Digest BY <1>0, <2>1 DEF BuildTypeOK, Lock
    <2>3. command.pin = lock.digest BY <1>0, <1>6, <2>1 DEF BuildInv, Pins, pinned
    <2>4. QED BY <1>5, <1>2, <2>2, <2>3, NoDigestIsNone DEF base_digest
<1>7. ASSUME command.verb = "update", c = command.first
      PROVE  /\ lock'.digest.v >= command.seen /\ lock'.digest.ref = c
             /\ lock'.digest.v <= published(c)
    BY <1>0, <1>5, <1>7 DEF BuildInv, Seen
<1>8. ASSUME command.current, c = command.first, published(c) = command.seen
      PROVE  IF c \in Composed THEN lock'.rpm = command.before.rpm ELSE lock'.digest = lock.digest
    <2>1. command.verb = "update" BY <1>8 DEF BuildInv, Pins
    <2>2. CASE c \in Composed
        <3>1. /\ command.before.rpm = command.seen /\ named.rpm >= command.seen
              /\ named.rpm <= repos /\ repos = command.seen
            BY <1>0, <1>8, <2>1, <2>2 DEF BuildInv, Check, Seen, Old, published
        <3>2. named.rpm \in Nat BY <1>0, <1>2
        <3>3. lock'.rpm = command.before.rpm BY <1>0, <1>5, <3>1, <3>2
        <3>4. QED BY <2>2, <3>3
    <2>3. CASE c \notin Composed
        <3>1. lock.digest = [ref |-> c, v |-> command.seen]
            BY <1>0, <1>8, <2>3 DEF BuildInv, Check
        <3>2. lock'.digest \in Digest /\ lock'.digest.v \in Nat BY <1>0, <1>2, <1>5 DEF Digest
        <3>3. lock'.digest.v = command.seen /\ lock'.digest.ref = c
            BY <1>0, <1>7, <1>8, <2>1, <3>2
        <3>4. lock'.digest = [ref |-> c, v |-> command.seen] BY <3>2, <3>3 DEF Digest
        <3>5. QED BY <2>3, <3>1, <3>4
    <2>4. QED BY <2>2, <2>3
<1>9. QED BY <1>4, <1>5, <1>6, <1>7, <1>8 DEF LockTold

LEMMA BuildStep ==
    ASSUME BuildInv, BuildNext
    PROVE  BuildInv' /\ LockTold
<1>0. BuildTypeOK /\ TagsNameImages /\ bases \in [Refs -> Digest \cup {NoDigest}] /\ Versions \subseteq Nat
    BY BuildAssumption DEF BuildInv, Shape, BuildTypeOK
<1>1. CASE Edit
    <2>1. UNCHANGED <<registry, repos, bases, images, named, keptTag, lock, command>> /\ decl' \in Refs
        BY <1>1 DEF Edit
    <2>2. BuildTypeOK' /\ TagsNameImages' BY <1>0, <2>1 DEF BuildTypeOK, TagsNameImages
    <2>3. \A r \in Refs : published(r) \in Nat /\ published(r)' = published(r)
        BY <1>0, <2>1, Versioned DEF published
    <2>4. repos \in Nat BY <1>0 DEF BuildTypeOK
    <2>5. QED BY <2>1, <2>2, <2>3, <2>4, AroundStep DEF LockTold
<1>2. CASE Publish
    <2>1. UNCHANGED <<decl, bases, images, named, keptTag, lock, command>> BY <1>2 DEF Publish
    <2>2. /\ registry \in [Declared -> Versions] /\ repos \in Versions BY <1>0 DEF BuildTypeOK
    <2>3. /\ registry' \in [Declared -> Versions] /\ repos' \in Versions
          /\ repos <= repos' /\ \A r \in Declared : registry[r] <= registry'[r]
        <3>0. repos \in Nat /\ \A x \in Declared : registry[x] \in Nat BY <1>0, <2>2
        <3>1. CASE repos' = repos + 1 /\ repos + 1 \in Versions /\ registry' = registry
            <4>1. \A r \in Declared : registry[r] <= registry'[r] BY <3>0, <3>1
            <4>2. QED BY <2>2, <3>0, <3>1, <4>1
        <3>2. ASSUME NEW r \in Declared, registry[r] + 1 \in Versions,
                     registry' = [registry EXCEPT ![r] = registry[r] + 1], repos' = repos
              PROVE  /\ registry' \in [Declared -> Versions] /\ repos' \in Versions
                     /\ repos <= repos' /\ \A x \in Declared : registry[x] <= registry'[x]
            <4>1. repos \in Nat /\ \A x \in Declared : registry[x] \in Nat BY <1>0, <2>2
            <4>2. \A x \in Declared : registry'[x] = IF x = r THEN registry[x] + 1 ELSE registry[x]
                BY <2>2, <3>2
            <4>3. registry' \in [Declared -> Versions] BY <2>2, <3>2
            <4>4. QED BY <2>2, <3>2, <4>1, <4>2, <4>3
        <3>3. QED BY <1>2, <3>1, <3>2 DEF Publish
    <2>4. BuildTypeOK' /\ TagsNameImages' BY <1>0, <2>1, <2>3 DEF BuildTypeOK, TagsNameImages
    <2>5. \A r \in Refs : published(r) <= published(r)' BY <2>1, <2>3 DEF published, Declared
    <2>6. QED BY <2>1, <2>3, <2>4, <2>5, AroundStep DEF LockTold
<1>3. CASE Retag \/ LoseBase \/ Clean
    <2>1. UNCHANGED <<decl, registry, repos, named, lock, command>>
          /\ \A r \in Refs : bases'[r] \in {bases[r], NoDigest}
          /\ bases' \in [Refs -> Digest \cup {NoDigest}]
        BY <1>0, <1>3 DEF Retag, LoseBase, Clean
    <2>2. images' \subseteq images /\ keptTag' \in {keptTag, named, NoImage}
          /\ {named, keptTag'} \subseteq images' \cup {NoImage}
        BY <1>0, <1>3 DEF Retag, LoseBase, Clean, TagsNameImages
    <2>3. BuildTypeOK' /\ TagsNameImages' BY <1>0, <2>1, <2>2 DEF BuildTypeOK, TagsNameImages
    <2>4. \A r \in Refs : published(r) \in Nat /\ published(r)' = published(r)
        BY <1>0, <2>1, Versioned DEF published
    <2>5. repos \in Nat BY <1>0 DEF BuildTypeOK
    <2>6. QED BY <2>1, <2>3, <2>4, <2>5, AroundStep DEF LockTold
<1>4. CASE Update
    <2>1. published(decl) \in Nat /\ decl \in Refs BY <1>0, Versioned DEF BuildTypeOK
    <2>2. /\ command' = [Idle EXCEPT !.pc = "load", !.verb = "update", !.first = decl,
                           !.seen = published(decl), !.current = update_check]
          /\ update_check \in BOOLEAN
        BY <1>4 DEF Update, update_check
    <2>3. /\ command' \in Under /\ command'.pc = "load" /\ command'.first = decl
          /\ command'.pin = NoDigest /\ command'.verb = "update"
          /\ command'.seen = published(decl) /\ command'.current = update_check
        BY <2>1, <2>2 DEF Idle, Under, Pcs
    <2>4. QED BY <1>4, <2>3, CommandStarts DEF Update, LockTold
<1>5. CASE Build
    <2>1. decl \in Refs BY <1>0 DEF BuildTypeOK
    <2>2. command' = [Idle EXCEPT !.pc = "load", !.verb = "build", !.first = decl] BY <1>5 DEF Build
    <2>3. /\ command' \in Under /\ command'.pc = "load" /\ command'.first = decl
          /\ command'.pin = NoDigest /\ command'.verb = "build" /\ ~command'.current
        BY <2>1, <2>2 DEF Idle, Under, Pcs
    <2>4. QED BY <1>5, <2>3, CommandStarts DEF Build, LockTold
<1>6. CASE Load BY <1>6, LoadStep DEF Load, LockTold
<1>7. CASE PrepareBase BY <1>7, PrepareStep DEF PrepareBase, LockTold
<1>8. CASE PodmanBuild BY <1>8, PodmanStep DEF PodmanBuild, LockTold
<1>9. CASE Reclaim BY <1>9, ReclaimStep DEF Reclaim, LockTold
<1>10. CASE record BY <1>10, RecordStep
<1>11. CASE BuildStops
    <2>1. lock \in Lock \cup {NoLock} BY <1>0 DEF BuildTypeOK
    <2>2. QED BY <1>11, <2>1, CommandEnds DEF BuildStops, LockTold
<1>12. QED BY <1>1, <1>2, <1>3, <1>4, <1>5, <1>6, <1>7, <1>8, <1>9, <1>10, <1>11 DEF BuildNext

LEMMA BuildInvHolds == BuildSpec => []BuildInv /\ [][LockTold]_buildVars
<1>1. BuildInit => BuildInv
    <2> SUFFICES ASSUME BuildInit PROVE BuildInv
        OBVIOUS
    <2>1. /\ decl \in Refs /\ registry \in [Declared -> Versions] /\ repos \in Versions
          /\ bases \in [Refs -> Digest \cup {NoDigest}] /\ images = {}
          /\ named = NoImage /\ keptTag = NoImage /\ lock = NoLock /\ command = Idle
          /\ \A r \in Refs : bases[r] = NoDigest
        BY BuildAssumption DEF BuildInit
    <2>2. Idle \in Under /\ Idle.pc = "idle" /\ Idle.verb = "" /\ Idle.current = FALSE
          /\ Idle.pin = NoDigest /\ Idle.before = NoImage
        BY DEF Idle, Under, Pcs
    <2>3. Shape BY <2>1, <2>2 DEF Shape, BuildTypeOK
    <2>4. Old
        <3>1. named.rpm = 0 /\ repos = 1 BY <2>1 DEF BuildInit, NoImage
        <3>2. named.rpm <= repos BY <3>1
        <3>3. QED BY <2>1, <3>2 DEF Old
    <2>5. Pins /\ Came /\ Seen /\ Check BY <2>1, <2>2 DEF Pins, Came, Seen, Check
    <2>6. QED BY <2>1, <2>3, <2>4, <2>5 DEF BuildInv, TagsNameImages
<1>2. BuildInv /\ [BuildNext]_buildVars => BuildInv' /\ [LockTold]_buildVars
    <2> SUFFICES ASSUME BuildInv, [BuildNext]_buildVars PROVE BuildInv' /\ [LockTold]_buildVars
        OBVIOUS
    <2>1. CASE UNCHANGED buildVars
        <3>1. UNCHANGED <<decl, registry, repos, bases, images, named, keptTag, lock, command>>
            BY <2>1 DEF buildVars
        <3>2. BuildTypeOK /\ repos \in Nat /\ TagsNameImages
            BY BuildAssumption DEF BuildInv, Shape, BuildTypeOK
        <3>3. BuildTypeOK' /\ TagsNameImages' BY <3>1, <3>2 DEF BuildTypeOK, TagsNameImages
        <3>4. \A r \in Refs : published(r) \in Nat /\ published(r)' = published(r)
            BY <3>1, <3>2, Versioned DEF published
        <3>5. QED BY <2>1, <3>1, <3>2, <3>3, <3>4, AroundStep
    <2>2. QED BY <2>1, BuildStep
<1>3. QED BY <1>1, <1>2, PTL DEF BuildSpec

\* BuildsAreBooked: for any bases, composed or declared, and any versions, with
\* edits, publications, losses, cleanings and crashes between any two steps, a
\* record tells the build the tag names, only an update moves a declared pin
\* and it does, "nothing has moved" is true when it is said, and no image with
\* a tag is taken.
THEOREM BuildsStayBooked == BuildSpec => BuildsAreBooked
<1>1. BuildInv => TagsNameImages BY DEF BuildInv
<1>2. LockTold => (lock' # lock => lock'.digest = named.base /\ lock'.rpm = named.rpm)
    BY DEF LockTold
<1>3. LockTold =>
        (lock' # lock =>
         /\ command.verb = "build" /\ command.cfg \notin Composed /\ lock.ref = command.cfg
               => lock'.digest = lock.digest
         /\ command.verb = "update" /\ command.cfg = command.first
               => lock'.digest.v >= command.seen)
    BY DEF LockTold
<1>4. LockTold =>
        (lock' # lock /\ command.current
         /\ command.cfg = command.first /\ published(command.cfg) = command.seen
       => IF command.cfg \in Composed THEN lock'.rpm = command.before.rpm
                                       ELSE lock'.digest = lock.digest)
    BY DEF LockTold
<1>5. BuildSpec => LockTellsTheBuild BY <1>2, BuildInvHolds, PTL DEF LockTellsTheBuild
<1>6. BuildSpec => OnlyUpdateMovesThePin BY <1>3, BuildInvHolds, PTL DEF OnlyUpdateMovesThePin
<1>7. BuildSpec => NothingMovedIsTrue BY <1>4, BuildInvHolds, PTL DEF NothingMovedIsTrue
<1>8. QED BY <1>1, <1>5, <1>6, <1>7, BuildInvHolds, PTL DEF BuildsAreBooked

-----------------------------------------------------------------------------
(* The doctor.  Nothing but what a command found and what it changes decides  *)
(* whether its finding is gone: Printed says what a printed command means.     *)

\* What is true of the machine when a finding prints its command.
Printed(f) ==
    /\ f.grade \in {"ok", "warn", "fail"} /\ (f.name = "nothing" => f.fix # "none")
    /\ f.fix = "sync" =>
           /\ f.name \in {"user", "apps"} /\ f.name \in ordered
           /\ f.name = "apps" => \/ ~facts["apps"].ok
                                 \/ convergence_staleness(TRUE, facts["apps"].last)
    /\ f.fix = "start" => f.on \in Timers /\ f.on \in ordered /\ f.on \notin timer
    /\ f.fix = "add-remote" => ~flathub
    /\ f.fix = "provision" => cred = "none"
    /\ f.fix = "restrict" => cred = "open"
    /\ f.fix = "rewrite" => cred = "ambiguous"
    /\ f.fix = "seed" => backup_day = NoDay
    /\ f.fix = "snapshot" => ~shots
    /\ f.fix = "remove" => f.on \in dangling
    /\ f.fix = "restore" => f.on \in Etc /\ etc[f.on] # release
    /\ f.fix = "rebuild" => f.name = "signatures"
    /\ f.fix = "start-bunker" => bunker = "down"
    /\ f.fix = "restart-bunker" => bunker = "mute"
    /\ f.fix = "setup" => bunker = "unset"
    /\ f.fix = "unlock" => bunker = "locked"
    /\ f.fix = "clean" => stranded
    /\ f.fix = "converge" => ~boot_counter
AllPrinted == \A f \in doctor(TRUE) : Printed(f)

\* Every finding of every check prints a command that fits the machine.
LEMMA FindingsFit == release # Gone => AllPrinted
<1> SUFFICES ASSUME release # Gone PROVE AllPrinted
    OBVIOUS
<1>1. ASSUME NEW f \in check_convergence PROVE Printed(f)
    <2>1. ASSUME NEW u \in ordered \cap {"user", "apps"}, f = service_finding(u, facts[u])
          PROVE  Printed(f)
        <3>1. u \in DOMAIN convergence_targets /\ convergence_targets[u] = (u = "apps")
            BY DEF convergence_targets
        <3>2. f \in {find(u, "ok", "running", u), find(u, "ok", "none", u)}
              \/ /\ f \in {find(u, "fail", "sync", u), find(u, "fail", "sync", "stale")}
                 /\ ~facts[u].ok \/ convergence_staleness(u = "apps", facts[u].last)
            BY <2>1, <3>1 DEF service_finding
        <3>3. CASE f \in {find(u, "ok", "running", u), find(u, "ok", "none", u)}
            <4>1. f.name = u /\ f.grade = "ok" /\ f.fix \in {"running", "none"}
                BY <3>3 DEF find
            <4>2. u # "nothing" OBVIOUS
            <4>3. QED BY <4>1, <4>2 DEF Printed
        <3>4. CASE /\ f \in {find(u, "fail", "sync", u), find(u, "fail", "sync", "stale")}
                   /\ ~facts[u].ok \/ convergence_staleness(u = "apps", facts[u].last)
            <4>1. f.name = u /\ f.grade = "fail" /\ f.fix = "sync" BY <3>4 DEF find
            <4>2. CASE u = "apps"
                <5>1. (u = "apps") = TRUE BY <4>2
                <5>2. ~facts["apps"].ok \/ convergence_staleness(TRUE, facts["apps"].last)
                    BY <3>4, <4>2, <5>1
                <5>3. QED BY <4>1, <4>2, <5>2 DEF Printed
            <4>3. CASE u = "user" BY <4>1, <4>3 DEF Printed
            <4>4. QED BY <4>2, <4>3
        <3>5. QED BY <3>2, <3>3, <3>4
    <2>2. ASSUME NEW t \in graded_timers, f = timer_finding(t) PROVE Printed(f)
        BY <2>2 DEF Printed, find, timer_finding, graded_timers, Timers
    <2>3. ASSUME f \in when("apps" \in ordered /\ ~flathub,
                            find("flathub", "fail", "add-remote", "flathub"))
          PROVE  Printed(f)
        <3>1. f = find("flathub", "fail", "add-remote", "flathub") /\ ~flathub BY <2>3 DEF when
        <3>2. QED BY <3>1 DEF Printed, find
    <2>4. ASSUME f \in when(skips, find("convergence", "ok", "none", "skipped")) PROVE Printed(f)
        <3>1. f = find("convergence", "ok", "none", "skipped") BY <2>4 DEF when
        <3>2. QED BY <3>1 DEF Printed, find
    <2>5. DOMAIN convergence_targets = ordered \cap {"user", "apps"} BY DEF convergence_targets
    <2>6. QED BY <1>1, <2>1, <2>2, <2>3, <2>4, <2>5 DEF check_convergence
<1>2. ASSUME NEW f \in check_backup(TRUE) PROVE Printed(f)
    <2>1. "backup" \in ordered BY <1>2 DEF check_backup
    <2>2. CASE f = find("backup", "warn", "provision", "backup") /\ cred = "none"
        BY <2>2 DEF Printed, find
    <2>3. CASE f = find("backup", "fail", "restrict", "backup") /\ cred = "open"
        BY <2>3 DEF Printed, find
    <2>4. CASE f = find("backup", "fail", "rewrite", "backup") /\ cred = "ambiguous"
        BY <2>4 DEF Printed, find
    <2>5. CASE f = timer_finding("backup")
        BY <2>1, <2>5 DEF Printed, find, timer_finding, Timers
    <2>6. CASE f = find("backup", "fail", "logs", "backup") BY <2>6 DEF Printed, find
    <2>7. CASE f = find("backup", "warn", "seed", "backup") /\ backup_day = NoDay
        BY <2>7 DEF Printed, find
    <2>8. CASE f = find("backup", "warn", "logs", "stale") BY <2>8 DEF Printed, find
    <2>9. QED
        BY <1>2, <2>2, <2>3, <2>4, <2>5, <2>6, <2>7, <2>8
        DEF check_backup, when, last_failed, backup_age
<1>3. ASSUME NEW f \in check_snapshots PROVE Printed(f)
    <2>1. "snapshots" \in ordered BY <1>3 DEF check_snapshots
    <2>2. CASE f = find("snapshots", "fail", "none", snap_target) BY <2>2 DEF Printed, find
    <2>3. CASE f = timer_finding("snapshots")
        BY <2>1, <2>3 DEF Printed, find, timer_finding, Timers
    <2>4. CASE f = find("snapshots", "fail", "logs", "snapshots") BY <2>4 DEF Printed, find
    <2>5. CASE f = find("snapshots", "warn", "snapshot", "store") /\ ~shots
        BY <2>5 DEF Printed, find
    <2>6. QED BY <1>3, <2>2, <2>3, <2>4, <2>5 DEF check_snapshots, when, last_failed
<1>4. ASSUME NEW f \in check_links PROVE Printed(f)
    <2>1. PICK l \in dangling : f = find(l, "warn", "remove", l) BY <1>4 DEF check_links
    <2>2. QED BY <2>1 DEF Printed, find
<1>5. ASSUME NEW f \in check_etc_drift PROVE Printed(f)
    <2>1. PICK s \in {"shadowed", "removed"} :
              LET those == {x \in etc_paths : classify_etc(x) = s}
              IN  those # {} /\ f = find(s, "warn", "restore", CHOOSE x \in those : TRUE)
        BY <1>5 DEF check_etc_drift
    <2>2. f.on \in etc_paths /\ classify_etc(f.on) = s BY <2>1 DEF find
    <2>3. f.on \in Etc /\ etc[f.on] # release BY <2>2 DEF etc_paths, classify_etc
    <2>4. f.name = s /\ f.grade = "warn" /\ f.fix = "restore" BY <2>1 DEF find
    <2>5. QED BY <2>3, <2>4 DEF Printed
<1>6. ASSUME NEW f \in check_signature_policy PROVE Printed(f)
    <2>1. f.name = "signatures" /\ f.fix = "rebuild" /\ f.grade \in {"warn", "fail"}
        BY <1>6 DEF check_signature_policy, find
    <2>2. QED BY <2>1 DEF Printed
<1>7. ASSUME NEW f \in check_nostr PROVE Printed(f)
    <2>1. f.name = "nostr" /\ f.grade = "warn"
          /\ <<bunker, f.fix>> \in {<<"down", "start-bunker">>, <<"mute", "restart-bunker">>,
                                    <<"unset", "setup">>, <<"locked", "unlock">>}
        BY <1>7 DEF check_nostr, find
    <2>2. QED BY <2>1 DEF Printed
<1>8. ASSUME NEW f \in check_boot_health \cup check_build_leftovers PROVE Printed(f)
    <2>1. CASE f = find("boot health", "warn", "converge", "grub") /\ ~boot_counter
        BY <2>1 DEF Printed, find
    <2>2. CASE f = find("storage", "warn", "clean", "podman") /\ stranded
        BY <2>2 DEF Printed, find
    <2>3. QED BY <1>8, <2>1, <2>2 DEF check_boot_health, check_build_leftovers, when
<1>9. QED
    BY <1>1, <1>2, <1>3, <1>4, <1>5, <1>6, <1>7, <1>8 DEF AllPrinted, doctor

\* An image that does not name the files of /etc finds them as it shipped them.
EtcUntold == "etc" \notin ordered => \A f \in Etc : etc[f] = release
\* A green run of the applications is one that converged them, that day or later.
AppsTold ==
    facts["apps"].last # NoDay =>
        /\ facts["apps"].last <= today
        /\ facts["apps"].ok => apps_day # NoDay /\ facts["apps"].last <= apps_day
DoctorInv == DoctorTypeOK /\ EtcUntold /\ AppsTold /\ AdviceWorks

\* What follows a boot.
LEMMA BootFits ==
    ASSUME ordered \in Declarations
    PROVE  at_boot \in [Graded -> UnitFacts] /\ at_boot["apps"].last = NoDay
<1>1. NoDay \in 0..NoDay BY DoctorAssumption DEF NoDay
<1>2. blank \in UnitFacts /\ begun \in UnitFacts /\ blank.last = NoDay /\ begun.last = NoDay
    BY <1>1 DEF blank, begun, UnitFacts
<1>3. QED BY <1>2 DEF at_boot, Graded

\* A run that ends leaves its own unit's facts, of today.
LEMMA RunFits ==
    ASSUME DoctorTypeOK, NEW u \in Graded, NEW well \in BOOLEAN
    PROVE  /\ run_ended(u, well) \in [Graded -> UnitFacts]
           /\ u # "apps" => run_ended(u, well)["apps"] = facts["apps"]
           /\ u = "apps" => /\ run_ended(u, well)["apps"].last = today
                            /\ run_ended(u, well)["apps"].ok = well
<1>1. today \in 0..NoDay BY DoctorAssumption DEF DoctorTypeOK, NoDay
<1>2. [running |-> FALSE, ok |-> well, last |-> today, spent |-> ~well /\ u \in {"apps", "daily"}]
        \in UnitFacts
    BY <1>1 DEF UnitFacts
<1>3. facts \in [Graded -> UnitFacts] /\ "apps" \in Graded BY DEF DoctorTypeOK, Graded
<1>4. QED BY <1>2, <1>3 DEF run_ended


\* The next image: every file is merged, and one the doctor said nothing of is
\* the new image's.
LEMMA ImageFits ==
    ASSUME DoctorTypeOK, EtcUntold, release < MaxImage, release' = release + 1,
           etc' = etc_merged, ordered' = ordered
    PROVE  /\ release' \in 1..MaxImage /\ etc' \in [Etc -> 1..Gone] /\ EtcUntold'
           /\ check_etc_drift = {} => \A f \in Etc : etc'[f] = release'
<1>0. release \in 1..MaxImage /\ MaxImage \in Nat /\ etc \in [Etc -> 1..Gone] /\ Gone \in Nat
      /\ release < Gone
    BY DoctorAssumption DEF DoctorTypeOK, Gone
<1>1. release' \in 1..MaxImage BY <1>0
<1>2. \A f \in Etc : etc'[f] = (IF etc[f] = release THEN release' ELSE etc[f]) BY DEF etc_merged
<1>3. etc' \in [Etc -> 1..Gone]
    <2>1. release + 1 \in 1..Gone BY <1>0
    <2>2. QED BY <1>0, <2>1 DEF etc_merged
<1>4. EtcUntold' BY <1>2 DEF EtcUntold
<1>5. ASSUME check_etc_drift = {}, NEW f \in Etc PROVE etc'[f] = release'
    <2>1. CASE "etc" \notin ordered BY <1>2, <2>1 DEF EtcUntold
    <2>2. CASE "etc" \in ordered
        <3>1. f \in etc_paths BY <2>2 DEF etc_paths
        <3>2. \A s \in {"shadowed", "removed"} : {x \in etc_paths : classify_etc(x) = s} = {}
            BY <1>5 DEF check_etc_drift
        <3>3. classify_etc(f) \notin {"shadowed", "removed"} BY <3>1, <3>2
        <3>4. etc[f] = release BY <1>0, <3>3 DEF classify_etc
        <3>5. QED BY <1>2, <3>4
    <2>3. QED BY <2>1, <2>2
<1>6. QED BY <1>1, <1>3, <1>4, <1>5

\* What the machine and its people do to the invariant.
LEMMA GoesStep ==
    ASSUME DoctorTypeOK, EtcUntold, AppsTold, Goes, heeded' = NoFinding
    PROVE  /\ DoctorTypeOK' /\ EtcUntold' /\ AppsTold'
           /\ release' # release /\ check_etc_drift = {} => \A f \in Etc : etc'[f] = release'
<1>0. heeded'.grade = "ok" BY DEF NoFinding, find
<1>a. /\ {Stale, Period, MaxDay, MaxImage, MaxMishaps} \subseteq Nat
      /\ today \in 0..MaxDay /\ today \in Nat /\ today # NoDay /\ today \in 0..NoDay
      /\ NoDay \in Nat /\ "apps" \in Graded
    BY DoctorAssumption DEF DoctorTypeOK, NoDay, Graded
<1>b. mishap => mishaps' \in 0..MaxMishaps BY <1>a DEF mishap, DoctorTypeOK
<1>1. CASE DayPasses
    <2>0. MaxDay \in Nat /\ today < MaxDay /\ today' = today + 1 BY <1>1, <1>a DEF DayPasses
    <2>1. today' \in 0..MaxDay /\ today <= today' BY <1>a, <2>0
    <2>2. facts' \in [Graded -> UnitFacts]
        BY <1>1 DEF DayPasses, DoctorTypeOK, UnitFacts
    <2>3. facts'["apps"].last = facts["apps"].last /\ facts'["apps"].ok = facts["apps"].ok
        BY <1>1, <1>a DEF DayPasses, DoctorTypeOK, UnitFacts
    <2>4. UNCHANGED <<ordered, timer, apps_day, skips, backup_day, shots, setting, mishaps>>
        BY <1>1 DEF DayPasses
    <2>5. DoctorTypeOK' BY <1>0, <2>1, <2>2, <2>4 DEF DoctorTypeOK, setting, files, other
    <2>6. EtcUntold' BY <2>4 DEF EtcUntold, setting, files
    <2>7. facts["apps"].last \in Nat BY <1>a DEF DoctorTypeOK, UnitFacts
    <2>8. AppsTold' BY <1>a, <2>1, <2>3, <2>4, <2>7 DEF AppsTold, NoDay
    <2>9. QED BY <2>4, <2>5, <2>6, <2>8 DEF setting, files
<1>2. CASE RunDoes
    <2>1. PICK u \in Graded :
            /\ facts' = run_ended(u, TRUE)
            /\ u \in {"apps", "daily"} => apps_day' = today
            /\ u \notin {"apps", "daily"} => apps_day' = apps_day
            /\ backup_day' \in {backup_day, today} /\ skips' \in BOOLEAN /\ shots' \in BOOLEAN
        BY <1>2 DEF RunDoes, DoctorTypeOK
    <2>2. UNCHANGED <<today, ordered, timer, setting, mishaps>> BY <1>2 DEF RunDoes
    <2>3. facts' \in [Graded -> UnitFacts] BY <2>1, RunFits
    <2>4. apps_day' \in 0..NoDay /\ backup_day' \in 0..NoDay BY <1>a, <2>1 DEF DoctorTypeOK
    <2>5. DoctorTypeOK' BY <1>0, <2>1, <2>2, <2>3, <2>4 DEF DoctorTypeOK, setting, files, other
    <2>6. EtcUntold' BY <2>2 DEF EtcUntold, setting, files
    <2>7. AppsTold'
        <3>1. CASE u = "apps"
            <4>1. facts'["apps"].last = today /\ facts'["apps"].ok = TRUE BY <2>1, <3>1, RunFits
            <4>2. apps_day' = today /\ today' = today /\ today <= today BY <1>a, <2>1, <2>2, <3>1
            <4>3. MaxDay + 1 # today BY <1>a DEF NoDay
            <4>4. QED BY <4>1, <4>2, <4>3 DEF AppsTold, NoDay
        <3>2. CASE u = "daily" BY <1>a, <2>1, <2>2, <3>2, RunFits DEF AppsTold
        <3>3. CASE u \notin {"apps", "daily"} BY <2>1, <2>2, <3>3, RunFits DEF AppsTold
        <3>4. QED BY <3>1, <3>2, <3>3
    <2>8. QED BY <2>2, <2>5, <2>6, <2>7 DEF setting, files
<1>3. CASE RunSkips \/ RunDoesNothing
    <2>1. PICK u \in {"daily", "backup", "snapshots"} : facts' = run_ended(u, TRUE)
        BY <1>3 DEF RunSkips, RunDoesNothing
    <2>2. UNCHANGED <<today, ordered, timer, apps_day, backup_day, shots, setting, mishaps>>
          /\ skips' \in BOOLEAN
        BY <1>3 DEF RunSkips, RunDoesNothing, DoctorTypeOK
    <2>3. facts' \in [Graded -> UnitFacts] /\ facts'["apps"] = facts["apps"]
        BY <2>1, RunFits DEF Graded
    <2>4. DoctorTypeOK' BY <1>0, <2>2, <2>3 DEF DoctorTypeOK, setting, files, other
    <2>5. EtcUntold' /\ AppsTold' BY <2>2, <2>3 DEF EtcUntold, AppsTold, setting, files
    <2>6. QED BY <2>2, <2>4, <2>5 DEF setting, files
<1>4. CASE RunFails
    <2>1. PICK u \in Graded : facts' = run_ended(u, FALSE) /\ mishap BY <1>4 DEF RunFails
    <2>2. UNCHANGED <<today, ordered, timer, apps_day, skips, backup_day, shots, setting>>
        BY <1>4 DEF RunFails
    <2>3. facts' \in [Graded -> UnitFacts] BY <2>1, RunFits
    <2>4. DoctorTypeOK' BY <1>0, <1>b, <2>1, <2>2, <2>3 DEF DoctorTypeOK, setting, files, other
    <2>5. AppsTold'
        <3>1. CASE u = "apps"
            <4>1. facts'["apps"].last = today /\ facts'["apps"].ok = FALSE BY <2>1, <3>1, RunFits
            <4>2. today' = today /\ today <= today BY <1>a, <2>2
            <4>3. QED BY <4>1, <4>2 DEF AppsTold, NoDay
        <3>2. CASE u # "apps" BY <2>1, <2>2, <3>2, RunFits DEF AppsTold
        <3>3. QED BY <3>1, <3>2
    <2>6. EtcUntold' BY <2>2 DEF EtcUntold, setting, files
    <2>7. QED BY <2>2, <2>4, <2>5, <2>6 DEF setting, files
<1>5. CASE Boots
    <2>1. /\ facts' = at_boot /\ timer' = Timers \cap ordered /\ boot_counter' = TRUE /\ mishap
          /\ UNCHANGED <<today, ordered, apps_day, skips, backup_day, shots, flathub, cred,
                         snap_target, files, bunker, stranded>>
        BY <1>5 DEF Boots
    <2>2. facts' \in [Graded -> UnitFacts] /\ facts'["apps"].last = NoDay
        BY <2>1, BootFits DEF DoctorTypeOK
    <2>3. DoctorTypeOK' BY <1>0, <1>b, <2>1, <2>2 DEF DoctorTypeOK, files
    <2>4. EtcUntold' /\ AppsTold' BY <2>1, <2>2 DEF EtcUntold, AppsTold, files, NoDay
    <2>5. QED BY <2>1, <2>3, <2>4 DEF files
<1>6. CASE Updates
    <2>1. /\ facts' = at_boot /\ timer' = Timers \cap ordered /\ boot_counter' = TRUE
          /\ release < MaxImage /\ release' = release + 1 /\ etc' = etc_merged
          /\ UNCHANGED <<today, ordered, apps_day, skips, backup_day, shots, flathub, cred,
                         snap_target, dangling, bunker, stranded, mishaps>>
        BY <1>6 DEF Updates
    <2>2. facts' \in [Graded -> UnitFacts] /\ facts'["apps"].last = NoDay
        BY <2>1, BootFits DEF DoctorTypeOK
    <2>3. /\ release' \in 1..MaxImage /\ etc' \in [Etc -> 1..Gone] /\ EtcUntold'
          /\ check_etc_drift = {} => \A f \in Etc : etc'[f] = release'
        BY <2>1, ImageFits
    <2>4. DoctorTypeOK' BY <1>0, <2>1, <2>2, <2>3 DEF DoctorTypeOK
    <2>5. AppsTold' BY <2>1, <2>2 DEF AppsTold, NoDay
    <2>6. QED BY <2>3, <2>4, <2>5
<1>7. CASE EditsEtc
    <2>1. PICK f \in Etc, c \in {Owners, Gone} :
              mishap /\ "etc" \in ordered /\ etc' = [etc EXCEPT ![f] = c]
        BY <1>7 DEF EditsEtc
    <2>2. UNCHANGED <<today, ordered, progress, flathub, cred, snap_target, dangling, release, other>>
        BY <1>7 DEF EditsEtc
    <2>3. c \in 1..Gone BY <1>a DEF Owners, Gone
    <2>4. etc' \in [Etc -> 1..Gone] BY <2>1, <2>3 DEF DoctorTypeOK
    <2>5. DoctorTypeOK' BY <1>0, <1>b, <2>1, <2>2, <2>4 DEF DoctorTypeOK, progress, other
    <2>6. EtcUntold' /\ AppsTold' BY <2>1, <2>2 DEF EtcUntold, AppsTold, progress
    <2>7. QED BY <2>2, <2>5, <2>6
<1>8. CASE StopsTimer \/ DropsRemote \/ LeavesLink \/ BunkerChanges \/ BuildDies \/ LosesCounter
    <2>1. /\ mishap
          /\ UNCHANGED <<today, ordered, facts, apps_day, skips, backup_day, shots, cred,
                         snap_target, release, etc>>
        BY <1>8 DEF StopsTimer, DropsRemote, LeavesLink, BunkerChanges, BuildDies, LosesCounter,
                    setting, progress, files, other
    <2>2. timer' \subseteq timer /\ {flathub', stranded', boot_counter'} \subseteq BOOLEAN
          /\ dangling' \subseteq Links /\ bunker' \in {"down", "mute", "unset", "locked", "open"}
        BY <1>8 DEF StopsTimer, DropsRemote, LeavesLink, BunkerChanges, BuildDies, LosesCounter,
                    setting, progress, files, other, DoctorTypeOK
    <2>3. DoctorTypeOK' BY <1>0, <1>b, <2>1, <2>2 DEF DoctorTypeOK
    <2>4. EtcUntold' /\ AppsTold' BY <2>1 DEF EtcUntold, AppsTold
    <2>5. QED BY <2>1, <2>3, <2>4
<1>9. QED BY <1>1, <1>2, <1>3, <1>4, <1>5, <1>6, <1>7, <1>8 DEF Goes

\* What an owner who does what a finding says does to the invariant: the
\* finding is gone.
LEMMA HeedStep ==
    ASSUME DoctorTypeOK, EtcUntold, AppsTold, OwnerHeeds
    PROVE  /\ DoctorTypeOK' /\ EtcUntold' /\ AppsTold' /\ AdviceWorks'
           /\ release' # release /\ check_etc_drift = {} => \A f \in Etc : etc'[f] = release'
<1>0. PICK f \in doctor(TRUE) : Heed(f) BY DEF OwnerHeeds
<1>a. /\ {Stale, Period, MaxDay, MaxImage, MaxMishaps} \subseteq Nat /\ Stale > 0
      /\ today \in 0..MaxDay /\ today \in Nat /\ today # NoDay /\ today \in 0..NoDay
      /\ NoDay \in Nat /\ "apps" \in Graded
    BY DoctorAssumption DEF DoctorTypeOK, NoDay, Graded
<1>b. release # Gone BY DoctorAssumption DEF DoctorTypeOK, Gone
<1>c. Printed(f) BY <1>b, FindingsFit DEF AllPrinted
<1>d. (release # Gone => AllPrinted)' BY FindingsFit, PTL
<1>e. heeded' = f /\ f.grade \in {"ok", "warn", "fail"} /\ UNCHANGED <<today, ordered, mishaps>>
    BY <1>0, <1>c DEF Heed, Printed
<1>f. ASSUME DoctorTypeOK', f.name \notin {"user", "signatures"}, ~Printed(f)' PROVE AdviceWorks'
    <2>1. release' # Gone' BY <1>f, DoctorAssumption DEF DoctorTypeOK, Gone
    <2>2. f \notin doctor(TRUE)' BY <1>d, <1>f, <2>1 DEF AllPrinted
    <2>3. QED BY <1>e, <2>2 DEF AdviceWorks
<1>g. ASSUME f.name \in {"user", "signatures"} PROVE AdviceWorks'
    BY <1>e, <1>g DEF AdviceWorks
<1>1. CASE f.fix = "sync"
    <2>1. /\ facts' = synced /\ apps_day' = IF convergence_calls = {} THEN apps_day ELSE today
          /\ UNCHANGED <<timer, skips, backup_day, shots, setting>>
        BY <1>0, <1>1 DEF Heed
    <2>2. [blank EXCEPT !.last = today] \in UnitFacts BY <1>a DEF blank, UnitFacts, NoDay
    <2>3. facts' \in [Graded -> UnitFacts] BY <2>1, <2>2 DEF synced, DoctorTypeOK
    <2>4. apps_day' \in 0..NoDay BY <1>a, <2>1 DEF DoctorTypeOK
    <2>5. DoctorTypeOK' BY <1>e, <2>1, <2>3, <2>4 DEF DoctorTypeOK, setting, files, other
    <2>6. EtcUntold' BY <1>e, <2>1 DEF EtcUntold, setting, files
    <2>7. CASE "apps" \in ordered
        <3>1. "apps" \in convergence_calls BY <2>7 DEF convergence_calls
        <3>2. facts'["apps"] = [blank EXCEPT !.last = today] BY <1>a, <2>1, <3>1 DEF synced
        <3>3. facts'["apps"].last = today /\ facts'["apps"].ok = TRUE BY <3>2 DEF blank
        <3>4. apps_day' = today /\ today' = today /\ today <= today BY <1>a, <1>e, <2>1, <3>1
        <3>5. AppsTold' BY <1>a, <3>3, <3>4 DEF AppsTold, NoDay
        <3>6. ~convergence_staleness(TRUE, facts["apps"].last)'
            BY <1>a, <3>3, <3>4 DEF convergence_staleness, whole_days_between
        <3>7. CASE f.name = "apps"
            <4>1. ~Printed(f)' BY <1>1, <3>3, <3>6, <3>7 DEF Printed
            <4>2. QED BY <1>f, <2>1, <2>5, <2>6, <3>5, <3>7, <4>1 DEF setting, files
        <3>8. CASE f.name = "user" BY <1>g, <2>1, <2>5, <2>6, <3>5, <3>8 DEF setting, files
        <3>9. QED BY <1>1, <1>c, <3>7, <3>8 DEF Printed
    <2>8. CASE "apps" \notin ordered
        <3>1. facts'["apps"] = facts["apps"] /\ apps_day' = apps_day
            BY <1>a, <2>1, <2>8 DEF synced, convergence_calls
        <3>2. AppsTold' BY <1>e, <3>1 DEF AppsTold
        <3>3. f.name = "user" BY <1>1, <1>c, <2>8 DEF Printed
        <3>4. QED BY <1>g, <2>1, <2>5, <2>6, <3>2, <3>3 DEF setting, files
    <2>9. QED BY <2>7, <2>8
<1>2. CASE f.fix = "snapshot"
    <2>1. /\ facts' = run_ended("snapshots", TRUE) /\ shots' = TRUE
          /\ UNCHANGED <<timer, apps_day, skips, backup_day, setting>>
        BY <1>0, <1>2 DEF Heed
    <2>2. facts' \in [Graded -> UnitFacts] /\ facts'["apps"] = facts["apps"]
        BY <2>1, RunFits DEF Graded
    <2>3. DoctorTypeOK' BY <1>e, <2>1, <2>2 DEF DoctorTypeOK, setting, files, other
    <2>4. EtcUntold' /\ AppsTold' BY <1>e, <2>1, <2>2 DEF EtcUntold, AppsTold, setting, files
    <2>5. ~Printed(f)' BY <1>2, <2>1 DEF Printed
    <2>6. QED BY <1>f, <1>g, <2>1, <2>3, <2>4, <2>5 DEF setting, files
<1>3. CASE f.fix = "rebuild"
    <2>1. /\ facts' = at_boot /\ timer' = Timers \cap ordered /\ boot_counter' = TRUE
          /\ release < MaxImage /\ release' = release + 1 /\ etc' = etc_merged
          /\ UNCHANGED <<apps_day, skips, backup_day, shots, flathub, cred, snap_target, dangling,
                         bunker, stranded>>
        BY <1>0, <1>3 DEF Heed
    <2>2. facts' \in [Graded -> UnitFacts] /\ facts'["apps"].last = NoDay
        BY <2>1, BootFits DEF DoctorTypeOK
    <2>3. /\ release' \in 1..MaxImage /\ etc' \in [Etc -> 1..Gone] /\ EtcUntold'
          /\ check_etc_drift = {} => \A x \in Etc : etc'[x] = release'
        BY <1>e, <2>1, ImageFits
    <2>4. DoctorTypeOK' BY <1>e, <2>1, <2>2, <2>3 DEF DoctorTypeOK
    <2>5. AppsTold' BY <2>2 DEF AppsTold, NoDay
    <2>6. f.name = "signatures" BY <1>3, <1>c DEF Printed
    <2>7. QED BY <1>g, <2>3, <2>4, <2>5, <2>6
<1>4. CASE f.fix = "restore"
    <2>1. /\ etc' = [etc EXCEPT ![f.on] = release]
          /\ UNCHANGED <<progress, flathub, cred, snap_target, dangling, release, other>>
        BY <1>0, <1>4 DEF Heed
    <2>2. f.on \in Etc BY <1>4, <1>c DEF Printed
    <2>3. etc' \in [Etc -> 1..Gone]
        <3>1. release \in 1..Gone BY <1>a DEF DoctorTypeOK, Gone
        <3>2. QED BY <2>1, <2>2, <3>1 DEF DoctorTypeOK
    <2>4. DoctorTypeOK' BY <1>e, <2>1, <2>3 DEF DoctorTypeOK, progress, other
    <2>5. EtcUntold' /\ AppsTold'
        BY <1>e, <2>1, <2>2 DEF EtcUntold, AppsTold, progress, DoctorTypeOK
    <2>6. etc'[f.on] = release' BY <2>1, <2>2 DEF DoctorTypeOK
    <2>7. ~Printed(f)' BY <1>4, <2>6 DEF Printed
    <2>8. QED BY <1>f, <1>g, <2>1, <2>4, <2>5, <2>7
<1>5. CASE f.fix = "start"
    <2>1. timer' = timer \cup {f.on} /\ UNCHANGED <<facts, apps_day, skips, backup_day, shots, setting>>
        BY <1>0, <1>5 DEF Heed
    <2>2. f.on \in Timers \cap ordered BY <1>5, <1>c DEF Printed
    <2>3. DoctorTypeOK' BY <1>e, <2>1, <2>2 DEF DoctorTypeOK, setting, files, other
    <2>4. EtcUntold' /\ AppsTold' BY <1>e, <2>1 DEF EtcUntold, AppsTold, setting, files
    <2>5. ~Printed(f)' BY <1>5, <2>1 DEF Printed
    <2>6. QED BY <1>f, <1>g, <2>1, <2>3, <2>4, <2>5 DEF setting, files
<1>6. CASE f.fix = "seed"
    <2>1. backup_day' = today /\ UNCHANGED <<facts, timer, apps_day, skips, shots, setting>>
        BY <1>0, <1>6 DEF Heed
    <2>2. DoctorTypeOK' BY <1>a, <1>e, <2>1 DEF DoctorTypeOK, setting, files, other
    <2>3. EtcUntold' /\ AppsTold' BY <1>e, <2>1 DEF EtcUntold, AppsTold, setting, files
    <2>4. ~Printed(f)' BY <1>6, <1>a, <2>1 DEF Printed, NoDay
    <2>5. QED BY <1>f, <1>g, <2>1, <2>2, <2>3, <2>4 DEF setting, files
<1>7. CASE f.fix \in {"add-remote", "provision", "restrict", "rewrite", "remove", "start-bunker",
                      "restart-bunker", "setup", "unlock", "clean", "converge"}
    <2>1. /\ UNCHANGED <<progress, snap_target, release, etc>>
          /\ flathub' \in BOOLEAN /\ cred' \in {cred, "tight"} /\ dangling' \subseteq dangling
          /\ bunker' \in {"down", "mute", "unset", "locked", "open"}
          /\ stranded' \in BOOLEAN /\ boot_counter' \in BOOLEAN
        BY <1>0, <1>7 DEF Heed, files, other, DoctorTypeOK
    <2>2. DoctorTypeOK' BY <1>e, <2>1 DEF DoctorTypeOK, progress
    <2>3. EtcUntold' /\ AppsTold' BY <1>e, <2>1 DEF EtcUntold, AppsTold, progress
    <2>4. ~Printed(f)'
        <3>1. CASE f.fix = "add-remote" BY <1>0, <3>1 DEF Heed, Printed
        <3>2. CASE f.fix \in {"provision", "restrict", "rewrite"}
            <4>1. cred' = "tight" BY <1>0, <3>2 DEF Heed
            <4>2. QED BY <3>2, <4>1 DEF Printed
        <3>3. CASE f.fix = "remove"
            <4>1. dangling' = dangling \ {f.on} BY <1>0, <3>3 DEF Heed
            <4>2. QED BY <3>3, <4>1 DEF Printed
        <3>4. CASE f.fix \in {"start-bunker", "restart-bunker", "setup", "unlock"}
            <4>1. bunker' \in (IF f.fix \in {"setup", "unlock"} THEN {"open"}
                               ELSE {"unset", "locked", "open"})
                BY <1>0, <3>4 DEF Heed
            <4>2. QED BY <3>4, <4>1 DEF Printed
        <3>5. CASE f.fix = "clean"
            <4>1. stranded' = FALSE BY <1>0, <3>5 DEF Heed
            <4>2. QED BY <3>5, <4>1 DEF Printed
        <3>6. CASE f.fix = "converge"
            <4>1. boot_counter' = TRUE BY <1>0, <3>6 DEF Heed
            <4>2. QED BY <3>6, <4>1 DEF Printed
        <3>7. QED BY <1>7, <3>1, <3>2, <3>3, <3>4, <3>5, <3>6
    <2>5. QED BY <1>f, <1>g, <2>1, <2>2, <2>3, <2>4
<1>8. f.fix \in {"sync", "snapshot", "rebuild", "restore", "start", "seed", "add-remote",
                 "provision", "restrict", "rewrite", "remove", "start-bunker", "restart-bunker",
                 "setup", "unlock", "clean", "converge"}
    BY <1>0 DEF Heed
<1>9. QED BY <1>1, <1>2, <1>3, <1>4, <1>5, <1>6, <1>7, <1>8

LEMMA DoctorInvHolds == DoctorSpec => []DoctorInv /\ QuietEtcTakesUpdates
<1>1. DoctorInit => DoctorInv
    <2> SUFFICES ASSUME DoctorInit PROVE DoctorInv
        OBVIOUS
    <2>1. facts \in [Graded -> UnitFacts] /\ facts["apps"].last = NoDay
        BY BootFits DEF DoctorInit
    <2>2. DoctorTypeOK
        <3>1. today \in 0..MaxDay /\ apps_day \in 0..NoDay /\ backup_day \in 0..NoDay
              /\ release \in 1..MaxImage /\ etc \in [Etc -> 1..Gone] /\ mishaps \in 0..MaxMishaps
            BY DoctorAssumption DEF DoctorInit, NoDay, Gone
        <3>2. {stranded, boot_counter} \subseteq BOOLEAN BY DEF DoctorInit
        <3>3. heeded.grade = "ok" BY DEF DoctorInit, NoFinding, find
        <3>4. QED BY <2>1, <3>1, <3>2, <3>3 DEF DoctorInit, DoctorTypeOK
    <2>3. EtcUntold BY DEF DoctorInit, EtcUntold
    <2>4. AppsTold BY <2>1 DEF AppsTold
    <2>5. NoFinding \notin doctor(TRUE)
        <3>1. release # Gone BY <2>2, DoctorAssumption DEF DoctorTypeOK, Gone
        <3>2. QED BY <3>1, FindingsFit DEF AllPrinted, Printed, NoFinding, find
    <2>6. AdviceWorks BY <2>5 DEF DoctorInit, AdviceWorks
    <2>7. QED BY <2>2, <2>3, <2>4, <2>6 DEF DoctorInv
<1>2. DoctorInv /\ [DoctorNext]_doctorVars => DoctorInv'
    <2> SUFFICES ASSUME DoctorInv, [DoctorNext]_doctorVars PROVE DoctorInv'
        OBVIOUS
    <2>1. CASE UNCHANGED doctorVars
        <3>1. DoctorTypeOK' BY <2>1 DEF doctorVars, DoctorInv, DoctorTypeOK
        <3>2. EtcUntold' /\ AppsTold' BY <2>1 DEF doctorVars, DoctorInv, EtcUntold, AppsTold
        <3>3. doctor(TRUE)' = doctor(TRUE)
            BY <2>1 DEF doctorVars, doctor, check_convergence, check_backup, check_snapshots,
                        check_links, check_etc_drift, check_signature_policy, check_nostr,
                        check_boot_health, check_build_leftovers, service_finding, timer_finding,
                        convergence_targets, graded_timers, convergence_staleness,
                        whole_days_between, last_failed, backup_age, classify_etc, etc_paths
        <3>4. AdviceWorks' BY <2>1, <3>3 DEF doctorVars, DoctorInv, AdviceWorks
        <3>5. QED BY <3>1, <3>2, <3>4 DEF DoctorInv
    <2>2. CASE Goes /\ heeded' = NoFinding
        <3>1. DoctorTypeOK' /\ EtcUntold' /\ AppsTold' BY <2>2, GoesStep DEF DoctorInv
        <3>2. (release # Gone => AllPrinted)' BY FindingsFit, PTL
        <3>3. release' # Gone BY <3>1, DoctorAssumption DEF DoctorTypeOK, Gone
        <3>4. NoFinding \notin doctor(TRUE)'
            BY <3>2, <3>3 DEF AllPrinted, Printed, NoFinding, find, Gone
        <3>5. AdviceWorks' BY <2>2, <3>4 DEF AdviceWorks
        <3>6. QED BY <3>1, <3>5 DEF DoctorInv
    <2>3. CASE OwnerHeeds BY <2>3, HeedStep DEF DoctorInv
    <2>4. QED BY <2>1, <2>2, <2>3 DEF DoctorNext
<1>3. DoctorInv /\ [DoctorNext]_doctorVars
        => [release' # release /\ check_etc_drift = {} => \A f \in Etc : etc'[f] = release']_doctorVars
    BY GoesStep, HeedStep DEF DoctorInv, DoctorNext
<1>4. QED BY <1>1, <1>2, <1>3, PTL DEF DoctorSpec, QuietEtcTakesUpdates

\* DoctorTypeOK, for any number of days, images, mishaps and files in /etc.
THEOREM DoctorTypeHolds == DoctorSpec => []DoctorTypeOK
<1>1. DoctorInv => DoctorTypeOK BY DEF DoctorInv
<1>2. QED BY <1>1, DoctorInvHolds, PTL

\* AdviceWorks: on any machine, whatever broke before and in whatever order, a
\* finding whose command was run and worked is not printed again.
THEOREM AdviceIsGood == DoctorSpec => []AdviceWorks
<1>1. DoctorInv => AdviceWorks BY DEF DoctorInv
<1>2. QED BY <1>1, DoctorInvHolds, PTL

\* QuietEtcTakesUpdates: whatever was edited, restored and updated before, a
\* /etc that check_etc_drift is silent of takes the next image in every file.
THEOREM QuietEtcUpdates == DoctorSpec => QuietEtcTakesUpdates
<1>1. QED BY DoctorInvHolds, PTL

\* CleanBillIsTrue: for any limit and any period, "All checks passed." speaks of
\* applications that converged, copies that were made and snapshots there are.
THEOREM CleanBillHolds == DoctorSpec => []CleanBillIsTrue
<1>1. DoctorInv => CleanBillIsTrue
    <2> SUFFICES ASSUME DoctorInv, clean_bill PROVE
            /\ "apps" \in ordered /\ ~facts["apps"].running /\ facts["apps"].last # NoDay =>
                   /\ apps_day # NoDay /\ today - apps_day < Stale /\ flathub
            /\ "backup" \in ordered =>
                   backup_day # NoDay /\ today - backup_day < backup_stale_after_days /\ cred # "open"
            /\ "snapshots" \in ordered => snap_target = "subvolume" /\ shots
        BY DEF CleanBillIsTrue
    <2>0. /\ {Stale, Period, MaxDay} \subseteq Nat /\ Stale > 0 /\ NoDay \in Nat
          /\ today \in Nat /\ apps_day \in Nat /\ backup_day \in Nat
        BY DoctorAssumption DEF DoctorInv, DoctorTypeOK, NoDay
    <2>a. \A f \in check_convergence \cup check_backup(FALSE) \cup check_snapshots : f.grade = "ok"
        BY DEF clean_bill, doctor
    <2>b. ASSUME NEW n, NEW g, NEW x, NEW o,
                 find(n, g, x, o) \in check_convergence \cup check_backup(FALSE) \cup check_snapshots
          PROVE  g = "ok"
        <3>1. find(n, g, x, o).grade = "ok" BY <2>a, <2>b
        <3>2. QED BY <3>1 DEF find
    <2>1. ASSUME "apps" \in ordered, ~facts["apps"].running, facts["apps"].last # NoDay
          PROVE  apps_day # NoDay /\ today - apps_day < Stale /\ flathub
        <3>1. "apps" \in DOMAIN convergence_targets /\ convergence_targets["apps"] = TRUE
            BY <2>1 DEF convergence_targets
        <3>2. service_finding("apps", facts["apps"]) \in check_convergence
            BY <3>1 DEF check_convergence
        <3>3. service_finding("apps", facts["apps"]).grade = "ok" BY <2>a, <3>2
        <3>4. facts["apps"].ok /\ ~convergence_staleness(TRUE, facts["apps"].last)
            BY <2>1, <3>1, <3>3 DEF service_finding, find
        <3>5. facts["apps"].last \in Nat
            BY <2>0 DEF DoctorInv, DoctorTypeOK, Graded, UnitFacts
        <3>6. apps_day # NoDay /\ facts["apps"].last <= apps_day
            BY <2>1, <3>4 DEF DoctorInv, AppsTold
        <3>7. ~(whole_days_between(facts["apps"].last) >= Stale)
            BY <2>1, <3>4 DEF convergence_staleness
        <3>8. today - apps_day < Stale BY <2>0, <3>5, <3>6, <3>7 DEF whole_days_between
        <3>9. flathub
            <4>1. ASSUME ~flathub PROVE FALSE
                <5>1. find("flathub", "fail", "add-remote", "flathub") \in check_convergence
                    BY <2>1, <4>1 DEF check_convergence, when
                <5>2. QED BY <2>b, <5>1
            <4>2. QED BY <4>1
        <3>10. QED BY <3>6, <3>8, <3>9
    <2>2. ASSUME "backup" \in ordered
          PROVE  backup_day # NoDay /\ today - backup_day < backup_stale_after_days /\ cred # "open"
        <3>1. cred # "none"
            <4>1. ASSUME cred = "none" PROVE FALSE
                <5>1. find("backup", "warn", "provision", "backup") \in check_backup(FALSE)
                    BY <2>2, <4>1 DEF check_backup
                <5>2. QED BY <2>b, <5>1
            <4>2. QED BY <4>1
        <3>2. cred # "open"
            <4>1. ASSUME cred = "open" PROVE FALSE
                <5>1. find("backup", "fail", "restrict", "backup") \in check_backup(FALSE)
                    BY <2>2, <4>1 DEF check_backup, when
                <5>2. QED BY <2>b, <5>1
            <4>2. QED BY <4>1
        <3>3. backup_age \subseteq check_backup(FALSE) BY <2>2, <3>1 DEF check_backup
        <3>4. backup_day # NoDay
            <4>1. ASSUME backup_day = NoDay PROVE FALSE
                <5>1. find("backup", "warn", "seed", "backup") \in backup_age
                    BY <4>1 DEF backup_age, when
                <5>2. QED BY <2>b, <3>3, <5>1
            <4>2. QED BY <4>1
        <3>5. ~(whole_days_between(backup_day) >= backup_stale_after_days)
            <4>1. ASSUME whole_days_between(backup_day) >= backup_stale_after_days PROVE FALSE
                <5>1. find("backup", "warn", "logs", "stale") \in backup_age
                    BY <3>4, <4>1 DEF backup_age, when
                <5>2. QED BY <2>b, <3>3, <5>1
            <4>2. QED BY <4>1
        <3>6. backup_stale_after_days \in Nat /\ backup_stale_after_days > 0
            BY <2>0 DEF backup_stale_after_days
        <3>7. today - backup_day < backup_stale_after_days
            BY <2>0, <3>5, <3>6 DEF whole_days_between
        <3>8. QED BY <3>2, <3>4, <3>7
    <2>3. ASSUME "snapshots" \in ordered PROVE snap_target = "subvolume" /\ shots
        <3>1. snap_target = "subvolume"
            <4>1. ASSUME snap_target # "subvolume" PROVE FALSE
                <5>1. find("snapshots", "fail", "none", snap_target) \in check_snapshots
                    BY <2>3, <4>1 DEF check_snapshots
                <5>2. QED BY <2>b, <5>1
            <4>2. QED BY <4>1
        <3>2. ASSUME ~shots PROVE FALSE
            <4>1. find("snapshots", "warn", "snapshot", "store") \in check_snapshots
                BY <2>3, <3>1, <3>2 DEF check_snapshots, when
            <4>2. QED BY <2>b, <4>1
        <3>3. shots \in BOOLEAN BY DEF DoctorInv, DoctorTypeOK
        <3>4. QED BY <3>1, <3>2, <3>3
    <2>4. QED BY <2>1, <2>2, <2>3
<1>2. QED BY <1>1, DoctorInvHolds, PTL

-----------------------------------------------------------------------------
(* Permissions.  Of each store: what a pass has read is what the file holds   *)
(* unless somebody wrote meanwhile, and even then the keys kuma set are as it  *)
(* read them; every key kuma set is recorded or declared, and one that is no   *)
(* longer declared waits in a file the pass has still to do.                   *)

Still == [at : {"rest", "between", "done"}, todo : SUBSET AppIds, raced : {FALSE}]
Reading == [at : {"read"}, todo : (SUBSET AppIds) \ {{}}, raced : BOOLEAN, live : File]
Offer == [keys : SUBSET (Ids \X Values), scopes : [AppIds -> Scopes], stale : BOOLEAN,
          settled : BOOLEAN, on : BOOLEAN]
OverridesShape ==
    OverridesTypeOK /\ pass \in [Scopes -> Still \cup Reading] /\ offers \in Offer
\* A file that nobody wrote since the pass p read it.
Reads(p, st) == p.at = "read" /\ ~p.raced => p.live = st[CHOOSE a \in p.todo : TRUE]
ReadIsLive == \A s \in Scopes : Reads(pass[s], stores[s])
\* Of the pass p over the files st, with the keys g given, w owned, d declared.
Honest(p, st, g, w, d) ==
    /\ p.at = "read" => \A k \in Keys : <<CHOOSE a \in p.todo : TRUE, k>> \in g =>
           st[CHOOSE a \in p.todo : TRUE][k] = p.live[k]
    /\ g \subseteq w \cup d
    /\ p.at \in {"between", "read"} => \A id \in g : id \in d \/ id[1] \in p.todo
    /\ p.at = "done" => w = d
PassesHonest ==
    \A s \in Scopes :
        Honest(pass[s], stores[s], gave[s], owned[s], declared_keys(carried_over, s))
\* An entry without keys is none: its scope is the default one.
NamelessAreSystem == \A a \in AppIds : ~named_app(a) => overrides[a].scope = "system"
\* What capture read is still so, until somebody writes.
OfferStands ==
    offers.on /\ ~offers.stale =>
        /\ \A o \in offers.keys :
               LET s == offers.scopes[o[1][1]] IN
               /\ o[2] = stores[s][o[1][1]][o[1][2]]
               /\ s = "system" => overrides[o[1][1]].scope = "system"
               /\ offers.settled => o[1] \notin gave[s]
        /\ offers.settled => \A s \in Scopes : ~pass[s].raced
OverridesInv ==
    /\ OverridesShape /\ NamelessAreSystem /\ ReadIsLive
    /\ ~Hasty => PassesHonest /\ OfferStands

\* One file merged: a key the image declares is set, one the record alone holds
\* goes, any other stays.
LEMMA Merged ==
    ASSUME OverridesShape, NEW s \in Scopes, NEW a \in AppIds, NEW live \in File
    PROVE  /\ converge(s, a, live) \in File
           /\ \A k \in Keys :
                  /\ <<a, k>> \in owned[s] \ declared_keys(carried_over, s) =>
                         converge(s, a, live)[k] = NoValue
                  /\ <<a, k>> \notin owned[s] \cup declared_keys(carried_over, s) =>
                         converge(s, a, live)[k] = live[k]
<1>1. \A k \in Keys : carried_over[a].keys[k] \in Values \cup {NoValue}
    BY DEF OverridesShape, OverridesTypeOK, Entry, File
<1>2. QED BY <1>1 DEF converge, File

\* The steps of a pass that write no file.
LEMMA PassGoes ==
    ASSUME OverridesInv, NEW s \in Scopes,
           converge_store(s) \/ read_file(s) \/ write_state(s) \/ PassFails(s)
    PROVE  OverridesInv'
<1> DEFINE a == CHOOSE x \in pass[s].todo : TRUE
           d == declared_keys(carried_over, s)
<1>0. OverridesShape /\ pass \in [Scopes -> Still \cup Reading] BY DEF OverridesInv, OverridesShape
<1>a. UNCHANGED <<overrides, listed, carried_over, present_apps, stores, offers, gave, changes>>
    BY DEF converge_store, read_file, write_state, PassFails, declares
<1>b. d \subseteq Ids /\ d' = d BY <1>a DEF declared_keys
<1>1. PICK q \in Still \cup Reading :
          /\ pass' = [pass EXCEPT ![s] = q] /\ ~q.raced
          /\ owned' \in [Scopes -> SUBSET Ids] /\ \A t \in Scopes \ {s} : owned'[t] = owned[t]
          /\ Reads(q, stores[s])
          /\ ~Hasty => Honest(q, stores[s], gave[s], owned'[s], d)
    <2>0. /\ owned \in [Scopes -> SUBSET Ids] /\ gave \in [Scopes -> SUBSET Ids]
          /\ stores \in [Scopes -> [AppIds -> File]] /\ pass[s] \in Still \cup Reading
        BY <1>0 DEF OverridesShape, OverridesTypeOK
    <2>1. ~Hasty => Honest(pass[s], stores[s], gave[s], owned[s], d)
        BY DEF OverridesInv, PassesHonest
    <2>2. CASE converge_store(s)
        <3> DEFINE q == [at |-> "between", todo |-> apps_of(s), raced |-> FALSE]
        <3>1. pass' = [pass EXCEPT ![s] = q] /\ owned' = owned BY <2>2 DEF converge_store
        <3>2. \A id \in Ids : id[1] \in AppIds BY DEF Ids
        <3>3. apps_of(s) \subseteq AppIds BY <1>b, <2>0, <3>2 DEF apps_of, declared_dir
        <3>4. q \in Still BY <3>3 DEF Still
        <3>5. \A id \in owned[s] : id[1] \in apps_of(s) BY DEF apps_of
        <3>6. ~Hasty => Honest(q, stores[s], gave[s], owned'[s], d)
            BY <2>1, <3>1, <3>5 DEF Honest
        <3>7. ~q.raced /\ Reads(q, stores[s]) BY DEF Reads
        <3>8. QED BY <2>0, <3>1, <3>4, <3>6, <3>7
    <2>3. CASE read_file(s)
        <3> DEFINE q == [at |-> "read", todo |-> pass[s].todo, raced |-> FALSE,
                         live |-> stores[s][a]]
        <3>1. pass[s].at = "between" /\ pass[s].todo # {} BY <2>3 DEF read_file
        <3>2. pass' = [pass EXCEPT ![s] = q] /\ owned' = owned
            BY <1>0, <2>3 DEF read_file, opened
        <3>3. pass[s].todo \subseteq AppIds /\ a \in AppIds
            BY <2>0, <3>1 DEF Still, Reading
        <3>4. q \in Reading BY <2>0, <3>1, <3>3 DEF Reading
        <3>5. ~Hasty => Honest(q, stores[s], gave[s], owned'[s], d)
            BY <2>1, <3>1, <3>2 DEF Honest
        <3>6. ~q.raced /\ Reads(q, stores[s]) BY DEF Reads
        <3>7. HIDE DEF q
        <3>8. QED BY <2>0, <3>2, <3>4, <3>5, <3>6
    <2>4. CASE write_state(s)
        <3> DEFINE q == [AtRest EXCEPT !.at = "done"]
        <3>1. pass[s].at = "between" /\ pass[s].todo = {} BY <2>4 DEF write_state
        <3>2. pass' = [pass EXCEPT ![s] = q] /\ owned' = [owned EXCEPT ![s] = d]
            BY <2>4 DEF write_state
        <3>3. q \in Still /\ q.at = "done" /\ ~q.raced BY DEF Still, AtRest
        <3>4. owned'[s] = d BY <2>0, <3>2
        <3>5. ~Hasty => Honest(q, stores[s], gave[s], owned'[s], d)
            BY <2>1, <3>1, <3>3, <3>4 DEF Honest
        <3>6. owned' \in [Scopes -> SUBSET Ids] BY <1>b, <2>0, <3>2
        <3>7. Reads(q, stores[s]) BY <3>3 DEF Reads
        <3>8. QED BY <2>0, <3>2, <3>3, <3>5, <3>6, <3>7
    <2>5. CASE PassFails(s)
        <3>1. pass' = [pass EXCEPT ![s] = AtRest] /\ owned' = owned BY <2>5 DEF PassFails
        <3>2. AtRest \in Still /\ AtRest.at = "rest" /\ ~AtRest.raced BY DEF Still, AtRest
        <3>3. ~Hasty => Honest(AtRest, stores[s], gave[s], owned'[s], d)
            BY <2>1, <3>1, <3>2 DEF Honest
        <3>4. Reads(AtRest, stores[s]) BY <3>2 DEF Reads
        <3>5. QED BY <2>0, <3>1, <3>2, <3>3, <3>4
    <2>6. QED BY <2>2, <2>3, <2>4, <2>5
<1>2. OverridesShape'
    <2>1. pass' \in [Scopes -> Still \cup Reading] BY <1>0, <1>1
    <2>2. \A t \in Scopes : /\ pass'[t].at \in {"rest", "between", "read", "done"}
                            /\ pass'[t].todo \subseteq AppIds
        <3>1. \A p \in Still \cup Reading : /\ p.at \in {"rest", "between", "read", "done"}
                                              /\ p.todo \subseteq AppIds
            BY DEF Still, Reading
        <3>2. QED BY <2>1, <3>1
    <2>3. QED BY <1>0, <1>1, <1>a, <2>1, <2>2 DEF OverridesShape, OverridesTypeOK
<1>3. NamelessAreSystem' BY <1>a DEF OverridesInv, NamelessAreSystem, named_app
<1>4. ASSUME ~Hasty PROVE PassesHonest' /\ OfferStands'
    <2>1. ASSUME NEW t \in Scopes
          PROVE  Honest(pass'[t], stores'[t], gave'[t], owned'[t], declared_keys(carried_over, t)')
        <3>1. declared_keys(carried_over, t)' = declared_keys(carried_over, t)
            BY <1>a DEF declared_keys
        <3>2. CASE t = s
            <4>1. pass'[s] = q BY <1>0, <1>1
            <4>2. QED BY <1>1, <1>4, <1>a, <3>1, <3>2, <4>1
        <3>3. CASE t # s
            <4>1. pass'[t] = pass[t] /\ owned'[t] = owned[t] BY <1>0, <1>1, <3>3
            <4>2. QED BY <1>4, <1>a, <3>1, <4>1 DEF OverridesInv, PassesHonest
        <3>4. QED BY <3>2, <3>3
    <2>2. PassesHonest' BY <2>1 DEF PassesHonest
    <2>3. \A t \in Scopes : ~pass[t].raced => ~pass'[t].raced BY <1>0, <1>1
    <2>4. OfferStands' BY <1>4, <1>a, <2>3 DEF OverridesInv, OfferStands
    <2>5. QED BY <2>2, <2>4
<1>5. ReadIsLive'
    <2>1. \A t \in Scopes : pass'[t] = IF t = s THEN q ELSE pass[t] BY <1>0, <1>1
    <2>2. QED BY <1>1, <1>a, <2>1 DEF OverridesInv, ReadIsLive
<1>6. QED BY <1>2, <1>3, <1>4, <1>5 DEF OverridesInv

\* A file written over what is there then: what nobody declares and nobody
\* recorded stays, unless somebody else wrote since it was read.
LEMMA PassWrites ==
    ASSUME OverridesInv, NEW s \in Scopes, write_file(s)
    PROVE  /\ OverridesInv'
           /\ ~pass[s].raced => \A id \in Ids \ (declared_keys(carried_over, s) \cup owned[s]) :
                                    stores'[s][id[1]][id[2]] = stores[s][id[1]][id[2]]
<1> DEFINE a == CHOOSE x \in pass[s].todo : TRUE
           d == declared_keys(carried_over, s)
           live == pass[s].live
           out == converge(s, a, live)
           set == {<<a, k>> : k \in {k \in Keys : out[k] # live[k]}}
           q == [at |-> "between", todo |-> pass[s].todo \ {a}, raced |-> FALSE]
<1>0. /\ OverridesShape /\ pass \in [Scopes -> Still \cup Reading]
      /\ stores \in [Scopes -> [AppIds -> File]] /\ gave \in [Scopes -> SUBSET Ids]
    BY DEF OverridesInv, OverridesShape, OverridesTypeOK
<1>1. pass[s] \in Reading BY <1>0 DEF write_file, Still
<1>2. a \in AppIds /\ a \in pass[s].todo /\ live \in File /\ pass[s].at = "read"
    BY <1>1 DEF Reading
<1> HIDE DEF a, live
<1>3. /\ out \in File
      /\ \A k \in Keys : <<a, k>> \in owned[s] \ d => out[k] = NoValue
      /\ \A k \in Keys : <<a, k>> \notin owned[s] \cup d => out[k] = live[k]
    BY <1>0, <1>2, Merged
<1>4. /\ stores' = IF out = live THEN stores ELSE [stores EXCEPT ![s][a] = out]
      /\ gave' = [gave EXCEPT ![s] = {id \in gave[s] \cup set :
                                          stores'[s][id[1]][id[2]] # NoValue}]
      /\ offers' = [offers EXCEPT !.stale = offers.stale \/ stores' # stores]
      /\ pass' = [pass EXCEPT ![s] = q]
      /\ UNCHANGED <<overrides, listed, carried_over, present_apps, owned, changes>>
    BY <1>0 DEF write_file, opened, declares, a, live
<1> HIDE DEF out, set, d, q
<1>5. \A id \in set : id \in Ids /\ id[1] = a /\ out[id[2]] # live[id[2]] /\ id \in owned[s] \cup d
    BY <1>2, <1>3 DEF set, Ids
<1>6. /\ \A t \in Scopes \ {s} : stores'[t] = stores[t] /\ gave'[t] = gave[t] /\ pass'[t] = pass[t]
      /\ pass'[s] = q
      /\ gave'[s] = {id \in gave[s] \cup set : stores'[s][id[1]][id[2]] # NoValue}
    BY <1>0, <1>4
<1>7. /\ \A x \in AppIds \ {a} : stores'[s][x] = stores[s][x]
      /\ out # live => stores'[s][a] = out
      /\ out = live => stores'[s][a] = stores[s][a]
    BY <1>0, <1>2, <1>4
<1>8. stores' \in [Scopes -> [AppIds -> File]]
    <2>1. [stores[s] EXCEPT ![a] = out] \in [AppIds -> File] BY <1>0, <1>3
    <2>2. QED BY <1>0, <1>4, <2>1
<1>9. gave' \in [Scopes -> SUBSET Ids] BY <1>0, <1>4, <1>5
<1>10. q \in Still /\ q.at = "between" /\ ~q.raced /\ q.todo = pass[s].todo \ {a}
    BY <1>1 DEF q, Still, Reading
<1>11. offers' \in Offer /\ \A t \in Scopes : pass'[t] \in Still \cup Reading
    <2>1. offers \in Offer BY <1>0 DEF OverridesShape
    <2>2. (offers.stale \/ stores' # stores) \in BOOLEAN OBVIOUS
    <2>3. offers' \in Offer BY <1>4, <2>1, <2>2 DEF Offer
    <2>4. QED BY <1>0, <1>6, <1>10, <2>3
<1>12. OverridesShape'
    <2>1. pass' \in [Scopes -> Still \cup Reading] BY <1>0, <1>4, <1>10
    <2>2. \A t \in Scopes : /\ pass'[t].at \in {"rest", "between", "read", "done"}
                            /\ pass'[t].todo \subseteq AppIds
        <3>1. \A p \in Still \cup Reading : /\ p.at \in {"rest", "between", "read", "done"}
                                              /\ p.todo \subseteq AppIds
            BY DEF Still, Reading
        <3>2. QED BY <2>1, <3>1
    <2>3. offers'.keys \subseteq Ids \X Values /\ offers'.on \in BOOLEAN BY <1>11 DEF Offer
    <2>4. QED BY <1>0, <1>4, <1>8, <1>9, <1>11, <2>1, <2>2, <2>3 DEF OverridesShape, OverridesTypeOK
<1>13. NamelessAreSystem' BY <1>4 DEF OverridesInv, NamelessAreSystem, named_app
<1>14. ReadIsLive'
    <2>1. ASSUME NEW t \in Scopes PROVE Reads(pass'[t], stores'[t])
        <3>1. CASE t = s BY <1>6, <1>10, <3>1 DEF Reads
        <3>2. CASE t # s BY <1>6, <3>2 DEF OverridesInv, ReadIsLive
        <3>3. QED BY <3>1, <3>2
    <2>2. QED BY <2>1 DEF ReadIsLive
<1>15. ~pass[s].raced => live = stores[s][a]
    BY <1>2 DEF OverridesInv, ReadIsLive, Reads, a, live
<1>16. ASSUME ~pass[s].raced, NEW id \in Ids \ (d \cup owned[s])
       PROVE  stores'[s][id[1]][id[2]] = stores[s][id[1]][id[2]]
    <2>0. id = <<id[1], id[2]>> /\ id[1] \in AppIds /\ id[2] \in Keys BY DEF Ids
    <2>1. CASE id[1] # a BY <1>7, <2>0, <2>1
    <2>2. CASE id[1] = a
        <3>1. <<a, id[2]>> \notin owned[s] \cup d BY <1>16, <2>0, <2>2
        <3>2. out[id[2]] = live[id[2]] BY <1>3, <2>0, <3>1
        <3>3. QED BY <1>7, <1>15, <1>16, <2>2, <3>2
    <2>3. QED BY <2>1, <2>2
<1>17. ASSUME ~Hasty PROVE PassesHonest'
    <2>1. ASSUME NEW t \in Scopes
          PROVE  Honest(pass'[t], stores'[t], gave'[t], owned'[t], declared_keys(carried_over, t)')
        <3>1. declared_keys(carried_over, t)' = declared_keys(carried_over, t)
            BY <1>4 DEF declared_keys
        <3>2. CASE t # s
            BY <1>4, <1>6, <1>17, <3>1, <3>2 DEF OverridesInv, PassesHonest
        <3>3. CASE t = s
            <4>0. Honest(pass[s], stores[s], gave[s], owned[s], d)
                BY <1>17 DEF OverridesInv, PassesHonest, d
            <4>1. gave'[s] \subseteq owned[s] \cup d BY <1>5, <1>6, <4>0 DEF Honest
            <4>2. ASSUME NEW id \in gave'[s], id \notin d PROVE id[1] \in q.todo
                <5>0. id \in Ids /\ id = <<id[1], id[2]>> /\ id[1] \in AppIds /\ id[2] \in Keys
                    BY <1>9 DEF Ids
                <5>1. CASE id[1] # a
                    <6>1. id \in gave[s] BY <1>5, <1>6, <5>1
                    <6>2. id[1] \in pass[s].todo BY <1>2, <4>0, <4>2, <6>1 DEF Honest
                    <6>3. QED BY <1>10, <5>1, <6>2
                <5>2. CASE id[1] = a
                    <6>1. <<a, id[2]>> \in owned[s] \ d BY <4>1, <4>2, <5>0, <5>2
                    <6>2. out[id[2]] = NoValue BY <1>3, <5>0, <6>1
                    <6>3. stores'[s][a][id[2]] # NoValue BY <1>6, <5>2
                    <6>4. out = live BY <1>7, <6>2, <6>3
                    <6>5. id \in gave[s] BY <1>5, <1>6, <6>4
                    <6>6. stores[s][a][id[2]] = live[id[2]]
                        BY <1>2, <4>0, <5>0, <5>2, <6>5 DEF Honest, a, live
                    <6>7. QED BY <1>7, <6>2, <6>3, <6>4, <6>6
                <5>3. QED BY <5>1, <5>2
            <4>3. Honest(q, stores'[s], gave'[s], owned[s], d) BY <1>10, <4>1, <4>2 DEF Honest
            <4>4. QED BY <1>4, <1>6, <3>1, <3>3, <4>3 DEF d
        <3>4. QED BY <3>2, <3>3
    <2>2. QED BY <2>1 DEF PassesHonest
<1>18. ASSUME ~Hasty PROVE OfferStands'
    <2>1. CASE stores' # stores
        <3>1. offers'.stale BY <1>0, <1>4, <2>1 DEF OverridesShape, Offer
        <3>2. QED BY <3>1 DEF OfferStands
    <2>2. CASE stores' = stores
        <3>1. offers \in Offer BY <1>0 DEF OverridesShape
        <3>2. offers' = offers BY <1>4, <2>2, <3>1 DEF Offer
        <3>3. ~pass[s].raced => gave'[s] \subseteq gave[s]
            BY <1>5, <1>6, <1>7, <1>15, <2>2
        <3>4. \A t \in Scopes : ~pass[t].raced => ~pass'[t].raced BY <1>6, <1>10
        <3>5. CASE offers.settled /\ offers.on /\ ~offers.stale
            <4>1. \A t \in Scopes : ~pass[t].raced BY <1>18, <3>5 DEF OverridesInv, OfferStands
            <4>2. \A t \in Scopes : gave'[t] \subseteq gave[t] BY <1>6, <3>3, <4>1
            <4>3. \A o \in offers.keys : offers.scopes[o[1][1]] \in Scopes
                BY <3>1 DEF Offer, Ids
            <4>4. QED
                BY <1>4, <1>18, <2>2, <3>2, <3>4, <4>1, <4>2, <4>3 DEF OverridesInv, OfferStands
        <3>6. CASE ~(offers.settled /\ offers.on /\ ~offers.stale)
            BY <1>4, <1>18, <2>2, <3>2, <3>6 DEF OverridesInv, OfferStands
        <3>7. QED BY <3>5, <3>6
    <2>3. QED BY <2>1, <2>2
<1>19. QED BY <1>12, <1>13, <1>14, <1>16, <1>17, <1>18 DEF OverridesInv, d

\* Somebody else writes a key of a file: it is no longer kuma's.
LEMMA OwnersWrite ==
    ASSUME OverridesInv, NEW s \in Scopes, Flatseal(s)
    PROVE  OverridesInv'
<1>0. /\ OverridesShape /\ pass \in [Scopes -> Still \cup Reading] /\ offers \in Offer
      /\ stores \in [Scopes -> [AppIds -> File]] /\ gave \in [Scopes -> SUBSET Ids]
    BY DEF OverridesInv, OverridesShape, OverridesTypeOK
<1>1. PICK a \in AppIds, k \in Keys, v \in Values \cup {NoValue} :
          /\ stores' = [stores EXCEPT ![s][a][k] = v]
          /\ gave' = [gave EXCEPT ![s] = @ \ {<<a, k>>}]
          /\ pass' = [pass EXCEPT ![s].raced = pass[s].at = "read"]
          /\ offers' = [offers EXCEPT !.stale = TRUE]
          /\ Change
    BY DEF Flatseal
<1>2. UNCHANGED <<overrides, listed, carried_over, present_apps, owned>> BY DEF Flatseal, declares
<1> DEFINE p == pass[s]
           q == [p EXCEPT !.raced = p.at = "read"]
           d == declared_keys(carried_over, s)
<1>3. stores[s][a] \in File /\ [stores[s][a] EXCEPT ![k] = v] \in File BY <1>0 DEF File
<1>4. stores' \in [Scopes -> [AppIds -> File]]
    <2> DEFINE new == [stores[s][a] EXCEPT ![k] = v]
    <2>1. stores' = [stores EXCEPT ![s] = [stores[s] EXCEPT ![a] = new]] BY <1>1
    <2>2. [stores[s] EXCEPT ![a] = new] \in [AppIds -> File] BY <1>0, <1>3
    <2>3. QED BY <1>0, <2>1, <2>2
<1>5. /\ \A t \in Scopes \ {s} : stores'[t] = stores[t] /\ gave'[t] = gave[t] /\ pass'[t] = pass[t]
      /\ pass'[s] = q /\ gave'[s] = gave[s] \ {<<a, k>>}
      /\ \A x \in AppIds, l \in Keys : <<x, l>> # <<a, k>> => stores'[s][x][l] = stores[s][x][l]
    BY <1>0, <1>1, <1>3 DEF File
<1>6. p \in Still \cup Reading BY <1>0
<1>7. /\ q \in Still \cup Reading /\ q.at = p.at /\ q.todo = p.todo
      /\ p.at = "read" => q.raced /\ q.live = p.live /\ p \in Reading
    <2>1. CASE p \in Still BY <2>1 DEF Still
    <2>2. CASE p \in Reading BY <2>2 DEF Reading
    <2>3. QED BY <1>6, <2>1, <2>2
<1> HIDE DEF q
<1>8. gave' \in [Scopes -> SUBSET Ids] BY <1>0, <1>1
<1>9. offers' \in Offer /\ offers'.stale BY <1>0, <1>1 DEF Offer
<1>10. changes' \in 0..MaxChanges
    BY <1>0, <1>1, OverridesAssumption DEF Change, OverridesShape, OverridesTypeOK
<1>11. OverridesShape'
    <2>1. pass' \in [Scopes -> Still \cup Reading] BY <1>0, <1>1, <1>5, <1>7
    <2>2. \A t \in Scopes : /\ pass'[t].at \in {"rest", "between", "read", "done"}
                            /\ pass'[t].todo \subseteq AppIds
        <3>1. \A r \in Still \cup Reading : /\ r.at \in {"rest", "between", "read", "done"}
                                              /\ r.todo \subseteq AppIds
            BY DEF Still, Reading
        <3>2. QED BY <2>1, <3>1
    <2>3. offers'.keys \subseteq Ids \X Values /\ offers'.on \in BOOLEAN BY <1>9 DEF Offer
    <2>4. QED
        BY <1>0, <1>2, <1>4, <1>8, <1>9, <1>10, <2>1, <2>2, <2>3 DEF OverridesShape, OverridesTypeOK
<1>12. NamelessAreSystem' BY <1>2 DEF OverridesInv, NamelessAreSystem, named_app
<1>13. ReadIsLive'
    <2>1. ASSUME NEW t \in Scopes PROVE Reads(pass'[t], stores'[t])
        <3>1. CASE t = s BY <1>5, <1>7, <3>1 DEF Reads
        <3>2. CASE t # s BY <1>5, <3>2 DEF OverridesInv, ReadIsLive
        <3>3. QED BY <3>1, <3>2
    <2>2. QED BY <2>1 DEF ReadIsLive
<1>14. ASSUME ~Hasty PROVE PassesHonest'
    <2>1. ASSUME NEW t \in Scopes
          PROVE  Honest(pass'[t], stores'[t], gave'[t], owned'[t], declared_keys(carried_over, t)')
        <3>1. declared_keys(carried_over, t)' = declared_keys(carried_over, t)
            BY <1>2 DEF declared_keys
        <3>2. CASE t # s BY <1>2, <1>5, <1>14, <3>1, <3>2 DEF OverridesInv, PassesHonest
        <3>3. CASE t = s
            <4>0. Honest(p, stores[s], gave[s], owned[s], d)
                BY <1>14 DEF OverridesInv, PassesHonest
            <4>1. ASSUME p.at = "read", NEW l \in Keys,
                         <<CHOOSE x \in p.todo : TRUE, l>> \in gave'[s]
                  PROVE  stores'[s][CHOOSE x \in p.todo : TRUE][l] = p.live[l]
                <5> DEFINE b == CHOOSE x \in p.todo : TRUE
                <5>1. b \in AppIds BY <1>7, <4>1 DEF Reading
                <5>2. <<b, l>> \in gave[s] /\ <<b, l>> # <<a, k>> BY <1>5, <4>1
                <5>3. stores[s][b][l] = p.live[l] BY <4>0, <4>1, <5>2 DEF Honest
                <5>4. QED BY <1>5, <5>1, <5>2, <5>3
            <4>2. Honest(q, stores'[s], gave'[s], owned[s], d)
                BY <1>5, <1>7, <4>0, <4>1 DEF Honest
            <4>3. QED BY <1>2, <1>5, <3>1, <3>3, <4>2
        <3>4. QED BY <3>2, <3>3
    <2>2. QED BY <2>1 DEF PassesHonest
<1>15. OfferStands' BY <1>9 DEF OfferStands
<1>16. QED BY <1>11, <1>12, <1>13, <1>14, <1>15 DEF OverridesInv

LEMMA NothingOffered == NoOffer \in Offer /\ ~NoOffer.on
<1>1. [x \in AppIds |-> "system"] \in [AppIds -> Scopes] BY DEF Scopes
<1>2. QED BY <1>1 DEF NoOffer, Offer

\* The declaration is edited.
LEMMA OwnersEdit ==
    ASSUME OverridesInv, open_file \/ remove
    PROVE  OverridesInv'
<1>0. /\ OverridesShape /\ overrides \in [AppIds -> Entry] /\ listed \subseteq AppIds
      /\ offers \in Offer
    BY DEF OverridesInv, OverridesShape, OverridesTypeOK
<1>1. /\ Change /\ offers' = [offers EXCEPT !.stale = TRUE]
      /\ UNCHANGED <<carried_over, present_apps, stores, owned, pass, gave>>
    BY DEF open_file, remove
<1>2. offers' \in Offer /\ offers'.stale BY <1>0, <1>1 DEF Offer
<1>3. changes' \in 0..MaxChanges
    BY <1>0, <1>1, OverridesAssumption DEF Change, OverridesShape, OverridesTypeOK
<1>4. overrides' \in [AppIds -> Entry] /\ listed' \subseteq AppIds /\ NamelessAreSystem'
    <2>1. CASE remove
        <3>1. overrides' = overrides /\ listed' \subseteq listed BY <2>1 DEF remove
        <3>2. QED BY <1>0, <3>1 DEF OverridesInv, NamelessAreSystem, named_app
    <2>2. CASE open_file
        <3>1. PICK a \in AppIds, s \in Scopes, k \in Keys, v \in Values \cup {NoValue} :
                  /\ Change
                  /\ LET keys == [overrides[a].keys EXCEPT ![k] = v]
                     IN  overrides' = [overrides EXCEPT ![a] =
                             IF keys = Nameless.keys THEN Nameless
                             ELSE [scope |-> s, keys |-> keys]]
                  /\ overrides' # overrides
                  /\ offers' = [offers EXCEPT !.stale = TRUE]
                  /\ UNCHANGED <<listed, carried_over, present_apps, stores, owned, pass, gave>>
            BY <2>2 DEF open_file
        <3> DEFINE keys == [overrides[a].keys EXCEPT ![k] = v]
                   new == IF keys = Nameless.keys THEN Nameless ELSE [scope |-> s, keys |-> keys]
        <3>2. keys \in File BY <1>0 DEF Entry, File
        <3>3. Nameless \in Entry /\ Nameless.scope = "system"
              /\ Nameless.keys = [l \in Keys |-> NoValue]
            BY DEF Nameless, Entry, File, Scopes
        <3>4. new \in Entry BY <3>2, <3>3 DEF Entry
        <3>5. new.scope # "system" => keys # Nameless.keys /\ new.keys = keys BY <3>3
        <3>6. new.scope # "system" => \E l \in Keys : new.keys[l] # NoValue
            <4> HIDE DEF new
            <4>1. ASSUME \A l \in Keys : keys[l] = NoValue PROVE keys = [l \in Keys |-> NoValue]
                BY <3>2, <4>1 DEF File
            <4>2. QED BY <3>3, <3>5, <4>1
        <3> HIDE DEF new
        <3>7. overrides' = [overrides EXCEPT ![a] = new] BY <3>1 DEF new
        <3>8. \A x \in AppIds : overrides'[x] = IF x = a THEN new ELSE overrides[x] BY <1>0, <3>7
        <3>9. NamelessAreSystem'
            <4>1. ASSUME NEW x \in AppIds, ~named_app(x)' PROVE overrides'[x].scope = "system"
                <5>1. CASE x = a BY <3>6, <3>8, <4>1, <5>1 DEF named_app
                <5>2. CASE x # a
                    <6>1. overrides'[x] = overrides[x] BY <3>8, <5>2
                    <6>2. QED BY <4>1, <6>1 DEF named_app, OverridesInv, NamelessAreSystem
                <5>3. QED BY <5>1, <5>2
            <4>2. QED BY <4>1 DEF NamelessAreSystem
        <3>10. listed' = listed BY <2>2 DEF open_file
        <3>11. QED BY <1>0, <3>4, <3>7, <3>9, <3>10
    <2>3. QED BY <2>1, <2>2
<1>5. OverridesShape'
    <2>1. offers'.keys \subseteq Ids \X Values /\ offers'.on \in BOOLEAN BY <1>2 DEF Offer
    <2>2. QED BY <1>0, <1>1, <1>2, <1>3, <1>4, <2>1 DEF OverridesShape, OverridesTypeOK
<1>6. ReadIsLive' BY <1>1 DEF OverridesInv, ReadIsLive
<1>7. ~Hasty => PassesHonest' BY <1>1 DEF OverridesInv, PassesHonest, declared_keys
<1>8. OfferStands' BY <1>2 DEF OfferStands
<1>9. QED BY <1>4, <1>5, <1>6, <1>7, <1>8 DEF OverridesInv

\* An image boots: unless it is another one before both passes finished, what
\* kuma set is what it has recorded.
LEMMA ImageBoots ==
    ASSUME OverridesInv, BootImage
    PROVE  OverridesInv'
<1>0. /\ OverridesShape /\ overrides \in [AppIds -> Entry] /\ carried_over \in [AppIds -> Entry]
    BY DEF OverridesInv, OverridesShape, OverridesTypeOK
<1>1. /\ Change /\ pass' = [s \in Scopes |-> AtRest] /\ offers' = NoOffer
      /\ carried_over' \in {carried_over, overrides}
      /\ ~Hasty => carried_over' = carried_over \/ \A s \in Scopes : pass[s].at = "done"
      /\ UNCHANGED <<overrides, listed, present_apps, stores, owned, gave>>
    BY DEF BootImage, declares
<1>2. changes' \in 0..MaxChanges
    BY <1>0, <1>1, OverridesAssumption DEF Change, OverridesShape, OverridesTypeOK
<1>3. AtRest \in Still /\ AtRest.at = "rest" /\ AtRest.todo = {} BY DEF AtRest, Still
<1>4. OverridesShape'
    <2>1. offers'.keys \subseteq Ids \X Values /\ offers'.on \in BOOLEAN
        BY <1>1, NothingOffered DEF Offer
    <2>2. pass' \in [Scopes -> Still \cup Reading]
          /\ \A s \in Scopes : pass'[s].at = "rest" /\ pass'[s].todo = {}
        BY <1>1, <1>3
    <2>3. carried_over' \in [AppIds -> Entry] BY <1>0, <1>1
    <2>4. QED
        BY <1>0, <1>1, <1>2, <2>1, <2>2, <2>3, NothingOffered DEF OverridesShape, OverridesTypeOK
<1>5. NamelessAreSystem' BY <1>1 DEF OverridesInv, NamelessAreSystem, named_app
<1>6. ReadIsLive' BY <1>1, <1>3 DEF ReadIsLive, Reads
<1>7. OfferStands' BY <1>1, NothingOffered DEF OfferStands
<1>8. ASSUME ~Hasty PROVE PassesHonest'
    <2>1. ASSUME NEW s \in Scopes
          PROVE  Honest(pass'[s], stores'[s], gave'[s], owned'[s], declared_keys(carried_over, s)')
        <3>0. Honest(pass[s], stores[s], gave[s], owned[s], declared_keys(carried_over, s))
            BY <1>8 DEF OverridesInv, PassesHonest
        <3>1. gave'[s] = gave[s] /\ owned'[s] = owned[s] /\ pass'[s] = AtRest BY <1>1
        <3>2. gave[s] \subseteq owned[s] \cup declared_keys(carried_over, s)'
            <4>1. CASE carried_over' = carried_over BY <3>0, <4>1 DEF Honest, declared_keys
            <4>2. CASE pass[s].at = "done" BY <3>0, <4>2 DEF Honest
            <4>3. QED BY <1>1, <1>8, <4>1, <4>2
        <3>3. QED BY <1>3, <3>1, <3>2 DEF Honest
    <2>2. QED BY <2>1 DEF PassesHonest
<1>9. QED BY <1>4, <1>5, <1>6, <1>7, <1>8 DEF OverridesInv

\* Capture reads the stores: what it offers is theirs, recorded by no pass.
LEMMA CaptureReads ==
    ASSUME OverridesInv, capture
    PROVE  OverridesInv'
<1>0. /\ OverridesShape /\ overrides \in [AppIds -> Entry] /\ listed \subseteq AppIds
      /\ present_apps \subseteq AppIds /\ stores \in [Scopes -> [AppIds -> File]]
    BY DEF OverridesInv, OverridesShape, OverridesTypeOK
<1> DEFINE K == UNION {{<<id, stores[scope_of(a)][a][id[2]]>> : id \in undeclared(a, scope_of(a))}
                        : a \in capturable}
           settled == \A s \in Scopes : pass[s].at = "done"
<1>1. /\ Change /\ listed' = listed \cup candidates
      /\ offers' = [keys |-> K, scopes |-> [a \in AppIds |-> scope_of(a)], stale |-> FALSE,
                    settled |-> settled, on |-> capturable # {}]
      /\ UNCHANGED <<overrides, carried_over, present_apps, stores, owned, pass, gave>>
    BY DEF capture
<1>2. \A a \in AppIds : scope_of(a) \in Scopes
    <2>1. \A a \in AppIds : offering(a) \subseteq Scopes BY DEF offering
    <2>2. QED BY <2>1 DEF scope_of, Scopes
<1>3. \A a \in capturable : a \in AppIds /\ scope_of(a) \in offering(a)
    <2>1. ASSUME NEW a \in capturable PROVE offering(a) # {} /\ a \in AppIds
        <3>1. Cardinality(offering(a)) = 1 /\ a \in AppIds BY <1>0 DEF capturable
        <3>2. Cardinality({}) = 0 BY FS_EmptySet
        <3> HIDE DEF offering
        <3>3. QED BY <3>1, <3>2
    <2>2. QED BY <2>1 DEF scope_of
<1>4. ASSUME NEW o \in K
      PROVE  /\ o \in Ids \X Values
             /\ LET s == scope_of(o[1][1]) IN
                /\ o[2] = stores[s][o[1][1]][o[1][2]] /\ o[1] \notin owned[s]
                /\ s = "system" => overrides[o[1][1]].scope = "system"
    <2>1. PICK a \in capturable : \E id \in undeclared(a, scope_of(a)) :
              o = <<id, stores[scope_of(a)][a][id[2]]>>
        OBVIOUS
    <2>2. PICK id \in undeclared(a, scope_of(a)) : o = <<id, stores[scope_of(a)][a][id[2]]>>
        BY <2>1
    <2>3. /\ id[1] = a /\ id \in Ids /\ id[2] \in Keys /\ id \notin owned[scope_of(a)]
          /\ stores[scope_of(a)][a][id[2]] # NoValue
        BY <1>3 DEF undeclared, Ids
    <2>4. stores[scope_of(a)][a][id[2]] \in Values BY <1>0, <1>2, <1>3, <2>3 DEF File
    <2>5. o[1] = id /\ o[2] = stores[scope_of(a)][a][id[2]] BY <2>2
    <2>6. scope_of(a) = "system" => overrides[a].scope = "system"
        <3>1. named_app(a) => overrides[a].scope = scope_of(a) BY <1>3 DEF offering
        <3>2. ~named_app(a) => overrides[a].scope = "system"
            BY <1>3 DEF OverridesInv, NamelessAreSystem
        <3>3. QED BY <3>1, <3>2
    <2>7. QED BY <2>2, <2>3, <2>4, <2>5, <2>6
<1> HIDE DEF K, settled
<1>5. offers' \in Offer
    <2>1. K \subseteq Ids \X Values BY <1>4
    <2>2. [a \in AppIds |-> scope_of(a)] \in [AppIds -> Scopes] BY <1>2
    <2>3. settled \in BOOLEAN BY DEF settled
    <2>4. QED BY <1>1, <2>1, <2>2, <2>3 DEF Offer
<1>6. OverridesShape'
    <2>1. changes' \in 0..MaxChanges
        BY <1>0, <1>1, OverridesAssumption DEF Change, OverridesShape, OverridesTypeOK
    <2>2. listed' \subseteq AppIds BY <1>0, <1>1 DEF candidates
    <2>3. offers'.keys \subseteq Ids \X Values /\ offers'.on \in BOOLEAN BY <1>5 DEF Offer
    <2>4. QED BY <1>0, <1>1, <1>5, <2>1, <2>2, <2>3 DEF OverridesShape, OverridesTypeOK
<1>7. NamelessAreSystem' BY <1>1 DEF OverridesInv, NamelessAreSystem, named_app
<1>8. ReadIsLive' BY <1>1 DEF OverridesInv, ReadIsLive
<1>9. ~Hasty => PassesHonest' BY <1>1 DEF OverridesInv, PassesHonest, declared_keys
<1>10. ASSUME ~Hasty PROVE OfferStands'
    <2>1. ASSUME settled PROVE \A s \in Scopes : gave[s] \subseteq owned[s] /\ ~pass[s].raced
        <3>1. ASSUME NEW s \in Scopes PROVE gave[s] \subseteq owned[s] /\ ~pass[s].raced
            <4>1. pass[s].at = "done" BY <2>1 DEF settled
            <4>2. Honest(pass[s], stores[s], gave[s], owned[s], declared_keys(carried_over, s))
                BY <1>10 DEF OverridesInv, PassesHonest
            <4>3. pass[s] \in Still \cup Reading BY <1>0 DEF OverridesShape
            <4>4. ~pass[s].raced BY <4>1, <4>3 DEF Still, Reading
            <4>5. QED BY <4>1, <4>2, <4>4 DEF Honest
        <3>2. QED BY <3>1
    <2>2. /\ offers'.keys = K /\ offers'.settled = settled
          /\ offers'.scopes = [a \in AppIds |-> scope_of(a)]
        BY <1>1
    <2>3. ASSUME NEW o \in K
          PROVE  LET s == offers'.scopes[o[1][1]] IN
                 /\ o[2] = stores'[s][o[1][1]][o[1][2]]
                 /\ s = "system" => overrides'[o[1][1]].scope = "system"
                 /\ offers'.settled => o[1] \notin gave'[s]
        <3>1. o[1][1] \in AppIds BY <1>4 DEF Ids
        <3>2. offers'.scopes[o[1][1]] = scope_of(o[1][1]) /\ scope_of(o[1][1]) \in Scopes
            BY <1>2, <2>2, <3>1
        <3>3. settled => o[1] \notin gave[scope_of(o[1][1])] BY <1>4, <2>1, <3>2
        <3>4. QED BY <1>1, <1>4, <2>2, <3>2, <3>3
    <2>4. offers'.settled => \A s \in Scopes : ~pass'[s].raced BY <1>1, <2>1, <2>2
    <2>5. QED BY <2>2, <2>3, <2>4 DEF OfferStands
<1>11. QED BY <1>6, <1>7, <1>8, <1>9, <1>10 DEF OverridesInv

\* The second write of capture.
CaptureTold ==
    \A id \in Ids :
        (offers.on /\ ~offers.stale /\ value_in(overrides', id) # value_in(overrides, id)
           /\ UNCHANGED changes)
        => LET s == overrides'[id[1]].scope
           IN  value_in(overrides', id) = stores[s][id[1]][id[2]]
               /\ (offers.settled => id \notin gave[s])
LEMMA CaptureWrites ==
    ASSUME OverridesInv, declare_overrides
    PROVE  OverridesInv' /\ (~Hasty => CaptureTold)
<1> DEFINE said(id) == \E v \in Values : <<id, v>> \in offers.keys
           new(id) == CHOOSE v \in Values : <<id, v>> \in offers.keys
<1>0. /\ OverridesShape /\ overrides \in [AppIds -> Entry] /\ offers \in Offer
    BY DEF OverridesInv, OverridesShape, OverridesTypeOK
<1>1. /\ offers.on /\ offers' = NoOffer
      /\ overrides' = [a \in AppIds |->
             IF a \notin offered THEN overrides[a]
             ELSE [scope |-> scope_written(a),
                   keys |-> [k \in Keys |-> IF said(<<a, k>>) THEN new(<<a, k>>)
                                            ELSE overrides[a].keys[k]]]]
      /\ UNCHANGED <<listed, carried_over, present_apps, stores, owned, pass, gave, changes>>
    BY DEF declare_overrides
<1>2. \A id \in Ids : said(id) => new(id) \in Values /\ <<id, new(id)>> \in offers.keys OBVIOUS
<1>3. ASSUME NEW a \in offered
      PROVE  a \in AppIds /\ \E k \in Keys : said(<<a, k>>)
    <2>1. PICK o \in offers.keys : a = o[1][1] BY DEF offered
    <2>2. PICK id \in Ids, v \in Values : o = <<id, v>> BY <1>0 DEF Offer
    <2>3. id = <<a, id[2]>> /\ a \in AppIds /\ id[2] \in Keys BY <2>1, <2>2 DEF Ids
    <2>4. said(<<a, id[2]>>) BY <2>2, <2>3
    <2>5. QED BY <2>3, <2>4
<1> HIDE DEF said, new
<1>4. \A a \in AppIds :
          /\ a \notin offered => overrides'[a] = overrides[a]
          /\ a \in offered =>
                 /\ overrides'[a].scope = scope_written(a)
                 /\ overrides'[a] = [scope |-> scope_written(a), keys |-> overrides'[a].keys]
                 /\ overrides'[a].keys = [k \in Keys |-> IF said(<<a, k>>) THEN new(<<a, k>>)
                                                         ELSE overrides[a].keys[k]]
    BY <1>1
<1>5. ASSUME NEW a \in offered PROVE overrides'[a] \in Entry /\ named_app(a)'
    <2>0. a \in AppIds BY <1>3
    <2>1. scope_written(a) \in Scopes BY <1>0, <2>0 DEF scope_written, Offer, Entry
    <2>2. \A k \in Keys : said(<<a, k>>) => new(<<a, k>>) \in Values BY <1>2, <2>0 DEF Ids
    <2>3. overrides'[a].keys \in File
        <3>1. \A k \in Keys : overrides[a].keys[k] \in Values \cup {NoValue}
            BY <1>0, <2>0 DEF Entry, File
        <3>2. overrides'[a].keys = [k \in Keys |-> IF said(<<a, k>>) THEN new(<<a, k>>)
                                                  ELSE overrides[a].keys[k]]
            BY <1>4, <2>0
        <3>3. QED BY <2>2, <3>1, <3>2 DEF File
    <2>4. PICK k \in Keys : said(<<a, k>>) BY <1>3
    <2>5. overrides'[a].keys[k] \in Values /\ Values \subseteq Nat \ {0}
        BY <1>4, <2>0, <2>2, <2>4, OverridesAssumption
    <2>6. named_app(a)' BY <2>5 DEF named_app, NoValue
    <2>7. overrides'[a] = [scope |-> scope_written(a), keys |-> overrides'[a].keys]
        BY <1>4, <2>0
    <2>8. overrides'[a] \in Entry BY <2>1, <2>3, <2>7 DEF Entry
    <2>9. QED BY <2>6, <2>8
<1>6. overrides' \in [AppIds -> Entry]
    <2>1. \A a \in AppIds : overrides'[a] \in Entry BY <1>0, <1>4, <1>5
    <2>2. DOMAIN overrides' = AppIds /\ overrides' = [a \in AppIds |-> overrides'[a]] BY <1>1
    <2>3. QED BY <2>1, <2>2
<1>7. OverridesShape'
    <2>1. offers'.keys \subseteq Ids \X Values /\ offers'.on \in BOOLEAN
        BY <1>1, NothingOffered DEF Offer
    <2>2. QED BY <1>0, <1>1, <1>6, <2>1, NothingOffered DEF OverridesShape, OverridesTypeOK
<1>8. NamelessAreSystem'
    <2>1. ASSUME NEW a \in AppIds, ~named_app(a)' PROVE overrides'[a].scope = "system"
        <3>1. overrides'[a] = overrides[a] BY <1>4, <1>5, <2>1
        <3>2. QED BY <2>1, <3>1 DEF named_app, OverridesInv, NamelessAreSystem
    <2>2. QED BY <2>1 DEF NamelessAreSystem
<1>9. ReadIsLive' BY <1>1 DEF OverridesInv, ReadIsLive
<1>10. ~Hasty => PassesHonest' BY <1>1 DEF OverridesInv, PassesHonest, declared_keys
<1>11. OfferStands' BY <1>1, NothingOffered DEF OfferStands
<1>12. ASSUME ~Hasty, NEW id \in Ids, ~offers.stale,
              value_in(overrides', id) # value_in(overrides, id)
       PROVE  LET s == overrides'[id[1]].scope
              IN  value_in(overrides', id) = stores[s][id[1]][id[2]]
                  /\ (offers.settled => id \notin gave[s])
    <2>0. id = <<id[1], id[2]>> /\ id[1] \in AppIds /\ id[2] \in Keys BY DEF Ids
    <2>1. id[1] \in offered BY <1>4, <1>12, <2>0 DEF value_in
    <2>2. said(id) /\ value_in(overrides', id) = new(id)
        <3>1. value_in(overrides', id) = IF said(<<id[1], id[2]>>) THEN new(<<id[1], id[2]>>)
                                         ELSE value_in(overrides, id)
            <4> DEFINE a == id[1]
                       k == id[2]
            <4>1. a \in AppIds /\ a \in offered /\ k \in Keys BY <2>0, <2>1
            <4> HIDE DEF a, k
            <4>2. overrides'[a].keys = [l \in Keys |-> IF said(<<a, l>>) THEN new(<<a, l>>)
                                                      ELSE overrides[a].keys[l]]
                BY <1>4, <4>1
            <4>3. overrides'[a].keys[k] = IF said(<<a, k>>) THEN new(<<a, k>>)
                                          ELSE overrides[a].keys[k]
                BY <4>1, <4>2
            <4>4. QED BY <4>3 DEF value_in, a, k
        <3>2. said(<<id[1], id[2]>>) = said(id) /\ new(<<id[1], id[2]>>) = new(id) BY <2>0
        <3>3. QED BY <1>12, <3>1, <3>2
    <2>3. <<id, new(id)>> \in offers.keys BY <1>2, <2>2
    <2> DEFINE s == offers.scopes[id[1]]
               o == <<id, new(id)>>
    <2>4. /\ o[2] = stores[offers.scopes[o[1][1]]][o[1][1]][o[1][2]]
          /\ offers.scopes[o[1][1]] = "system" => overrides[o[1][1]].scope = "system"
          /\ offers.settled => o[1] \notin gave[offers.scopes[o[1][1]]]
        BY <1>1, <1>12, <2>3 DEF OverridesInv, OfferStands
    <2>5. o[1] = id /\ o[2] = new(id) OBVIOUS
    <2>6. overrides'[id[1]].scope = s
        BY <1>4, <2>0, <2>1, <2>4, <2>5 DEF scope_written
    <2>7. QED BY <2>2, <2>4, <2>5, <2>6
<1>13. ~Hasty => CaptureTold BY <1>12 DEF CaptureTold
<1>14. QED BY <1>7, <1>8, <1>9, <1>10, <1>11, <1>13 DEF OverridesInv

LEMMA CaptureStops == ASSUME OverridesInv, CaptureRefused PROVE OverridesInv'
<1>1. /\ offers' = NoOffer
      /\ UNCHANGED <<overrides, listed, carried_over, present_apps, stores, owned, pass, gave, changes>>
    BY DEF CaptureRefused, declares
<1>2. OverridesShape'
    <2>1. offers'.keys \subseteq Ids \X Values /\ offers'.on \in BOOLEAN
        BY <1>1, NothingOffered DEF Offer
    <2>2. QED BY <1>1, <2>1, NothingOffered DEF OverridesInv, OverridesShape, OverridesTypeOK
<1>3. NamelessAreSystem' /\ ReadIsLive'
    BY <1>1 DEF OverridesInv, NamelessAreSystem, named_app, ReadIsLive
<1>4. ~Hasty => PassesHonest' BY <1>1 DEF OverridesInv, PassesHonest, declared_keys
<1>5. OfferStands' BY <1>1, NothingOffered DEF OfferStands
<1>6. QED BY <1>2, <1>3, <1>4, <1>5 DEF OverridesInv

\* A pass leaves the keys that are neither declared nor recorded.
OwnersKept ==
    \A s \in Scopes : \A id \in Ids :
        (pass'[s] # pass[s] /\ ~pass[s].raced
           /\ id \notin declared_keys(carried_over, s) \cup owned[s])
        => \/ stores'[s][id[1]][id[2]] = stores[s][id[1]][id[2]]
           \/ changes' # changes
LEMMA OverridesStep ==
    ASSUME OverridesInv, OverridesNext
    PROVE  OverridesInv' /\ OwnersKept /\ (~Hasty => CaptureTold)
<1>0. OverridesShape /\ changes \in Nat /\ pass \in [Scopes -> Still \cup Reading]
    BY OverridesAssumption DEF OverridesInv, OverridesShape, OverridesTypeOK
<1>1. ASSUME NEW s \in Scopes,
             converge_store(s) \/ read_file(s) \/ write_state(s) \/ PassFails(s)
      PROVE  OverridesInv' /\ OwnersKept /\ (~Hasty => CaptureTold)
    <2>1. stores' = stores /\ overrides' = overrides
        BY <1>1 DEF converge_store, read_file, write_state, PassFails, declares
    <2>2. OverridesInv' BY <1>1, PassGoes
    <2>3. QED BY <2>1, <2>2 DEF OwnersKept, CaptureTold
<1>2. ASSUME NEW s \in Scopes, write_file(s)
      PROVE  OverridesInv' /\ OwnersKept /\ (~Hasty => CaptureTold)
    <2>1. overrides' = overrides /\ \A t \in Scopes \ {s} : pass'[t] = pass[t]
        BY <1>0, <1>2 DEF write_file, declares
    <2>2. /\ OverridesInv'
          /\ ~pass[s].raced => \A id \in Ids \ (declared_keys(carried_over, s) \cup owned[s]) :
                                   stores'[s][id[1]][id[2]] = stores[s][id[1]][id[2]]
        BY <1>2, PassWrites
    <2>3. OwnersKept BY <2>1, <2>2 DEF OwnersKept
    <2>4. CaptureTold BY <2>1 DEF CaptureTold
    <2>5. QED BY <2>2, <2>3, <2>4
<1>3. ASSUME Change PROVE OwnersKept /\ CaptureTold
    <2>1. changes' # changes BY <1>0, <1>3 DEF Change
    <2>2. QED BY <2>1 DEF OwnersKept, CaptureTold
<1>4. ASSUME NEW s \in Scopes, Flatseal(s)
      PROVE  OverridesInv' /\ OwnersKept /\ (~Hasty => CaptureTold)
    <2>1. Change BY <1>4 DEF Flatseal
    <2>2. QED BY <1>3, <1>4, <2>1, OwnersWrite
<1>5. CASE open_file \/ remove
    <2>1. Change BY <1>5 DEF open_file, remove
    <2>2. QED BY <1>3, <1>5, <2>1, OwnersEdit
<1>6. CASE BootImage
    <2>1. Change BY <1>6 DEF BootImage
    <2>2. QED BY <1>3, <1>6, <2>1, ImageBoots
<1>7. CASE capture
    <2>1. Change BY <1>7 DEF capture
    <2>2. QED BY <1>3, <1>7, <2>1, CaptureReads
<1>8. CASE declare_overrides
    <2>1. stores' = stores BY <1>8 DEF declare_overrides
    <2>2. OwnersKept BY <2>1 DEF OwnersKept
    <2>3. QED BY <1>8, <2>2, CaptureWrites
<1>9. CASE CaptureRefused
    <2>1. stores' = stores /\ overrides' = overrides BY <1>9 DEF CaptureRefused, declares
    <2>2. OwnersKept /\ CaptureTold BY <2>1 DEF OwnersKept, CaptureTold
    <2>3. QED BY <1>9, <2>2, CaptureStops
<1>10. QED BY <1>1, <1>2, <1>4, <1>5, <1>6, <1>7, <1>8, <1>9 DEF OverridesNext

LEMMA OverridesInvHolds ==
    OverridesSpec => []OverridesInv /\ OwnersKeysStay /\ (~Hasty => CaptureKeepsTheMachine)
<1>1. OverridesInit => OverridesInv
    <2> SUFFICES ASSUME OverridesInit PROVE OverridesInv
        OBVIOUS
    <2>0. Nameless \in Entry /\ Nameless.scope = "system" /\ Nameless.keys \in File
        BY DEF Nameless, Entry, File, Scopes
    <2>1. overrides \in [AppIds -> Entry] /\ carried_over = overrides
          /\ \A a \in AppIds : overrides[a] = Nameless
        BY <2>0 DEF OverridesInit
    <2>2. /\ stores \in [Scopes -> [AppIds -> File]] /\ owned \in [Scopes -> SUBSET Ids]
          /\ gave \in [Scopes -> SUBSET Ids] /\ \A s \in Scopes : gave[s] = {}
        BY <2>0 DEF OverridesInit
    <2>3. pass \in [Scopes -> Still \cup Reading]
          /\ \A s \in Scopes : pass[s].at = "rest" /\ pass[s].todo = {}
        BY DEF OverridesInit, AtRest, Still
    <2>4. changes \in 0..MaxChanges BY OverridesAssumption DEF OverridesInit
    <2>5. offers \in Offer /\ ~offers.on BY NothingOffered DEF OverridesInit
    <2>6. offers.keys \subseteq Ids \X Values /\ offers.on \in BOOLEAN BY <2>5 DEF Offer
    <2>7. OverridesShape
        BY <2>1, <2>2, <2>3, <2>4, <2>5, <2>6 DEF OverridesInit, OverridesShape, OverridesTypeOK
    <2>8. NamelessAreSystem BY <2>0, <2>1 DEF NamelessAreSystem
    <2>9. ReadIsLive BY <2>3 DEF ReadIsLive, Reads
    <2>10. PassesHonest BY <2>2, <2>3 DEF PassesHonest, Honest
    <2>11. OfferStands BY <2>5 DEF OfferStands
    <2>12. QED BY <2>7, <2>8, <2>9, <2>10, <2>11 DEF OverridesInv
<1>2. OverridesInv /\ [OverridesNext]_overridesVars => OverridesInv'
    <2> SUFFICES ASSUME OverridesInv, UNCHANGED overridesVars PROVE OverridesInv'
        BY OverridesStep
    <2>1. UNCHANGED <<overrides, listed, carried_over, present_apps, stores, owned, pass, offers,
                      gave, changes>>
        BY DEF overridesVars
    <2>2. OverridesShape' BY <2>1 DEF OverridesInv, OverridesShape, OverridesTypeOK
    <2>3. NamelessAreSystem' /\ ReadIsLive'
        BY <2>1 DEF OverridesInv, NamelessAreSystem, named_app, ReadIsLive
    <2>4. ~Hasty => PassesHonest' BY <2>1 DEF OverridesInv, PassesHonest, declared_keys
    <2>5. ~Hasty => OfferStands' BY <2>1 DEF OverridesInv, OfferStands
    <2>6. QED BY <2>2, <2>3, <2>4, <2>5 DEF OverridesInv
<1>3. OverridesInv /\ [OverridesNext]_overridesVars => [OwnersKept]_overridesVars
    BY OverridesStep
<1>5. OwnersKeysStay <=> [][OwnersKept]_overridesVars BY DEF OwnersKeysStay, OwnersKept
<1>6. CaptureKeepsTheMachine <=> [][CaptureTold]_overridesVars
    BY DEF CaptureKeepsTheMachine, CaptureTold
<1>7. CASE Hasty BY <1>1, <1>2, <1>3, <1>5, <1>7, PTL DEF OverridesSpec
<1>8. CASE ~Hasty
    <2>1. OverridesInv /\ [OverridesNext]_overridesVars => [CaptureTold]_overridesVars
        BY <1>8, OverridesStep
    <2>2. QED BY <1>1, <1>2, <1>3, <1>5, <1>6, <2>1, PTL DEF OverridesSpec
<1>9. QED BY <1>7, <1>8

\* OverridesTypeOK, for any applications, keys and values.
THEOREM OverridesTypeHolds == OverridesSpec => []OverridesTypeOK
<1>1. OverridesInv => OverridesTypeOK BY DEF OverridesInv, OverridesShape
<1>2. QED BY <1>1, OverridesInvHolds, PTL

\* A diff with nothing to say and an image that is not behind leave the merge
\* of every file as it is.
LEMMA SilentIsQuiet == OverridesShape => SilentDiffIsQuiet
<1> SUFFICES ASSUME OverridesShape, ~image_stale, \A s \in Scopes : unmet(s) = {},
                    NEW s \in Scopes, NEW a \in apps_of(s)
             PROVE  converge(s, a, stores[s][a]) = stores[s][a]
    BY DEF SilentDiffIsQuiet
<1>0. /\ stores \in [Scopes -> [AppIds -> File]] /\ owned \in [Scopes -> SUBSET Ids]
      /\ carried_over \in [AppIds -> Entry] /\ overrides \in [AppIds -> Entry]
    BY DEF OverridesShape, OverridesTypeOK
<1>1. a \in AppIds BY <1>0 DEF apps_of, declared_dir, declared_keys, Ids
<1>2. declared_keys(overrides, s) = declared_keys(carried_over, s)
      /\ \A id \in declared_keys(overrides, s) :
             value_in(overrides, id) = value_in(carried_over, id)
    BY DEF image_stale
<1>3. /\ \A id \in declared_keys(overrides, s) : stores[s][id[1]][id[2]] = value_in(overrides, id)
      /\ \A id \in owned[s] \ declared_keys(overrides, s) : stores[s][id[1]][id[2]] = NoValue
    BY DEF unmet
<1>4. ASSUME NEW k \in Keys PROVE converge(s, a, stores[s][a])[k] = stores[s][a][k]
    <2> DEFINE id == <<a, k>>
    <2>0. id[1] = a /\ id[2] = k OBVIOUS
    <2>1. converge(s, a, stores[s][a])[k] =
              IF id \in declared_keys(carried_over, s) THEN carried_over[a].keys[k]
              ELSE IF id \in owned[s] THEN NoValue ELSE stores[s][a][k]
        BY DEF converge
    <2> HIDE DEF id
    <2>2. CASE id \in declared_keys(carried_over, s)
        <3>1. stores[s][a][k] = carried_over[a].keys[k] BY <1>2, <1>3, <2>0, <2>2 DEF value_in
        <3>2. QED BY <2>1, <2>2, <3>1
    <2>3. CASE id \notin declared_keys(carried_over, s)
        <3>1. id \in owned[s] => stores[s][a][k] = NoValue BY <1>2, <1>3, <2>0, <2>3
        <3>2. QED BY <2>1, <2>3, <3>1
    <2>4. QED BY <2>2, <2>3
<1>5. stores[s][a] \in [Keys -> Values \cup {NoValue}] BY <1>0, <1>1 DEF File
<1>6. converge(s, a, stores[s][a]) = [k \in Keys |-> converge(s, a, stores[s][a])[k]]
    BY DEF converge
<1>7. QED BY <1>4, <1>5, <1>6

\* OwnersKeysStay and SilentDiffIsQuiet, whatever boots and whenever: a pass
\* writes over no key of an owner's but where a write met it between its read
\* and its own write, and a silent diff is followed by a pass that writes nothing.
THEOREM OwnersKeysAreKept == OverridesSpec => OwnersKeysStay /\ []SilentDiffIsQuiet
<1>1. OverridesInv => SilentDiffIsQuiet BY SilentIsQuiet DEF OverridesInv
<1>2. QED BY <1>1, OverridesInvHolds, PTL

\* KeysAreTheirs, for images that boot when the passes of the one before are
\* done (~Hasty): finished passes have taken back all that kuma gave, and what
\* capture writes is what the store holds and the owner set.
THEOREM KeysStayTheirs == ~Hasty => (OverridesSpec => KeysAreTheirs)
<1> SUFFICES ASSUME ~Hasty PROVE OverridesSpec => KeysAreTheirs
    OBVIOUS
<1>1. OverridesInv => TakesBackAllItGave
    <2> SUFFICES ASSUME OverridesInv, NEW s \in Scopes, pass[s].at = "done"
                 PROVE  gave[s] \subseteq declared_keys(carried_over, s)
        BY DEF TakesBackAllItGave
    <2>1. Honest(pass[s], stores[s], gave[s], owned[s], declared_keys(carried_over, s))
        BY DEF OverridesInv, PassesHonest
    <2>2. QED BY <2>1 DEF Honest
<1>2. OverridesSpec => []TakesBackAllItGave BY <1>1, OverridesInvHolds, PTL
<1>3. OverridesSpec => CaptureKeepsTheMachine BY OverridesInvHolds
<1>4. QED BY <1>2, <1>3, OwnersKeysAreKept DEF KeysAreTheirs

-----------------------------------------------------------------------------
(* What a home directory survives.  Of the snapshots, a deletion never leaves *)
(* fewer than keep_recent newer ones, and of the copies, the one a run made   *)
(* stays the newest of kuma's until the run stamps it.                        *)

\* The days pass in the order of the snapshots.
LEMMA DaysPass ==
    ASSUME NEW t \in Nat, NEW u \in Nat, t <= u
    PROVE  day(t) \in Nat /\ day(u) \in Nat /\ day(t) <= day(u)
<1>1. PerDay \in Nat /\ PerDay > 0 BY StorageAssumption
<1>2. \A x \in Nat : x \div PerDay \in Nat BY <1>1
<1>3. \A x \in Nat : PerDay * (x \div PerDay) <= x /\ x < PerDay * (x \div PerDay) + PerDay
    BY <1>1
<1>4. t \div PerDay <= u \div PerDay
    <2> DEFINE p == t \div PerDay
               q == u \div PerDay
    <2>1. p \in Nat /\ q \in Nat /\ PerDay * p <= t /\ u < PerDay * q + PerDay BY <1>2, <1>3
    <2> HIDE DEF p, q
    <2>2. PerDay * p < PerDay * (q + 1)
        <3>1. PerDay * (q + 1) = PerDay * q + PerDay BY <1>1, <2>1
        <3>2. PerDay * p \in Nat /\ PerDay * q \in Nat BY <1>1, <2>1
        <3>3. QED BY <1>1, <2>1, <3>1, <3>2
    <2>3. p < q + 1
        <3>1. SUFFICES ASSUME q + 1 <= p PROVE FALSE BY <2>1
        <3>2. PerDay * (q + 1) <= PerDay * p BY <1>1, <2>1, <3>1
        <3>3. PerDay * (q + 1) \in Nat /\ PerDay * p \in Nat BY <1>1, <2>1
        <3>4. QED BY <2>2, <3>2, <3>3
    <2>4. QED BY <2>1, <2>3 DEF p, q
<1>5. QED BY <1>2, <1>4 DEF day

NoneTooSoon == \A u \in 1..now : u \notin snaps => Cardinality(newer(u, snaps)) >= KeepRecent
DaysSoFar == {day(t) : t \in 1..now} \ {day(t) : t \in recent(snaps)}
LastDays == {d \in DaysSoFar : Cardinality({e \in DaysSoFar : e > d}) < KeepDaily}
LastDaysKept == \A d \in LastDays :
    \E t \in snaps : day(t) = d /\ \A u \in 1..now : day(u) = d => u <= t
StoreInv ==
    /\ now \in Nat /\ snaps \subseteq 1..now
    /\ NoneTooSoon /\ DaysAreKept

\* More snapshots, and older ones to count from: more are newer.
LEMMA NewerGrows ==
    ASSUME NEW n \in Nat, NEW T \in SUBSET (1..n), NEW S \in SUBSET T,
           NEW x \in Nat, NEW y \in Nat, y <= x
    PROVE  /\ IsFiniteSet(newer(x, S)) /\ Cardinality(newer(x, S)) \in Nat
           /\ Cardinality(newer(x, S)) <= Cardinality(newer(y, T))
<1>1. IsFiniteSet(1..n) BY FS_Interval
<1>2. newer(x, S) \subseteq newer(y, T) /\ newer(y, T) \subseteq 1..n
    <2>1. \A z \in S : z \in T /\ z \in Nat /\ (z > x => z > y) OBVIOUS
    <2>2. QED BY <2>1 DEF newer
<1>3. IsFiniteSet(newer(y, T)) BY <1>1, <1>2, FS_Subset
<1>4. IsFiniteSet(newer(x, S)) BY <1>2, <1>3, FS_Subset
<1>5. Cardinality(newer(x, S)) <= Cardinality(newer(y, T))
    <2> DEFINE A == newer(x, S)
               B == newer(y, T)
    <2>1. IsFiniteSet(B) /\ A \in SUBSET B BY <1>2, <1>3
    <2> HIDE DEF A, B
    <2>2. Cardinality(A) <= Cardinality(B) BY <2>1, FS_Subset
    <2>3. QED BY <2>2 DEF A, B
<1>6. Cardinality(newer(x, S)) \in Nat BY <1>4, FS_CardinalityType
<1>7. QED BY <1>4, <1>5, <1>6

LEMMA NewerOf ==
    ASSUME NEW n \in Nat, NEW S \in SUBSET (1..n), NEW x \in Nat, NEW y \in Nat, y <= x
    PROVE  /\ Cardinality(newer(x, S)) \in Nat
           /\ Cardinality(newer(y, S)) \in Nat
           /\ Cardinality(newer(x, S)) <= Cardinality(newer(y, S))
<1>1. S \in SUBSET S /\ y <= y OBVIOUS
<1>2. QED BY <1>1, NewerGrows

\* What DaysAreKept says, by the last days.
LEMMA DaysKept == DaysAreKept <=> LastDaysKept
BY DEF DaysAreKept, LastDaysKept, LastDays, DaysSoFar

\* The days not kept as recent are finite in number.
LEMMA DaysFinite == ASSUME now \in Nat PROVE IsFiniteSet(DaysSoFar) /\ DaysSoFar \subseteq Nat
<1>1. IsFiniteSet(1..now) BY FS_Interval
<1> DEFINE f == [t \in 1..now |-> day(t)]
<1>2. IsFiniteSet({day(t) : t \in 1..now})
    <2>1. f \in Surjection(1..now, {day(t) : t \in 1..now}) BY DEF Surjection
    <2> HIDE DEF f
    <2>2. QED BY <1>1, <2>1, FS_Surjection
<1>3. \A t \in 1..now : day(t) \in Nat BY DaysPass
<1>4. DaysSoFar \subseteq {day(t) : t \in 1..now} BY DEF DaysSoFar
<1>5. QED BY <1>2, <1>3, <1>4, FS_Subset

\* A deletion takes no recent snapshot, and of no day that counts the last.
LEMMA StoreLoses ==
    ASSUME StoreInv, DeleteOne
    PROVE  StoreInv'
<1>0. now \in Nat /\ snaps \subseteq 1..now /\ {KeepRecent, KeepDaily} \subseteq Nat
    BY StorageAssumption DEF StoreInv
<1>1. PICK t \in snaps \ kept(snaps) : snaps' = snaps \ {t} /\ now' = now BY DEF DeleteOne
<1>2. Cardinality(newer(t, snaps)) \in Nat /\ Cardinality(newer(t, snaps)) >= KeepRecent
    <2>0. t \in Nat /\ t <= t /\ snaps \in SUBSET (1..now) BY <1>0, <1>1
    <2>1. Cardinality(newer(t, snaps)) \in Nat BY <1>0, <2>0, NewerOf
    <2>2. t \notin recent(snaps) BY <1>1 DEF kept
    <2>3. QED BY <1>0, <2>1, <2>2 DEF recent
<1>3. \A u \in Nat : u > t => newer(u, snaps') = newer(u, snaps)
    BY <1>0, <1>1 DEF newer
<1>4. newer(t, snaps') = newer(t, snaps) BY <1>0, <1>1 DEF newer
<1>5. ASSUME NEW u \in Nat, u <= t
      PROVE  Cardinality(newer(u, snaps')) \in Nat /\ Cardinality(newer(u, snaps')) >= KeepRecent
    <2>1. t \in Nat /\ snaps' \in SUBSET (1..now) BY <1>0, <1>1
    <2>2. /\ Cardinality(newer(u, snaps')) \in Nat
          /\ Cardinality(newer(t, snaps')) <= Cardinality(newer(u, snaps'))
        BY <1>0, <1>5, <2>1, NewerOf
    <2>3. QED BY <1>0, <1>2, <1>4, <2>2
<1>6. NoneTooSoon'
    <2>1. ASSUME NEW u \in 1..now, u \notin snaps' PROVE Cardinality(newer(u, snaps')) >= KeepRecent
        <3>1. CASE u <= t BY <1>5, <3>1
        <3>2. CASE u > t
            <4>1. u \notin snaps BY <1>1, <2>1, <3>2, <1>0
            <4>2. QED BY <1>3, <3>2, <4>1 DEF StoreInv, NoneTooSoon
        <3>3. t \in Nat /\ u \in Nat BY <1>0, <1>1
        <3>4. QED BY <3>1, <3>2, <3>3
    <2>2. QED BY <1>1, <2>1 DEF NoneTooSoon
<1>7. recent(snaps') = recent(snaps)
    <2>1. ASSUME NEW u \in snaps' PROVE u \in recent(snaps) <=> u \in recent(snaps')
        <3>0. u \in Nat /\ t \in Nat /\ u \in snaps /\ u # t BY <1>0, <1>1
        <3>1. CASE u > t BY <1>3, <3>0, <3>1 DEF recent
        <3>2. CASE u <= t
            <4>1. ~(Cardinality(newer(u, snaps')) < KeepRecent) BY <1>0, <1>5, <3>0, <3>2
            <4>2. Cardinality(newer(t, snaps)) <= Cardinality(newer(u, snaps))
                  /\ Cardinality(newer(u, snaps)) \in Nat
                <5>1. snaps \in SUBSET (1..now) BY <1>0
                <5>2. QED BY <1>0, <3>0, <3>2, <5>1, NewerOf
            <4>3. ~(Cardinality(newer(u, snaps)) < KeepRecent) BY <1>0, <1>2, <4>2
            <4>4. QED BY <4>1, <4>3 DEF recent
        <3>3. QED BY <3>0, <3>1, <3>2
    <2>2. t \notin recent(snaps) BY <1>1 DEF kept
    <2>3. recent(snaps) \subseteq snaps /\ recent(snaps') \subseteq snaps' BY DEF recent
    <2>4. QED BY <1>1, <2>1, <2>2, <2>3
<1>8. LastDays' = LastDays BY <1>1, <1>7 DEF LastDays, DaysSoFar
<1>9. ASSUME NEW d \in LastDays
      PROVE  \E x \in snaps' : day(x) = d /\ \A u \in 1..now : day(u) = d => u <= x
    <2>1. PICK x \in snaps : day(x) = d /\ \A u \in 1..now : day(u) = d => u <= x
        BY DaysKept DEF StoreInv, LastDaysKept
    <2>2. CASE x # t BY <1>1, <2>1, <2>2
    <2>3. ASSUME x = t PROVE FALSE
        <3> DEFINE nod == newest_of_day(snaps)
                   A == newer(t, nod)
                   E == {e \in DaysSoFar : e > d}
                   f == [y \in A |-> day(y)]
        <3>0. t \in Nat /\ t \in snaps /\ d \in DaysSoFar /\ Cardinality(E) < KeepDaily
            BY <1>0, <1>1 DEF LastDays
        <3>1. t \in nod
            <4>1. t \notin recent(snaps) BY <1>1 DEF kept
            <4>2. \A y \in recent(snaps) : day(y) # d BY <3>0 DEF DaysSoFar
            <4>3. \A y \in newer(t, snaps) : day(y) # d
                <5>1. ASSUME NEW y \in newer(t, snaps), day(y) = d PROVE FALSE
                    <6>1. y \in 1..now /\ y > t /\ y \in Nat BY <1>0 DEF newer
                    <6>2. y <= t BY <2>1, <2>3, <5>1, <6>1
                    <6>3. QED BY <3>0, <6>1, <6>2
                <5>2. QED BY <5>1
            <4>4. QED BY <2>1, <2>3, <3>0, <4>1, <4>2, <4>3 DEF newest_of_day
        <3>2. \A y \in nod : /\ y \in snaps /\ y \in 1..now /\ y \in Nat
                             /\ day(y) \notin {day(u) : u \in recent(snaps) \cup newer(y, snaps)}
            BY <1>0 DEF newest_of_day
        <3>3. \A y \in A : y \in nod /\ y > t BY DEF newer
        <3>4. ASSUME NEW y \in A PROVE f[y] \in E
            <4>1. y \in nod /\ y > t /\ y \in 1..now /\ y \in Nat /\ f[y] = day(y)
                BY <3>2, <3>3
            <4>2. \A r \in recent(snaps) : day(y) # day(r) BY <3>2, <4>1
            <4>3. day(y) \in DaysSoFar BY <4>1, <4>2 DEF DaysSoFar
            <4>4. day(y) # d
                <5>1. ASSUME day(y) = d PROVE FALSE
                    <6>1. y <= t BY <2>1, <2>3, <4>1, <5>1
                    <6>2. QED BY <3>0, <4>1, <6>1
                <5>2. QED BY <5>1
            <4>5. t <= y BY <3>0, <4>1
            <4>6. day(t) \in Nat /\ day(y) \in Nat /\ day(t) <= day(y) BY <3>0, <4>1, <4>5, DaysPass
            <4>7. day(y) > d BY <2>1, <2>3, <4>4, <4>6
            <4>8. QED BY <4>1, <4>3, <4>7
        <3>5. ASSUME NEW y \in A, NEW z \in A, f[y] = f[z] PROVE y = z
            <4>1. /\ y \in nod /\ z \in nod /\ y \in Nat /\ z \in Nat
                  /\ y \in snaps /\ z \in snaps /\ day(y) = day(z)
                BY <3>2, <3>3, <3>5
            <4>2. ~(z > y)
                <5>1. ASSUME z > y PROVE FALSE
                    <6>1. z \in newer(y, snaps) BY <4>1, <5>1 DEF newer
                    <6>2. QED BY <3>2, <4>1, <6>1
                <5>2. QED BY <5>1
            <4>3. ~(y > z)
                <5>1. ASSUME y > z PROVE FALSE
                    <6>1. y \in newer(z, snaps) BY <4>1, <5>1 DEF newer
                    <6>2. QED BY <3>2, <4>1, <6>1
                <5>2. QED BY <5>1
            <4>4. QED BY <4>1, <4>2, <4>3
        <3>6. f \in Injection(A, E) BY <3>4, <3>5 DEF Injection, IsInjective
        <3>7. IsFiniteSet(E) BY <1>0, DaysFinite, FS_Subset
        <3> HIDE DEF f, A, E
        <3>8. Cardinality(A) <= Cardinality(E) /\ IsFiniteSet(A) BY <3>6, <3>7, FS_Injection
        <3>9. Cardinality(A) \in Nat /\ Cardinality(E) \in Nat
            BY <3>7, <3>8, FS_CardinalityType
        <3>10. Cardinality(A) < KeepDaily BY <1>0, <3>0, <3>8, <3>9
        <3>11. t \in daily(snaps) BY <3>1, <3>10 DEF daily, A
        <3>12. QED BY <1>1, <3>11 DEF kept
    <2>4. QED BY <2>2, <2>3
<1>10. DaysAreKept'
    <2>1. (DaysAreKept <=> LastDaysKept)' BY DaysKept, PTL
    <2>2. LastDaysKept' BY <1>1, <1>8, <1>9 DEF LastDaysKept
    <2>3. QED BY <2>1, <2>2
<1>11. QED BY <1>0, <1>1, <1>6, <1>10 DEF StoreInv

\* Every day of a snapshot has a last one.
LEMMA LastOfDay ==
    ASSUME now \in Nat, NEW r \in 1..now
    PROVE  \E x \in 1..now : day(x) = day(r) /\ \A u \in 1..now : day(u) = day(r) => u <= x
<1> DEFINE S == {p \in Nat : \E u \in 1..now : day(u) = day(r) /\ p = now - u}
<1>1. now - r \in S OBVIOUS
<1>2. S \in SUBSET Nat /\ S # {} BY <1>1
<1> HIDE DEF S
<1>3. PICK m \in S : \A p \in S : m <= p BY <1>2, Least
<1>4. PICK x \in 1..now : day(x) = day(r) /\ m = now - x BY <1>3 DEF S
<1>5. ASSUME NEW u \in 1..now, day(u) = day(r) PROVE u <= x
    <2>1. now - u \in S BY <1>5 DEF S
    <2>2. now - x <= now - u BY <1>3, <1>4, <2>1
    <2>3. QED BY <2>2
<1>6. QED BY <1>4, <1>5

\* A snapshot taken: what was recent and is no longer is the last of its day,
\* for none newer was deleted.
LEMMA StoreGains ==
    ASSUME StoreInv, now' = now + 1, snaps' = snaps \cup {now + 1}
    PROVE  StoreInv'
<1> DEFINE n == now + 1
<1>0. /\ now \in Nat /\ n \in Nat /\ snaps \in SUBSET (1..now) /\ {KeepRecent, KeepDaily} \subseteq Nat
      /\ snaps' \in SUBSET (1..n) /\ now' = n
    BY StorageAssumption DEF StoreInv
<1>1. \A u \in 1..now : snaps \in SUBSET snaps' /\ u <= u /\ u \in Nat OBVIOUS
<1>2. \A u \in 1..now :
          /\ Cardinality(newer(u, snaps)) \in Nat /\ Cardinality(newer(u, snaps')) \in Nat
          /\ Cardinality(newer(u, snaps)) <= Cardinality(newer(u, snaps'))
    <2>1. ASSUME NEW u \in 1..now
          PROVE  /\ Cardinality(newer(u, snaps)) \in Nat
                 /\ Cardinality(newer(u, snaps')) \in Nat
                 /\ Cardinality(newer(u, snaps)) <= Cardinality(newer(u, snaps'))
        <3>1. u \in Nat /\ u <= u /\ snaps \in SUBSET snaps' BY <1>1
        <3>2. /\ Cardinality(newer(u, snaps)) \in Nat
              /\ Cardinality(newer(u, snaps)) <= Cardinality(newer(u, snaps'))
            BY <1>0, <3>1, NewerGrows
        <3>3. Cardinality(newer(u, snaps')) \in Nat BY <1>0, <3>1, NewerOf
        <3>4. QED BY <3>2, <3>3
    <2>2. QED BY <2>1
<1>3. NoneTooSoon'
    <2>1. ASSUME NEW u \in 1..n, u \notin snaps' PROVE Cardinality(newer(u, snaps')) >= KeepRecent
        <3>1. u \in 1..now /\ u \notin snaps BY <1>0, <2>1
        <3>2. Cardinality(newer(u, snaps)) >= KeepRecent BY <3>1 DEF StoreInv, NoneTooSoon
        <3>3. QED BY <1>0, <1>2, <3>1, <3>2
    <2>2. QED BY <1>0, <2>1 DEF NoneTooSoon
<1>4. recent(snaps') \subseteq recent(snaps) \cup {n}
    <2>1. ASSUME NEW u \in recent(snaps'), u # n PROVE u \in recent(snaps)
        <3>1. u \in snaps /\ u \in 1..now /\ Cardinality(newer(u, snaps')) < KeepRecent
            BY <1>0, <2>1 DEF recent
        <3>2. Cardinality(newer(u, snaps)) < KeepRecent BY <1>0, <1>2, <3>1
        <3>3. QED BY <3>1, <3>2 DEF recent
    <2>2. QED BY <2>1
\* Where anything is recent, the snapshot before is.
<1>5. ASSUME NEW u \in 1..now, day(u) = day(n), n \in recent(snaps')
      PROVE  \E r \in recent(snaps) : day(r) = day(n)
    <2>1. now \in 1..now /\ now \in Nat /\ u \in Nat /\ u <= now /\ now <= n BY <1>0
    <2>2. day(u) <= day(now) /\ day(now) <= day(n) /\ {day(u), day(now), day(n)} \subseteq Nat
        BY <1>0, <2>1, DaysPass
    <2>3. day(now) = day(n) BY <1>5, <2>2
    <2>4. newer(now, snaps) = {} /\ newer(n, snaps') = {}
        <3>1. (\A z \in snaps : ~(z > now)) /\ \A z \in snaps' : ~(z > n) BY <1>0
        <3>2. QED BY <3>1 DEF newer
    <2>5. Cardinality({}) = 0 BY FS_EmptySet
    <2>6. KeepRecent > 0
        <3>1. Cardinality(newer(n, snaps')) < KeepRecent BY <1>5 DEF recent
        <3>2. QED BY <2>4, <2>5, <3>1
    <2>7. ~(Cardinality(newer(now, snaps)) >= KeepRecent) BY <1>0, <2>4, <2>5, <2>6
    <2>8. now \in snaps BY <2>1, <2>7 DEF StoreInv, NoneTooSoon
    <2>9. now \in recent(snaps) BY <2>4, <2>5, <2>6, <2>8 DEF recent
    <2>10. QED BY <2>3, <2>9
<1>6. ASSUME NEW d \in LastDays'
      PROVE  \E x \in snaps' : day(x) = d /\ \A u \in 1..n : day(u) = d => u <= x
    <2>0. /\ d \in {day(t) : t \in 1..n} /\ d \in DaysSoFar'
          /\ \A r \in recent(snaps') : day(r) # d
          /\ Cardinality({e \in DaysSoFar' : e > d}) < KeepDaily
        BY <1>0 DEF LastDays, DaysSoFar
    <2>1. CASE d = day(n) BY <1>0, <2>1
    <2>2. ASSUME d # day(n)
          PROVE  \E x \in snaps : day(x) = d /\ \A u \in 1..now : day(u) = d => u <= x
        <3>1. d \in {day(t) : t \in 1..now}
            <4>1. PICK t \in 1..n : d = day(t) BY <2>0
            <4>2. t \in 1..now BY <1>0, <2>2, <4>1
            <4>3. QED BY <4>1, <4>2
        <3>2. CASE d \in DaysSoFar
            <4> DEFINE A == {e \in DaysSoFar : e > d}
                       B == {e \in DaysSoFar' : e > d}
            <4>1. ASSUME NEW e \in DaysSoFar PROVE e \in DaysSoFar'
                <5>1. PICK u \in 1..now : e = day(u) BY DEF DaysSoFar
                <5>2. \A r \in recent(snaps) : day(r) # e BY DEF DaysSoFar
                <5>3. \A r \in recent(snaps') : day(r) # e
                    <6>1. ASSUME NEW r \in recent(snaps'), day(r) = e PROVE FALSE
                        <7>1. r = n BY <1>4, <5>2, <6>1
                        <7>2. QED BY <1>5, <5>1, <5>2, <6>1, <7>1
                    <6>2. QED BY <6>1
                <5>4. u \in 1..now' BY <1>0
                <5>5. QED BY <5>1, <5>3, <5>4 DEF DaysSoFar
            <4>2. A \in SUBSET B BY <4>1
            <4>3. IsFiniteSet(B)
                <5>1. (now \in Nat => IsFiniteSet(DaysSoFar))' BY DaysFinite, PTL
                <5>2. IsFiniteSet(DaysSoFar') BY <1>0, <5>1
                <5>3. QED BY <5>2, FS_Subset
            <4>4. Cardinality(B) < KeepDaily BY <2>0
            <4> HIDE DEF A, B
            <4>5. Cardinality(A) <= Cardinality(B) /\ IsFiniteSet(A) BY <4>2, <4>3, FS_Subset
            <4>6. Cardinality(A) \in Nat /\ Cardinality(B) \in Nat
                BY <4>3, <4>5, FS_CardinalityType
            <4>7. Cardinality(A) < KeepDaily BY <1>0, <4>4, <4>5, <4>6
            <4>8. d \in LastDays BY <3>2, <4>7 DEF LastDays, A
            <4>9. QED BY <4>8, DaysKept DEF StoreInv, LastDaysKept
        <3>3. CASE d \notin DaysSoFar
            <4>1. PICK r \in recent(snaps) : day(r) = d BY <3>1, <3>3 DEF DaysSoFar
            <4>2. r \in snaps /\ r \in 1..now /\ Cardinality(newer(r, snaps)) < KeepRecent
                BY <1>0, <4>1 DEF recent
            <4>3. PICK x \in 1..now : day(x) = d /\ \A u \in 1..now : day(u) = d => u <= x
                BY <1>0, <4>1, <4>2, LastOfDay
            <4>4. r <= x /\ r \in Nat /\ x \in Nat BY <1>0, <4>1, <4>2, <4>3
            <4>5. /\ Cardinality(newer(x, snaps)) \in Nat
                  /\ Cardinality(newer(r, snaps)) \in Nat
                  /\ Cardinality(newer(x, snaps)) <= Cardinality(newer(r, snaps))
                BY <1>0, <4>4, NewerOf
            <4>6. ~(Cardinality(newer(x, snaps)) >= KeepRecent) BY <1>0, <4>2, <4>5
            <4>7. x \in snaps BY <4>3, <4>6 DEF StoreInv, NoneTooSoon
            <4>8. QED BY <4>3, <4>7
        <3>4. QED BY <3>2, <3>3
    <2>3. QED BY <1>0, <2>1, <2>2
<1>7. LastDaysKept' BY <1>0, <1>6 DEF LastDaysKept
<1>8. (DaysAreKept <=> LastDaysKept)' BY DaysKept, PTL
<1>9. QED BY <1>0, <1>3, <1>7, <1>8 DEF StoreInv

CopyInv ==
    /\ held \in Seq(SUBSET Files) /\ Len(held) = now
    /\ repo \in Seq(Copy)
    /\ run \in {"copy", "forget", "stamp"} => mounted \in 1..now
    /\ run \in {"forget", "stamp"} =>
           \E i \in newest_copy("kuma") : repo[i].files = held[mounted]
StorageInv == StorageTypeOK /\ StoreInv /\ CopyInv
StampTold ==
    stamp' # stamp => \E i \in newest_copy("kuma") : repo[i].files = held[stamp']

\* The newest snapshot is one.
LEMMA NewestIsOne == ASSUME StoreInv, snaps # {} PROVE newest \in snaps
<1> DEFINE S == {p \in Nat : \E t \in snaps : p = now - t}
<1>0. now \in Nat /\ snaps \subseteq 1..now BY DEF StoreInv
<1>1. \A t \in snaps : now - t \in S BY <1>0
<1>a. S \in SUBSET Nat /\ S # {}
    <2>1. S # {} BY <1>1
    <2>2. S \in SUBSET Nat OBVIOUS
    <2>3. QED BY <2>1, <2>2
<1>2. PICK m \in S : \A p \in S : m <= p
    <2> HIDE DEF S
    <2>1. QED BY <1>a, Least
<1>3. PICK t \in snaps : m = now - t BY <1>2
<1>4. \A u \in snaps : ~(u > t)
    <2>1. ASSUME NEW u \in snaps PROVE ~(u > t)
        <3>1. now - t <= now - u BY <1>1, <1>2, <1>3
        <3>2. u \in Nat /\ t \in Nat BY <1>0
        <3>3. QED BY <1>0, <3>1, <3>2
    <2>2. QED BY <2>1
<1>5. newer(t, snaps) = {} BY <1>4 DEF newer
<1>6. QED BY <1>3, <1>5 DEF newest

\* One copy more: another's leaves kuma's newest, kuma's own is it.
LEMMA CopyAdded ==
    ASSUME repo \in Seq(Copy), NEW c \in Copy, repo' = Append(repo, c)
    PROVE  /\ repo' \in Seq(Copy) /\ Len(repo') = Len(repo) + 1
           /\ c.tag = "kuma" =>
                  Len(repo') \in newest_copy("kuma")' /\ repo'[Len(repo')] = c
           /\ c.tag # "kuma" => \A i \in newest_copy("kuma") :
                  i \in newest_copy("kuma")' /\ repo'[i] = repo[i]
<1>1. /\ repo' \in Seq(Copy) /\ Len(repo') = Len(repo) + 1 /\ Len(repo) \in Nat
      /\ \A i \in 1..Len(repo) : repo'[i] = repo[i]
      /\ repo'[Len(repo) + 1] = c
    OBVIOUS
<1>2. ASSUME c.tag = "kuma" PROVE Len(repo') \in newest_copy("kuma")'
    <2>1. Len(repo') \in 1..Len(repo') /\ (Len(repo') + 1)..Len(repo') = {} BY <1>1
    <2>2. QED BY <1>1, <1>2, <2>1 DEF newest_copy
<1>3. ASSUME c.tag # "kuma", NEW i \in newest_copy("kuma")
      PROVE  i \in newest_copy("kuma")' /\ repo'[i] = repo[i]
    <2>1. /\ i \in 1..Len(repo) /\ repo[i].tag = "kuma"
          /\ \A j \in (i + 1)..Len(repo) : repo[j].tag # "kuma"
        BY DEF newest_copy
    <2>2. \A j \in (i + 1)..Len(repo') : repo'[j].tag # "kuma"
        <3>1. ASSUME NEW j \in (i + 1)..Len(repo') PROVE repo'[j].tag # "kuma"
            <4>1. j = Len(repo) + 1 \/ (j \in (i + 1)..Len(repo) /\ j \in 1..Len(repo))
                BY <1>1, <2>1
            <4>2. QED BY <1>1, <1>3, <2>1, <4>1
        <3>2. QED BY <3>1
    <2>3. i \in 1..Len(repo') BY <1>1, <2>1
    <2>4. QED BY <1>1, <2>1, <2>2, <2>3 DEF newest_copy
<1>4. QED BY <1>1, <1>2, <1>3

\* One copy less, and not the newest of kuma's: that one moves down at most.
LEMMA CopyDropped ==
    ASSUME repo \in Seq(Copy), NEW i \in 1..Len(repo), i \notin newest_copy("kuma"),
           repo' = [j \in 1..(Len(repo) - 1) |-> IF j < i THEN repo[j] ELSE repo[j + 1]]
    PROVE  /\ repo' \in Seq(Copy) /\ Len(repo') = Len(repo) - 1
           /\ \A k \in newest_copy("kuma") :
                  \E l \in newest_copy("kuma")' : repo'[l] = repo[k]
<1> DEFINE n == Len(repo) - 1
<1>1. n \in Nat /\ Len(repo) \in Nat BY DEF n
<1>2. \A j \in 1..n : j \in 1..Len(repo) /\ j + 1 \in 1..Len(repo) /\ repo'[j] \in Copy
    BY <1>1
<1>3. repo' \in Seq(Copy) /\ Len(repo') = n
    <2>1. repo' = [j \in 1..n |-> repo'[j]] OBVIOUS
    <2>2. repo' \in [1..n -> Copy] BY <1>2, <2>1
    <2>3. QED BY <1>1, <2>2
<1>4. ASSUME NEW k \in newest_copy("kuma")
      PROVE  \E l \in newest_copy("kuma")' : repo'[l] = repo[k]
    <2>1. /\ k \in 1..Len(repo) /\ repo[k].tag = "kuma" /\ k # i
          /\ \A j \in (k + 1)..Len(repo) : repo[j].tag # "kuma"
        BY DEF newest_copy
    <2> DEFINE l == IF k < i THEN k ELSE k - 1
    <2>2. l \in 1..n /\ repo'[l] = repo[k]
        <3>1. CASE k < i BY <1>1, <2>1, <3>1
        <3>2. CASE k > i BY <1>1, <2>1, <3>2
        <3>3. QED BY <2>1, <3>1, <3>2
    <2>3. ASSUME NEW j \in (l + 1)..n PROVE repo'[j].tag # "kuma"
        <3>1. j \in 1..n /\ (j < i => j \in (k + 1)..Len(repo) /\ repo'[j] = repo[j])
              /\ (j >= i => j + 1 \in (k + 1)..Len(repo) /\ repo'[j] = repo[j + 1])
            <4>1. CASE k < i BY <1>1, <2>1, <2>2, <2>3, <4>1
            <4>2. CASE k > i BY <1>1, <2>1, <2>2, <2>3, <4>2
            <4>3. QED BY <2>1, <4>1, <4>2
        <3>2. j < i \/ j >= i BY <3>1
        <3>3. QED BY <2>1, <3>1, <3>2
    <2> HIDE DEF l
    <2>4. l \in newest_copy("kuma")' BY <1>3, <2>1, <2>2, <2>3 DEF newest_copy
    <2>5. QED BY <2>2, <2>4
<1>5. QED BY <1>3, <1>4

\* A store left alone is kept.
LEMMA StoreStays == ASSUME StoreInv, now' = now, snaps' = snaps PROVE StoreInv'
<1>1. recent(snaps') = recent(snaps) BY DEF recent
<1>2. DaysAreKept' BY <1>1 DEF StoreInv, DaysAreKept
<1>3. NoneTooSoon' BY DEF StoreInv, NoneTooSoon, newer
<1>4. QED BY <1>2, <1>3 DEF StoreInv

\* The step that leaves the store, the copies and the backup unit alone.
LEMMA StorageFrame ==
    ASSUME StorageInv, UNCHANGED <<store, backup, repo>>,
           home' \subseteq Files, running' \in 0..Len(repo)
    PROVE  StorageInv' /\ StampTold
<1>0. /\ now' = now /\ snaps' = snaps /\ held' = held /\ pruning' = pruning
      /\ run' = run /\ mounted' = mounted /\ stamp' = stamp /\ repo' = repo
    BY DEF store, backup
<1>1. StorageTypeOK' BY <1>0 DEF StorageInv, StorageTypeOK
<1>2. StoreInv' BY <1>0, StoreStays DEF StorageInv
<1>3. CopyInv' BY <1>0 DEF StorageInv, CopyInv, newest_copy
<1>4. StampTold BY <1>0 DEF StampTold
<1>5. QED BY <1>1, <1>2, <1>3, <1>4 DEF StorageInv

\* The step of the backup unit.
LEMMA BackupStep ==
    ASSUME StorageInv, \/ BackupStarts \/ Probe \/ CopySnapshot \/ Forget \/ WriteStamp
                       \/ BackupFails \/ seed \/ OtherCopy
    PROVE  StorageInv' /\ StampTold
<1>0. /\ now' = now /\ snaps' = snaps /\ held' = held /\ pruning' = pruning /\ home' = home
      /\ now \in Nat /\ snaps \subseteq 1..now
      /\ held \in Seq(SUBSET Files) /\ Len(held) = now /\ repo \in Seq(Copy)
    BY DEF store, StorageInv, StoreInv, CopyInv, BackupStarts, Probe, CopySnapshot, Forget,
           WriteStamp, BackupFails, seed, OtherCopy
<1>1. StoreInv' BY <1>0, StoreStays DEF StorageInv
<1>2. ASSUME BackupStarts \/ seed \/ BackupFails PROVE StorageTypeOK' /\ CopyInv' /\ StampTold
    <2>1. repo' = repo /\ stamp' = stamp /\ running' = running
          /\ mounted' \in {0, mounted} /\ run' \in {"probe", "off", "failed"}
        BY <1>2 DEF BackupStarts, seed, BackupFails, restore
    <2>2. StorageTypeOK' BY <1>0, <2>1 DEF StorageInv, StorageTypeOK
    <2>3. CopyInv' BY <1>0, <2>1 DEF CopyInv
    <2>4. StampTold BY <2>1 DEF StampTold
    <2>5. QED BY <2>2, <2>3, <2>4
<1>3. ASSUME Probe PROVE StorageTypeOK' /\ CopyInv' /\ StampTold
    <2>1. repo' = repo /\ stamp' = stamp /\ running' = running
        BY <1>3 DEF Probe, restore
    <2>2. \/ run' = "copy" /\ mounted' \in 1..now
          \/ run' = "off" /\ mounted' = mounted
        BY <1>0, <1>3, NewestIsOne DEF Probe, StorageInv
    <2>3. StorageTypeOK' BY <1>0, <2>1, <2>2 DEF StorageInv, StorageTypeOK
    <2>4. CopyInv' BY <1>0, <2>1, <2>2 DEF CopyInv
    <2>5. StampTold BY <2>1 DEF StampTold
    <2>6. QED BY <2>3, <2>4, <2>5
<1>4. ASSUME CopySnapshot PROVE StorageTypeOK' /\ CopyInv' /\ StampTold
    <2>1. /\ stamp' = stamp /\ running' = running /\ mounted' = mounted
          /\ run = "copy" /\ run' = "forget"
        BY <1>4 DEF CopySnapshot, restore
    <2>2. mounted \in 1..now /\ held[mounted] \in SUBSET Files
        BY <1>0, <2>1 DEF StorageInv, CopyInv
    <2>3. CASE /\ repo' = repo
               /\ \E i \in newest_copy("kuma") : repo[i].files = held[mounted]
        <3>1. StorageTypeOK' BY <1>0, <2>1, <2>3 DEF StorageInv, StorageTypeOK
        <3>2. newest_copy("kuma")' = newest_copy("kuma") BY <2>3 DEF newest_copy
        <3>3. CopyInv' BY <1>0, <2>1, <2>2, <2>3, <3>2 DEF CopyInv
        <3>4. QED BY <2>1, <3>1, <3>3 DEF StampTold
    <2>4. CASE /\ Len(repo) < MaxCopies
               /\ repo' = Append(repo, [at |-> mounted, files |-> held[mounted], tag |-> "kuma"])
        <3> DEFINE c == [at |-> mounted, files |-> held[mounted], tag |-> "kuma"]
        <3>1. c \in Copy /\ c.tag = "kuma" /\ c.files = held[mounted]
            BY <1>0, <2>2 DEF Copy
        <3>2. repo' = Append(repo, c) BY <2>4
        <3> HIDE DEF c
        <3>3. /\ repo' \in Seq(Copy) /\ Len(repo') = Len(repo) + 1
              /\ Len(repo') \in newest_copy("kuma")' /\ repo'[Len(repo')] = c
            BY <1>0, <3>1, <3>2, CopyAdded
        <3>4. Len(repo) \in Nat /\ \A i \in 1..Len(repo') : repo'[i] \in Copy
            BY <1>0, <3>3
        <3>5. StorageTypeOK'
            <4>1. running \in 0..Len(repo) /\ MaxCopies \in Nat
                BY StorageAssumption DEF StorageInv, StorageTypeOK
            <4>2. running' \in 0..Len(repo') /\ Len(repo') <= MaxCopies
                BY <2>1, <2>4, <3>3, <3>4, <4>1
            <4>3. QED BY <1>0, <2>1, <3>4, <4>2 DEF StorageInv, StorageTypeOK
        <3>6. CopyInv' BY <1>0, <2>1, <2>2, <3>1, <3>3 DEF CopyInv
        <3>7. QED BY <2>1, <3>5, <3>6 DEF StampTold
    <2>5. QED BY <1>4, <2>3, <2>4 DEF CopySnapshot
<1>5. ASSUME Forget PROVE StorageTypeOK' /\ CopyInv' /\ StampTold
    <2>1. /\ stamp' = stamp /\ running' = running /\ mounted' = mounted /\ running = 0
          /\ run = "forget" /\ run' = "stamp"
        BY <1>5 DEF Forget, restore
    <2>2. /\ repo' \in Seq(Copy) /\ Len(repo') <= Len(repo)
          /\ \A k \in newest_copy("kuma") :
                 \E l \in newest_copy("kuma")' : repo'[l] = repo[k]
        <3>1. PICK i \in 0..Len(repo) :
                  IF i = 0 THEN repo' = repo
                  ELSE /\ i \notin newest_copy("kuma")
                       /\ repo' = [j \in 1..(Len(repo) - 1) |->
                                      IF j < i THEN repo[j] ELSE repo[j + 1]]
            BY <1>5 DEF Forget
        <3>2. CASE i = 0
            <4>1. repo' = repo BY <3>1, <3>2
            <4>2. newest_copy("kuma")' = newest_copy("kuma") BY <4>1 DEF newest_copy
            <4>3. QED BY <1>0, <4>1, <4>2
        <3>3. CASE i # 0
            <4>1. i \in 1..Len(repo) /\ Len(repo) \in Nat BY <1>0, <3>3
            <4>2. /\ repo' \in Seq(Copy) /\ Len(repo') = Len(repo) - 1
                  /\ \A k \in newest_copy("kuma") :
                         \E l \in newest_copy("kuma")' : repo'[l] = repo[k]
                BY <1>0, <3>1, <3>3, <4>1, CopyDropped
            <4>3. QED BY <4>1, <4>2
        <3>4. QED BY <3>2, <3>3
    <2>3. Len(repo) \in Nat /\ Len(repo') \in Nat /\ \A i \in 1..Len(repo') : repo'[i] \in Copy
        BY <1>0, <2>2
    <2>4. StorageTypeOK'
        <3>1. Len(repo') <= MaxCopies
            BY <2>2, <2>3, StorageAssumption DEF StorageInv, StorageTypeOK
        <3>2. running' \in 0..Len(repo') BY <2>1, <2>3
        <3>3. QED BY <1>0, <2>1, <2>3, <3>1, <3>2 DEF StorageInv, StorageTypeOK
    <2>5. \E i \in newest_copy("kuma") : repo[i].files = held[mounted]
        BY <2>1 DEF StorageInv, CopyInv
    <2>6. \E l \in newest_copy("kuma")' : repo'[l].files = held'[mounted']
        BY <1>0, <2>1, <2>2, <2>5
    <2>7. CopyInv' BY <1>0, <2>1, <2>2, <2>6 DEF StorageInv, CopyInv
    <2>8. QED BY <2>1, <2>4, <2>7 DEF StampTold
<1>6. ASSUME WriteStamp PROVE StorageTypeOK' /\ CopyInv' /\ StampTold
    <2>1. /\ stamp' = mounted /\ running' = running /\ mounted' = 0 /\ repo' = repo
          /\ run = "stamp" /\ run' = "off"
        BY <1>6 DEF WriteStamp, restore
    <2>2. StorageTypeOK' BY <1>0, <2>1 DEF StorageInv, StorageTypeOK
    <2>3. CopyInv' BY <1>0, <2>1 DEF CopyInv
    <2>4. StampTold BY <2>1 DEF StampTold, StorageInv, CopyInv
    <2>5. QED BY <2>2, <2>3, <2>4
<1>7. ASSUME OtherCopy PROVE StorageTypeOK' /\ CopyInv' /\ StampTold
    <2>1. run' = run /\ mounted' = mounted /\ stamp' = stamp /\ running' = running
        BY <1>7 DEF OtherCopy, backup, restore
    <2> DEFINE c == [at |-> now, files |-> {}, tag |-> "other"]
    <2>2. c \in Copy /\ c.tag # "kuma" BY <1>0 DEF Copy
    <2>3. repo' = Append(repo, c) /\ Len(repo) < MaxCopies BY <1>7 DEF OtherCopy
    <2> HIDE DEF c
    <2>4. /\ repo' \in Seq(Copy) /\ Len(repo') = Len(repo) + 1
          /\ \A i \in newest_copy("kuma") : i \in newest_copy("kuma")' /\ repo'[i] = repo[i]
        BY <1>0, <2>2, <2>3, CopyAdded
    <2>5. Len(repo) \in Nat /\ \A i \in 1..Len(repo') : repo'[i] \in Copy BY <1>0, <2>4
    <2>6. StorageTypeOK'
        <3>1. running \in 0..Len(repo) /\ MaxCopies \in Nat
            BY StorageAssumption DEF StorageInv, StorageTypeOK
        <3>2. running' \in 0..Len(repo') /\ Len(repo') <= MaxCopies
            BY <2>1, <2>3, <2>4, <2>5, <3>1
        <3>3. QED BY <1>0, <2>1, <2>5, <3>2 DEF StorageInv, StorageTypeOK
    <2>7. CopyInv' BY <1>0, <2>1, <2>4 DEF StorageInv, CopyInv
    <2>8. QED BY <2>1, <2>6, <2>7 DEF StampTold
<1>8. StorageTypeOK' /\ CopyInv' /\ StampTold
    BY <1>2, <1>3, <1>4, <1>5, <1>6, <1>7
<1>9. QED BY <1>1, <1>8 DEF StorageInv

\* Every step keeps the store, the copies and what the stamp says.
LEMMA StorageStep == ASSUME StorageInv, StorageNext PROVE StorageInv' /\ StampTold
<1>1. ASSUME \/ OwnerWrites \/ Provision \/ ReachChanges \/ RestoreNext
             \/ snapshot_restore \/ backup_restore
      PROVE  StorageInv' /\ StampTold
    <2>1. UNCHANGED <<store, backup, repo>>
        BY <1>1 DEF OwnerWrites, Provision, ReachChanges, RestoreNext, RestoreRefused,
           RestoreStarts, RestoreOne, RestoreFails, RestoreEnds, snapshot_restore, backup_restore
    <2>2. home \subseteq Files /\ running \in 0..Len(repo) /\ Len(repo) \in Nat
        BY DEF StorageInv, StorageTypeOK, CopyInv
    <2>3. home' \subseteq Files
        BY <1>1, <2>2 DEF OwnerWrites, Provision, ReachChanges, RestoreNext, RestoreRefused,
           RestoreStarts, RestoreOne, RestoreFails, RestoreEnds, snapshot_restore, backup_restore
    <2>4. running' \in 0..Len(repo)
        <3>1. \A i \in newest_copy("kuma") : i \in 0..Len(repo) BY <2>2 DEF newest_copy
        <3>2. 0 \in 0..Len(repo) BY <2>2
        <3>3. QED
            BY <1>1, <2>2, <3>1, <3>2 DEF OwnerWrites, Provision, ReachChanges, RestoreNext,
               RestoreRefused, RestoreStarts, RestoreOne, RestoreFails, RestoreEnds,
               snapshot_restore, backup_restore, restore
    <2>5. QED BY <2>1, <2>3, <2>4, StorageFrame
<1>2. ASSUME PowerCut \/ PruneEnds PROVE StorageInv' /\ StampTold
    <2>1. /\ now' = now /\ snaps' = snaps /\ held' = held /\ home' = home /\ repo' = repo
          /\ stamp' = stamp /\ run' \in {run, "off"} /\ mounted' \in {mounted, 0}
          /\ running' \in {running, 0}
          /\ run' # "off" => mounted' = mounted
        BY <1>2 DEF PowerCut, PruneEnds, backup, restore
    <2>2. StoreInv' BY <2>1, StoreStays DEF StorageInv
    <2>3. StorageTypeOK' BY <2>1 DEF StorageInv, StorageTypeOK, StoreInv, CopyInv
    <2>4. newest_copy("kuma")' = newest_copy("kuma") BY <2>1 DEF newest_copy
    <2>5. CopyInv' BY <2>1, <2>4 DEF StorageInv, CopyInv
    <2>6. QED BY <2>1, <2>2, <2>3, <2>5 DEF StorageInv, StampTold
<1>3. ASSUME TakeSnapshot PROVE StorageInv' /\ StampTold
    <2>1. /\ now' = now + 1 /\ snaps' = snaps \cup {now + 1} /\ held' = Append(held, home)
          /\ home' = home /\ repo' = repo /\ run' = run /\ mounted' = mounted /\ stamp' = stamp
          /\ running' = running /\ now < MaxTime
        BY <1>3 DEF TakeSnapshot, backup, restore
    <2>2. /\ now \in Nat /\ held \in Seq(SUBSET Files) /\ Len(held) = now /\ home \in SUBSET Files
          /\ snaps \subseteq 1..now /\ repo \in Seq(Copy)
        BY DEF StorageInv, StorageTypeOK, StoreInv, CopyInv
    <2>3. /\ held' \in Seq(SUBSET Files) /\ Len(held') = now'
          /\ \A t \in 1..now : held'[t] = held[t]
        BY <2>1, <2>2
    <2>4. StoreInv' BY <2>1, StoreGains DEF StorageInv
    <2>5. StorageTypeOK'
        <3>1. now' \in 0..MaxTime
            BY <2>1, <2>2, StorageAssumption
        <3>2. mounted' \in 0..now' /\ stamp' \in 0..now'
            BY <2>1, <2>2 DEF StorageInv, StorageTypeOK
        <3>3. DOMAIN held' = 1..now' BY <2>3
        <3>4. snaps' \subseteq 1..now' BY <2>4 DEF StoreInv
        <3>5. QED BY <2>1, <3>1, <3>2, <3>3, <3>4 DEF StorageInv, StorageTypeOK
    <2>6. CopyInv'
        <3>1. newest_copy("kuma")' = newest_copy("kuma") BY <2>1 DEF newest_copy
        <3>2. run' \in {"copy", "forget", "stamp"} => mounted' \in 1..now /\ mounted' \in 1..now'
            BY <2>1, <2>2 DEF StorageInv, CopyInv
        <3>3. QED BY <2>1, <2>2, <2>3, <3>1, <3>2 DEF StorageInv, CopyInv
    <2>7. QED BY <2>1, <2>4, <2>5, <2>6 DEF StorageInv, StampTold
<1>4. ASSUME DeleteOne PROVE StorageInv' /\ StampTold
    <2>1. /\ now' = now /\ snaps' \subseteq snaps /\ held' = held /\ home' = home /\ repo' = repo
          /\ run' = run /\ mounted' = mounted /\ stamp' = stamp /\ running' = running
        BY <1>4 DEF DeleteOne, backup, restore
    <2>2. StoreInv' BY <1>4, StoreLoses DEF StorageInv
    <2>3. StorageTypeOK' BY <2>1 DEF StorageInv, StorageTypeOK
    <2>4. newest_copy("kuma")' = newest_copy("kuma") BY <2>1 DEF newest_copy
    <2>5. CopyInv' BY <2>1, <2>4 DEF StorageInv, CopyInv
    <2>6. QED BY <2>1, <2>2, <2>3, <2>5 DEF StorageInv, StampTold
<1>5. QED BY <1>1, <1>2, <1>3, <1>4, BackupStep DEF StorageNext

LEMMA StorageInvHolds == StorageSpec => []StorageInv /\ [][StampTold]_storageVars
<1>1. StorageInit => StorageInv
    <2> SUFFICES ASSUME StorageInit PROVE StorageInv
        OBVIOUS
    <2>1. now = 0 /\ snaps = {} /\ held = <<>> /\ run = "off" /\ mounted = 0 /\ stamp = 0
          /\ running = 0
        BY DEF StorageInit
    <2>2. StoreInv BY <2>1 DEF StoreInv, NoneTooSoon, DaysAreKept
    <2>3. home \subseteq Files /\ repo \in Seq(Copy) /\ Len(repo) <= MaxCopies
        <3>1. PICK restoring \in Restores :
                  /\ repo = IF restoring
                            THEN <<[at |-> 0, files |-> Files, tag |-> "kuma"]>> ELSE <<>>
                  /\ home = IF restoring THEN {} ELSE Files
            BY DEF StorageInit
        <3>2. [at |-> 0, files |-> Files, tag |-> "kuma"] \in Copy BY DEF Copy
        <3>3. restoring \in BOOLEAN /\ MaxCopies \in Nat /\ (TRUE \in Restores => MaxCopies > 0)
            BY StorageAssumption
        <3>4. CASE restoring = TRUE
            <4>1. MaxCopies > 0 BY <3>3, <3>4
            <4>2. QED BY <3>1, <3>2, <3>3, <3>4, <4>1
        <3>5. CASE restoring = FALSE BY <3>1, <3>3, <3>5
        <3>6. QED BY <3>3, <3>4, <3>5
    <2>4. Len(repo) \in Nat /\ \A i \in 1..Len(repo) : repo[i] \in Copy BY <2>3
    <2>5. StorageTypeOK BY <2>1, <2>3, <2>4, StorageAssumption DEF StorageTypeOK
    <2>6. CopyInv BY <2>1, <2>3 DEF CopyInv
    <2>7. QED BY <2>2, <2>5, <2>6 DEF StorageInv
<1>2. StorageInv /\ [StorageNext]_storageVars => StorageInv'
    <2>1. CASE UNCHANGED storageVars
        <3>1. StorageInv => StorageInv'
            BY <2>1, StorageFrame DEF storageVars, store, backup, StorageInv, StorageTypeOK
        <3>2. QED BY <3>1
    <2>2. QED BY <2>1, StorageStep
<1>3. StorageInv /\ [StorageNext]_storageVars => [StampTold]_storageVars BY StorageStep
<1>4. QED BY <1>1, <1>2, <1>3, PTL DEF StorageSpec

\* Whatever the unit, the repository, the owner and the power do, the state of
\* snapshots and backups stays in its types: a snapshot in the store has what
\* it held, a restore reads a copy there is.
THEOREM StorageTypeHolds == StorageSpec => []StorageTypeOK
<1>1. StorageInv => StorageTypeOK BY DEF StorageInv
<1>2. QED BY <1>1, StorageInvHolds, PTL

\* keep_daily buys the further days and the stamp stands for a copy, for every
\* policy, number of snapshots to a day, and point at which a prune or a
\* backup is cut short.
THEOREM CopiesStayKept == StorageSpec => CopiesAreKept
<1>1. StorageInv => DaysAreKept BY DEF StorageInv, StoreInv
<1>2. StampTold <=> (stamp' # stamp =>
                         \E i \in newest_copy("kuma") : repo[i].files = held[stamp'])
    BY DEF StampTold
<1>3. [][StampTold]_storageVars <=> StampMeansCopied BY <1>2, PTL DEF StampMeansCopied
<1>4. QED BY <1>1, <1>3, StorageInvHolds, PTL DEF CopiesAreKept

-----------------------------------------------------------------------------
(* Images.  The registry is a table, and each of its rows keeps to the same  *)
(* few rules; the walk leaves what the open rows add, so what an image has   *)
(* follows row by row.                                                       *)

\* The names a block copies, and the places it fills.
names(b) == {f.name : f \in b.copies}
places(b) == b.installs \union {f.at : f \in b.copies}

\* A block that copies what it stages and the names of `more`, tries nothing,
\* and has these units enabled and these places filled.
Fits(b, more, system, global, at) ==
    /\ b.disable = {} /\ b.tests = {}
    /\ b.stages \subseteq names(b) /\ names(b) \subseteq b.stages \union more
    /\ b.system = system /\ b.global = global
    /\ at \subseteq places(b)

\* What is copied to a place under its own name is named and there.
LEMMA Taken ==
    ASSUME NEW b, NEW place, NEW S, to(place, S) \subseteq b.copies
    PROVE  \A n \in S : n \in names(b) /\ <<place, n>> \in places(b)
<1> SUFFICES ASSUME NEW n \in S PROVE n \in names(b) /\ <<place, n>> \in places(b)
  OBVIOUS
<1> DEFINE f == [name |-> n, at |-> <<place, n>>]
<1>1. f \in to(place, S) /\ f.at = <<place, n>> /\ f.name = n
  BY DEF to
<1> HIDE DEF f
<1> QED BY <1>1 DEF places, names

\* A block that copies what it stages, and one that copies more.
LEMMA Named ==
    ASSUME NEW b, NEW X, b.copies = X, b.stages = {f.name : f \in X}
    PROVE  names(b) = b.stages
BY DEF names

LEMMA NamedAnd ==
    ASSUME NEW b, NEW X, NEW place, NEW S,
           b.copies = X \union to(place, S), b.stages = {f.name : f \in X}
    PROVE  b.stages \subseteq names(b) /\ names(b) \subseteq b.stages \union S
<1>1. \A f \in to(place, S) : f.name \in S
  BY DEF to
<1> QED BY <1>1 DEF names

\* The blocks, one by one.
LEMMA NiriIs ==
    ASSUME NEW c
    PROVE  /\ Fits(desktop_niri(c), {"kuma-shell"},
                   {"kuma-sleep-guard.service", "greetd.service"}, {"kuma-shell.service"},
                   {<<"system", "kuma-sleep-guard.service">>,
                    <<"libexec", "kuma-sleep-guard">>,
                    <<"user", "kuma-shell.service">>, <<"bin", "kuma-shell">>})
           /\ common \subseteq names(desktop_niri(c))
<1> DEFINE b == desktop_niri(c)
           A == to("etc", {"greetd-config.toml", "niri-binds.kdl", "mimeapps.list",
                           "kuma-lock"} \union common)
           B == to("libexec", {"kuma-sleep-guard", "kuma-record", "kuma-battery-watch"})
           C == to("system", {"kuma-sleep-guard.service"})
           D == to("user", {"kuma-shell.service"})
           X == A \union B \union C \union D
           E == to("bin", {"kuma-shell"})
<1>1. /\ b.copies = X \union E /\ b.stages = {f.name : f \in X}
      /\ b.disable = {} /\ b.tests = {}
      /\ b.system = {"kuma-sleep-guard.service", "greetd.service"}
      /\ b.global = {"kuma-shell.service"}
  BY DEF desktop_niri, ships, Nothing
<1> HIDE DEF b
<1>2. b.stages \subseteq names(b) /\ names(b) \subseteq b.stages \union {"kuma-shell"}
  <2> HIDE DEF X
  <2> QED BY <1>1, NamedAnd
<1>3. /\ common \subseteq names(b)
      /\ <<"system", "kuma-sleep-guard.service">> \in places(b)
      /\ <<"libexec", "kuma-sleep-guard">> \in places(b)
      /\ <<"user", "kuma-shell.service">> \in places(b)
      /\ <<"bin", "kuma-shell">> \in places(b)
  <2>1. A \subseteq b.copies /\ B \subseteq b.copies /\ C \subseteq b.copies /\ D \subseteq b.copies /\ E \subseteq b.copies
    <3> HIDE DEF A, B, C, D, E
    <3> QED BY <1>1
  <2>2. common \subseteq names(b)
    <3>1. A \subseteq b.copies
      BY <2>1
    <3> QED BY <3>1, Taken
  <2>3. <<"system", "kuma-sleep-guard.service">> \in places(b)
    BY <2>1, Taken
  <2>4. <<"libexec", "kuma-sleep-guard">> \in places(b)
    BY <2>1, Taken
  <2>5. <<"user", "kuma-shell.service">> \in places(b)
    BY <2>1, Taken
  <2>6. <<"bin", "kuma-shell">> \in places(b)
    BY <2>1, Taken
  <2> QED BY <2>2, <2>3, <2>4, <2>5, <2>6
<1> QED BY <1>1, <1>2, <1>3 DEF Fits, b

LEMMA CosmicIs ==
    ASSUME NEW c
    PROVE  /\ Fits(desktop_cosmic(c), {},
                   {"cosmic-greeter.service"}, {},
                   {})
           /\ common \subseteq names(desktop_cosmic(c))
<1> DEFINE b == desktop_cosmic(c)
           A == to("etc", {"cosmic-favorites", "cosmic-background"} \union common)
<1>1. /\ b.copies = A /\ b.stages = {f.name : f \in A}
      /\ b.disable = {} /\ b.tests = {}
      /\ b.system = {"cosmic-greeter.service"}
      /\ b.global = {}
  BY DEF desktop_cosmic, ships, Nothing
<1> HIDE DEF b
<1>2. b.stages \subseteq names(b) /\ names(b) \subseteq b.stages \union {}
  <2> HIDE DEF A
  <2> QED BY <1>1, Named
<1>3. /\ common \subseteq names(b)
  <2>1. A \subseteq b.copies
    <3> HIDE DEF A
    <3> QED BY <1>1
  <2>2. common \subseteq names(b)
    BY <2>1, Taken
  <2> QED BY <2>2
<1> QED BY <1>1, <1>2, <1>3 DEF Fits, b

LEMMA FlatpakIs ==
    ASSUME NEW c
    PROVE  Fits(flatpak_sync(c), {},
                {"kuma-flatpak-sync.service", "kuma-flatpak-sync.timer",
                 "kuma-flatpak-overrides.service"}, {"kuma-flatpak-overrides.service"},
                {<<"system", "kuma-flatpak-sync.service">>,
                 <<"system", "kuma-flatpak-sync.timer">>,
                 <<"system", "kuma-flatpak-sync-daily.service">>,
                 <<"system", "kuma-flatpak-overrides.service">>,
                 <<"user", "kuma-flatpak-overrides.service">>,
                 <<"libexec", "kuma-flatpak-sync">>,
                 <<"libexec", "kuma-converge-gate">>})
<1> DEFINE b == flatpak_sync(c)
           A == to("lib", {"flatpaks", "overrides"})
           B == to("libexec", {"kuma-flatpak-sync", "kuma-converge-gate"})
           C == to("system", {"kuma-flatpak-sync.service", "kuma-flatpak-sync.timer",
                              "kuma-flatpak-sync-daily.service",
                              "kuma-flatpak-overrides.service"})
           D == {[name |-> "kuma-flatpak-overrides-user.service",
                  at |-> <<"user", "kuma-flatpak-overrides.service">>]}
           X == A \union B \union C \union D
<1>1. /\ b.copies = X /\ b.stages = {f.name : f \in X}
      /\ b.disable = {} /\ b.tests = {}
      /\ b.system = {"kuma-flatpak-sync.service", "kuma-flatpak-sync.timer",
                     "kuma-flatpak-overrides.service"}
      /\ b.global = {"kuma-flatpak-overrides.service"}
  BY DEF flatpak_sync, ships, Nothing
<1> HIDE DEF b
<1>2. b.stages \subseteq names(b) /\ names(b) \subseteq b.stages \union {}
  <2> HIDE DEF X
  <2> QED BY <1>1, Named
<1>3. /\ <<"system", "kuma-flatpak-sync.service">> \in places(b)
      /\ <<"system", "kuma-flatpak-sync.timer">> \in places(b)
      /\ <<"system", "kuma-flatpak-sync-daily.service">> \in places(b)
      /\ <<"system", "kuma-flatpak-overrides.service">> \in places(b)
      /\ <<"user", "kuma-flatpak-overrides.service">> \in places(b)
      /\ <<"libexec", "kuma-flatpak-sync">> \in places(b)
      /\ <<"libexec", "kuma-converge-gate">> \in places(b)
  <2>1. A \subseteq b.copies /\ B \subseteq b.copies /\ C \subseteq b.copies /\ D \subseteq b.copies
    <3> HIDE DEF A, B, C, D
    <3> QED BY <1>1
  <2>2. <<"system", "kuma-flatpak-sync.service">> \in places(b)
    BY <2>1, Taken
  <2>3. <<"system", "kuma-flatpak-sync.timer">> \in places(b)
    BY <2>1, Taken
  <2>4. <<"system", "kuma-flatpak-sync-daily.service">> \in places(b)
    BY <2>1, Taken
  <2>5. <<"system", "kuma-flatpak-overrides.service">> \in places(b)
    BY <2>1, Taken
  <2>6. <<"user", "kuma-flatpak-overrides.service">> \in places(b)
    <3>1. D \subseteq b.copies
      BY <2>1
    <3> QED BY <3>1 DEF places
  <2>7. <<"libexec", "kuma-flatpak-sync">> \in places(b)
    BY <2>1, Taken
  <2>8. <<"libexec", "kuma-converge-gate">> \in places(b)
    BY <2>1, Taken
  <2> QED BY <2>2, <2>3, <2>4, <2>5, <2>6, <2>7, <2>8
<1> QED BY <1>1, <1>2, <1>3 DEF Fits, b

LEMMA BrewIs ==
    ASSUME NEW c
    PROVE  Fits(brew(c), {},
                {"kuma-brew-setup.service", "kuma-brew-sync.service",
                 "kuma-brew-sync.timer"}, {},
                {<<"system", "kuma-brew-setup.service">>,
                 <<"system", "kuma-brew-sync.service">>,
                 <<"system", "kuma-brew-sync.timer">>,
                 <<"system", "kuma-brew-sync-daily.service">>,
                 <<"libexec", "kuma-brew-setup">>, <<"libexec", "kuma-brew-sync">>,
                 <<"libexec", "kuma-converge-gate">>})
<1> DEFINE b == brew(c)
           A == to("lib", {"brews"})
           B == to("libexec", {"kuma-brew-setup", "kuma-brew-sync",
                               "kuma-converge-gate"})
           C == to("system", {"kuma-brew-setup.service", "kuma-brew-sync.service",
                              "kuma-brew-sync.timer", "kuma-brew-sync-daily.service"})
           X == A \union B \union C
<1>1. /\ b.copies = X /\ b.stages = {f.name : f \in X}
      /\ b.disable = {} /\ b.tests = {}
      /\ b.system = {"kuma-brew-setup.service", "kuma-brew-sync.service",
                     "kuma-brew-sync.timer"}
      /\ b.global = {}
  BY DEF brew, ships, Nothing
<1> HIDE DEF b
<1>2. b.stages \subseteq names(b) /\ names(b) \subseteq b.stages \union {}
  <2> HIDE DEF X
  <2> QED BY <1>1, Named
<1>3. /\ <<"system", "kuma-brew-setup.service">> \in places(b)
      /\ <<"system", "kuma-brew-sync.service">> \in places(b)
      /\ <<"system", "kuma-brew-sync.timer">> \in places(b)
      /\ <<"system", "kuma-brew-sync-daily.service">> \in places(b)
      /\ <<"libexec", "kuma-brew-setup">> \in places(b)
      /\ <<"libexec", "kuma-brew-sync">> \in places(b)
      /\ <<"libexec", "kuma-converge-gate">> \in places(b)
  <2>1. A \subseteq b.copies /\ B \subseteq b.copies /\ C \subseteq b.copies
    <3> HIDE DEF A, B, C
    <3> QED BY <1>1
  <2>2. <<"system", "kuma-brew-setup.service">> \in places(b)
    BY <2>1, Taken
  <2>3. <<"system", "kuma-brew-sync.service">> \in places(b)
    BY <2>1, Taken
  <2>4. <<"system", "kuma-brew-sync.timer">> \in places(b)
    BY <2>1, Taken
  <2>5. <<"system", "kuma-brew-sync-daily.service">> \in places(b)
    BY <2>1, Taken
  <2>6. <<"libexec", "kuma-brew-setup">> \in places(b)
    BY <2>1, Taken
  <2>7. <<"libexec", "kuma-brew-sync">> \in places(b)
    BY <2>1, Taken
  <2>8. <<"libexec", "kuma-converge-gate">> \in places(b)
    BY <2>1, Taken
  <2> QED BY <2>2, <2>3, <2>4, <2>5, <2>6, <2>7, <2>8
<1> QED BY <1>1, <1>2, <1>3 DEF Fits, b

LEMMA HealthIs ==
    ASSUME NEW c
    PROVE  Fits(boot_health(c), {},
                {"greenboot-healthcheck.service",
                 "greenboot-set-rollback-trigger.service",
                 "kuma-boot-health-sync.service", "kuma-fstab-sync.service",
                 "kuma-boot-titles.service", "kuma-swap-label.service"}, {},
                {<<"system", "kuma-boot-health-sync.service">>,
                 <<"system", "kuma-fstab-sync.service">>,
                 <<"system", "kuma-boot-titles.service">>,
                 <<"system", "kuma-swap-label.service">>,
                 <<"libexec", "kuma-boot-health-sync">>,
                 <<"libexec", "kuma-fstab-sync">>})
<1> DEFINE b == boot_health(c)
           A == to("libexec", {"kuma-boot-health-sync", "kuma-fstab-sync"})
           B == to("system", {"kuma-boot-health-sync.service",
                              "kuma-fstab-sync.service", "kuma-boot-titles.service",
                              "kuma-swap-label.service"})
           X == A \union B
<1>1. /\ b.copies = X /\ b.stages = {f.name : f \in X}
      /\ b.disable = {} /\ b.tests = {}
      /\ b.system = {"greenboot-healthcheck.service",
                     "greenboot-set-rollback-trigger.service",
                     "kuma-boot-health-sync.service", "kuma-fstab-sync.service",
                     "kuma-boot-titles.service", "kuma-swap-label.service"}
      /\ b.global = {}
  BY DEF boot_health, ships, Nothing
<1> HIDE DEF b
<1>2. b.stages \subseteq names(b) /\ names(b) \subseteq b.stages \union {}
  <2> HIDE DEF X
  <2> QED BY <1>1, Named
<1>3. /\ <<"system", "kuma-boot-health-sync.service">> \in places(b)
      /\ <<"system", "kuma-fstab-sync.service">> \in places(b)
      /\ <<"system", "kuma-boot-titles.service">> \in places(b)
      /\ <<"system", "kuma-swap-label.service">> \in places(b)
      /\ <<"libexec", "kuma-boot-health-sync">> \in places(b)
      /\ <<"libexec", "kuma-fstab-sync">> \in places(b)
  <2>1. A \subseteq b.copies /\ B \subseteq b.copies
    <3> HIDE DEF A, B
    <3> QED BY <1>1
  <2>2. <<"system", "kuma-boot-health-sync.service">> \in places(b)
    BY <2>1, Taken
  <2>3. <<"system", "kuma-fstab-sync.service">> \in places(b)
    BY <2>1, Taken
  <2>4. <<"system", "kuma-boot-titles.service">> \in places(b)
    BY <2>1, Taken
  <2>5. <<"system", "kuma-swap-label.service">> \in places(b)
    BY <2>1, Taken
  <2>6. <<"libexec", "kuma-boot-health-sync">> \in places(b)
    BY <2>1, Taken
  <2>7. <<"libexec", "kuma-fstab-sync">> \in places(b)
    BY <2>1, Taken
  <2> QED BY <2>2, <2>3, <2>4, <2>5, <2>6, <2>7
<1> QED BY <1>1, <1>2, <1>3 DEF Fits, b

LEMMA SignatureIs ==
    ASSUME NEW c
    PROVE  Fits(signature(c), {},
                {}, {},
                {})
<1> DEFINE b == signature(c)
           A == to("etc", {"cosign.pub", "containers-policy.json",
                           "kuma-sigstore.yaml"})
<1>1. /\ b.copies = A /\ b.stages = {f.name : f \in A}
      /\ b.disable = {} /\ b.tests = {}
      /\ b.system = {}
      /\ b.global = {}
  BY DEF signature, ships, Nothing
<1> HIDE DEF b
<1>2. b.stages \subseteq names(b) /\ names(b) \subseteq b.stages \union {}
  <2> HIDE DEF A
  <2> QED BY <1>1, Named
<1> QED BY <1>1, <1>2 DEF Fits, b

LEMMA SnapshotsIs ==
    ASSUME NEW c
    PROVE  Fits(snapshots(c), {},
                {"kuma-snapshot.timer"}, {},
                {<<"system", "kuma-snapshot.service">>,
                 <<"system", "kuma-snapshot.timer">>, <<"libexec", "kuma-snapshot">>})
<1> DEFINE b == snapshots(c)
           A == to("libexec", {"kuma-snapshot"})
           B == to("system", {"kuma-snapshot.service", "kuma-snapshot.timer"})
           X == A \union B
<1>1. /\ b.copies = X /\ b.stages = {f.name : f \in X}
      /\ b.disable = {} /\ b.tests = {}
      /\ b.system = {"kuma-snapshot.timer"}
      /\ b.global = {}
  BY DEF snapshots, ships, Nothing
<1> HIDE DEF b
<1>2. b.stages \subseteq names(b) /\ names(b) \subseteq b.stages \union {}
  <2> HIDE DEF X
  <2> QED BY <1>1, Named
<1>3. /\ <<"system", "kuma-snapshot.service">> \in places(b)
      /\ <<"system", "kuma-snapshot.timer">> \in places(b)
      /\ <<"libexec", "kuma-snapshot">> \in places(b)
  <2>1. A \subseteq b.copies /\ B \subseteq b.copies
    <3> HIDE DEF A, B
    <3> QED BY <1>1
  <2>2. <<"system", "kuma-snapshot.service">> \in places(b)
    BY <2>1, Taken
  <2>3. <<"system", "kuma-snapshot.timer">> \in places(b)
    BY <2>1, Taken
  <2>4. <<"libexec", "kuma-snapshot">> \in places(b)
    BY <2>1, Taken
  <2> QED BY <2>2, <2>3, <2>4
<1> QED BY <1>1, <1>2, <1>3 DEF Fits, b

LEMMA BackupIs ==
    ASSUME NEW c
    PROVE  Fits(backup_block(c), {},
                {"kuma-backup.timer", "kuma-restore.service"}, {},
                {<<"system", "kuma-backup.service">>,
                 <<"system", "kuma-backup.timer">>,
                 <<"system", "kuma-restore.service">>, <<"libexec", "kuma-backup">>,
                 <<"libexec", "kuma-restore">>})
<1> DEFINE b == backup_block(c)
           A == to("libexec", {"kuma-backup", "kuma-restore"})
           B == to("system", {"kuma-backup.service", "kuma-backup.timer",
                              "kuma-restore.service"})
           X == A \union B
<1>1. /\ b.copies = X /\ b.stages = {f.name : f \in X}
      /\ b.disable = {} /\ b.tests = {}
      /\ b.system = {"kuma-backup.timer", "kuma-restore.service"}
      /\ b.global = {}
  BY DEF backup_block, ships, Nothing
<1> HIDE DEF b
<1>2. b.stages \subseteq names(b) /\ names(b) \subseteq b.stages \union {}
  <2> HIDE DEF X
  <2> QED BY <1>1, Named
<1>3. /\ <<"system", "kuma-backup.service">> \in places(b)
      /\ <<"system", "kuma-backup.timer">> \in places(b)
      /\ <<"system", "kuma-restore.service">> \in places(b)
      /\ <<"libexec", "kuma-backup">> \in places(b)
      /\ <<"libexec", "kuma-restore">> \in places(b)
  <2>1. A \subseteq b.copies /\ B \subseteq b.copies
    <3> HIDE DEF A, B
    <3> QED BY <1>1
  <2>2. <<"system", "kuma-backup.service">> \in places(b)
    BY <2>1, Taken
  <2>3. <<"system", "kuma-backup.timer">> \in places(b)
    BY <2>1, Taken
  <2>4. <<"system", "kuma-restore.service">> \in places(b)
    BY <2>1, Taken
  <2>5. <<"libexec", "kuma-backup">> \in places(b)
    BY <2>1, Taken
  <2>6. <<"libexec", "kuma-restore">> \in places(b)
    BY <2>1, Taken
  <2> QED BY <2>2, <2>3, <2>4, <2>5, <2>6
<1> QED BY <1>1, <1>2, <1>3 DEF Fits, b

LEMMA TimezoneIs ==
    ASSUME NEW c
    PROVE  Fits(vm_timezone(c), {},
                {"kuma-vm-timezone.service"}, {},
                {<<"system", "kuma-vm-timezone.service">>,
                 <<"libexec", "kuma-vm-timezone">>})
<1> DEFINE b == vm_timezone(c)
           A == to("libexec", {"kuma-vm-timezone"})
           B == to("system", {"kuma-vm-timezone.service"})
           X == A \union B
<1>1. /\ b.copies = X /\ b.stages = {f.name : f \in X}
      /\ b.disable = {} /\ b.tests = {}
      /\ b.system = {"kuma-vm-timezone.service"}
      /\ b.global = {}
  BY DEF vm_timezone, ships, Nothing
<1> HIDE DEF b
<1>2. b.stages \subseteq names(b) /\ names(b) \subseteq b.stages \union {}
  <2> HIDE DEF X
  <2> QED BY <1>1, Named
<1>3. /\ <<"system", "kuma-vm-timezone.service">> \in places(b)
      /\ <<"libexec", "kuma-vm-timezone">> \in places(b)
  <2>1. A \subseteq b.copies /\ B \subseteq b.copies
    <3> HIDE DEF A, B
    <3> QED BY <1>1
  <2>2. <<"system", "kuma-vm-timezone.service">> \in places(b)
    BY <2>1, Taken
  <2>3. <<"libexec", "kuma-vm-timezone">> \in places(b)
    BY <2>1, Taken
  <2> QED BY <2>2, <2>3
<1> QED BY <1>1, <1>2, <1>3 DEF Fits, b

LEMMA SubvolIs ==
    ASSUME NEW c
    PROVE  Fits(home_subvol(c), {},
                {"kuma-home-subvol.service"}, {},
                {<<"system", "kuma-home-subvol.service">>,
                 <<"libexec", "kuma-home-subvol">>})
<1> DEFINE b == home_subvol(c)
           A == to("libexec", {"kuma-home-subvol"})
           B == to("system", {"kuma-home-subvol.service"})
           X == A \union B
<1>1. /\ b.copies = X /\ b.stages = {f.name : f \in X}
      /\ b.disable = {} /\ b.tests = {}
      /\ b.system = {"kuma-home-subvol.service"}
      /\ b.global = {}
  BY DEF home_subvol, ships, Nothing
<1> HIDE DEF b
<1>2. b.stages \subseteq names(b) /\ names(b) \subseteq b.stages \union {}
  <2> HIDE DEF X
  <2> QED BY <1>1, Named
<1>3. /\ <<"system", "kuma-home-subvol.service">> \in places(b)
      /\ <<"libexec", "kuma-home-subvol">> \in places(b)
  <2>1. A \subseteq b.copies /\ B \subseteq b.copies
    <3> HIDE DEF A, B
    <3> QED BY <1>1
  <2>2. <<"system", "kuma-home-subvol.service">> \in places(b)
    BY <2>1, Taken
  <2>3. <<"libexec", "kuma-home-subvol">> \in places(b)
    BY <2>1, Taken
  <2> QED BY <2>2, <2>3
<1> QED BY <1>1, <1>2, <1>3 DEF Fits, b

LEMMA HostnameIs ==
    ASSUME NEW c
    PROVE  Fits(hostname_block(c), {},
                {}, {},
                {})
<1> DEFINE b == hostname_block(c)
           A == to("etc", {"hostname"})
<1>1. /\ b.copies = A /\ b.stages = {f.name : f \in A}
      /\ b.disable = {} /\ b.tests = {}
      /\ b.system = {}
      /\ b.global = {}
  BY DEF hostname_block, ships, Nothing
<1> HIDE DEF b
<1>2. b.stages \subseteq names(b) /\ names(b) \subseteq b.stages \union {}
  <2> HIDE DEF A
  <2> QED BY <1>1, Named
<1> QED BY <1>1, <1>2 DEF Fits, b
\* The desktop-common files are staged here and copied by the desktop's arm.
LEMMA GreeterIs ==
    ASSUME NEW c
    PROVE  LET b == greeter_seam(c) IN
           /\ b.disable = {} /\ b.tests = {} /\ b.system = {} /\ b.global = {}
           /\ b.stages \subseteq names(b) \union common /\ names(b) \subseteq b.stages
<1> DEFINE b == greeter_seam(c)
           X == to("libexec", {"kuma-greeter-check", "kuma-launch"}) \union
                to("etc", {"kuma-doctor.desktop"})
<1>1. /\ b.copies = X /\ b.stages = {f.name : f \in X} \union common
      /\ b.disable = {} /\ b.tests = {} /\ b.system = {} /\ b.global = {}
  BY DEF greeter_seam, ships, Nothing
<1> HIDE DEF b, X
<1>2. b.stages \subseteq names(b) \union common /\ names(b) \subseteq b.stages
  BY <1>1 DEF names
<1> QED BY <1>1, <1>2 DEF b

LEMMA RpmIs ==
    ASSUME NEW c
    PROVE  /\ Fits(rpm(c), {}, {}, {}, {})
           /\ c.fish => <<"bin", "fish">> \in places(rpm(c))
BY DEF rpm, Nothing, Fits, names, places

LEMMA SshdIs == ASSUME NEW c PROVE Fits(sshd(c), {}, {"sshd.service"}, {}, {})
BY DEF sshd, Nothing, Fits, names, places

LEMMA ServicesIs ==
    ASSUME NEW c
    PROVE  LET b == services(c) IN
           /\ b.stages = {} /\ names(b) = {} /\ b.tests = {}
           /\ b.system = c.enable /\ b.global = {} /\ b.disable = c.disable
BY DEF services, Nothing, names

LEMMA FwupdIs == ASSUME NEW c PROVE Fits(fwupd(c), {}, {"fwupd-refresh.timer"}, {}, {})
BY DEF fwupd, Nothing, Fits, names, places

LEMMA UserIs ==
    ASSUME NEW c
    PROVE  LET b == user_block(c) IN
           /\ b.disable = {} /\ b.tests = (IF c.shell THEN {<<"bin", "fish">>} ELSE {})
           /\ b.stages = names(b)
           /\ b.system = {"kuma-user-sync.service"} /\ b.global = {}
           /\ <<"system", "kuma-user-sync.service">> \in places(b)
           /\ <<"libexec", "kuma-user-sync">> \in places(b)
<1> DEFINE b == user_block(c)
           A == to("libexec", {"kuma-user-sync"})
           B == to("system", {"kuma-user-sync.service"})
           X == A \union B
<1>1. /\ b.copies = X /\ b.stages = {f.name : f \in X}
      /\ b.disable = {} /\ b.tests = (IF c.shell THEN {<<"bin", "fish">>} ELSE {})
      /\ b.system = {"kuma-user-sync.service"} /\ b.global = {}
  BY DEF user_block, ships, Nothing
<1> HIDE DEF b
<1>2. b.stages = names(b)
  <2> HIDE DEF X
  <2> QED BY <1>1, Named
<1>3. /\ <<"system", "kuma-user-sync.service">> \in places(b)
      /\ <<"libexec", "kuma-user-sync">> \in places(b)
  <2>1. A \subseteq b.copies /\ B \subseteq b.copies
    BY <1>1
  <2> QED BY <2>1, Taken
<1> QED BY <1>1, <1>2, <1>3 DEF b

LEMMA BinaryIs ==
    ASSUME NEW c
    PROVE  LET b == kuma_binary(c) IN
           /\ b.disable = {} /\ b.tests = {<<"bin", "kuma">>} /\ b.tests \subseteq places(b)
           /\ b.stages = {} /\ names(b) = {"kuma"} /\ b.system = {} /\ b.global = {}
<1> DEFINE b == kuma_binary(c)
           A == to("bin", {"kuma"})
<1>1. /\ b.copies = A /\ b.stages = {} /\ b.tests = {<<"bin", "kuma">>}
      /\ b.disable = {} /\ b.system = {} /\ b.global = {}
  BY DEF kuma_binary, Nothing
<1> HIDE DEF b
<1>2. <<"bin", "kuma">> \in places(b) /\ "kuma" \in names(b)
  BY <1>1, Taken
<1>3. \A f \in A : f.name = "kuma"
  BY DEF to
<1>4. names(b) \subseteq {"kuma"}
  BY <1>1, <1>3 DEF names
<1> QED BY <1>1, <1>2, <1>4 DEF b

LEMMA DeclarationIs ==
    ASSUME NEW c
    PROVE  LET b == declaration(c) IN
           /\ b.disable = {} /\ b.tests = {} /\ b.stages = {} /\ names(b) \subseteq {"kuma.toml"}
           /\ b.system = {} /\ b.global = {}
<1> DEFINE b == declaration(c)
           A == to("lib", {"kuma.toml"})
<1>1. /\ b.copies = A /\ b.stages = {} /\ b.tests = {}
      /\ b.disable = {} /\ b.system = {} /\ b.global = {}
  BY DEF declaration, Nothing
<1> HIDE DEF b
<1>2. \A f \in A : f.name = "kuma.toml"
  BY DEF to
<1>3. names(b) \subseteq {"kuma.toml"}
  BY <1>1, <1>2 DEF names
<1> QED BY <1>1, <1>3 DEF b

LEMMA NostrIs ==
    ASSUME NEW c
    PROVE  LET b == nostr(c)
               owned_units == {"kuma-nostrd.service"} \union
                        (IF c.relay THEN {"nip46-relay.service"} ELSE {})
               bins == {"kuma-nostrd", "kuma-nostr"} \union
                        (IF c.relay THEN {"nip46-relay"} ELSE {})
               served == IF serves(c) THEN {"kuma-nostr-serve.service"} ELSE {}
           IN  /\ Fits(b, bins, served, owned_units, {})
               /\ \A u \in owned_units : <<"user", u>> \in places(b)
               /\ \A p \in bins : <<"bin", p>> \in places(b)
               /\ serves(c) => /\ <<"system", "kuma-nostr-serve.service">> \in places(b)
                              /\ <<"libexec", "kuma-nostr-serve">> \in places(b)
<1> DEFINE b == nostr(c)
           owned_units == {"kuma-nostrd.service"} \union
                    (IF c.relay THEN {"nip46-relay.service"} ELSE {})
           A == to("user", owned_units)
           C == to("libexec", {"kuma-nostr-serve"})
           D == to("system", {"kuma-nostr-serve.service"})
           X == A \union to("etc", {"kuma-nostr-panel.desktop"}) \union
                    (IF serves(c) THEN C \union D ELSE {})
           bins == {"kuma-nostrd", "kuma-nostr"} \union
                    (IF c.relay THEN {"nip46-relay"} ELSE {})
           E == to("bin", bins)
           served == IF serves(c) THEN {"kuma-nostr-serve.service"} ELSE {}
<1>1. /\ b.copies = X \union E /\ b.stages = {f.name : f \in X}
      /\ b.disable = {} /\ b.tests = {} /\ b.system = served /\ b.global = owned_units
  BY DEF nostr, ships, Nothing
<1> HIDE DEF b, owned_units, bins, served
<1>2. b.stages \subseteq names(b) /\ names(b) \subseteq b.stages \union bins
  <2> HIDE DEF X
  <2> QED BY <1>1, NamedAnd
<1>3. /\ \A u \in owned_units : <<"user", u>> \in places(b)
      /\ \A p \in bins : <<"bin", p>> \in places(b)
      /\ serves(c) => /\ <<"system", "kuma-nostr-serve.service">> \in places(b)
                     /\ <<"libexec", "kuma-nostr-serve">> \in places(b)
  <2>1. A \subseteq b.copies /\ E \subseteq b.copies
        /\ (serves(c) => C \subseteq b.copies /\ D \subseteq b.copies)
    <3> HIDE DEF A, C, D, E
    <3> QED BY <1>1
  <2>2. \A u \in owned_units : <<"user", u>> \in places(b)
    BY <2>1, Taken
  <2>3. \A p \in bins : <<"bin", p>> \in places(b)
    BY <2>1, Taken
  <2>4. serves(c) => <<"system", "kuma-nostr-serve.service">> \in places(b)
    BY <2>1, Taken
  <2>5. serves(c) => <<"libexec", "kuma-nostr-serve">> \in places(b)
    BY <2>1, Taken
  <2> QED BY <2>2, <2>3, <2>4, <2>5
<1>4. Fits(b, bins, served, owned_units, {})
  BY <1>1, <1>2 DEF Fits
<1> QED BY <1>3, <1>4 DEF b, owned_units, bins, served
gate(c, i) == BLOCKS(c)[i].gate
Block(c, i) == BLOCKS(c)[i].block

\* The rows of the registry.
LEMMA TheRows ==
    ASSUME NEW c
    PROVE  /\ Block(c, 1) = desktop_niri(c) /\ gate(c, 1) = (c.desktop = "niri")
           /\ Block(c, 2) = desktop_cosmic(c) /\ gate(c, 2) = (c.desktop = "cosmic")
           /\ Block(c, 3) = flatpak_sync(c) /\ gate(c, 3) = wants_flatpak(c)
           /\ Block(c, 4) = brew(c) /\ gate(c, 4) = wants_brew(c)
           /\ Block(c, 5) = rpm(c) /\ gate(c, 5) = TRUE
           /\ Block(c, 6) = sshd(c) /\ gate(c, 6) = TRUE
           /\ Block(c, 7) = services(c) /\ gate(c, 7) = TRUE
           /\ Block(c, 8) = greeter_seam(c) /\ gate(c, 8) = (c.desktop # "none")
           /\ Block(c, 9) = boot_health(c) /\ gate(c, 9) = TRUE
           /\ Block(c, 10) = signature(c) /\ gate(c, 10) = TRUE
           /\ Block(c, 11) = fwupd(c) /\ gate(c, 11) = TRUE
           /\ Block(c, 12) = snapshots(c) /\ gate(c, 12) = c.snapshots
           /\ Block(c, 13) = backup_block(c) /\ gate(c, 13) = c.backup
           /\ Block(c, 14) = nostr(c) /\ gate(c, 14) = c.nostr
           /\ Block(c, 15) = vm_timezone(c) /\ gate(c, 15) = TRUE
           /\ Block(c, 16) = home_subvol(c) /\ gate(c, 16) = TRUE
           /\ Block(c, 17) = user_block(c) /\ gate(c, 17) = TRUE
           /\ Block(c, 18) = hostname_block(c) /\ gate(c, 18) = TRUE
           /\ Block(c, 19) = kuma_binary(c) /\ gate(c, 19) = TRUE
           /\ Block(c, 20) = declaration(c) /\ gate(c, 20) = TRUE
BY DEF BLOCKS, row, gate, Block

\* The units a row answers for.
LEMMA TheUnits ==
    ASSUME NEW c
    PROVE  /\ {"kuma-shell.service", "kuma-sleep-guard.service"} \subseteq DOMAIN BLOCKS(c)[1].units
           /\ {"kuma-flatpak-sync.service", "kuma-flatpak-sync.timer",
               "kuma-flatpak-overrides.service"} \subseteq DOMAIN BLOCKS(c)[3].units
           /\ {"kuma-brew-setup.service", "kuma-brew-sync.service",
               "kuma-brew-sync.timer"} \subseteq DOMAIN BLOCKS(c)[4].units
           /\ {"greenboot-healthcheck.service", "greenboot-set-rollback-trigger.service",
               "kuma-boot-health-sync.service", "kuma-fstab-sync.service",
               "kuma-boot-titles.service", "kuma-swap-label.service"}
                  \subseteq DOMAIN BLOCKS(c)[9].units
           /\ {"kuma-snapshot.timer"} \subseteq DOMAIN BLOCKS(c)[12].units
           /\ {"kuma-backup.timer", "kuma-restore.service"} \subseteq DOMAIN BLOCKS(c)[13].units
           /\ {"kuma-nostrd.service", "nip46-relay.service", "kuma-nostr-serve.service"}
                  \subseteq DOMAIN BLOCKS(c)[14].units
           /\ {"kuma-vm-timezone.service"} \subseteq DOMAIN BLOCKS(c)[15].units
           /\ {"kuma-home-subvol.service"} \subseteq DOMAIN BLOCKS(c)[16].units
           /\ {"kuma-user-sync.service"} \subseteq DOMAIN BLOCKS(c)[17].units
<1>1. \A S : DOMAIN Runs(S) = S /\ DOMAIN Masked(S) = S /\ DOMAIN Conditioned(S) = S
  BY DEF Runs, Masked, Conditioned
<1>2. \A S, T : /\ DOMAIN both(Conditioned(S), Masked(T)) = S \union T
                /\ DOMAIN both(Masked(S), Conditioned(T)) = S \union T
                /\ DOMAIN both(Runs(S), Masked(T)) = S \union T
  BY <1>1 DEF both
<1>3. {"kuma-shell.service", "kuma-sleep-guard.service"} \subseteq DOMAIN BLOCKS(c)[1].units
  <2>1. BLOCKS(c)[1].units = Runs({"kuma-shell.service", "kuma-sleep-guard.service"})
    BY DEF BLOCKS, row
  <2>2. QED BY <1>1, <2>1
<1>4. {"kuma-flatpak-sync.service", "kuma-flatpak-sync.timer",
             "kuma-flatpak-overrides.service"} \subseteq DOMAIN BLOCKS(c)[3].units
  <2>1. BLOCKS(c)[3].units =
             Masked({"kuma-flatpak-sync.service", "kuma-flatpak-sync.timer",
             "kuma-flatpak-overrides.service"})
    BY DEF BLOCKS, row
  <2>2. QED BY <1>1, <2>1
<1>5. {"kuma-brew-setup.service", "kuma-brew-sync.service",
             "kuma-brew-sync.timer"} \subseteq DOMAIN BLOCKS(c)[4].units
  <2> DEFINE S == {"kuma-brew-setup.service"}
             T == {"kuma-brew-sync.service", "kuma-brew-sync.timer"}
  <2>1. BLOCKS(c)[4].units = both(Conditioned(S), Masked(T))
    BY DEF BLOCKS, row
  <2> HIDE DEF S, T
  <2>2. DOMAIN BLOCKS(c)[4].units = S \union T
    BY <1>2, <2>1
  <2>3. QED BY <2>2 DEF S, T
<1>6. {"greenboot-healthcheck.service", "greenboot-set-rollback-trigger.service",
             "kuma-boot-health-sync.service", "kuma-fstab-sync.service",
             "kuma-boot-titles.service", "kuma-swap-label.service"}
             \subseteq DOMAIN BLOCKS(c)[9].units
  <2> DEFINE S == {"greenboot-healthcheck.service",
                  "greenboot-set-rollback-trigger.service"}
             T == {"kuma-boot-health-sync.service", "kuma-fstab-sync.service",
                  "kuma-boot-titles.service", "kuma-swap-label.service"}
  <2>1. BLOCKS(c)[9].units = both(Masked(S), Conditioned(T))
    BY DEF BLOCKS, row
  <2> HIDE DEF S, T
  <2>2. DOMAIN BLOCKS(c)[9].units = S \union T
    BY <1>2, <2>1
  <2>3. QED BY <2>2 DEF S, T
<1>7. {"kuma-snapshot.timer"} \subseteq DOMAIN BLOCKS(c)[12].units
  <2>1. BLOCKS(c)[12].units = Masked({"kuma-snapshot.timer"})
    BY DEF BLOCKS, row
  <2>2. QED BY <1>1, <2>1
<1>8. {"kuma-backup.timer", "kuma-restore.service"} \subseteq DOMAIN BLOCKS(c)[13].units
  <2> DEFINE S == {"kuma-backup.timer"}
             T == {"kuma-restore.service"}
  <2>1. BLOCKS(c)[13].units = both(Masked(S), Conditioned(T))
    BY DEF BLOCKS, row
  <2> HIDE DEF S, T
  <2>2. DOMAIN BLOCKS(c)[13].units = S \union T
    BY <1>2, <2>1
  <2>3. QED BY <2>2 DEF S, T
<1>9. {"kuma-nostrd.service", "nip46-relay.service", "kuma-nostr-serve.service"}
             \subseteq DOMAIN BLOCKS(c)[14].units
  <2> DEFINE S == {"kuma-nostrd.service", "nip46-relay.service"}
             T == {"kuma-nostr-serve.service"}
  <2>1. BLOCKS(c)[14].units = both(Runs(S), Masked(T))
    BY DEF BLOCKS, row
  <2> HIDE DEF S, T
  <2>2. DOMAIN both(Runs(S), Masked(T)) = S \union T
    BY <1>2
  <2>3. QED BY <2>1, <2>2 DEF S, T
<1>10. {"kuma-vm-timezone.service"} \subseteq DOMAIN BLOCKS(c)[15].units
  <2>1. BLOCKS(c)[15].units = Runs({"kuma-vm-timezone.service"})
    BY DEF BLOCKS, row
  <2>2. QED BY <1>1, <2>1
<1>11. {"kuma-home-subvol.service"} \subseteq DOMAIN BLOCKS(c)[16].units
  <2>1. BLOCKS(c)[16].units = Conditioned({"kuma-home-subvol.service"})
    BY DEF BLOCKS, row
  <2>2. QED BY <1>1, <2>1
<1>12. {"kuma-user-sync.service"} \subseteq DOMAIN BLOCKS(c)[17].units
  <2>1. BLOCKS(c)[17].units = Masked({"kuma-user-sync.service"})
    BY DEF BLOCKS, row
  <2>2. QED BY <1>1, <2>1
<1> QED BY <1>3, <1>4, <1>5, <1>6, <1>7, <1>8, <1>9, <1>10, <1>11, <1>12

\* What a row of the registry keeps to.
Orderly(c, i) ==
    LET b == Block(c, i) IN
    /\ (b.system \union b.global) \ (External \union c.enable) \subseteq DOMAIN BLOCKS(c)[i].units
    /\ gate(c, i) => names(b) \subseteq b.stages \union supplied(c)
    /\ b.stages \subseteq names(b) \union (IF i = 8 THEN common ELSE {})
    /\ b.disable = (IF i = 7 THEN c.disable ELSE {})
    /\ b.tests \subseteq places(b) \union (IF i = 17 /\ c.shell THEN {<<"bin", "fish">>} ELSE {})
    /\ i > 7 => b.system \subseteq Floor \union Sections

\* Every row does, whatever the declaration.
LEMMA RowsOrderly ==
    ASSUME NEW c, NEW i \in 1..Rows
    PROVE  Orderly(c, i)
<1>1. Orderly(c, 1)
  <2>1. Block(c, 1) = desktop_niri(c) /\ gate(c, 1) = (c.desktop = "niri")
    BY TheRows
  <2> DEFINE b == Block(c, 1)
  <2>2. Fits(b, {"kuma-shell"},
             {"kuma-sleep-guard.service", "greetd.service"}, {"kuma-shell.service"},
             {<<"system", "kuma-sleep-guard.service">>, <<"libexec", "kuma-sleep-guard">>,
              <<"user", "kuma-shell.service">>, <<"bin", "kuma-shell">>})
    BY <2>1, NiriIs
  <2> HIDE DEF b
  <2>3. gate(c, 1) => "kuma-shell" \in supplied(c)
    BY <2>1 DEF supplied
  <2>4. {"kuma-sleep-guard.service", "kuma-shell.service"} \subseteq DOMAIN BLOCKS(c)[1].units
    BY TheUnits
  <2>5. QED BY <2>2, <2>3, <2>4 DEF Orderly, Fits, External, b
<1>2. Orderly(c, 2)
  <2>1. Block(c, 2) = desktop_cosmic(c) /\ gate(c, 2) = (c.desktop = "cosmic")
    BY TheRows
  <2>2. QED BY <2>1, CosmicIs DEF Orderly, Fits, External
<1>3. Orderly(c, 3)
  <2>1. Block(c, 3) = flatpak_sync(c) /\ gate(c, 3) = wants_flatpak(c)
    BY TheRows
  <2>2. QED BY <2>1, FlatpakIs, TheUnits DEF Orderly, Fits
<1>4. Orderly(c, 4)
  <2>1. Block(c, 4) = brew(c) /\ gate(c, 4) = wants_brew(c)
    BY TheRows
  <2>2. QED BY <2>1, BrewIs, TheUnits DEF Orderly, Fits
<1>5. Orderly(c, 5)
  <2>1. Block(c, 5) = rpm(c) /\ gate(c, 5) = TRUE
    BY TheRows
  <2>2. QED BY <2>1, RpmIs DEF Orderly, Fits
<1>6. Orderly(c, 6)
  <2>1. Block(c, 6) = sshd(c) /\ gate(c, 6) = TRUE
    BY TheRows
  <2>2. QED BY <2>1, SshdIs DEF Orderly, Fits, External
<1>7. Orderly(c, 7)
  <2>1. Block(c, 7) = services(c) /\ gate(c, 7) = TRUE
    BY TheRows
  <2>2. QED BY <2>1, ServicesIs DEF Orderly, Fits
<1>8. Orderly(c, 8)
  <2>1. Block(c, 8) = greeter_seam(c) /\ gate(c, 8) = (c.desktop # "none")
    BY TheRows
  <2>2. QED BY <2>1, GreeterIs DEF Orderly, Fits
<1>9. Orderly(c, 9)
  <2>1. Block(c, 9) = boot_health(c) /\ gate(c, 9) = TRUE
    BY TheRows
  <2>2. QED BY <2>1, HealthIs, TheUnits DEF Orderly, Fits, Floor, Sections
<1>10. Orderly(c, 10)
  <2>1. Block(c, 10) = signature(c) /\ gate(c, 10) = TRUE
    BY TheRows
  <2>2. QED BY <2>1, SignatureIs DEF Orderly, Fits
<1>11. Orderly(c, 11)
  <2>1. Block(c, 11) = fwupd(c) /\ gate(c, 11) = TRUE
    BY TheRows
  <2>2. QED BY <2>1, FwupdIs DEF Orderly, Fits, External, Floor, Sections
<1>12. Orderly(c, 12)
  <2>1. Block(c, 12) = snapshots(c) /\ gate(c, 12) = c.snapshots
    BY TheRows
  <2>2. QED BY <2>1, SnapshotsIs, TheUnits DEF Orderly, Fits, Floor, Sections
<1>13. Orderly(c, 13)
  <2>1. Block(c, 13) = backup_block(c) /\ gate(c, 13) = c.backup
    BY TheRows
  <2>2. QED BY <2>1, BackupIs, TheUnits DEF Orderly, Fits, Floor, Sections
<1>14. Orderly(c, 14)
  <2>1. Block(c, 14) = nostr(c) /\ gate(c, 14) = c.nostr
    BY TheRows
  <2>2. QED BY <2>1, NostrIs, TheUnits DEF Orderly, Fits, supplied, Floor, Sections
<1>15. Orderly(c, 15)
  <2>1. Block(c, 15) = vm_timezone(c) /\ gate(c, 15) = TRUE
    BY TheRows
  <2>2. QED BY <2>1, TimezoneIs, TheUnits DEF Orderly, Fits, Floor, Sections
<1>16. Orderly(c, 16)
  <2>1. Block(c, 16) = home_subvol(c) /\ gate(c, 16) = TRUE
    BY TheRows
  <2>2. QED BY <2>1, SubvolIs, TheUnits DEF Orderly, Fits, Floor, Sections
<1>17. Orderly(c, 17)
  <2>1. Block(c, 17) = user_block(c) /\ gate(c, 17) = TRUE
    BY TheRows
  <2>2. QED BY <2>1, UserIs, TheUnits DEF Orderly, Fits, Floor, Sections
<1>18. Orderly(c, 18)
  <2>1. Block(c, 18) = hostname_block(c) /\ gate(c, 18) = TRUE
    BY TheRows
  <2>2. QED BY <2>1, HostnameIs DEF Orderly, Fits
<1>19. Orderly(c, 19)
  <2>1. Block(c, 19) = kuma_binary(c) /\ gate(c, 19) = TRUE
    BY TheRows
  <2>2. QED BY <2>1, BinaryIs DEF Orderly, Fits, supplied
<1>20. Orderly(c, 20)
  <2>1. Block(c, 20) = declaration(c) /\ gate(c, 20) = TRUE
    BY TheRows
  <2>2. QED BY <2>1, DeclarationIs DEF Orderly, Fits, supplied
<1> QED BY <1>1, <1>2, <1>3, <1>4, <1>5, <1>6, <1>7, <1>8, <1>9, <1>10, <1>11, <1>12, <1>13, <1>14, <1>15, <1>16, <1>17, <1>18, <1>19, <1>20 DEF Rows

\* The services the timers name.
LEMMA Fires ==
    /\ DOMAIN fires = {"kuma-flatpak-sync.timer", "kuma-brew-sync.timer", "kuma-snapshot.timer",
                       "kuma-backup.timer"}
    /\ fires["kuma-flatpak-sync.timer"] = "kuma-flatpak-sync-daily.service"
    /\ fires["kuma-brew-sync.timer"] = "kuma-brew-sync-daily.service"
    /\ fires["kuma-snapshot.timer"] = "kuma-snapshot.service"
    /\ fires["kuma-backup.timer"] = "kuma-backup.service"
BY DEF fires

\* A live session masks every timer.
LEMMA TimersMasked == ASSUME NEW c PROVE DOMAIN fires \subseteq live_masks(c)
<1>1. \A S : DOMAIN Masked(S) = S /\ \A u \in S : Masked(S)[u] = "masked"
  BY DEF Masked
<1>2. {3, 4, 12, 13} \subseteq DOMAIN BLOCKS(c)
  BY DEF BLOCKS
<1>3. \A i \in DOMAIN BLOCKS(c) : \A u \in DOMAIN BLOCKS(c)[i].units :
         BLOCKS(c)[i].units[u] = "masked" => u \in live_masks(c)
  BY DEF live_masks
<1>4. "kuma-flatpak-sync.timer" \in live_masks(c)
  <2> DEFINE S == {"kuma-flatpak-sync.service", "kuma-flatpak-sync.timer",
                   "kuma-flatpak-overrides.service"}
  <2>1. BLOCKS(c)[3].units = Masked(S)
    BY DEF BLOCKS, row
  <2>2. "kuma-flatpak-sync.timer" \in S
    OBVIOUS
  <2> HIDE DEF S
  <2>3. QED BY <1>1, <1>2, <1>3, <2>1, <2>2
<1>5. "kuma-brew-sync.timer" \in live_masks(c)
  <2> DEFINE S == {"kuma-brew-setup.service"}
             T == {"kuma-brew-sync.service", "kuma-brew-sync.timer"}
  <2>1. BLOCKS(c)[4].units = both(Conditioned(S), Masked(T))
    BY DEF BLOCKS, row
  <2>2. "kuma-brew-sync.timer" \in T /\ "kuma-brew-sync.timer" \notin S
    OBVIOUS
  <2> HIDE DEF S, T
  <2>3. /\ "kuma-brew-sync.timer" \in DOMAIN both(Conditioned(S), Masked(T))
        /\ both(Conditioned(S), Masked(T))["kuma-brew-sync.timer"] = "masked"
    BY <1>1, <2>2 DEF both, Conditioned
  <2>4. QED BY <1>2, <1>3, <2>1, <2>3
<1>6. "kuma-snapshot.timer" \in live_masks(c)
  <2> DEFINE S == {"kuma-snapshot.timer"}
  <2>1. BLOCKS(c)[12].units = Masked(S)
    BY DEF BLOCKS, row
  <2>2. "kuma-snapshot.timer" \in S
    OBVIOUS
  <2> HIDE DEF S
  <2>3. QED BY <1>1, <1>2, <1>3, <2>1, <2>2
<1>7. "kuma-backup.timer" \in live_masks(c)
  <2> DEFINE S == {"kuma-backup.timer"}
             T == {"kuma-restore.service"}
  <2>1. BLOCKS(c)[13].units = both(Masked(S), Conditioned(T))
    BY DEF BLOCKS, row
  <2>2. "kuma-backup.timer" \in S
    OBVIOUS
  <2> HIDE DEF S, T
  <2>3. /\ "kuma-backup.timer" \in DOMAIN both(Masked(S), Conditioned(T))
        /\ both(Masked(S), Conditioned(T))["kuma-backup.timer"] = "masked"
    BY <1>1, <2>2 DEF both, Conditioned
  <2>4. QED BY <1>2, <1>3, <2>1, <2>3
<1> QED BY <1>4, <1>5, <1>6, <1>7, Fires

\* The programs a unit's text names.
needs(u) == {<<e[2], e[3]>> : e \in {x \in ExecStart : x[1] = u}}

\* Of each unit of kuma's.
LEMMA Needs ==
    /\ needs("kuma-flatpak-sync.service") \subseteq {<<"libexec", "kuma-flatpak-sync">>}
    /\ needs("kuma-flatpak-sync-daily.service") \subseteq {<<"libexec", "kuma-flatpak-sync">>, <<"libexec", "kuma-converge-gate">>}
    /\ needs("kuma-flatpak-overrides.service") \subseteq {<<"bin", "kuma">>}
    /\ needs("kuma-brew-setup.service") \subseteq {<<"libexec", "kuma-brew-setup">>}
    /\ needs("kuma-brew-sync.service") \subseteq {<<"libexec", "kuma-brew-sync">>}
    /\ needs("kuma-brew-sync-daily.service") \subseteq {<<"libexec", "kuma-brew-sync">>, <<"libexec", "kuma-converge-gate">>}
    /\ needs("kuma-boot-titles.service") \subseteq {<<"bin", "kuma">>}
    /\ needs("kuma-boot-health-sync.service") \subseteq {<<"libexec", "kuma-boot-health-sync">>}
    /\ needs("kuma-fstab-sync.service") \subseteq {<<"libexec", "kuma-fstab-sync">>}
    /\ needs("kuma-snapshot.service") \subseteq {<<"libexec", "kuma-snapshot">>}
    /\ needs("kuma-backup.service") \subseteq {<<"libexec", "kuma-backup">>}
    /\ needs("kuma-restore.service") \subseteq {<<"libexec", "kuma-restore">>}
    /\ needs("kuma-vm-timezone.service") \subseteq {<<"libexec", "kuma-vm-timezone">>}
    /\ needs("kuma-home-subvol.service") \subseteq {<<"libexec", "kuma-home-subvol">>}
    /\ needs("kuma-user-sync.service") \subseteq {<<"libexec", "kuma-user-sync">>}
    /\ needs("kuma-sleep-guard.service") \subseteq {<<"libexec", "kuma-sleep-guard">>}
    /\ needs("kuma-shell.service") \subseteq {<<"bin", "kuma-shell">>}
    /\ needs("kuma-nostrd.service") \subseteq {<<"bin", "kuma-nostrd">>}
    /\ needs("nip46-relay.service") \subseteq {<<"bin", "nip46-relay">>}
    /\ needs("kuma-nostr-serve.service") \subseteq {<<"libexec", "kuma-nostr-serve">>}
    /\ needs("kuma-flatpak-sync.timer") \subseteq {}
    /\ needs("kuma-brew-sync.timer") \subseteq {}
    /\ needs("kuma-snapshot.timer") \subseteq {}
    /\ needs("kuma-backup.timer") \subseteq {}
    /\ needs("kuma-swap-label.service") \subseteq {}
<1>1. needs("kuma-flatpak-sync.service") \subseteq {<<"libexec", "kuma-flatpak-sync">>}
  BY DEF needs, ExecStart
<1>2. needs("kuma-flatpak-sync-daily.service") \subseteq {<<"libexec", "kuma-flatpak-sync">>, <<"libexec", "kuma-converge-gate">>}
  BY DEF needs, ExecStart
<1>3. needs("kuma-flatpak-overrides.service") \subseteq {<<"bin", "kuma">>}
  BY DEF needs, ExecStart
<1>4. needs("kuma-brew-setup.service") \subseteq {<<"libexec", "kuma-brew-setup">>}
  BY DEF needs, ExecStart
<1>5. needs("kuma-brew-sync.service") \subseteq {<<"libexec", "kuma-brew-sync">>}
  BY DEF needs, ExecStart
<1>6. needs("kuma-brew-sync-daily.service") \subseteq {<<"libexec", "kuma-brew-sync">>, <<"libexec", "kuma-converge-gate">>}
  BY DEF needs, ExecStart
<1>7. needs("kuma-boot-titles.service") \subseteq {<<"bin", "kuma">>}
  BY DEF needs, ExecStart
<1>8. needs("kuma-boot-health-sync.service") \subseteq {<<"libexec", "kuma-boot-health-sync">>}
  BY DEF needs, ExecStart
<1>9. needs("kuma-fstab-sync.service") \subseteq {<<"libexec", "kuma-fstab-sync">>}
  BY DEF needs, ExecStart
<1>10. needs("kuma-snapshot.service") \subseteq {<<"libexec", "kuma-snapshot">>}
  BY DEF needs, ExecStart
<1>11. needs("kuma-backup.service") \subseteq {<<"libexec", "kuma-backup">>}
  BY DEF needs, ExecStart
<1>12. needs("kuma-restore.service") \subseteq {<<"libexec", "kuma-restore">>}
  BY DEF needs, ExecStart
<1>13. needs("kuma-vm-timezone.service") \subseteq {<<"libexec", "kuma-vm-timezone">>}
  BY DEF needs, ExecStart
<1>14. needs("kuma-home-subvol.service") \subseteq {<<"libexec", "kuma-home-subvol">>}
  BY DEF needs, ExecStart
<1>15. needs("kuma-user-sync.service") \subseteq {<<"libexec", "kuma-user-sync">>}
  BY DEF needs, ExecStart
<1>16. needs("kuma-sleep-guard.service") \subseteq {<<"libexec", "kuma-sleep-guard">>}
  BY DEF needs, ExecStart
<1>17. needs("kuma-shell.service") \subseteq {<<"bin", "kuma-shell">>}
  BY DEF needs, ExecStart
<1>18. needs("kuma-nostrd.service") \subseteq {<<"bin", "kuma-nostrd">>}
  BY DEF needs, ExecStart
<1>19. needs("nip46-relay.service") \subseteq {<<"bin", "nip46-relay">>}
  BY DEF needs, ExecStart
<1>20. needs("kuma-nostr-serve.service") \subseteq {<<"libexec", "kuma-nostr-serve">>}
  BY DEF needs, ExecStart
<1>21. needs("kuma-flatpak-sync.timer") \subseteq {}
  BY DEF needs, ExecStart
<1>22. needs("kuma-brew-sync.timer") \subseteq {}
  BY DEF needs, ExecStart
<1>23. needs("kuma-snapshot.timer") \subseteq {}
  BY DEF needs, ExecStart
<1>24. needs("kuma-backup.timer") \subseteq {}
  BY DEF needs, ExecStart
<1>25. needs("kuma-swap-label.service") \subseteq {}
  BY DEF needs, ExecStart
<1> QED BY <1>1, <1>2, <1>3, <1>4, <1>5, <1>6, <1>7, <1>8, <1>9, <1>10, <1>11, <1>12, <1>13, <1>14, <1>15, <1>16, <1>17, <1>18, <1>19, <1>20, <1>21, <1>22, <1>23, <1>24, <1>25

\* The unit and its programs are in their places, save kuma itself.
Reaches(b, scope, u) ==
    <<scope, u>> \in places(b) /\ needs(u) \subseteq places(b) \union {<<"bin", "kuma">>}
Runnable(c, i) ==
    LET b == Block(c, i) IN
    /\ \A u \in own(b.system) : Reaches(b, "system", u)
    /\ \A u \in (b.system \ c.enable) \intersect DOMAIN fires : Reaches(b, "system", fires[u])
    /\ \A u \in b.global : Reaches(b, "user", u)
    /\ \A t \in DOMAIN fires : fires[t] \notin b.system \ c.enable
    /\ "kuma-backup.timer" \in b.system \ c.enable => i = 13

\* What a row enables it also ships.
LEMMA RowsRun ==
    ASSUME NEW i \in 1..Rows
    PROVE  Runnable(declared, i)
<1> DEFINE c == declared
<1>1. Runnable(c, 1)
  <2>1. Block(c, 1) = desktop_niri(c)
    BY TheRows
  <2>2. QED BY <2>1, NiriIs, Fires, Needs DEF Runnable, Reaches, own, Fits, External
<1>2. Runnable(c, 2)
  <2>1. Block(c, 2) = desktop_cosmic(c)
    BY TheRows
  <2>2. QED BY <2>1, CosmicIs, Fires DEF Runnable, Reaches, own, Fits, External
<1>3. Runnable(c, 3)
  <2>1. Block(c, 3) = flatpak_sync(c)
    BY TheRows
  <2>2. QED BY <2>1, FlatpakIs, Fires, Needs DEF Runnable, Reaches, own, Fits
<1>4. Runnable(c, 4)
  <2>1. Block(c, 4) = brew(c)
    BY TheRows
  <2>2. QED BY <2>1, BrewIs, Fires, Needs DEF Runnable, Reaches, own, Fits
<1>5. Runnable(c, 5)
  <2>1. Block(c, 5) = rpm(c)
    BY TheRows
  <2>2. QED BY <2>1, RpmIs, Fires DEF Runnable, Reaches, own, Fits
<1>6. Runnable(c, 6)
  <2>1. Block(c, 6) = sshd(c)
    BY TheRows
  <2>2. QED BY <2>1, SshdIs, Fires DEF Runnable, Reaches, own, Fits, External
<1>7. Runnable(c, 7)
  <2>1. Block(c, 7) = services(c)
    BY TheRows
  <2>2. QED BY <2>1, ServicesIs, Fires DEF Runnable, Reaches, own, Fits
<1>8. Runnable(c, 8)
  <2>1. Block(c, 8) = greeter_seam(c)
    BY TheRows
  <2>2. QED BY <2>1, GreeterIs, Fires DEF Runnable, Reaches, own, Fits
<1>9. Runnable(c, 9)
  <2>1. Block(c, 9) = boot_health(c)
    BY TheRows
  <2>2. QED BY <2>1, HealthIs, Fires, Needs DEF Runnable, Reaches, own, Fits
<1>10. Runnable(c, 10)
  <2>1. Block(c, 10) = signature(c)
    BY TheRows
  <2>2. QED BY <2>1, SignatureIs, Fires DEF Runnable, Reaches, own, Fits
<1>11. Runnable(c, 11)
  <2>1. Block(c, 11) = fwupd(c)
    BY TheRows
  <2>2. QED BY <2>1, FwupdIs, Fires DEF Runnable, Reaches, own, Fits, External
<1>12. Runnable(c, 12)
  <2>1. Block(c, 12) = snapshots(c)
    BY TheRows
  <2>2. QED BY <2>1, SnapshotsIs, Fires, Needs DEF Runnable, Reaches, own, Fits
<1>13. Runnable(c, 13)
  <2>1. Block(c, 13) = backup_block(c)
    BY TheRows
  <2>2. QED BY <2>1, BackupIs, Fires, Needs DEF Runnable, Reaches, own, Fits
<1>14. Runnable(c, 14)
  <2>1. Block(c, 14) = nostr(c)
    BY TheRows
  <2> DEFINE b == Block(c, 14)
  <2>2. b.global = {"kuma-nostrd.service"} \union
                        (IF c.relay THEN {"nip46-relay.service"} ELSE {})
    BY <2>1, NostrIs DEF Fits
  <2>3. b.system = (IF serves(c) THEN {"kuma-nostr-serve.service"} ELSE {})
    BY <2>1, NostrIs DEF Fits
  <2>4. /\ <<"user", "kuma-nostrd.service">> \in places(b)
        /\ <<"bin", "kuma-nostrd">> \in places(b)
    BY <2>1, NostrIs
  <2>5. c.relay => /\ <<"user", "nip46-relay.service">> \in places(b)
                   /\ <<"bin", "nip46-relay">> \in places(b)
    BY <2>1, NostrIs
  <2>6. serves(c) => /\ <<"system", "kuma-nostr-serve.service">> \in places(b)
                     /\ <<"libexec", "kuma-nostr-serve">> \in places(b)
    BY <2>1, NostrIs
  <2> HIDE DEF b
  <2>7. \A u \in b.global : Reaches(b, "user", u)
    BY <2>2, <2>4, <2>5, Needs DEF Reaches
  <2>8. \A u \in b.system : Reaches(b, "system", u)
    BY <2>3, <2>6, Needs DEF Reaches
  <2> HIDE DEF b
  <2>9. QED BY <2>3, <2>7, <2>8, Fires DEF Runnable, own, b
<1>15. Runnable(c, 15)
  <2>1. Block(c, 15) = vm_timezone(c)
    BY TheRows
  <2>2. QED BY <2>1, TimezoneIs, Fires, Needs DEF Runnable, Reaches, own, Fits
<1>16. Runnable(c, 16)
  <2>1. Block(c, 16) = home_subvol(c)
    BY TheRows
  <2>2. QED BY <2>1, SubvolIs, Fires, Needs DEF Runnable, Reaches, own, Fits
<1>17. Runnable(c, 17)
  <2>1. Block(c, 17) = user_block(c)
    BY TheRows
  <2>2. QED BY <2>1, UserIs, Fires, Needs DEF Runnable, Reaches, own, Fits
<1>18. Runnable(c, 18)
  <2>1. Block(c, 18) = hostname_block(c)
    BY TheRows
  <2>2. QED BY <2>1, HostnameIs, Fires DEF Runnable, Reaches, own, Fits
<1>19. Runnable(c, 19)
  <2>1. Block(c, 19) = kuma_binary(c)
    BY TheRows
  <2>2. QED BY <2>1, BinaryIs, Fires DEF Runnable, Reaches, own, Fits
<1>20. Runnable(c, 20)
  <2>1. Block(c, 20) = declaration(c)
    BY TheRows
  <2>2. QED BY <2>1, DeclarationIs, Fires DEF Runnable, Reaches, own, Fits
<1> QED BY <1>1, <1>2, <1>3, <1>4, <1>5, <1>6, <1>7, <1>8, <1>9, <1>10, <1>11, <1>12, <1>13, <1>14, <1>15, <1>16, <1>17, <1>18, <1>19, <1>20 DEF Rows
-----------------------------------------------------------------------------
(* The walk.  What it has staged, copied, shipped and enabled is what the  *)
(* rows entered so far add, and of a unit enabled twice the last word      *)
(* stands.                                                                 *)

Opened == {i \in 1..emitted : gate(declared, i)}
Walked ==
    /\ \A x : x \in staged <=> \E i \in Opened : x \in Block(declared, i).stages
    /\ \A x : x \in copied <=> \E i \in Opened : x \in names(Block(declared, i))
    /\ \A x : x \in shipped <=> \E i \in Opened : x \in places(Block(declared, i))
    /\ \A x : x \in onGlobal <=> \E i \in Opened : x \in Block(declared, i).global
    /\ \A x : x \in onSystem <=>
           \E i \in Opened : /\ x \in Block(declared, i).system
                             /\ \A j \in Opened : i <= j => x \notin Block(declared, j).disable

ImageRanges ==
    /\ declared \in Config /\ emitted \in 0..Rows
    /\ phase \in {"edit", "refused", "walk", "fails"} \union Built
    /\ phase \in {"walk", "fails"} \union Built => validate(declared)
    /\ phase \in {"edit", "refused"} => emitted = 0
    /\ phase \in Built => emitted = Rows
    /\ phase = "fails" => declared.shell /\ ~declared.fish
AtWork ==
    /\ atWork # {} => phase \in {"machine", "live"}
    /\ phase = "live" =>
           atWork = ({"system"} \X (started(onSystem \ live_masks(declared))
                                       \ (ostree_booted \union on_request)))
                        \union ({"user"} \X onGlobal)
ImageInv == ImageRanges /\ Walked /\ AtWork

\* A walk that has not begun has left nothing.
LEMMA Unwalked ==
    ASSUME emitted = 0
    PROVE  Walked <=> /\ staged = {} /\ copied = {} /\ shipped = {}
                      /\ onSystem = {} /\ onGlobal = {}
<1>1. Opened = {}
  BY DEF Opened
<1> QED BY <1>1 DEF Walked

LEMMA ImageInitInv == ImageInit => ImageInv
<1> SUFFICES ASSUME ImageInit PROVE ImageInv
  OBVIOUS
<1>1. declared \in Config
  BY DEF ImageInit, Config
<1>2. ImageRanges
  BY <1>1 DEF ImageInit, ImageRanges, Built, Rows
<1>3. Walked
  BY Unwalked DEF ImageInit
<1> QED BY <1>2, <1>3 DEF ImageInit, ImageInv, AtWork

\* A step that leaves the walk where it was.
LEMMA WalkedStays ==
    ASSUME Walked, UNCHANGED <<declared, emitted, staged, copied, shipped, onSystem, onGlobal>>
    PROVE  Walked'
BY DEF Walked, Opened

\* The block entered adds what it has, and takes what it disables.
LEMMA WalkedOn ==
    ASSUME ImageRanges, Walked, Emit
    PROVE  Walked'
<1> DEFINE n == emitted + 1
           b == Block(declared, n)
<1>1. emitted \in Nat /\ emitted' = n /\ declared' = declared
  BY DEF Emit, ImageRanges
<1>2. CASE ~gate(declared, n)
  <2>1. UNCHANGED <<staged, copied, shipped, onSystem, onGlobal>>
    BY <1>2 DEF Emit, gate
  <2>2. Opened' = Opened
    BY <1>1, <1>2 DEF Opened
  <2> QED BY <1>1, <2>1, <2>2 DEF Walked
<1>3. CASE gate(declared, n)
  <2>1. /\ staged' = staged \union b.stages
        /\ copied' = copied \union names(b)
        /\ shipped' = shipped \union places(b)
        /\ onSystem' = (onSystem \union b.system) \ b.disable
        /\ onGlobal' = onGlobal \union b.global
    BY <1>3 DEF Emit, gate, Block, names, places
  <2>2. Opened' = Opened \union {n} /\ \A i \in Opened : i \in Nat /\ i < n
    BY <1>1, <1>3 DEF Opened
  <2>3. n \in Nat
    BY <1>1
  <2> HIDE DEF n
  <2>4. \A x : x \in staged' <=> \E i \in Opened' : x \in Block(declared, i).stages
    BY <2>1, <2>2 DEF Walked
  <2>5. \A x : x \in copied' <=> \E i \in Opened' : x \in names(Block(declared, i))
    BY <2>1, <2>2 DEF Walked
  <2>6. \A x : x \in shipped' <=> \E i \in Opened' : x \in places(Block(declared, i))
    BY <2>1, <2>2 DEF Walked
  <2>7. \A x : x \in onGlobal' <=> \E i \in Opened' : x \in Block(declared, i).global
    BY <2>1, <2>2 DEF Walked
  <2>8. \A x : x \in onSystem' <=>
           \E i \in Opened' : /\ x \in Block(declared, i).system
                              /\ \A j \in Opened' : i <= j => x \notin Block(declared, j).disable
    <3> SUFFICES ASSUME NEW x
                 PROVE  x \in onSystem' <=>
                          \E i \in Opened' :
                              /\ x \in Block(declared, i).system
                              /\ \A j \in Opened' : i <= j => x \notin Block(declared, j).disable
      OBVIOUS
    <3>1. CASE x \in b.disable
      BY <2>1, <2>2, <2>3, <3>1
    <3>2. CASE x \notin b.disable /\ x \in b.system
      BY <2>1, <2>2, <2>3, <3>2
    <3>3. CASE x \notin b.disable /\ x \notin b.system
      BY <2>1, <2>2, <2>3, <3>3 DEF Walked
    <3> QED BY <3>1, <3>2, <3>3
  <2> QED BY <1>1, <2>4, <2>5, <2>6, <2>7, <2>8 DEF Walked
<1> QED BY <1>2, <1>3

\* A block of an accepted declaration is accounted for and finds what it copies;
\* only the account's shell can be missing.
LEMMA Entered ==
    ASSUME ImageRanges, Walked, Emit
    PROVE  phase' = "walk" \/ (phase' = "fails" /\ declared.shell /\ ~declared.fish)
<1> DEFINE n == emitted + 1
           r == BLOCKS(declared)[n]
           b == Block(declared, n)
           there == shipped \union b.installs \union {f.at : f \in b.copies}
<1>1. n \in 1..Rows /\ emitted \in Nat /\ phase = "walk"
  BY DEF Emit, ImageRanges, Rows
<1>2. Orderly(declared, n)
  BY <1>1, RowsOrderly
<1>3. accounted(r)
  BY <1>2 DEF accounted, Orderly, Block
<1>4. gate(declared, n) => carried(r)
  BY <1>2 DEF carried, Orderly, Block, names
<1>5. places(b) \subseteq there
  BY DEF places
<1>6. b.tests \subseteq there \/ (declared.shell /\ ~declared.fish)
  <2>1. CASE n # 17 \/ ~declared.shell
    BY <1>2, <1>5, <2>1 DEF Orderly
  <2>2. CASE n = 17 /\ declared.fish
    <3>1. 5 \in Opened
      <4>1. gate(declared, 5)
        BY TheRows
      <4> QED BY <1>1, <2>2, <4>1 DEF Opened
    <3>2. <<"bin", "fish">> \in places(Block(declared, 5))
      BY <2>2, TheRows, RpmIs
    <3>3. <<"bin", "fish">> \in there
      BY <3>1, <3>2 DEF Walked
    <3> QED BY <1>2, <1>5, <3>3 DEF Orderly
  <2> HIDE DEF n, b, there
  <2> QED BY <2>1, <2>2
<1>7. CASE ~gate(declared, n)
  BY <1>1, <1>7 DEF Emit, gate
<1>8. CASE gate(declared, n)
  <2>1. phase' = IF ~accounted(r) THEN "panics"
                 ELSE IF carried(r) /\ b.tests \subseteq there THEN "walk" ELSE "fails"
    BY <1>8 DEF Emit, gate, Block
  <2> HIDE DEF r, b, there
  <2> QED BY <1>3, <1>4, <1>6, <1>8, <2>1
<1> QED BY <1>7, <1>8

\* Every staged file has been copied.
LEMMA NothingLeft ==
    ASSUME ImageRanges, Walked, emitted = Rows
    PROVE  staged \subseteq copied
<1> SUFFICES ASSUME NEW x \in staged PROVE x \in copied
  OBVIOUS
<1>1. PICK i \in Opened : x \in Block(declared, i).stages
  BY DEF Walked
<1>2. i \in 1..Rows /\ gate(declared, i)
  BY DEF Opened
<1>3. x \in names(Block(declared, i)) \/ (i = 8 /\ x \in common)
  BY <1>1, <1>2, RowsOrderly DEF Orderly
<1>4. CASE x \in names(Block(declared, i))
  BY <1>4 DEF Walked
<1>5. CASE i = 8 /\ x \in common
  <2>1. declared.desktop # "none"
    BY <1>2, <1>5, TheRows
  <2>2. declared.desktop \in {"niri", "cosmic"}
    BY <2>1, ImageAssumption DEF ImageRanges, Config
  <2>3. CASE declared.desktop = "niri"
    <3>1. 1 \in Opened
      <4>1. gate(declared, 1)
        BY <2>3, TheRows
      <4> QED BY <4>1 DEF Opened, Rows
    <3>2. common \subseteq names(Block(declared, 1))
      <4>1. Block(declared, 1) = desktop_niri(declared)
        BY TheRows
      <4> QED BY <4>1, NiriIs
    <3> QED BY <1>5, <3>1, <3>2 DEF Walked
  <2>4. CASE declared.desktop = "cosmic"
    <3>1. 2 \in Opened
      <4>1. gate(declared, 2)
        BY <2>4, TheRows
      <4> QED BY <4>1 DEF Opened, Rows
    <3>2. common \subseteq names(Block(declared, 2))
      <4>1. Block(declared, 2) = desktop_cosmic(declared)
        BY TheRows
      <4> QED BY <4>1, CosmicIs
    <3> QED BY <1>5, <3>1, <3>2 DEF Walked
  <2> QED BY <2>2, <2>3, <2>4
<1> QED BY <1>3, <1>4, <1>5

\* The invariant is inductive.
LEMMA ImageStep == ImageInv /\ [ImageNext]_imageVars => ImageInv'
<1> SUFFICES ASSUME ImageInv, [ImageNext]_imageVars PROVE ImageInv'
  OBVIOUS
<1> USE DEF ImageInv
<1>1. CASE Declare
  <2>1. PICK f \in Lines : declared' = [declared EXCEPT ![f] = TRUE]
    BY <1>1 DEF Declare
  <2>2. declared' \in Config
    BY <2>1, ImageAssumption DEF ImageRanges, Config
  <2>3. ImageRanges'
    BY <1>1, <2>2 DEF Declare, ImageRanges, Built
  <2>4. Walked'
    <3>1. emitted = 0 /\ UNCHANGED <<emitted, staged, copied, shipped, onSystem, onGlobal>>
      BY <1>1 DEF Declare, ImageRanges
    <3>2. staged = {} /\ copied = {} /\ shipped = {} /\ onSystem = {} /\ onGlobal = {}
      BY <3>1, Unwalked
    <3>3. Opened' = {}
      BY <3>1 DEF Opened
    <3> QED BY <3>1, <3>2, <3>3 DEF Walked
  <2> QED BY <1>1, <2>3, <2>4 DEF Declare, AtWork
<1>2. CASE Refused
  BY <1>2, WalkedStays DEF Refused, ImageRanges, AtWork, Built
<1>3. CASE Accepted
  BY <1>3, WalkedStays DEF Accepted, ImageRanges, AtWork, Built
<1>4. CASE Emit
  <2>1. emitted' \in 0..Rows /\ declared' = declared /\ atWork' = atWork /\ phase = "walk"
    BY <1>4 DEF Emit, ImageRanges, Rows
  <2>2. phase' = "walk" \/ (phase' = "fails" /\ declared.shell /\ ~declared.fish)
    BY <1>4, Entered
  <2>3. validate(declared)' <=> validate(declared)
    BY <2>1
  <2>4. ImageRanges'
    BY <2>1, <2>2, <2>3 DEF ImageRanges, Built
  <2> QED BY <1>4, <2>1, <2>2, <2>4, WalkedOn DEF AtWork
<1>5. CASE reconcile
  <2>1. phase' = "image" /\ emitted = Rows /\ phase = "walk"
    BY <1>5, NothingLeft DEF reconcile
  <2> QED BY <1>5, <2>1, WalkedStays DEF reconcile, ImageRanges, AtWork, Built
<1>6. CASE Reopen
  <2>1. Walked'
    <3>1. Opened' = {}
      BY <1>6 DEF Reopen, EmptyWalk, Opened
    <3> QED BY <1>6, <3>1 DEF Reopen, EmptyWalk, Walked
  <2>2. ImageRanges'
    BY <1>6 DEF Reopen, EmptyWalk, ImageRanges, Built, Rows
  <2> QED BY <1>6, <2>1, <2>2 DEF Reopen, EmptyWalk, AtWork
<1>7. CASE BootMachine
  <2>1. ImageRanges'
    BY <1>7 DEF BootMachine, ImageRanges, Built
  <2> QED BY <1>7, <2>1, WalkedStays DEF BootMachine, AtWork
<1>8. CASE BootLive
  <2>1. ImageRanges'
    BY <1>8 DEF BootLive, ImageRanges, Built
  <2> QED BY <1>8, <2>1, WalkedStays DEF BootLive, AtWork
<1>9. CASE UNCHANGED imageVars
  BY <1>9, WalkedStays DEF imageVars, ImageRanges, AtWork
<1> QED BY <1>1, <1>2, <1>3, <1>4, <1>5, <1>6, <1>7, <1>8, <1>9 DEF ImageNext

LEMMA ImageHolds == ImageSpec => []ImageInv
BY ImageInitInv, ImageStep, PTL DEF ImageSpec

-----------------------------------------------------------------------------
\* What an image of an accepted declaration has: every row that is open.
LEMMA Whole ==
    ASSUME ImageInv, phase \in Built
    PROVE  /\ Opened = {i \in 1..Rows : gate(declared, i)}
           /\ \A i \in Opened : i \in 1..Rows /\ places(Block(declared, i)) \subseteq shipped
           /\ <<"bin", "kuma">> \in shipped
           /\ \A i \in Opened : i > 7 => Block(declared, i).system \subseteq onSystem
<1>1. Opened = {i \in 1..Rows : gate(declared, i)}
  BY DEF ImageInv, ImageRanges, Opened
<1>2. \A i \in Opened : i \in 1..Rows /\ places(Block(declared, i)) \subseteq shipped
  BY <1>1 DEF ImageInv, Walked
<1>3. <<"bin", "kuma">> \in shipped
  <2>1. Block(declared, 19) = kuma_binary(declared) /\ gate(declared, 19)
    BY TheRows
  <2>2. 19 \in Opened
    BY <1>1, <2>1 DEF Rows
  <2> QED BY <1>2, <2>1, <2>2, BinaryIs
<1>4. ASSUME NEW i \in Opened, i > 7, NEW x \in Block(declared, i).system
      PROVE  x \in onSystem
  <2>1. \A j \in Opened : i <= j => x \notin Block(declared, j).disable
    <3>1. \A j \in Opened : j \in 1..Rows /\ (j # 7 => Block(declared, j).disable = {})
      BY <1>1, RowsOrderly DEF Orderly
    <3> QED BY <1>1, <1>4, <3>1
  <2> QED BY <1>4, <2>1 DEF ImageInv, Walked
<1> QED BY <1>1, <1>2, <1>3, <1>4

\* A unit an open row brings with its programs can run.
LEMMA Reached ==
    ASSUME ImageInv, phase \in Built, NEW i \in Opened, NEW scope, NEW u,
           Reaches(Block(declared, i), scope, u)
    PROVE  can_run(scope, u)
<1>1. places(Block(declared, i)) \union {<<"bin", "kuma">>} \subseteq shipped
  BY Whole
<1>2. \A e \in ExecStart : e[1] = u => <<e[2], e[3]>> \in needs(u)
  BY DEF needs
<1> QED BY <1>1, <1>2 DEF Reaches, can_run

\* What is on was enabled by an open row.
LEMMA FromRow ==
    ASSUME ImageInv, NEW u \in onSystem
    PROVE  \E i \in Opened : u \in Block(declared, i).system
BY DEF ImageInv, Walked

\* The owner's services are none of kuma's timed ones.
LEMMA NoneTimed ==
    ASSUME ImageInv
    PROVE  declared.enable \intersect Timed = {}
BY ImageAssumption DEF ImageInv, ImageRanges, Config

\* The parts of ImageKeepsItsWord.
LEMMA AllRun == ASSUME ImageInv PROVE EnabledCanRun
<1> SUFFICES ASSUME phase \in Built
             PROVE  /\ \A u \in own(started(onSystem)) : can_run("system", u)
                    /\ \A u \in onGlobal : can_run("user", u)
                    /\ "kuma-backup.timer" \in onSystem => "kuma-snapshot.timer" \in onSystem
  BY DEF EnabledCanRun
<1>1. \A i \in Opened : i \in 1..Rows /\ Runnable(declared, i)
  BY Whole, RowsRun
<1>2. ASSUME NEW u \in own(started(onSystem)) PROVE can_run("system", u)
  <2>1. CASE u \in onSystem
    <3>1. PICK i \in Opened : u \in Block(declared, i).system
      BY <2>1, FromRow
    <3>2. u \in own(Block(declared, i).system)
      BY <1>2, <3>1 DEF own
    <3> QED BY <1>1, <3>2, Reached DEF Runnable
  <2>2. CASE u \notin onSystem
    <3>1. PICK t \in onSystem \intersect DOMAIN fires : u = fires[t]
      BY <1>2, <2>2 DEF own, started
    <3>2. PICK i \in Opened : t \in Block(declared, i).system
      BY <3>1, FromRow
    <3>3. t \notin declared.enable
      BY <3>1, NoneTimed DEF Timed
    <3>4. Reaches(Block(declared, i), "system", fires[t])
      BY <1>1, <3>1, <3>2, <3>3 DEF Runnable
    <3> QED BY <3>1, <3>4, Reached
  <2> QED BY <2>1, <2>2
<1>3. ASSUME NEW u \in onGlobal PROVE can_run("user", u)
  <2>1. PICK i \in Opened : u \in Block(declared, i).global
    BY <1>3 DEF ImageInv, Walked
  <2> QED BY <1>1, <2>1, Reached DEF Runnable
<1>4. ASSUME "kuma-backup.timer" \in onSystem PROVE "kuma-snapshot.timer" \in onSystem
  <2>1. PICK i \in Opened : "kuma-backup.timer" \in Block(declared, i).system
    BY <1>4, FromRow
  <2>2. "kuma-backup.timer" \notin declared.enable
    BY NoneTimed, Fires DEF Timed
  <2>3. i = 13
    BY <1>1, <2>1, <2>2 DEF Runnable
  <2>4. declared.backup
    <3>1. gate(declared, 13)
      BY <2>3 DEF Opened
    <3> QED BY <3>1, TheRows
  <2>5. declared.snapshots
    BY <2>4 DEF ImageInv, ImageRanges, validate
  <2>6. Block(declared, 12) = snapshots(declared) /\ gate(declared, 12)
    BY <2>5, TheRows
  <2>7. 12 \in Opened
    BY <2>6, Whole DEF Rows
  <2>8. "kuma-snapshot.timer" \in Block(declared, 12).system
    BY <2>6, SnapshotsIs DEF Fits
  <2> QED BY <2>7, <2>8, Whole
<1> QED BY <1>2, <1>3, <1>4

LEMMA WordStands == ASSUME ImageInv PROVE OwnersWordStands
<1> SUFFICES ASSUME phase \in Built
             PROVE  /\ Floor \subseteq onSystem
                    /\ "sshd.service" \in onSystem <=> "sshd.service" \notin declared.disable
                    /\ (declared.disable \ (Floor \union Sections)) \intersect onSystem = {}
  BY DEF OwnersWordStands
<1>1. Floor \subseteq onSystem
  <2>1. /\ Block(declared, 9) = boot_health(declared) /\ gate(declared, 9)
        /\ Block(declared, 11) = fwupd(declared) /\ gate(declared, 11)
        /\ Block(declared, 15) = vm_timezone(declared) /\ gate(declared, 15)
        /\ Block(declared, 16) = home_subvol(declared) /\ gate(declared, 16)
        /\ Block(declared, 17) = user_block(declared) /\ gate(declared, 17)
    BY TheRows
  <2>2. \A i \in {9, 11, 15, 16, 17} : Block(declared, i).system \subseteq onSystem
    BY <2>1, Whole DEF Rows
  <2>3. {"greenboot-healthcheck.service", "greenboot-set-rollback-trigger.service",
         "kuma-boot-health-sync.service", "kuma-fstab-sync.service",
         "kuma-boot-titles.service", "kuma-swap-label.service"} \subseteq onSystem
    BY <2>1, <2>2, HealthIs DEF Fits
  <2>4. "fwupd-refresh.timer" \in onSystem
    BY <2>1, <2>2, FwupdIs DEF Fits
  <2>5. "kuma-vm-timezone.service" \in onSystem /\ "kuma-home-subvol.service" \in onSystem
    BY <2>1, <2>2, TimezoneIs, SubvolIs DEF Fits
  <2>6. "kuma-user-sync.service" \in onSystem
    BY <2>1, <2>2, UserIs
  <2> QED BY <2>3, <2>4, <2>5, <2>6 DEF Floor
<1>2. /\ 7 \in Opened /\ Block(declared, 7).disable = declared.disable
      /\ 6 \in Opened /\ Block(declared, 6).system = {"sshd.service"}
  <2>1. Block(declared, 6) = sshd(declared) /\ gate(declared, 6)
    BY TheRows
  <2>2. Block(declared, 7) = services(declared) /\ gate(declared, 7)
    BY TheRows
  <2> QED BY <2>1, <2>2, Whole, SshdIs, ServicesIs DEF Rows, Fits
<1>3. \A i \in Opened : /\ i \in 1..Rows
                        /\ i > 7 => Block(declared, i).system \subseteq Floor \union Sections
                        /\ i # 7 => Block(declared, i).disable = {}
  BY Whole, RowsOrderly DEF Orderly
<1>4. \A u \in onSystem \ (Floor \union Sections) : u \notin declared.disable
  <2> SUFFICES ASSUME NEW u \in onSystem, u \notin Floor \union Sections
               PROVE  u \notin declared.disable
    OBVIOUS
  <2>1. PICK i \in Opened : /\ u \in Block(declared, i).system
                            /\ \A j \in Opened : i <= j => u \notin Block(declared, j).disable
    BY DEF ImageInv, Walked
  <2>2. i \in 1..Rows /\ ~(i > 7)
    BY <1>3, <2>1 DEF Rows
  <2> QED BY <1>2, <2>1, <2>2 DEF Rows
<1>5. "sshd.service" \notin Floor \union Sections
  BY DEF Floor, Sections
<1>6. "sshd.service" \notin declared.disable => "sshd.service" \in onSystem
  <2> SUFFICES ASSUME "sshd.service" \notin declared.disable PROVE "sshd.service" \in onSystem
    OBVIOUS
  <2>1. "sshd.service" \in Block(declared, 6).system
    BY <1>2
  <2>2. \A j \in Opened : "sshd.service" \notin Block(declared, j).disable
    BY <1>2, <1>3 DEF Rows
  <2> QED BY <1>2, <2>1, <2>2 DEF ImageInv, Walked
<1> QED BY <1>1, <1>4, <1>5, <1>6

LEMMA MaskedQuiet == ASSUME ImageInv PROVE MaskedStaysQuiet
<1> SUFFICES ASSUME phase = "live", NEW u \in started(said_quiet)
             PROVE  <<"system", u>> \notin atWork
  BY DEF MaskedStaysQuiet
<1> DEFINE masked == live_masks(declared)
           free == onSystem \ masked
<1>1. \A v : <<"system", v>> \in atWork => v \in started(free)
  BY DEF ImageInv, AtWork
<1>2. said_quiet \subseteq masked
  BY DEF said_quiet, live_masks
<1>3. started(free) = free
  BY TimersMasked DEF started
<1>4. CASE u \in said_quiet
  BY <1>1, <1>2, <1>3, <1>4
<1>5. CASE u \notin said_quiet
  <2>1. PICK t \in DOMAIN fires : u = fires[t]
    BY <1>5 DEF started
  <2>2. u \notin onSystem
    <3>1. SUFFICES ASSUME u \in onSystem PROVE FALSE
      OBVIOUS
    <3>2. PICK i \in Opened : u \in Block(declared, i).system
      BY <3>1, FromRow
    <3>3. i \in 1..Rows
      BY Whole DEF Built
    <3>4. u \in declared.enable
      BY <2>1, <3>2, <3>3, RowsRun DEF Runnable
    <3> QED BY <2>1, <3>4, NoneTimed DEF Timed
  <2> QED BY <1>1, <1>3, <2>2
<1> QED BY <1>4, <1>5

\* What the variables of Image can hold.
THEOREM ImageTypeHolds == ImageSpec => []ImageTypeOK
<1>1. ImageInv => ImageTypeOK
  <2> SUFFICES ASSUME ImageInv PROVE ImageTypeOK
    OBVIOUS
  <2>1. Rows = Len(BLOCKS(declared))
    BY DEF Rows, BLOCKS
  <2>2. copied \subseteq staged \union supplied(declared)
    <3> SUFFICES ASSUME NEW x \in copied PROVE x \in staged \union supplied(declared)
      OBVIOUS
    <3>1. PICK i \in Opened : x \in names(Block(declared, i))
      BY DEF ImageInv, Walked
    <3>2. i \in 1..Rows /\ gate(declared, i)
      BY DEF ImageInv, ImageRanges, Opened, Rows
    <3>3. x \in Block(declared, i).stages \union supplied(declared)
      BY <3>1, <3>2, RowsOrderly DEF Orderly
    <3> QED BY <3>1, <3>3 DEF ImageInv, Walked
  <2> QED BY <2>1, <2>2 DEF ImageInv, ImageRanges, AtWork, ImageTypeOK, Built
<1> QED BY <1>1, ImageHolds, PTL

\* ImageKeepsItsWord: whatever is declared, an accepted declaration becomes an
\* image, whose units can run, in which the owner's word stands, and whose live
\* session starts nothing a table masks.
THEOREM ImageIsItsWord == ImageSpec => []ImageKeepsItsWord
<1>1. ImageInv => AcceptedBuilds
  BY DEF ImageInv, ImageRanges, AcceptedBuilds, Built
<1>2. ImageInv => ImageKeepsItsWord
  BY <1>1, AllRun, WordStands, MaskedQuiet DEF ImageKeepsItsWord
<1> QED BY <1>2, ImageHolds, PTL
-----------------------------------------------------------------------------
\* The gathering is each of its components: what was proved of one holds of it.
THEOREM HomeIsEach ==
    HomeSpec => /\ BuildSpec /\ StorageSpec /\ HostSpec /\ HibernateSpec
                /\ InstallSpec /\ ImageSpec /\ OverridesSpec /\ DoctorSpec
<1>1. HomeInit => /\ BuildInit /\ StorageInit /\ HostInit /\ HibernateInit
                  /\ InstallInit /\ ImageInit /\ OverridesInit /\ DoctorInit
  BY DEF HomeInit, BuildStill, StorageStill, HostStill, InstallStill, ImageStill,
         OverridesStill, DoctorStill
<1>2. [HomeNext]_homeVars =>
        /\ [BuildNext]_buildVars /\ [StorageNext]_storageVars /\ [HostNext]_hostVars
        /\ [HibernateNext]_hibernateVars /\ [InstallNext]_installVars /\ [ImageNext]_imageVars
        /\ [OverridesNext]_overridesVars /\ [DoctorNext]_doctorVars
  BY DEF HomeNext, others, homeVars
<1> QED BY <1>1, <1>2, PTL DEF HomeSpec, BuildSpec, StorageSpec, HostSpec, HibernateSpec,
                               InstallSpec, ImageSpec, OverridesSpec, DoctorSpec

\* HomeTypeOK: whichever component a behaviour belongs to, its state is typed.
THEOREM HomeTypeHolds == HomeSpec => []HomeTypeOK
<1> DEFINE These == {"build", "storage", "host", "hibernate", "install", "image", "overrides",
                      "doctor"}
           Typed == /\ BuildTypeOK /\ StorageTypeOK /\ HostTypeOK /\ HibernateTypeOK
                    /\ InstallTypeOK /\ ImageTypeOK /\ OverridesTypeOK /\ DoctorTypeOK
<1>1. HomeInit => which \in These
  BY DEF HomeInit
<1>2. which \in These /\ [HomeNext]_homeVars => (which \in These)'
  BY DEF HomeNext, others, homeVars
<1>3. HomeSpec => [](which \in These)
  BY <1>1, <1>2, PTL DEF HomeSpec
<1>4. BuildInv => BuildTypeOK
  BY DEF BuildInv, Shape
<1>5. HostInv => HostTypeOK
  BY DEF HostInv
<1>6. HibernateInv => HibernateTypeOK
  BY DEF HibernateInv
<1>7. InstallInv => InstallTypeOK
  BY DEF InstallInv
<1>8. which \in These /\ Typed => HomeTypeOK
  BY DEF HomeTypeOK
<1> HIDE DEF These
<1>9. HomeSpec => []Typed
  BY <1>4, <1>5, <1>6, <1>7, HomeIsEach, BuildInvHolds, HostInvHolds, HibernateInvHolds,
     InstallInvHolds, StorageTypeHolds, ImageTypeHolds, OverridesTypeHolds, DoctorTypeHolds, PTL
<1> QED BY <1>3, <1>8, <1>9, PTL
=============================================================================
