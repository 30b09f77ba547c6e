------------------------------- MODULE Install -------------------------------
(* kuma install: the gates of the verb in their order (main.rs, install.rs), *)
(* the arithmetic of the layout, and the one privileged script that wipes a  *)
(* disk and unwinds itself wherever it stops (partition.rs).  Sizes are MiB. *)
(* An automounter may grab the disk, and the network may come and go, while  *)
(* the interview is being typed.                                             *)
EXTENDS Naturals, FiniteSets

CONSTANTS DiskSizes,   \* sizes of the target
          Asks,        \* partition sizes a person may name
          Swaps,       \* swapfile sizes a person may name
          MaxRuns      \* bound on the attempts

ASSUME InstallAssumption ==
    DiskSizes \cup Asks \cup Swaps \subseteq Nat \ {0} /\ MaxRuns \in Nat \ {0}

ESP_MIB == 600
BOOT_MIB == 2048
MIN_ESP_MIB == 256
MIN_BOOT_MIB == 1024
MIN_ROOT_MIB == 16 * 1024 - ESP_MIB - BOOT_MIB
MIN_SWAP_MIB == 1024
REQUIRED_TOOLS == {"sfdisk", "btrfs", "podman"}
ENCRYPT_TOOLS == {"cryptsetup"}

VARIABLES
    target,    \* the disk or the file, with what is true of it
    media,     \* the machine the installer runs on
    asked,     \* the flags
    step,      \* the next gate of the verb or command of the script
    encrypt, esp, boot, swap,    \* the answers; 0 is no swapfile
    typed,     \* secrets somebody typed in this run
    wiped,     \* the old contents are gone
    open,      \* what the script holds open: loop, mapper, mounts, store
    writes,    \* what of a working machine is on the disk
    runs

installVars == <<target, media, asked, step, encrypt, esp, boot, swap, typed, wiped, open,
                 writes, runs>>
answers == <<encrypt, esp, boot, swap>>
world == <<target, media, asked>>
target_disk == <<wiped, open, writes>>

Targets == [kind : {"device", "file"}, size : DiskSizes, mounted : BOOLEAN, member : BOOLEAN]
Media == [tools : {REQUIRED_TOOLS \cup ENCRYPT_TOOLS, REQUIRED_TOOLS, ENCRYPT_TOOLS},
          image : {"local", "published", "absent"}, terminal : BOOLEAN]
Flags == [yes : BOOLEAN, updates : {"registry", "localhost"}, encrypt : BOOLEAN,
          esp : Asks \cup {0}, boot : Asks \cup {0}, swap : Swaps \cup {0},
          restore : {"no", "usable", "unusable"}]
Gates == {"source", "objections", "image", "encrypt", "sizes", "tools", "layout", "swap",
          "plan", "passphrase", "account", "restore", "sync", "run"}
Commands == {"attach", "wipe", "format", "mount", "swapfile", "layer", "bootc", "fstab", "cleanup"}
Ends == {"refused", "shown", "failed", "installed"}

InstallTypeOK ==
    /\ target \in Targets /\ media \in Media
    /\ step \in Gates \cup Commands \cup Ends
    /\ encrypt \in BOOLEAN /\ {esp, boot} \subseteq Asks \cup {ESP_MIB, BOOT_MIB}
    /\ swap \in Swaps \cup {0}
    /\ typed \subseteq {"passphrase", "password"} /\ wiped \in BOOLEAN
    /\ open \subseteq {"loop", "mapper", "mounts", "store"}
    /\ writes \subseteq {"system", "luks karg", "resume karg", "fstab", "swapfile"}
    /\ runs \in 1..MaxRuns

Fresh ==
    /\ step' = "source" /\ typed' = {} /\ writes' = {}
    /\ encrypt' = FALSE /\ esp' = ESP_MIB /\ boot' = BOOT_MIB /\ swap' = 0

InstallInit ==
    /\ target \in {t \in Targets : t.kind = "file" => ~t.member}
    /\ media \in Media /\ asked \in Flags
    /\ step = "source" /\ encrypt = FALSE /\ esp = ESP_MIB /\ boot = BOOT_MIB /\ swap = 0
    /\ typed = {} /\ wiped = FALSE /\ open = {} /\ writes = {} /\ runs = 1

-----------------------------------------------------------------------------
(* The arithmetic.                                                           *)

minimum_mib == MIN_ROOT_MIB + esp + boot
\* plan refuses a disk whose root would not hold a system.
plan(size) == size >= minimum_mib
\* mutant: the room is measured against the default partitions
spare_default(size) ==
    IF size > MIN_ROOT_MIB + ESP_MIB + BOOT_MIB THEN size - (MIN_ROOT_MIB + ESP_MIB + BOOT_MIB) ELSE 0
spare_mib(size) == IF size > minimum_mib THEN size - minimum_mib ELSE 0
swap_objection(mib, size) == mib # 0 /\ (mib < MIN_SWAP_MIB \/ mib > spare_mib(size))

-----------------------------------------------------------------------------
(* The gates, in order.                                                      *)

Gate(at, ok, next) == step = at /\ step' = IF ok THEN next ELSE "refused"
Ask(at, next) == step = at /\ step' = next

\* A localhost image is nothing the installed machine can update from.
unreachable_update_source ==
    /\ Gate("source", asked.updates # "localhost", "objections")
    /\ UNCHANGED <<world, answers, typed, target_disk, runs>>
\* In use, or a member of a volume that lives beyond it; asked once, here.
disk_objections ==
    /\ Gate("objections", ~target.mounted /\ ~target.member, "image")
    /\ UNCHANGED <<world, answers, typed, target_disk, runs>>
\* Only a run that will pull the image asks whether it can.
image_reachable ==
    /\ Gate("image", asked.yes /\ media.image # "local" => media.image = "published", "encrypt")
    /\ UNCHANGED <<world, answers, typed, target_disk, runs>>
ask_encrypt == \E yes \in BOOLEAN :
    /\ Ask("encrypt", "sizes")
    /\ yes => asked.encrypt \/ (asked.yes /\ media.terminal)
    /\ asked.encrypt => yes
    /\ encrypt' = yes
    /\ UNCHANGED <<world, esp, boot, swap, typed, target_disk, runs>>
\* A flag below its floor refuses; an answer below it is asked again.
ask_sizes == \E e, b \in Asks \cup {ESP_MIB, BOOT_MIB} :
    /\ Gate("sizes", e >= MIN_ESP_MIB /\ b >= MIN_BOOT_MIB, "tools")
    /\ IF asked.esp # 0 THEN e = asked.esp
       ELSE e = ESP_MIB \/ (asked.yes /\ media.terminal /\ e >= MIN_ESP_MIB)
    /\ IF asked.boot # 0 THEN b = asked.boot
       ELSE b = BOOT_MIB \/ (asked.yes /\ media.terminal /\ b >= MIN_BOOT_MIB)
    /\ esp' = e /\ boot' = b
    /\ UNCHANGED <<world, encrypt, swap, typed, target_disk, runs>>
required == REQUIRED_TOOLS \cup (IF encrypt THEN ENCRYPT_TOOLS ELSE {})
missing_tools ==
    /\ Gate("tools", required \subseteq media.tools, "layout")
    /\ UNCHANGED <<world, answers, typed, target_disk, runs>>
layout ==
    /\ Gate("layout", plan(target.size), "swap")
    /\ UNCHANGED <<world, answers, typed, target_disk, runs>>
ask_swap == \E mib \in Swaps \cup {0} :
    /\ Gate("swap", ~swap_objection(mib, target.size), "plan")
    /\ IF asked.swap # 0 THEN mib = asked.swap
       ELSE mib = 0 \/ (asked.yes /\ media.terminal /\ ~swap_objection(mib, target.size))
    /\ swap' = mib
    /\ UNCHANGED <<world, encrypt, esp, boot, typed, target_disk, runs>>
\* A dry run ends with the plan and the command that would carry it out.
show_plan ==
    /\ Gate("plan", TRUE, IF ~asked.yes THEN "shown" ELSE IF encrypt THEN "passphrase" ELSE "account")
    /\ UNCHANGED <<world, answers, typed, target_disk, runs>>
ask_passphrase ==
    /\ Ask("passphrase", "account")
    /\ typed' = typed \cup {"passphrase"}
    /\ UNCHANGED <<world, answers, target_disk, runs>>
ask_account ==
    /\ Ask("account", "restore")
    /\ typed' = typed \cup {"password"}
    /\ UNCHANGED <<world, answers, target_disk, runs>>
\* The restore file is read before anything is written.
restore_file_is_usable ==
    /\ Gate("restore", asked.restore # "unusable", IF media.image = "local" THEN "sync" ELSE "run")
    /\ UNCHANGED <<world, answers, typed, target_disk, runs>>
\* A local image is copied to where root's podman looks, which may fail.
sync_image_to_root == \E ok \in BOOLEAN :
    /\ Gate("sync", ok, "run")
    /\ UNCHANGED <<world, answers, typed, target_disk, runs>>
\* The length of a block device's inode is none.
metadata_len == IF target.kind = "file" THEN target.size ELSE 0
run_install ==
    /\ Gate("run", plan(metadata_len), "attach")
    /\ UNCHANGED <<world, answers, typed, target_disk, runs>>

-----------------------------------------------------------------------------
(* The script.  Every command may fail, and the trap runs whatever it was.   *)

Command(at, next) ==
    /\ step = at /\ step' = next
    /\ UNCHANGED <<world, answers, typed, runs>>
attach ==
    /\ Command("attach", "wipe")
    /\ open' = IF target.kind = "file" THEN open \cup {"loop"} ELSE open
    /\ UNCHANGED <<wiped, writes>>
wipe ==
    /\ Command("wipe", "format")
    /\ wiped' = TRUE
    /\ UNCHANGED <<open, writes>>
format ==
    /\ Command("format", "mount")
    /\ required \subseteq media.tools
    /\ open' = IF encrypt THEN open \cup {"mapper"} ELSE open
    /\ UNCHANGED <<wiped, writes>>
mount ==
    /\ Command("mount", IF swap = 0 THEN "layer" ELSE "swapfile")
    /\ open' = open \cup {"mounts", "store"}
    /\ UNCHANGED <<wiped, writes>>
\* Before anything large is pulled: the one step that can fill the disk.
swapfile ==
    /\ Command("swapfile", "layer")
    /\ writes' = writes \cup {"swapfile"}
    /\ UNCHANGED <<wiped, open>>
\* The layer with the account, and the question whether the target is
\* visible from inside a container.
build_layer ==
    /\ Command("layer", "bootc")
    /\ UNCHANGED target_disk
bootc ==
    /\ Command("bootc", IF swap = 0 THEN "cleanup" ELSE "fstab")
    /\ writes' = writes \cup {"system"} \cup (IF encrypt THEN {"luks karg"} ELSE {})
                        \cup (IF swap = 0 THEN {} ELSE {"resume karg"})
    /\ UNCHANGED <<wiped, open>>
swap_fstab ==
    /\ Command("fstab", "cleanup")
    /\ writes' = writes \cup {"fstab"}
    /\ UNCHANGED <<wiped, open>>

\* The trap: mounts, the store, the mapper, then the loop device.
open_after == {}
finished == "system" \in writes /\ (swap # 0 => "fstab" \in writes)
cleanup ==
    /\ step = "cleanup"
    /\ open' = open_after
    /\ step' = IF finished THEN "installed" ELSE "failed"
    /\ UNCHANGED <<world, answers, typed, wiped, writes, runs>>
CommandFails ==
    /\ step \in Commands \ {"cleanup"}
    /\ step' = "cleanup"
    /\ UNCHANGED <<world, answers, typed, target_disk, runs>>

-----------------------------------------------------------------------------
(* The world meanwhile, and another attempt.                                 *)

Automount ==
    /\ ~target.mounted /\ open = {} /\ ~wiped
    /\ target' = [target EXCEPT !.mounted = TRUE]
    /\ UNCHANGED <<media, asked, step, answers, typed, target_disk, runs>>
Again == \E f \in {[asked EXCEPT !.yes = TRUE], [asked EXCEPT !.restore = "usable"]} :
    /\ step \in {"refused", "shown", "failed"} /\ runs < MaxRuns /\ runs' = runs + 1
    /\ asked' = f /\ Fresh
    /\ UNCHANGED <<target, media, wiped, open>>

Interview == ask_encrypt \/ ask_sizes \/ ask_swap \/ ask_passphrase \/ ask_account
Refusals == unreachable_update_source \/ disk_objections \/ image_reachable \/ missing_tools
    \/ layout \/ show_plan \/ restore_file_is_usable \/ sync_image_to_root \/ run_install
Script == attach \/ wipe \/ format \/ mount \/ swapfile \/ build_layer \/ bootc \/ swap_fstab
    \/ cleanup \/ CommandFails
InstallNext == Refusals \/ Interview \/ Script \/ Automount \/ Again
InstallSpec == InstallInit /\ [][InstallNext]_installVars

-----------------------------------------------------------------------------

\* Nothing is wiped that the run could not finish: every tool the script will
\* call for these answers is there, the update source is one, and what the
\* person took for the ESP, /boot and the swapfile leaves a system its room.
WipedCanBeFinished ==
    step \in Commands /\ wiped =>
        /\ required \subseteq media.tools
        /\ swap + esp + boot + MIN_ROOT_MIB <= target.size
        /\ asked.updates = "registry" /\ ~target.member

\* A script that stopped anywhere leaves nothing open: the next attempt fails
\* for its own reason, and the layer with the password hash is gone.
NothingHeldBehind == step \in Ends \cup Gates => open = {}

\* A disk is wiped only to be finished, and a script that stops lets go.
InstallKeepsItsWord == WipedCanBeFinished /\ NothingHeldBehind

\* Everything that would stop the verb stops it before anything is typed.
NothingTypedInVain == step = "refused" => typed = {}

\* A disk something has mounted is never wiped.
MountedStays == [][wiped' /\ ~wiped => ~target.mounted]_installVars
=============================================================================
