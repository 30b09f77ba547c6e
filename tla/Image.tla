------------------------------- MODULE Image -------------------------------
(***************************************************************************)
(* What a declaration becomes: the rules it has to pass (config.rs), the   *)
(* walk over the block registry that writes the Containerfile and stages   *)
(* the files it copies (containerfile/), the image the build makes of      *)
(* them, and the units that run when that image boots: installed, or as    *)
(* the root of live media (liveiso.rs).  A file is its name and the place  *)
(* it is copied to; packages, texts and modes are left out.                *)
(***************************************************************************)
EXTENDS Naturals, Sequences

CONSTANTS Desktops,     \* the desktops a declaration may name
          Lines,        \* the lines somebody may write into it
          Slips,        \* the rules one careless value can break
          Enabled,      \* what services.enable may hold
          Disabled      \* what services.disable may hold

VARIABLES declared,     \* the declaration
          emitted,      \* how many blocks the walk has entered
          staged,       \* the names the walk has staged
          copied,       \* the names some block has copied
          shipped,      \* <<place, name>> of every file in the image
          onSystem,     \* units enabled in the system scope
          onGlobal,     \* units enabled for every account's own manager
          atWork,      \* <<scope, unit>> of every unit the boot started
          phase         \* "edit", "walk", "image", "machine", "live", or how it ended

imageVars == <<declared, emitted, staged, copied, shipped, onSystem, onGlobal,
             atWork, phase>>

Config == [desktop : Desktops, flatpak : BOOLEAN, brew_flag : BOOLEAN, brew : BOOLEAN,
           snapshots : BOOLEAN, backup : BOOLEAN,
           nostr : BOOLEAN, relay : BOOLEAN, serve : BOOLEAN,
           shell : BOOLEAN, fish : BOOLEAN,
           enable : Enabled, disable : Disabled, slip : Slips]

(***************************************************************************)
(* The rules a declaration has to pass before anything reads it.  A slip   *)
(* is one value out of its alphabet or range; the rules of a section that  *)
(* is not enabled are not asked.                                           *)
(***************************************************************************)
always == {"schema", "name", "firmware_on_base", "placeholder_hash", "private_key",
           "empty_override"}
of_snapshots == {"snapshots_keep_nothing", "relative_target"}
of_backup == {"no_repo", "password_in_repo", "quoted_repo", "backup_keeps_nothing",
              "relative_exclude"}
of_nostr == {"ws_to_the_world", "short_fuse"}

validate(c) ==
    /\ c.slip \notin always
    /\ c.snapshots => c.slip \notin of_snapshots
    /\ c.backup => c.snapshots /\ c.slip \notin of_backup
    /\ c.nostr => c.desktop # "none" /\ c.slip \notin of_nostr

(***************************************************************************)
(* What one block adds.  A block whose gate is shut adds nothing.          *)
(***************************************************************************)
Nothing == [stages |-> {}, copies |-> {}, system |-> {}, global |-> {},
            disable |-> {}, installs |-> {}, tests |-> {}]

\* Names copied to a place under their own name.
to(place, names) == {[name |-> n, at |-> <<place, n>>] : n \in names}

\* A block that stages what it copies.
ships(copies) == [Nothing EXCEPT !.copies = copies, !.stages = {f.name : f \in copies}]

common == {"kargs-desktop.toml", "fastfetch-config.jsonc", "fastfetch-logo.txt",
           "kuma-wallpaper.jpg"}

desktop_niri(c) ==
    LET files == to("etc", {"greetd-config.toml", "niri-binds.kdl", "mimeapps.list",
                            "kuma-lock"} \union common)
                 \union to("libexec", {"kuma-sleep-guard", "kuma-record",
                                       "kuma-battery-watch"})
                 \union to("system", {"kuma-sleep-guard.service"})
                 \union to("user", {"kuma-shell.service"})
    IN  [ships(files) EXCEPT !.copies = @ \union to("bin", {"kuma-shell"}),
                             !.system = {"kuma-sleep-guard.service", "greetd.service"},
                             !.global = {"kuma-shell.service"}]

desktop_cosmic(c) ==
    [ships(to("etc", {"cosmic-favorites", "cosmic-background"} \union common))
        EXCEPT !.system = {"cosmic-greeter.service"}]

\* The desktop-common files are staged here and copied by the arm beside it.
greeter_seam(c) ==
    [ships(to("libexec", {"kuma-greeter-check", "kuma-launch"}) \union
           to("etc", {"kuma-doctor.desktop"})) EXCEPT !.stages = @ \union common]

wants_flatpak(c) == c.desktop # "none" \/ c.flatpak

flatpak_sync(c) ==
    [ships(to("lib", {"flatpaks", "overrides"}) \union
           to("libexec", {"kuma-flatpak-sync", "kuma-converge-gate"}) \union
           to("system", {"kuma-flatpak-sync.service", "kuma-flatpak-sync.timer",
                         "kuma-flatpak-sync-daily.service",
                         "kuma-flatpak-overrides.service"}) \union
           {[name |-> "kuma-flatpak-overrides-user.service",
             at |-> <<"user", "kuma-flatpak-overrides.service">>]})
        EXCEPT !.system = {"kuma-flatpak-sync.service", "kuma-flatpak-sync.timer",
                           "kuma-flatpak-overrides.service"},
               !.global = {"kuma-flatpak-overrides.service"}]

wants_brew(c) == c.brew_flag \/ c.brew

brew(c) ==
    [ships(to("lib", {"brews"}) \union
           to("libexec", {"kuma-brew-setup", "kuma-brew-sync", "kuma-converge-gate"}) \union
           to("system", {"kuma-brew-setup.service", "kuma-brew-sync.service",
                         "kuma-brew-sync.timer", "kuma-brew-sync-daily.service"}))
        EXCEPT !.system = {"kuma-brew-setup.service", "kuma-brew-sync.service",
                           "kuma-brew-sync.timer"}]

rpm(c) == [Nothing EXCEPT !.installs = IF c.fish THEN {<<"bin", "fish">>} ELSE {}]

sshd(c) == [Nothing EXCEPT !.system = {"sshd.service"}]

services(c) == [Nothing EXCEPT !.system = c.enable, !.disable = c.disable]

boot_health(c) ==
    [ships(to("libexec", {"kuma-boot-health-sync", "kuma-fstab-sync"}) \union
           to("system", {"kuma-boot-health-sync.service", "kuma-fstab-sync.service",
                         "kuma-boot-titles.service", "kuma-swap-label.service"}))
        EXCEPT !.system = {"greenboot-healthcheck.service",
                           "greenboot-set-rollback-trigger.service",
                           "kuma-boot-health-sync.service", "kuma-fstab-sync.service",
                           "kuma-boot-titles.service", "kuma-swap-label.service"}]

signature(c) == ships(to("etc", {"cosign.pub", "containers-policy.json", "kuma-sigstore.yaml"}))

fwupd(c) == [Nothing EXCEPT !.system = {"fwupd-refresh.timer"}]

snapshots(c) ==
    [ships(to("libexec", {"kuma-snapshot"}) \union
           to("system", {"kuma-snapshot.service", "kuma-snapshot.timer"}))
        EXCEPT !.system = {"kuma-snapshot.timer"}]

backup_block(c) ==
    [ships(to("libexec", {"kuma-backup", "kuma-restore"}) \union
           to("system", {"kuma-backup.service", "kuma-backup.timer",
                         "kuma-restore.service"}))
        EXCEPT !.system = {"kuma-backup.timer", "kuma-restore.service"}]

\* The relay's own switch, and then the tailnet's.
serves(c) == c.relay /\ c.serve /\ "tailscaled.service" \in c.enable

nostr(c) ==
    LET units == {"kuma-nostrd.service"} \union
                 (IF c.relay THEN {"nip46-relay.service"} ELSE {})
        files == to("user", units) \union to("etc", {"kuma-nostr-panel.desktop"}) \union
                 (IF serves(c) THEN to("libexec", {"kuma-nostr-serve"}) \union
                                    to("system", {"kuma-nostr-serve.service"}) ELSE {})
        own == {"kuma-nostrd", "kuma-nostr"} \union (IF c.relay THEN {"nip46-relay"} ELSE {})
    IN  [ships(files) EXCEPT
            !.copies = @ \union to("bin", own),
            !.system = IF serves(c) THEN {"kuma-nostr-serve.service"} ELSE {},
            !.global = units]

vm_timezone(c) ==
    [ships(to("libexec", {"kuma-vm-timezone"}) \union to("system", {"kuma-vm-timezone.service"}))
        EXCEPT !.system = {"kuma-vm-timezone.service"}]

home_subvol(c) ==
    [ships(to("libexec", {"kuma-home-subvol"}) \union to("system", {"kuma-home-subvol.service"}))
        EXCEPT !.system = {"kuma-home-subvol.service"}]

\* The account's shell, and the system's, are tried where they are declared.
user_block(c) ==
    [ships(to("libexec", {"kuma-user-sync"}) \union to("system", {"kuma-user-sync.service"}))
        EXCEPT !.system = {"kuma-user-sync.service"},
               !.tests = IF c.shell THEN {<<"bin", "fish">>} ELSE {}]

hostname_block(c) == ships(to("etc", {"hostname"}))

kuma_binary(c) == [Nothing EXCEPT !.copies = to("bin", {"kuma"}),
                                  !.tests = {<<"bin", "kuma">>}]

declaration(c) == [Nothing EXCEPT !.copies = to("lib", {"kuma.toml"})]

(***************************************************************************)
(* The registry: the order of the layers, the gate of each block, and the  *)
(* units it answers for on live media.                                     *)
(***************************************************************************)
row(gate, block, units) == [gate |-> gate, block |-> block, units |-> units]

Masked(units) == [u \in units |-> "masked"]
Conditioned(units) == [u \in units |-> "conditioned"]
Runs(units) == [u \in units |-> "runs"]
both(f, g) == [u \in DOMAIN f \union DOMAIN g |-> IF u \in DOMAIN f THEN f[u] ELSE g[u]]
NoUnits == Runs({})

BLOCKS(c) == <<
    row(c.desktop = "niri", desktop_niri(c), Runs({"kuma-shell.service", "kuma-sleep-guard.service"})),
    row(c.desktop = "cosmic", desktop_cosmic(c), NoUnits),
    row(wants_flatpak(c), flatpak_sync(c),
        Masked({"kuma-flatpak-sync.service", "kuma-flatpak-sync.timer",
                "kuma-flatpak-overrides.service"})),
    row(wants_brew(c), brew(c),
        both(Conditioned({"kuma-brew-setup.service"}),
             Masked({"kuma-brew-sync.service", "kuma-brew-sync.timer"}))),
    row(TRUE, rpm(c), NoUnits),
    row(TRUE, sshd(c), NoUnits),
    row(TRUE, services(c), NoUnits),
    row(c.desktop # "none", greeter_seam(c), NoUnits),
    row(TRUE, boot_health(c),
        both(Masked({"greenboot-healthcheck.service", "greenboot-set-rollback-trigger.service"}),
             Conditioned({"kuma-boot-health-sync.service", "kuma-fstab-sync.service",
                          "kuma-boot-titles.service", "kuma-swap-label.service"}))),
    row(TRUE, signature(c), NoUnits),
    row(TRUE, fwupd(c), NoUnits),
    row(c.snapshots, snapshots(c), Masked({"kuma-snapshot.timer"})),
    row(c.backup, backup_block(c), both(Masked({"kuma-backup.timer"}),
                                  Conditioned({"kuma-restore.service"}))),
    row(c.nostr, nostr(c), both(Runs({"kuma-nostrd.service", "nip46-relay.service"}),
                                Masked({"kuma-nostr-serve.service"}))),
    row(TRUE, vm_timezone(c), Runs({"kuma-vm-timezone.service"})),
    row(TRUE, home_subvol(c), Conditioned({"kuma-home-subvol.service"})),
    row(TRUE, user_block(c), Masked({"kuma-user-sync.service"})),
    row(TRUE, hostname_block(c), NoUnits),
    row(TRUE, kuma_binary(c), NoUnits),
    row(TRUE, declaration(c), NoUnits) >>
Rows == 20

\* A manager starts its units, and a timer the service it names.
fires == [u \in {"kuma-flatpak-sync.timer", "kuma-brew-sync.timer",
                 "kuma-snapshot.timer", "kuma-backup.timer"} |->
             CASE u = "kuma-flatpak-sync.timer" -> "kuma-flatpak-sync-daily.service"
               [] u = "kuma-brew-sync.timer" -> "kuma-brew-sync-daily.service"
               [] u = "kuma-snapshot.timer" -> "kuma-snapshot.service"
               [] u = "kuma-backup.timer" -> "kuma-backup.service"]

started(units) == units \union {fires[u] : u \in units \intersect DOMAIN fires}

live_masks(c) ==
    UNION {{u \in DOMAIN r.units : r.units[u] = "masked"} :
              r \in {BLOCKS(c)[i] : i \in DOMAIN BLOCKS(c)}}

\* kuma's own units: what a block may enable only with a disposition.
kuma_units(c) == UNION {DOMAIN BLOCKS(c)[i].units : i \in DOMAIN BLOCKS(c)}
External == {"sshd.service", "greetd.service", "cosmic-greeter.service",
             "fwupd-refresh.timer", "tailscaled.service"}

\* What an owner may name: a desktop and a line there are, and units of other
\* packages; kuma's timers and what they fire come from kuma's own blocks.
Timed == DOMAIN fires \union {fires[u] : u \in DOMAIN fires}
ASSUME ImageAssumption ==
    /\ Desktops \subseteq {"none", "niri", "cosmic"}
    /\ Lines \subseteq {"flatpak", "brew_flag", "brew", "snapshots", "backup", "nostr", "relay",
                       "serve", "shell", "fish"}
    /\ \A e \in Enabled : e \intersect Timed = {}

(***************************************************************************)
(* The declaration is edited, then the walk goes over it block by block.   *)
(***************************************************************************)
EmptyWalk == /\ emitted' = 0 /\ staged' = {} /\ copied' = {}
             /\ shipped' = {} /\ onSystem' = {} /\ onGlobal' = {} /\ atWork' = {}

ImageInit ==
    /\ \E d \in Desktops, e \in Enabled, x \in Disabled, s \in Slips :
          declared = [desktop |-> d, enable |-> e, disable |-> x, slip |-> s,
                      flatpak |-> FALSE, brew_flag |-> FALSE, brew |-> FALSE,
                      snapshots |-> FALSE, backup |-> FALSE, nostr |-> FALSE,
                      relay |-> FALSE, serve |-> FALSE, shell |-> FALSE, fish |-> FALSE]
    /\ emitted = 0 /\ staged = {} /\ copied = {} /\ shipped = {}
    /\ onSystem = {} /\ onGlobal = {} /\ atWork = {} /\ phase = "edit"

\* Somebody writes one line of the declaration.
Declare ==
    /\ phase = "edit"
    /\ \E f \in Lines : ~declared[f] /\ declared' = [declared EXCEPT ![f] = TRUE]
    /\ UNCHANGED <<emitted, staged, copied, shipped, onSystem, onGlobal, atWork, phase>>

\* `kuma build` reads it and refuses it by name.
Refused == /\ phase = "edit" /\ ~validate(declared)
           /\ phase' = "refused"
           /\ UNCHANGED <<declared, emitted, staged, copied, shipped, onSystem, onGlobal, atWork>>

\* Mutant: the relay's binary is not carried into the context.
supplied_no_relay(c) ==
    {"kuma", "kuma.toml"}
    \union (IF c.desktop = "niri" THEN {"kuma-shell"} ELSE {})
    \union (IF c.nostr THEN {"kuma-nostrd", "kuma-nostr"} ELSE {})

\* The names write_context puts beside the files the walk stages.
supplied(c) ==
    {"kuma", "kuma.toml"}
    \union (IF c.desktop = "niri" THEN {"kuma-shell"} ELSE {})
    \union (IF c.nostr THEN {"kuma-nostrd", "kuma-nostr"} ELSE {})
    \union (IF c.nostr /\ c.relay THEN {"nip46-relay"} ELSE {})

Accepted == /\ phase = "edit" /\ validate(declared)
            /\ phase' = "walk"
            /\ UNCHANGED <<declared, emitted, staged, copied, shipped, onSystem, onGlobal, atWork>>

(***************************************************************************)
(* One block of the walk.  Enabling one of kuma's own units needs a        *)
(* disposition in the block's own table.  What the block writes is what    *)
(* podman then does with it: a file the context never carried, a program   *)
(* that is not there and a unit nobody ships fail the build.               *)
(***************************************************************************)
accounted(r) == (r.block.system \union r.block.global) \ (External \union declared.enable)
                    \subseteq DOMAIN r.units

carried(r) == {f.name : f \in r.block.copies}
                  \subseteq staged \union r.block.stages \union supplied(declared)

Emit ==
    /\ phase = "walk"
    /\ emitted < Rows
    /\ LET r == BLOCKS(declared)[emitted + 1]
           files == shipped \union r.block.installs \union {f.at : f \in r.block.copies}
       IN  /\ emitted' = emitted + 1
           /\ \/ /\ ~r.gate
                 /\ UNCHANGED <<staged, copied, shipped, onSystem, onGlobal, phase>>
              \/ /\ r.gate
                 /\ staged' = staged \union r.block.stages
                 /\ copied' = copied \union {f.name : f \in r.block.copies}
                 /\ shipped' = files
                 /\ onSystem' = (onSystem \union r.block.system) \ r.block.disable
                 /\ onGlobal' = onGlobal \union r.block.global
                 /\ phase' = IF ~accounted(r) THEN "panics"
                             ELSE IF carried(r) /\ r.block.tests \subseteq files
                             THEN "walk" ELSE "fails"
    /\ UNCHANGED <<declared, atWork>>

\* Every staged file has been copied, or the walk panics.
reconcile ==
    /\ phase = "walk" /\ emitted = Rows
    /\ phase' = IF staged \subseteq copied THEN "image" ELSE "panics"
    /\ UNCHANGED <<declared, emitted, staged, copied, shipped, onSystem, onGlobal, atWork>>

\* The declaration is opened again: the next build walks from the start.
Reopen == /\ phase \in {"image", "machine", "live", "refused", "fails", "panics"}
          /\ phase' = "edit"
          /\ EmptyWalk /\ UNCHANGED declared

(***************************************************************************)
(* Boots.  A condition in a unit's text can hold back what its manager     *)
(* starts.                                                                 *)
(***************************************************************************)
\* What has to be there: a deployment, or a file nobody has written yet.
ostree_booted == {"kuma-boot-health-sync.service", "kuma-fstab-sync.service",
                  "kuma-boot-titles.service", "kuma-home-subvol.service"}
on_request == {"kuma-restore.service", "kuma-swap-label.service"}

BootMachine ==
    /\ phase = "image" /\ phase' = "machine"
    /\ atWork' = ({"system"} \X (started(onSystem) \ on_request))
                     \union ({"user"} \X onGlobal)
    /\ UNCHANGED <<declared, emitted, staged, copied, shipped, onSystem, onGlobal>>

\* The live layer masks what the tables say; the session logs its own user in.
BootLive ==
    /\ phase = "image" /\ phase' = "live"
    /\ atWork' = ({"system"} \X (started(onSystem \ live_masks(declared))
                                    \ (ostree_booted \union on_request)))
                     \union ({"user"} \X onGlobal)
    /\ UNCHANGED <<declared, emitted, staged, copied, shipped, onSystem, onGlobal>>

\* The program each unit's text names.
ExecStart == {
    <<"kuma-flatpak-sync.service", "libexec", "kuma-flatpak-sync">>,
    <<"kuma-flatpak-sync-daily.service", "libexec", "kuma-flatpak-sync">>,
    <<"kuma-flatpak-sync-daily.service", "libexec", "kuma-converge-gate">>,
    <<"kuma-flatpak-overrides.service", "bin", "kuma">>,
    <<"kuma-brew-setup.service", "libexec", "kuma-brew-setup">>,
    <<"kuma-brew-sync.service", "libexec", "kuma-brew-sync">>,
    <<"kuma-brew-sync-daily.service", "libexec", "kuma-brew-sync">>,
    <<"kuma-brew-sync-daily.service", "libexec", "kuma-converge-gate">>,
    <<"kuma-boot-titles.service", "bin", "kuma">>,
    <<"kuma-boot-health-sync.service", "libexec", "kuma-boot-health-sync">>,
    <<"kuma-fstab-sync.service", "libexec", "kuma-fstab-sync">>,
    <<"kuma-snapshot.service", "libexec", "kuma-snapshot">>,
    <<"kuma-backup.service", "libexec", "kuma-backup">>,
    <<"kuma-restore.service", "libexec", "kuma-restore">>,
    <<"kuma-vm-timezone.service", "libexec", "kuma-vm-timezone">>,
    <<"kuma-home-subvol.service", "libexec", "kuma-home-subvol">>,
    <<"kuma-user-sync.service", "libexec", "kuma-user-sync">>,
    <<"kuma-sleep-guard.service", "libexec", "kuma-sleep-guard">>,
    <<"kuma-shell.service", "bin", "kuma-shell">>,
    <<"kuma-nostrd.service", "bin", "kuma-nostrd">>,
    <<"nip46-relay.service", "bin", "nip46-relay">>,
    <<"kuma-nostr-serve.service", "libexec", "kuma-nostr-serve">> }

\* A unit can run when its text and the programs it names are in the image.
can_run(scope, u) ==
    /\ <<scope, u>> \in shipped
    /\ \A e \in ExecStart : e[1] = u => <<e[2], e[3]>> \in shipped

ImageNext == \/ Declare \/ Refused \/ Accepted \/ Emit \/ reconcile \/ Reopen
             \/ BootMachine \/ BootLive

ImageSpec == ImageInit /\ [][ImageNext]_imageVars

-----------------------------------------------------------------------------
Built == {"image", "machine", "live"}
own(units) == units \ (External \union declared.enable \union {"greenboot-healthcheck.service",
                                        "greenboot-set-rollback-trigger.service"})

\* What the variables can hold.
ImageTypeOK ==
    /\ declared \in Config
    /\ emitted \in 0..Rows /\ (phase = "edit" => Rows = Len(BLOCKS(declared)))
    /\ phase # "fails" => copied \subseteq staged \union supplied(declared)
    /\ phase \in {"edit", "refused", "walk", "fails", "panics"} \union Built
    /\ atWork # {} => phase \in {"machine", "live"}

\* A declaration that passes the rules becomes an image: whatever it asks for,
\* no block enables a unit nobody answers for, no staged file is left behind and
\* no copied file is missing; only a shell nobody installs fails the build.
AcceptedBuilds ==
    /\ phase # "panics"
    /\ phase = "fails" => declared.shell /\ ~declared.fish

\* Every unit of kuma's that the image enables, and every service a timer of it
\* fires, ships with the program it runs, in the scope it is enabled for; and a
\* backup that is armed has snapshots to read from, whatever the owner disabled.
EnabledCanRun ==
    phase \in Built =>
        /\ \A u \in own(started(onSystem)) : can_run("system", u)
        /\ \A u \in onGlobal : can_run("user", u)
        /\ "kuma-backup.timer" \in onSystem => "kuma-snapshot.timer" \in onSystem

\* The owner's word and kuma's floor: what the owner disables is off, except the
\* boot health, the firmware, the timezone and the host's units, which come after
\* and stay, and what a section of the declaration asks for below them.
Floor == {"greenboot-healthcheck.service", "greenboot-set-rollback-trigger.service",
          "kuma-boot-health-sync.service", "kuma-fstab-sync.service",
          "kuma-boot-titles.service", "kuma-swap-label.service", "fwupd-refresh.timer",
          "kuma-vm-timezone.service", "kuma-home-subvol.service", "kuma-user-sync.service"}
Sections == {"kuma-snapshot.timer", "kuma-backup.timer", "kuma-restore.service",
             "kuma-nostr-serve.service"}
OwnersWordStands ==
    phase \in Built =>
        /\ Floor \subseteq onSystem
        /\ "sshd.service" \in onSystem <=> "sshd.service" \notin declared.disable
        /\ (declared.disable \ (Floor \union Sections)) \intersect onSystem = {}

\* What a table says a live session masks.
said_quiet == {u \in kuma_units(declared) :
                 \E i \in DOMAIN BLOCKS(declared) :
                     /\ u \in DOMAIN BLOCKS(declared)[i].units
                     /\ BLOCKS(declared)[i].units[u] = "masked"}

\* On live media no unit that a table masks, and no service its timer fires,
\* runs in the system's own scope.
MaskedStaysQuiet ==
    phase = "live" =>
        \A u \in started(said_quiet) : <<"system", u>> \notin atWork

\* From a declaration to the units at work.
ImageKeepsItsWord == AcceptedBuilds /\ EnabledCanRun /\ OwnersWordStands /\ MaskedStaysQuiet

\* "A live session no longer arms kuma's timers or converges Flatpak
\* permissions": nothing a table masks runs in any scope.
LiveConvergesNothing ==
    phase = "live" => \A r \in atWork : r[2] \notin started(said_quiet)
=============================================================================
