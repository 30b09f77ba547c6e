-------------------------------- MODULE HomeMC --------------------------------
(***************************************************************************)
(* A small instance of what kuma does around one machine: the build, the   *)
(* image, the installer, the host and its accounts, hibernation, snapshots *)
(* and backups, overrides and the doctor.  The components share no state:  *)
(* a behaviour is one component's, the others stay where they start.       *)
(***************************************************************************)
EXTENDS Build, Storage, Host, Hibernate, Install, Image, Overrides, Doctor

VARIABLE which
homeVars == <<which, buildVars, storageVars, hostVars, hibernateVars, installVars, imageVars,
              overridesVars, doctorVars>>

one(S) == CHOOSE x \in S : TRUE
\* One initial state of each component, for it to stay in.
BuildStill == decl = one(Refs) /\ BuildInit
StorageStill ==
    /\ subvol = FALSE /\ reach = FALSE /\ secret = FALSE /\ credential = FALSE /\ lost = {}
    /\ StorageInit
HostStill ==
    /\ image = one([user : Users("image"), host : Hosts]) /\ person = one(Users("installer"))
    /\ wanted = NoHost /\ HostInit
InstallStill ==
    /\ target = one({t \in Targets : t.kind = "file" => ~t.member})
    /\ media = one(Media) /\ asked = one(Flags) /\ InstallInit
ImageStill ==
    /\ ImageInit
    /\ declared.desktop = one(Desktops) /\ declared.enable = one(Enabled)
    /\ declared.disable = one(Disabled) /\ declared.slip = one(Slips)
OverridesStill == listed = {} /\ OverridesInit /\ overrides = [a \in AppIds |-> Nameless]
DoctorStill ==
    /\ ordered = one(Declarations) /\ cred = "none" /\ snap_target = "directory" /\ DoctorInit

HomeInit ==
    /\ which \in {"build", "storage", "host", "hibernate", "install", "image", "overrides",
                  "doctor"}
    /\ IF which = "build" THEN BuildInit ELSE BuildStill
    /\ IF which = "storage" THEN StorageInit ELSE StorageStill
    /\ IF which = "host" THEN HostInit ELSE HostStill
    /\ HibernateInit
    /\ IF which = "install" THEN InstallInit ELSE InstallStill
    /\ IF which = "image" THEN ImageInit ELSE ImageStill
    /\ IF which = "overrides" THEN OverridesInit ELSE OverridesStill
    /\ IF which = "doctor" THEN DoctorInit ELSE DoctorStill

others(name) ==
    /\ which = name /\ which' = which
    /\ name # "build" => UNCHANGED buildVars
    /\ name # "storage" => UNCHANGED storageVars
    /\ name # "host" => UNCHANGED hostVars
    /\ name # "hibernate" => UNCHANGED hibernateVars
    /\ name # "install" => UNCHANGED installVars
    /\ name # "image" => UNCHANGED imageVars
    /\ name # "overrides" => UNCHANGED overridesVars
    /\ name # "doctor" => UNCHANGED doctorVars
HomeNext ==
    \/ others("build") /\ BuildNext
    \/ others("storage") /\ StorageNext
    \/ others("host") /\ HostNext
    \/ others("hibernate") /\ HibernateNext
    \/ others("install") /\ InstallNext
    \/ others("image") /\ ImageNext
    \/ others("overrides") /\ OverridesNext
    \/ others("doctor") /\ DoctorNext
HomeSpec == HomeInit /\ [][HomeNext]_homeVars

-----------------------------------------------------------------------------
\* What the image's declaration may enable and disable.
EnabledSets == {{}, {"tailscaled.service"}}
DisabledSets == {{}, {"sshd.service", "kuma-snapshot.timer", "kuma-fstab-sync.service"}}
AllLines == {"flatpak", "brew_flag", "snapshots", "backup", "nostr", "relay", "serve", "shell",
             "fish"}

\* A storage of at most two built images, and at most five of the lines of a
\* declaration: any two of its sections with what they need.
Few ==
    /\ Cardinality(images) <= 2
    /\ Cardinality({line \in AllLines : declared[line]}) <= 5

(* Every component's state stays in its types.                               *)
HomeTypeOK ==
    CASE which = "build" -> BuildTypeOK
      [] which = "storage" -> StorageTypeOK
      [] which = "host" -> HostTypeOK
      [] which = "hibernate" -> HibernateTypeOK
      [] which = "install" -> InstallTypeOK
      [] which = "image" -> ImageTypeOK
      [] which = "overrides" -> OverridesTypeOK
      [] which = "doctor" -> DoctorTypeOK
=============================================================================
