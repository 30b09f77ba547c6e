-------------------------------- MODULE Host --------------------------------
(* The units that turn an installed disk into somebody's machine, at every   *)
(* boot (blocks.rs): kuma-home-subvol before sysinit, then kuma-user-sync    *)
(* beside kuma-fstab-sync.  Power may be cut between any two of their        *)
(* commands, and an update may bring another image, whose /etc is merged     *)
(* with the machine's.                                                       *)
EXTENDS Naturals, FiniteSets

CONSTANTS Names,      \* account names
          Groups,     \* groups a declaration may name
          Missing,    \* those the system does not have
          Hosts,      \* host names
          MaxBoots,   \* bound on the boots
          MaxDeeds    \* bound on what the owner does

ASSUME HostAssumption ==
    Missing \subseteq Groups /\ MaxBoots \in Nat /\ MaxDeeds \in Nat

VARIABLES image,      \* the booted image: its account and its host name
          person,     \* /var/lib/kuma/user, which kuma install writes
          wanted,     \* /var/lib/kuma/hostname, likewise
          hostname,   \* /etc/hostname
          accounts,   \* what useradd made
          given,      \* groups the owner gave by hand
          homeDir,       \* /var/home
          dressed,    \* it has the mode and the label tmpfiles gave the directory
          fstab,      \* what the installer wrote, what the converger left, or torn
          homeStep,     \* the step of kuma-home-subvol
          sync,       \* the step of kuma-user-sync
          todo,       \* the groups it still has to add
          edit,       \* the step of kuma-fstab-sync
          boots, deeds

hostVars == <<image, person, wanted, hostname, accounts, given, homeDir, dressed, fstab,
              homeStep, sync, todo, edit, boots, deeds>>
identity == <<image, person, wanted, hostname, accounts, given>>
homeState == <<homeDir, dressed, fstab>>
units == <<homeStep, sync, todo, edit>>
bounds == <<boots, deeds>>

Nobody == [name |-> "nobody", hash |-> "none", groups |-> {}]
NoAccount == [password |-> "none", groups |-> {}]
NoHost == "unset"
Users(of) == [name : Names, hash : {of, "none"}, groups : SUBSET Groups] \cup {Nobody}
Passwords == {"none", "locked", "image", "installer", "owner"}

HostTypeOK ==
    /\ image \in [user : Users("image"), host : Hosts]
    /\ person \in Users("installer") /\ wanted \in Hosts \cup {NoHost}
    /\ hostname \in Hosts
    /\ accounts \in [Names -> [password : Passwords, groups : SUBSET Groups]]
    /\ given \subseteq Names \X Groups
    /\ homeDir \in {"none", "empty", "lived in"} \X {"directory", "subvolume"}
    /\ dressed \in BOOLEAN /\ fstab \in {"installed", "torn", "commented"}
    /\ homeStep \in {"off", "look", "remove", "create", "dress", "done"}
    /\ sync \in {"off", "host", "useradd", "chpasswd", "groups", "done", "failed"}
    /\ todo \subseteq Groups /\ edit \in {"off", "read", "write", "done"}
    /\ boots \in 0..MaxBoots /\ deeds \in 0..MaxDeeds

HostInit ==
    /\ image \in [user : Users("image"), host : Hosts]
    /\ person \in Users("installer")
    /\ wanted \in Hosts \cup {NoHost}
    /\ hostname = image.host
    /\ accounts = [n \in Names |-> NoAccount] /\ given = {}
    /\ homeDir = <<"none", "directory">> /\ dressed = TRUE
    /\ fstab = "installed"
    /\ homeStep = "off" /\ sync = "off" /\ todo = {} /\ edit = "off"
    /\ boots = 0 /\ deeds = 0

-----------------------------------------------------------------------------
(* Boots and cuts.                                                           *)

hostUp == homeStep # "off"
exists(n) == accounts[n] # NoAccount

\* The three-way merge: a file the machine changed stays, one it did not
\* change follows the image.
merged(new) == IF hostname = image.host THEN new.host ELSE hostname
\* /var/home appears with tmpfiles when nothing is there.
made_home == IF homeDir[1] = "none" THEN <<"empty", "directory">> ELSE homeDir

Boot == \E new \in {image} \cup [user : {image.user, Nobody}, host : Hosts] :
    /\ ~hostUp /\ boots < MaxBoots
    /\ boots' = boots + 1
    /\ image' = new /\ hostname' = merged(new)
    /\ homeDir' = made_home /\ dressed' = (homeDir[1] = "none" \/ dressed)
    /\ homeStep' = "look" /\ sync' = "host" /\ todo' = {} /\ edit' = "read"
    /\ UNCHANGED <<person, wanted, accounts, given, fstab, deeds>>
BootCut ==
    /\ hostUp
    /\ homeStep' = "off" /\ sync' = "off" /\ todo' = {} /\ edit' = "off"
    /\ UNCHANGED <<identity, homeState, bounds>>

-----------------------------------------------------------------------------
(* kuma-home-subvol.                                                         *)

Look ==
    /\ homeStep = "look"
    /\ homeStep' = IF homeDir = <<"empty", "directory">> THEN "remove" ELSE "done"
    /\ UNCHANGED <<identity, homeState, sync, todo, edit, bounds>>
RemoveDir ==
    /\ homeStep = "remove" /\ homeDir = <<"empty", "directory">>
    /\ homeDir' = <<"none", "directory">> /\ homeStep' = "create"
    /\ UNCHANGED <<identity, dressed, fstab, sync, todo, edit, bounds>>
Create ==
    /\ homeStep = "create"
    /\ homeDir' = <<"empty", "subvolume">> /\ dressed' = FALSE /\ homeStep' = "dress"
    /\ UNCHANGED <<identity, fstab, sync, todo, edit, bounds>>
Dress ==
    /\ homeStep = "dress"
    /\ dressed' = TRUE /\ homeStep' = "done"
    /\ UNCHANGED <<identity, homeDir, fstab, sync, todo, edit, bounds>>

-----------------------------------------------------------------------------
(* kuma-user-sync.                                                           *)

\* The installer answers for the person; the image only when nobody did.
user == IF person = Nobody THEN image.user ELSE person

\* mutant: the declared password is set at every boot
SyncHostSetsAgain ==
    /\ homeStep = "done" /\ sync = "host"
    /\ hostname' = IF wanted = NoHost THEN hostname ELSE wanted
    /\ IF user = Nobody THEN sync' = "done" /\ UNCHANGED todo
       ELSE /\ sync' = IF ~exists(user.name) THEN "useradd"
                       ELSE IF user.hash = "none" THEN "groups" ELSE "chpasswd"
            /\ todo' = user.groups
    /\ UNCHANGED <<image, person, wanted, accounts, given, homeState, homeStep, edit, bounds>>
SyncHost ==
    /\ homeStep = "done" /\ sync = "host"
    /\ hostname' = IF wanted = NoHost THEN hostname ELSE wanted
    /\ IF user = Nobody THEN sync' = "done" /\ UNCHANGED todo
       ELSE /\ sync' = IF exists(user.name) THEN "groups" ELSE "useradd"
            /\ todo' = user.groups
    /\ UNCHANGED <<image, person, wanted, accounts, given, homeState, homeStep, edit, bounds>>
useradd ==
    /\ sync = "useradd"
    /\ accounts' = [accounts EXCEPT ![user.name] = [password |-> "locked", groups |-> {}]]
    /\ homeDir' = <<"lived in", homeDir[2]>>
    /\ sync' = IF user.hash = "none" THEN "groups" ELSE "chpasswd"
    /\ UNCHANGED <<image, person, wanted, hostname, given, dressed, fstab, homeStep, todo, edit, bounds>>
chpasswd ==
    /\ sync = "chpasswd"
    /\ accounts' = [accounts EXCEPT ![user.name].password = user.hash]
    /\ sync' = "groups"
    /\ UNCHANGED <<image, person, wanted, hostname, given, homeState, homeStep, todo, edit, bounds>>
add_group(n, g) == accounts[n].groups \cup {g}
\* One by one; a group the system does not have ends the unit there.
usermod == \E g \in todo :
    /\ sync = "groups"
    /\ IF g \in Missing THEN sync' = "failed" /\ UNCHANGED <<accounts, todo>>
       ELSE /\ accounts' = [accounts EXCEPT ![user.name].groups = add_group(user.name, g)]
            /\ todo' = todo \ {g} /\ UNCHANGED sync
    /\ UNCHANGED <<image, person, wanted, hostname, given, homeState, homeStep, edit, bounds>>
SyncDone ==
    /\ sync = "groups" /\ todo = {}
    /\ sync' = "done"
    /\ UNCHANGED <<identity, homeState, homeStep, todo, edit, bounds>>

-----------------------------------------------------------------------------
(* kuma-fstab-sync, beside it: the new text is cat'ed over the old.          *)

ReadFstab ==
    /\ homeStep = "done" /\ edit = "read"
    /\ IF fstab = "installed" THEN edit' = "write" /\ fstab' = "torn"
                              ELSE edit' = "done" /\ UNCHANGED fstab
    /\ UNCHANGED <<identity, homeDir, dressed, homeStep, sync, todo, bounds>>
WriteFstab ==
    /\ edit = "write"
    /\ edit' = "done" /\ fstab' = "commented"
    /\ UNCHANGED <<identity, homeDir, dressed, homeStep, sync, todo, bounds>>

-----------------------------------------------------------------------------
(* The owner, once logged in.                                                *)

Deed == hostUp /\ sync \in {"done", "failed"} /\ deeds < MaxDeeds /\ deeds' = deeds + 1
passwd == \E n \in Names :
    /\ Deed /\ exists(n)
    /\ accounts' = [accounts EXCEPT ![n].password = "owner"]
    /\ UNCHANGED <<image, person, wanted, hostname, given, homeState, units, boots>>
Give == \E n \in Names, g \in Groups \ Missing :
    /\ Deed /\ exists(n) /\ g \notin accounts[n].groups
    /\ accounts' = [accounts EXCEPT ![n].groups = @ \cup {g}]
    /\ given' = given \cup {<<n, g>>}
    /\ UNCHANGED <<image, person, wanted, hostname, homeState, units, boots>>

HomeSubvol == Look \/ RemoveDir \/ Create \/ Dress
UserSync == SyncHost \/ useradd \/ chpasswd \/ usermod \/ SyncDone
FstabSync == ReadFstab \/ WriteFstab
HostNext == Boot \/ BootCut \/ HomeSubvol \/ UserSync \/ FstabSync \/ passwd \/ Give
HostSpec == HostInit /\ [][HostNext]_hostVars

-----------------------------------------------------------------------------

\* The image cannot lend its password or its groups to the account somebody
\* typed at install time, whatever images the machine booted before: such an
\* account holds what the installer was told or the owner did.
NothingIsLent ==
    person # Nobody /\ exists(person.name) =>
        /\ accounts[person.name].password # "image"
        /\ \A g \in accounts[person.name].groups : g \in person.groups \/ <<person.name, g>> \in given

\* Creation is the only moment a declaration speaks for the password, and
\* groups only grow: what the owner did by hand outlives every later boot.
OwnersHandStays ==
    [][\A n \in Names : exists(n) =>
        /\ accounts[n].password = "owner" => accounts'[n].password = "owner"
        /\ accounts[n].groups \subseteq accounts'[n].groups]_hostVars

\* What kuma install wrote is what a finished boot shows, through cuts at any
\* command of the boots before and through images that declare another name
\* and another account.
InstalledIsShown ==
    sync = "done" =>
        /\ wanted # NoHost => hostname = wanted
        /\ person # Nobody => exists(person.name) /\ person.groups \subseteq accounts[person.name].groups

\* Whose word the accounts keep: the owner's, the installer's, and of the
\* image's nothing it was not asked for.
AccountsAreTheirs == OwnersHandStays /\ []NothingIsLent /\ []InstalledIsShown

\* A boot that finished its account left a way in: a declared password was set.
\* The code applies it only when it creates the account.
DeclaredPasswordIsSet ==
    sync = "done" /\ user # Nobody /\ user.hash # "none" => accounts[user.name].password # "locked"

\* The subvolume is indistinguishable from the directory it replaced.
HomeIsDressed == homeStep = "done" => dressed

\* The converger comments one line of fstab out and loses none of the others.
FstabIsWhole == edit \in {"read", "done"} => fstab # "torn"
=============================================================================
