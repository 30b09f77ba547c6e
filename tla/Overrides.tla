------------------------------ MODULE Overrides ------------------------------
(* Flatpak permissions (overrides.rs): the pass that converges a store one   *)
(* key at a time, the record of what it set, the diff, and what kuma capture *)
(* (capture.rs, edit.rs) writes back into the declaration.  Flatseal and     *)
(* flatpak override write the same files at any moment, a pass or a power    *)
(* cut may stop between any two files, and a boot may take another image.    *)
EXTENDS Naturals, FiniteSets, SequencesExt

CONSTANTS AppIds,      \* applications
          Keys,        \* permission keys of one override file
          Values,      \* what a key may be set to
          Inline,      \* apps whose [overrides] entry a person writes as an inline table
          Hasty,       \* another image may boot before this one's passes finished
          MaxChanges   \* bound on what people and reboots do

ASSUME OverridesAssumption ==
    /\ Values \subseteq Nat \ {0} /\ Inline \subseteq AppIds
    /\ Hasty \in BOOLEAN /\ MaxChanges \in Nat

VARIABLES overrides,   \* the declaration's table
          listed,      \* the declaration's list of applications
          carried_over, \* the table the running image bakes
          present_apps, \* applications on the machine
          stores,      \* the override files of both stores
          owned,       \* the record: what kuma set last time, by scope
          pass,        \* how far each scope's pass is
          offers,      \* what capture has read and not yet written, NoOffer
          gave,        \* keys a pass wrote and nobody else touched since
          changes

overridesVars == <<overrides, listed, carried_over, present_apps, stores, owned, pass, offers,
                   gave, changes>>
declares == <<overrides, listed>>

Scopes == {"system", "user"}
Ids == AppIds \X Keys
NoValue == 0
File == [Keys -> Values \cup {NoValue}]
Entry == [scope : Scopes, keys : File]
Nameless == [scope |-> "system", keys |-> [k \in Keys |-> NoValue]]

\* A pass at rest, with a file read, or between two files.
AtRest == [at |-> "rest", todo |-> {}, raced |-> FALSE]
NoOffer == [keys |-> {}, scopes |-> [a \in AppIds |-> "system"], stale |-> FALSE,
            settled |-> FALSE, on |-> FALSE]

OverridesTypeOK ==
    /\ overrides \in [AppIds -> Entry] /\ carried_over \in [AppIds -> Entry]
    /\ listed \subseteq AppIds /\ present_apps \subseteq AppIds
    /\ stores \in [Scopes -> [AppIds -> File]]
    /\ owned \in [Scopes -> SUBSET Ids] /\ gave \in [Scopes -> SUBSET Ids]
    /\ \A s \in Scopes : /\ pass[s].at \in {"rest", "between", "read", "done"}
                         /\ pass[s].todo \subseteq AppIds
    /\ offers.keys \subseteq Ids \X Values /\ offers.on \in BOOLEAN
    /\ changes \in 0..MaxChanges

-----------------------------------------------------------------------------
(* The declaration, by scope.                                                *)

declared_keys(table, s) ==
    {id \in Ids : table[id[1]].scope = s /\ table[id[1]].keys[id[2]] # NoValue}
value_in(table, id) == table[id[1]].keys[id[2]]
declared_dir(s) == {id[1] : id \in declared_keys(carried_over, s)}

\* One file merged: declared keys set, recorded ones no longer declared
\* removed, every other left as it is.
converge(s, a, live) ==
    [k \in Keys |-> IF <<a, k>> \in declared_keys(carried_over, s) THEN carried_over[a].keys[k]
                    ELSE IF <<a, k>> \in owned[s] THEN NoValue
                    ELSE live[k]]

\* The apps a pass goes through: declared now, or written the last time.
apps_of(s) == declared_dir(s) \cup {id[1] : id \in owned[s]}

\* What kuma diff reports of a scope, and whether the image is behind.
unmet(s) ==
    {id \in declared_keys(overrides, s) : stores[s][id[1]][id[2]] # value_in(overrides, id)}
    \cup {id \in owned[s] \ declared_keys(overrides, s) : stores[s][id[1]][id[2]] # NoValue}
image_stale ==
    \E s \in Scopes :
        \/ declared_keys(overrides, s) # declared_keys(carried_over, s)
        \/ \E id \in declared_keys(overrides, s) :
               value_in(overrides, id) # value_in(carried_over, id)

OverridesInit ==
    /\ overrides \in [AppIds -> {Nameless}] /\ carried_over = overrides
    /\ listed \in SUBSET AppIds /\ present_apps = AppIds
    /\ stores = [s \in Scopes |-> [a \in AppIds |-> Nameless.keys]]
    /\ owned = [s \in Scopes |-> {}] /\ gave = owned
    /\ pass = [s \in Scopes |-> AtRest]
    /\ offers = NoOffer /\ changes = 0

-----------------------------------------------------------------------------
(* A pass: the boot's, the login's or kuma sync's.                           *)

converge_store(s) ==
    /\ pass[s].at \in {"rest", "done"}
    /\ pass' = [pass EXCEPT ![s] = [at |-> "between", todo |-> apps_of(s), raced |-> FALSE]]
    /\ UNCHANGED <<declares, carried_over, present_apps, stores, owned, offers, gave, changes>>

\* The next file is read; its merge is written over whatever is there then.
opened(s) == CHOOSE a \in pass[s].todo : TRUE
read_file(s) ==
    /\ pass[s].at = "between" /\ pass[s].todo # {}
    /\ pass' = [pass EXCEPT ![s] = [at |-> "read", todo |-> @.todo, raced |-> FALSE,
                                    live |-> stores[s][opened(s)]]]
    /\ UNCHANGED <<declares, carried_over, present_apps, stores, owned, offers, gave, changes>>
write_file(s) ==
    LET a == opened(s)
        out == converge(s, a, pass[s].live)
        set == {<<a, k>> : k \in {k \in Keys : out[k] # pass[s].live[k]}}
    IN  /\ pass[s].at = "read"
        /\ stores' = IF out = pass[s].live THEN stores ELSE [stores EXCEPT ![s][a] = out]
        /\ gave' = [gave EXCEPT ![s] = {id \in @ \cup set : stores'[s][id[1]][id[2]] # NoValue}]
        /\ offers' = [offers EXCEPT !.stale = @ \/ stores' # stores]
        /\ pass' = [pass EXCEPT ![s] = [at |-> "between", todo |-> @.todo \ {a}, raced |-> FALSE]]
        /\ UNCHANGED <<declares, carried_over, present_apps, owned, changes>>
\* The record comes last: everything now declared, set by this pass or not.
write_state(s) ==
    /\ pass[s].at = "between" /\ pass[s].todo = {}
    /\ owned' = [owned EXCEPT ![s] = declared_keys(carried_over, s)]
    /\ pass' = [pass EXCEPT ![s] = [AtRest EXCEPT !.at = "done"]]
    /\ UNCHANGED <<declares, carried_over, present_apps, stores, offers, gave, changes>>
\* A file that cannot be written ends the pass there.
PassFails(s) ==
    /\ pass[s].at = "read"
    /\ pass' = [pass EXCEPT ![s] = AtRest]
    /\ UNCHANGED <<declares, carried_over, present_apps, stores, owned, offers, gave, changes>>

-----------------------------------------------------------------------------
(* People and reboots.                                                       *)

Change == changes < MaxChanges /\ changes' = changes + 1

\* Flatseal, or flatpak override: whatever a pass does meanwhile.
Flatseal(s) == \E a \in AppIds, k \in Keys, v \in Values \cup {NoValue} :
    /\ Change
    /\ stores[s][a][k] # v
    /\ stores' = [stores EXCEPT ![s][a][k] = v]
    /\ gave' = [gave EXCEPT ![s] = @ \ {<<a, k>>}]
    /\ pass' = [pass EXCEPT ![s].raced = pass[s].at = "read"]
    /\ offers' = [offers EXCEPT !.stale = TRUE]
    /\ UNCHANGED <<declares, carried_over, present_apps, owned>>

\* An editor saves the declaration, with any entry changed.
open_file == \E a \in AppIds, s \in Scopes, k \in Keys, v \in Values \cup {NoValue} :
    /\ Change
    /\ LET keys == [overrides[a].keys EXCEPT ![k] = v]
       IN  overrides' = [overrides EXCEPT ![a] =
               IF keys = Nameless.keys THEN Nameless ELSE [scope |-> s, keys |-> keys]]
    /\ overrides' # overrides
    /\ offers' = [offers EXCEPT !.stale = TRUE]
    /\ UNCHANGED <<listed, carried_over, present_apps, stores, owned, pass, gave>>
\* kuma remove: every name must be listed, or nothing is written; kuma add is
\* capture's first write with a name a person gives.
remove == \E names \in SUBSET listed \ {{}} :
    /\ Change
    /\ listed' = listed \ names
    /\ offers' = [offers EXCEPT !.stale = TRUE]
    /\ UNCHANGED <<overrides, carried_over, present_apps, stores, owned, pass, gave>>

\* The machine goes down anywhere in a pass and comes up on this image or one
\* built from the declaration of now.
BootImage == \E table \in {carried_over, overrides} :
    /\ Change
    /\ ~Hasty => table = carried_over \/ \A s \in Scopes : pass[s].at = "done"
    /\ carried_over' = table
    /\ pass' = [s \in Scopes |-> AtRest]
    /\ offers' = NoOffer
    /\ UNCHANGED <<declares, present_apps, stores, owned, gave>>

-----------------------------------------------------------------------------
(* kuma capture --yes.  Packages the machine has and the list lacks; keys of *)
(* listed apps that are neither recorded nor declared, when one store alone  *)
(* holds such keys.                                                          *)

undeclared_any(a, s) ==                   \* mutant: kuma's own keys are offered too
    {id \in {a} \X Keys : stores[s][a][id[2]] # NoValue /\ overrides[a].keys[id[2]] = NoValue}
undeclared(a, s) ==
    {id \in {a} \X Keys : stores[s][a][id[2]] # NoValue /\ id \notin owned[s]
                          /\ overrides[a].keys[id[2]] = NoValue}
named_app(a) == \E k \in Keys : overrides[a].keys[k] # NoValue
offering(a) == {s \in Scopes : (named_app(a) => overrides[a].scope = s) /\ undeclared(a, s) # {}}
candidates == present_apps \ listed
capturable == {a \in listed : Cardinality(offering(a)) = 1}
scope_of(a) == IF offering(a) = {} THEN "system" ELSE CHOOSE s \in offering(a) : TRUE

\* The first write: the lists.  One document, validated before it is written.
capture ==
    /\ ~offers.on /\ Change
    /\ candidates # {} \/ capturable # {}
    /\ listed' = listed \cup candidates
    /\ offers' = [keys |-> UNION {{<<id, stores[scope_of(a)][a][id[2]]>> :
                                          id \in undeclared(a, scope_of(a))}
                                    : a \in capturable},
                  scopes |-> [a \in AppIds |-> scope_of(a)], stale |-> FALSE,
                  settled |-> \A s \in Scopes : pass[s].at = "done", on |-> capturable # {}]
    /\ UNCHANGED <<overrides, carried_over, present_apps, stores, owned, pass, gave>>

offered == {o[1][1] : o \in offers.keys}
\* The scope is written unless it is the default one.
scope_written(a) == IF offers.scopes[a] # "system" THEN offers.scopes[a] ELSE overrides[a].scope
\* The second write, of the document as it is by then: the permissions.  An
\* entry that is not a standard table is refused.
writes_refused == \E a \in offered : a \in Inline /\ named_app(a)
declare_overrides ==
    /\ offers.on /\ ~writes_refused
    /\ overrides' = [a \in AppIds |->
           IF a \notin offered THEN overrides[a]
           ELSE [scope |-> scope_written(a),
                 keys |-> [k \in Keys |->
                    IF \E v \in Values : <<<<a, k>>, v>> \in offers.keys
                    THEN CHOOSE v \in Values : <<<<a, k>>, v>> \in offers.keys
                    ELSE overrides[a].keys[k]]]]
    /\ offers' = NoOffer
    /\ UNCHANGED <<listed, carried_over, present_apps, stores, owned, pass, gave, changes>>
CaptureRefused ==
    /\ offers.on /\ writes_refused
    /\ offers' = NoOffer
    /\ UNCHANGED <<declares, carried_over, present_apps, stores, owned, pass, gave, changes>>

OverridesNext ==
    \/ \E s \in Scopes :
           \/ converge_store(s) \/ read_file(s) \/ write_file(s) \/ write_state(s)
           \/ PassFails(s) \/ Flatseal(s)
    \/ open_file \/ remove \/ BootImage
    \/ capture \/ declare_overrides \/ CaptureRefused

OverridesSpec == OverridesInit /\ [][OverridesNext]_overridesVars

-----------------------------------------------------------------------------

\* Convergence takes back only what it gave: a pass changes no key that the
\* image does not declare and the record does not hold, but when the file was
\* written by somebody else while the pass held what it had read of it.
OwnersKeysStay ==
    [][\A s \in Scopes : \A id \in Ids :
          (pass'[s] # pass[s] /\ ~pass[s].raced
             /\ id \notin declared_keys(carried_over, s) \cup owned[s])
          => \/ stores'[s][id[1]][id[2]] = stores[s][id[1]][id[2]]
             \/ changes' # changes]_overridesVars

\* ... and all that it gave: once both passes of an image have finished, what
\* kuma ever set in a store and the image does not declare there is gone from
\* it, through failed passes, power cuts, moves from one store to the other
\* and declarations that came and went.
TakesBackAllItGave ==
    \A s \in Scopes : pass[s].at = "done" => gave[s] \subseteq declared_keys(carried_over, s)

\* A diff with nothing to say, from an image that is not behind, is a promise:
\* the next pass of either store would write nothing.
SilentDiffIsQuiet ==
    (~image_stale /\ \A s \in Scopes : unmet(s) = {})
        => \A s \in Scopes : \A a \in apps_of(s) : converge(s, a, stores[s][a]) = stores[s][a]

\* Capture proposes, it never changes the machine: what it writes into the
\* declaration, unless somebody wrote while it did, is what the store the
\* entry names holds, and nothing a finished pass had put there.
CaptureKeepsTheMachine ==
    [][\A id \in Ids :
          (offers.on /\ ~offers.stale /\ value_in(overrides', id) # value_in(overrides, id)
             /\ UNCHANGED changes)
          => LET s == overrides'[id[1]].scope
             IN  value_in(overrides', id) = stores[s][id[1]][id[2]]
                 /\ (offers.settled => id \notin gave[s])]_overridesVars

\* Whose keys the stores hold: the owner's are left and captured as they are,
\* kuma's are taken back.
KeysAreTheirs ==
    /\ OwnersKeysStay /\ CaptureKeepsTheMachine
    /\ []TakesBackAllItGave /\ []SilentDiffIsQuiet

\* Packages and permissions are proposed together and must land together: a
\* capture that comes to its end has written every permission it proposed.
CaptureLandsWhole ==
    [][(offers.on /\ ~offers'.on /\ UNCHANGED changes)
         => \A o \in offers.keys : value_in(overrides', o[1]) = o[2]]_overridesVars
=============================================================================
