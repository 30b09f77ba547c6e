-------------------------------- MODULE Build --------------------------------
(* From a declaration to an image: what kuma build, kuma update and kuma     *)
(* clean do to the lock, to podman's storage and to the tag they build, and  *)
(* what kuma update --check says first (main.rs, lock.rs, updates.rs,        *)
(* compose.rs).  One command runs at a time; the declaration, the registry, *)
(* Fedora's repositories and another terminal's kuma clean or podman prune   *)
(* move between its steps, and every step may fail or be the last before a   *)
(* crash.                                                                    *)
EXTENDS Naturals

CONSTANTS Refs,       \* what a declaration's base can resolve to
          Composed,   \* those of Refs that are content tags of kuma's own base
          Versions    \* what a registry tag, or the repositories, hold in turn

ASSUME BuildAssumption ==
    Composed \subseteq Refs /\ "" \notin Refs /\ Versions \subseteq Nat /\ 1 \in Versions

VARIABLES decl,       \* the reference the declaration on disk resolves to
          registry,   \* the version each declared tag now points at
          repos,      \* the version Fedora's repositories now hold
          bases,      \* base images in local storage, by reference
          images,     \* the built images in storage
          named,      \* the image the built tag names
          keptTag,       \* an image a second tag of somebody's still names
          lock,       \* kuma.lock beside the declaration
          command         \* the command under way

buildVars == <<decl, registry, repos, bases, images, named, keptTag, lock, command>>

NoDigest == [ref |-> "", v |-> 0]
NoImage == [base |-> NoDigest, rpm |-> 0]
NoLock == [ref |-> "", digest |-> NoDigest, rpm |-> 0]

Digest == [ref : Refs, v : Versions]
Image == [base : Digest, rpm : Versions]
Lock == [ref : Refs, digest : Digest, rpm : Versions]

Idle == [pc |-> "idle", verb |-> "", first |-> "", cfg |-> "", seen |-> 0,
         current |-> FALSE, pin |-> NoDigest, before |-> NoImage]

Declared == Refs \ Composed
published(ref) == IF ref \in Composed THEN repos ELSE registry[ref]
latest(ref) == [ref |-> ref, v |-> published(ref)]

BuildTypeOK ==
    /\ decl \in Refs
    /\ registry \in [Declared -> Versions] /\ repos \in Versions
    /\ bases \in [Refs -> Digest \cup {NoDigest}]
    /\ images \subseteq Image
    /\ {named, keptTag} \subseteq Image \cup {NoImage}
    /\ lock \in Lock \cup {NoLock}
    /\ command.pin \in Digest \cup {NoDigest}
    /\ command.before \in Image \cup {NoImage}

BuildInit ==
    /\ decl \in Refs
    /\ registry \in [Declared -> {1}] /\ repos = 1
    /\ bases = [r \in Refs |-> NoDigest]
    /\ images = {} /\ named = NoImage /\ keptTag = NoImage
    /\ lock = NoLock
    /\ command = Idle

-----------------------------------------------------------------------------
(* The world around the command.                                             *)

\* Somebody edits the declaration, at any moment.
Edit == \E r \in Refs \ {decl} :
    /\ decl' = r
    /\ UNCHANGED <<registry, repos, bases, images, named, keptTag, lock, command>>

\* A tag moves, or the repositories publish newer packages.
Publish ==
    /\ \/ \E r \in Declared : /\ registry[r] + 1 \in Versions
                             /\ registry' = [registry EXCEPT ![r] = @ + 1]
                             /\ UNCHANGED repos
       \/ /\ repos + 1 \in Versions
          /\ repos' = repos + 1
          /\ UNCHANGED registry
    /\ UNCHANGED <<decl, bases, images, named, keptTag, lock, command>>

\* Somebody keeps the image under a second tag, or drops that tag.
Retag == \E i \in {named, NoImage} \ {keptTag} :
    /\ keptTag' = i
    /\ UNCHANGED <<decl, registry, repos, bases, images, named, lock, command>>

\* podman storage loses a base image nobody is running.
LoseBase == \E r \in Refs :
    /\ bases[r] # NoDigest
    /\ bases' = [bases EXCEPT ![r] = NoDigest]
    /\ UNCHANGED <<decl, registry, repos, images, named, keptTag, lock, command>>

-----------------------------------------------------------------------------
(* kuma build and kuma update, step by step.                                 *)

\* The lock a follow build honours: one recorded for this very reference.
pinned(cfg) == IF lock # NoLock /\ lock.ref = cfg THEN lock.digest ELSE NoDigest

\* kuma update --check.  A declared base moved when its tag no longer lists the
\* digest in the lock.
base_moved(ref, digest) == latest(ref) # digest
\* A composed one has no tag: dnf is asked what the repositories hold newer
\* than the packages of the image, those of its composed base and the others.
moved(image) ==
    image.rpm # repos \/ (image.base.ref \in Composed /\ image.base.v # repos)

\* It suggests nothing only on an answer: the registry's about this lock, or
\* dnf's about an image there is, with no base of another manifest recorded.
update_check ==
    IF decl \in Composed THEN named # NoImage /\ ~moved(named) /\ lock.ref \in {"", decl}
                         ELSE lock # NoLock /\ ~base_moved(decl, lock.digest)

\* kuma update reads the declaration, then pulls the declared base, or the
\* environment a composed one is made in; the pull is what moves a tag.
Update ==
    /\ command.pc = "idle"
    /\ bases' = IF decl \in Composed THEN bases ELSE [bases EXCEPT ![decl] = latest(decl)]
    /\ command' = [Idle EXCEPT !.pc = "load", !.verb = "update", !.first = decl,
                           !.seen = published(decl), !.current = update_check]
    /\ UNCHANGED <<decl, registry, repos, images, named, keptTag, lock>>

Build ==
    /\ command.pc = "idle"
    /\ command' = [Idle EXCEPT !.pc = "load", !.verb = "build", !.first = decl]
    /\ UNCHANGED <<decl, registry, repos, bases, images, named, keptTag, lock>>

\* build_image_pinned loads the declaration again, and reads the pin unless
\* it is refreshing.
Load ==
    /\ command.pc = "load"
    /\ command' = [command EXCEPT !.pc = "base", !.cfg = decl,
                          !.pin = IF command.verb = "build" THEN pinned(decl) ELSE NoDigest]
    /\ UNCHANGED <<decl, registry, repos, bases, images, named, keptTag, lock>>

composes == \/ command.verb = "update"
            \/ bases[command.cfg] = NoDigest

\* A composed base: recompose, build from what storage holds, or both give
\* the pin up and let the lock record the move.  A declared base needs
\* nothing here: its pin goes into FROM.
PrepareBase ==
    /\ command.pc = "base"
    /\ IF command.cfg \in Composed
          THEN /\ bases' = IF composes THEN [bases EXCEPT ![command.cfg] = latest(command.cfg)]
                                       ELSE bases
               /\ command' = [command EXCEPT !.pc = "from",
                              !.pin = IF composes \/ bases[command.cfg] # @ THEN NoDigest
                                                                         ELSE @]
          ELSE /\ command' = [command EXCEPT !.pc = "from"]
               /\ UNCHANGED bases
    /\ UNCHANGED <<decl, registry, repos, images, named, keptTag, lock>>

\* podman build: FROM the pin, or FROM the tag, which podman takes from local
\* storage and pulls when it is missing.  A localhost tag is never pulled.
PodmanBuild ==
    /\ command.pc = "from"
    /\ LET from == IF command.pin # NoDigest THEN command.pin
                   ELSE IF bases[command.cfg] # NoDigest \/ command.cfg \in Composed
                        THEN bases[command.cfg] ELSE latest(command.cfg)
           out == [base |-> from, rpm |-> repos]
       IN /\ from # NoDigest
          /\ command.cfg \in Composed => bases[command.cfg] # NoDigest
          /\ bases' = IF command.pin = NoDigest THEN [bases EXCEPT ![command.cfg] = from] ELSE bases
          /\ images' = images \cup {out}
          /\ named' = out
          /\ command' = [command EXCEPT !.pc = "reclaim", !.before = named]
    /\ UNCHANGED <<decl, registry, repos, keptTag, lock>>

has_no_tags(image) == image \notin {named, keptTag}
\* The build this one replaced goes, unless it is this one or still has a tag.
Reclaim ==
    /\ command.pc = "reclaim"
    /\ images' = IF has_no_tags(command.before) THEN images \ {command.before} ELSE images
    /\ command' = [command EXCEPT !.pc = "record"]
    /\ UNCHANGED <<decl, registry, repos, bases, named, keptTag, lock>>

base_digest_of_tag == bases[command.cfg]       \* mutant: the tag is asked after a pin, too
\* What the build used: the pin it followed, or what the local tag says.
base_digest == IF command.pin # NoDigest THEN command.pin ELSE bases[command.cfg]

\* The record is taken from the image that came out, and without a digest
\* none is written.
record ==
    /\ command.pc = "record"
    /\ base_digest # NoDigest
    /\ lock' = [ref |-> command.cfg, digest |-> base_digest, rpm |-> named.rpm]
    /\ command' = Idle
    /\ UNCHANGED <<decl, registry, repos, bases, images, named, keptTag>>

\* A failing step, or a crash, ends the command where it stands; so does a
\* record that cannot be written.
BuildStops ==
    /\ command.pc # "idle"
    /\ command' = Idle
    /\ UNCHANGED <<decl, registry, repos, bases, images, named, keptTag, lock>>

-----------------------------------------------------------------------------
(* kuma clean, from another terminal: it refuses only while podman build     *)
(* itself runs, which here is one step.                                      *)

\* Without a readable declaration no base goes; the live ones are what this
\* declaration composes to and what its lock records.
stale_base_tags == {r \in Composed : bases[r] # NoDigest /\ r \notin {decl, lock.ref}}

Clean == \E readable \in BOOLEAN :
    /\ images' = images \cap {named, keptTag}
    /\ bases' = [r \in Refs |-> IF readable /\ r \in stale_base_tags THEN NoDigest
                                                                     ELSE bases[r]]
    /\ UNCHANGED <<decl, registry, repos, named, keptTag, lock, command>>

BuildNext ==
    \/ Edit \/ Publish \/ Retag \/ LoseBase
    \/ Update \/ Build \/ Load \/ PrepareBase \/ PodmanBuild \/ Reclaim
    \/ record \/ BuildStops \/ Clean

BuildSpec == BuildInit /\ [][BuildNext]_buildVars

-----------------------------------------------------------------------------
(* What the lock promises.                                                   *)

\* A record always describes the image the tag names at that moment: the base
\* it was built FROM and the packages it came out with, whatever the registry
\* or the declaration did meanwhile.
LockTellsTheBuild ==
    [][lock' # lock => /\ lock'.digest = named.base
                       /\ lock'.rpm = named.rpm]_buildVars

\* Only kuma update moves the pin of a declared base: a build under the same
\* declaration keeps the digest.  And an update does move it: unless the
\* declaration was swapped under it, what it records is at least what the
\* registry held when it began.
OnlyUpdateMovesThePin ==
    [][lock' # lock =>
         /\ command.verb = "build" /\ command.cfg \notin Composed /\ lock.ref = command.cfg
               => lock'.digest = lock.digest
         /\ command.verb = "update" /\ command.cfg = command.first
               => lock'.digest.v >= command.seen]_buildVars

\* "Nothing has moved" is never said of what an update would move: started when
\* the check suggests nothing, and with nothing published or edited since, an
\* update records the digest the lock had, or packages no newer than the
\* image's.
NothingMovedIsTrue ==
    [][lock' # lock /\ command.current
         /\ command.cfg = command.first /\ published(command.cfg) = command.seen
       => IF command.cfg \in Composed THEN lock'.rpm = command.before.rpm
                                       ELSE lock'.digest = lock.digest]_buildVars

\* Reclaiming what builds leave behind never takes an image a tag still
\* names: neither the one just built nor the one somebody kept.
TagsNameImages == {named, keptTag} \subseteq images \cup {NoImage}

\* What builds, updates and cleanings in any order leave of the books.
BuildsAreBooked == LockTellsTheBuild /\ OnlyUpdateMovesThePin /\ NothingMovedIsTrue /\ []TagsNameImages
=============================================================================
