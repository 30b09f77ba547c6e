------------------------------ MODULE Deployment -----------------------------
(* A machine's deployments, from a staged image to the next healthy boot:    *)
(* kuma switch's staging half, kuma rollback, the doctor's stamp (main.rs,   *)
(* inspect.rs), the boot menu's titles (bootentries.rs and its unit) and the *)
(* boot counter with the hook that converges it (blocks.rs).  bootc, ostree, *)
(* grub and greenboot are external, as the code relies on them.  Power may   *)
(* be cut at every step.                                                     *)
EXTENDS Naturals, Integers, Sequences

CONSTANTS Images,     \* the images ever built here, 1 the one installed
          Healthy,    \* those whose boot passes its health checks
          MaxTries    \* what greenboot sets the counter to

ASSUME DeploymentAssumption ==
    /\ 1 \in Images /\ Healthy \subseteq Images /\ 1 \in Healthy
    /\ Images \subseteq Nat \ {0} /\ MaxTries \in Nat \ {0}

VARIABLES
    rootTag,    \* the image root's copy of the tag names, 0 for none
    entries,    \* the deployments in boot order, the default first
    titles,     \* the image each menu entry says it boots
    staged,     \* the staged deployment, 0 for none
    upOn,    \* the deployment booted, 0 while the machine is down
    stamp,      \* deployed-image-id, 0 when there is none
    current,    \* no stamp, or the last thing to move the deployments saw to it
    staging,    \* the step kuma switch is at
    counter,    \* grub's boot_counter, Unset for none
    native,     \* grub.cfg counts boots itself
    hook,       \* our block in custom.cfg: "none", "whole" or "torn"
    fixed,      \* steps of this boot's units that have run
    clean,      \* the machine is up, or went down by a shutdown that ran to its end
    twice,      \* some attempt was counted twice
    refreshed   \* grub.cfg began to count since the hook was last converged

deploymentVars == <<rootTag, entries, titles, staged, upOn, stamp, current,
          staging, counter, native, hook, fixed, clean, twice, refreshed>>

bootc == <<rootTag, staging, stamp, current>>
menu == <<entries, titles>>
grub == <<counter, native, hook, twice, refreshed>>
session == <<upOn, fixed, clean>>

Unset == -3
NotStaging == "no"
up == upOn # 0
rollback_slot == {entries[i] : i \in {j \in 1..Len(entries) : entries[j] # upOn}}

DeploymentTypeOK ==
    /\ staging \in {NotStaging, "upgrade", "stamp"}
    /\ {rootTag, staged, upOn, stamp} \subseteq Images \cup {0}
    /\ entries \in Seq(Images) /\ Len(entries) \in 1..2 /\ Len(titles) = Len(entries)
    /\ counter \in {Unset} \cup (-1)..MaxTries
    /\ hook \in {"none", "whole", "torn"}
    /\ up => \E i \in 1..Len(entries) : entries[i] = upOn

DeploymentInit ==
    /\ rootTag = 0
    /\ entries = <<1>> /\ titles = <<1>> /\ staged = 0
    /\ upOn = 0
    /\ stamp = 0 /\ current = TRUE /\ staging = NotStaging
    /\ counter = Unset /\ native \in BOOLEAN /\ hook = "none" /\ refreshed = FALSE
    /\ fixed = {} /\ clean = TRUE /\ twice = FALSE

-----------------------------------------------------------------------------
(* Staging: kuma switch --yes and kuma update --yes.                         *)

\* The image the tag names by then, whatever builds did before (Build.tla), is
\* copied into root's storage when its identifier differs there.
sync_image_to_root == \E image \in Images :
    /\ up /\ staging = NotStaging
    /\ rootTag' = image
    /\ staging' = "upgrade"
    /\ UNCHANGED <<stamp, current, menu, staged, session, grub>>

\* bootc switch, then bootc upgrade: what root's tag names is staged, unless
\* it is what runs already.
Upgrade ==
    /\ staging = "upgrade"
    /\ staged' = IF rootTag = upOn THEN staged ELSE rootTag
    /\ current' = (stamp = 0 \/ (current /\ staged' = staged))
    /\ staging' = "stamp"
    /\ UNCHANGED <<rootTag, stamp, menu, upOn, fixed, clean, grub>>

\* The stamp names the image that was synced, best effort.
Stamp ==
    /\ staging = "stamp"
    /\ \/ stamp' = rootTag /\ current' = TRUE
       \/ UNCHANGED <<stamp, current>>
    /\ staging' = NotStaging
    /\ UNCHANGED <<rootTag, menu, staged, session, grub>>

StageFails ==
    /\ staging # NotStaging
    /\ staging' = NotStaging
    /\ UNCHANGED <<rootTag, stamp, current, menu, staged, session, grub>>

stamp_kept == stamp                            \* mutant: the rollback forgets the stamp
stamp_left == 0
\* kuma rollback: with nothing to land on it stops; otherwise the boot order
\* swaps, a staged deployment is discarded and the stamp dropped.
rollback ==
    /\ up /\ staging = NotStaging
    /\ rollback_slot # {}
    /\ entries' = <<entries[2], entries[1]>>
    /\ UNCHANGED titles
    /\ staged' = 0
    /\ stamp' = stamp_left /\ current' = TRUE
    /\ UNCHANGED <<rootTag, staging, upOn, fixed, clean, grub>>

\* bootc rollback by hand: the same swap, and the stamp stays.
RawRollback ==
    /\ up /\ staging = NotStaging /\ Len(entries) = 2
    /\ entries' = <<entries[2], entries[1]>>
    /\ staged' = 0
    /\ current' = (stamp = 0)
    /\ UNCHANGED <<rootTag, staging, stamp, titles, upOn, fixed, clean,
                   grub>>

\* The doctor writes the stamp from the truth: root's image when it is booted
\* or staged, and no stamp when that cannot be known.
deployment_current == rootTag # 0 /\ rootTag \in {upOn, staged}
check_deployment ==
    /\ up /\ staging = NotStaging
    /\ stamp' = IF deployment_current THEN rootTag ELSE 0
    /\ current' = TRUE
    /\ UNCHANGED <<rootTag, staging, menu, staged, session, grub>>

-----------------------------------------------------------------------------
(* Going down and coming up.                                                 *)

\* At shutdown ostree makes the staged deployment the default and keeps the
\* one running, on its fast path without touching the entry files; a pass of
\* boot-titles follows.  greenboot arms the counter for the new deployment.
boot_titles_late(order) == titles              \* mutant: what ostree left stays
boot_titles(order) == order
shutdown ==
    /\ up /\ staging = NotStaging
    /\ IF staged = 0 THEN UNCHANGED <<entries, counter>>
       ELSE /\ entries' = <<staged, upOn>>
            /\ counter' = MaxTries
    /\ titles' = boot_titles(entries')
    /\ staged' = 0
    /\ upOn' = 0 /\ fixed' = {} /\ clean' = TRUE
    /\ UNCHANGED <<rootTag, staging, stamp, current, native, hook, twice,
                   refreshed>>

\* Power goes: what is staged lives in /run and goes with it, unless the
\* rotation had already happened and only the titles' pass was lost.
PowerCut ==
    /\ up
    /\ \/ UNCHANGED <<entries, titles, counter>>
       \/ /\ staged # 0 /\ staging = NotStaging
          /\ entries' = <<staged, upOn>>
          /\ titles' = IF Len(titles) = 2 THEN titles ELSE titles \o titles
          /\ counter' = MaxTries
    /\ staged' = 0 /\ current' = (stamp = 0)
    /\ staging' = NotStaging
    /\ upOn' = 0 /\ fixed' = {} /\ clean' = FALSE
    /\ UNCHANGED <<rootTag, stamp, native, hook, twice, refreshed>>

\* One pass of a counting block in grub: nothing to do unless the counter is
\* set, and at its end the rollback entry is chosen.
spent(c) == c \in {0, -1}
counted_to_zero(c) == IF c \in {Unset, 0} THEN c ELSE c - 1   \* mutant: the end of the count is not seen
counted_on(c) == IF c = Unset THEN Unset ELSE c - 1           \* mutant: past its end it goes on
counted(c) == IF c = Unset THEN Unset ELSE IF spent(c) THEN -1 ELSE c - 1
times == (IF native THEN 1 ELSE 0) + (IF hook = "whole" THEN 1 ELSE 0)

\* grub boots the default, or the other entry once the count has run out.
Boot ==
    /\ ~up
    /\ LET after == IF times = 2 THEN counted(counted(counter))
                    ELSE IF times = 1 THEN counted(counter) ELSE counter
           fell_back == after = -1 /\ times > 0 /\ Len(entries) = 2
       IN /\ counter' = after
          /\ upOn' = entries[IF fell_back THEN 2 ELSE 1]
          /\ current' = (stamp = 0 \/ (current /\ ~fell_back))
    /\ clean' = TRUE
    /\ twice' = (twice \/ (times = 2 /\ counter # Unset /\ ~refreshed))
    /\ UNCHANGED <<rootTag, staging, stamp, menu, staged, fixed, native,
                   hook, refreshed>>

\* The boot pass of kuma-boot-titles.
BootTitles ==
    /\ up /\ "titles" \notin fixed
    /\ titles' = boot_titles(entries)
    /\ fixed' = fixed \cup {"titles"}
    /\ UNCHANGED <<bootc, entries, staged, upOn, clean, grub>>

hook_converged == IF native THEN "none" ELSE IF hook = "none" THEN "whole" ELSE hook
\* kuma-boot-health-sync: our block where grub does not count, no block where
\* it does.  A marker found is taken for a whole block.
boot_health_sync ==
    /\ up /\ "hook" \notin fixed
    /\ hook' = hook_converged
    /\ refreshed' = FALSE
    /\ fixed' = fixed \cup {"hook"}
    /\ UNCHANGED <<bootc, menu, staged, upOn, clean, counter, native,
                   twice>>

\* Power goes while the block is being appended.
TornAppend ==
    /\ up /\ "hook" \notin fixed /\ ~native /\ hook = "none"
    /\ hook' = "torn"
    /\ staged' = 0 /\ current' = (stamp = 0) /\ staging' = NotStaging
    /\ upOn' = 0 /\ fixed' = {} /\ clean' = FALSE
    /\ UNCHANGED <<rootTag, stamp, menu, counter, native, twice, refreshed>>

\* bootupd gives grub.cfg a counter of its own.
RefreshBootloader ==
    /\ up /\ ~native
    /\ native' = TRUE /\ refreshed' = TRUE
    /\ UNCHANGED <<bootc, menu, staged, session, counter, hook, twice>>

\* greenboot's verdict: green clears the counter and makes the deployment a
\* fallback landed on the default; red reboots while tries are left.
Green ==
    /\ up /\ upOn \in Healthy /\ {"hook", "green"} \cap fixed = {"hook"}
    /\ fixed' = fixed \cup {"green"} /\ counter' = Unset
    /\ entries' = IF counter = -1 /\ entries[1] # upOn
                  THEN <<upOn, entries[1]>> ELSE entries
    /\ UNCHANGED <<bootc, titles, staged, upOn, clean, native, hook, twice,
                   refreshed>>

Red ==
    /\ up /\ upOn \notin Healthy /\ counter >= 0 /\ "hook" \in fixed
    /\ staging' = NotStaging
    /\ upOn' = 0 /\ fixed' = {} /\ clean' = FALSE
    /\ staged' = 0 /\ current' = (stamp = 0)
    /\ UNCHANGED <<rootTag, stamp, menu, grub>>

DeploymentNext ==
    \/ sync_image_to_root \/ Upgrade \/ Stamp \/ StageFails
    \/ rollback \/ RawRollback \/ check_deployment
    \/ shutdown \/ PowerCut \/ Boot \/ BootTitles \/ boot_health_sync \/ TornAppend
    \/ RefreshBootloader \/ Green \/ Red

DeploymentSpec == DeploymentInit /\ [][DeploymentNext]_deploymentVars

\* A boot goes its way: the machine is powered on again, systemd starts the
\* boot's units, and greenboot gives its verdict.
BootGoesOn == Boot \/ BootTitles \/ boot_health_sync \/ Green \/ Red
DeploymentFairSpec == DeploymentSpec /\ WF_deploymentVars(BootGoesOn)

-----------------------------------------------------------------------------

\* The menu names what it boots: always after a shutdown that ran to its end,
\* and after a power cut once this boot's pass has run and nobody has moved
\* the entries since.
TitlesTrue == ~up /\ clean => titles = entries

\* The stamp the passwordless probe believes: while the last thing to move the
\* deployments also wrote or dropped it, the image it names is staged or is one
\* the boot menu offers, so the probe never calls a discarded build deployed.
StampTrue == stamp # 0 /\ current => stamp \in {staged} \cup {entries[i] : i \in 1..Len(entries)}

\* No boot attempt is counted twice, except before the hook has met a
\* grub.cfg that has just begun to count.
CountedOnce == ~twice

\* An update that cannot boot is undone without anybody's help: once the boots
\* of an unhealthy default are counted and the other entry is healthy, that
\* entry comes up in the end, through power cuts, reboots and the hook's own
\* convergence, unless somebody moves the deployments first.
counting == counter >= 0 /\ (native \/ hook = "whole")
BadBootFallsBack ==
    \A bad \in Images \ Healthy, good \in Healthy :
        (upOn = bad /\ entries = <<bad, good>> /\ counting)
            ~> (upOn = good \/ entries # <<bad, good>>)

\* The counter counts each attempt once and ends where the machine boots.
BootsAreCounted == []CountedOnce /\ BadBootFallsBack
=============================================================================
