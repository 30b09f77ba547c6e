----------------------------- MODULE MachineProofs -----------------------------
(***************************************************************************)
(* What a running machine keeps, for any number of images, applications    *)
(* and declarations: the boot menu and the stamp (Deployment), the record  *)
(* of the convergers (Converge) and the state kuma names (Status).         *)
(***************************************************************************)
EXTENDS MachineMC, TLAPS, SequenceTheorems, WellFoundedInduction

-----------------------------------------------------------------------------
(* Deployments.                                                            *)

AllEntries == {entries[i] : i \in 1..Len(entries)}

\* Ranges: of the menu both halves, and whatever is a truth value.
DeploymentRanges ==
    /\ DeploymentTypeOK
    /\ titles \in Seq(Images)
    /\ {current, native, clean, twice, refreshed} \subseteq BOOLEAN

\* What is on its way needs a machine that is up, and is what the stamp is
\* about to name or may go on naming.
Staging ==
    /\ staging # NotStaging \/ staged # 0 => up
    /\ staging = "upgrade" => rootTag # 0
    /\ staging = "stamp" => rootTag \in {staged, upOn}
    /\ stamp # 0 /\ current /\ staged # 0 => stamp \in {staged, upOn}

\* Both may count only until the hook meets the grub.cfg that began to.
OneCounts == native /\ hook = "whole" => refreshed

DeploymentInv == DeploymentRanges /\ Staging /\ OneCounts /\ TitlesTrue /\ StampTrue /\ CountedOnce

\* Entry lists as the steps write them.
LEMMA Pairs ==
    ASSUME NEW a \in Images, NEW b \in Images
    PROVE  /\ <<a, b>> \in Seq(Images) /\ Len(<<a, b>>) = 2
           /\ <<a, b>>[1] = a /\ <<a, b>>[2] = b
           /\ {<<a, b>>[i] : i \in 1..Len(<<a, b>>)} = {a, b}
OBVIOUS

\* The default and, where there is one, the entry behind it.
LEMMA Entries ==
    ASSUME DeploymentTypeOK
    PROVE  /\ entries[1] \in Images
           /\ Len(entries) = 1 \/ (Len(entries) = 2 /\ entries[2] \in Images)
           /\ Len(entries) = 1 => AllEntries = {entries[1]}
           /\ Len(entries) = 2 => AllEntries = {entries[1], entries[2]}
           /\ up => upOn \in AllEntries
<1>1. Len(entries) = 1 \/ Len(entries) = 2
  BY DEF DeploymentTypeOK
<1>2. \A i \in 1..Len(entries) : entries[i] \in Images
  BY DEF DeploymentTypeOK
<1>3. Len(entries) = 1 => 1..Len(entries) = {1}
  OBVIOUS
<1>4. Len(entries) = 2 => 1..Len(entries) = {1, 2}
  OBVIOUS
<1> QED BY <1>1, <1>2, <1>3, <1>4 DEF DeploymentTypeOK, AllEntries, up

\* What the entries offer carries over to a step that leaves them alone.
LEMMA SameEntries ==
    ASSUME UNCHANGED entries
    PROVE  AllEntries' = AllEntries
BY DEF AllEntries

\* The other entry, and the lists the steps write.
LEMMA Swapped ==
    ASSUME DeploymentTypeOK, Len(entries) = 2, entries' = <<entries[2], entries[1]>>
    PROVE  AllEntries' = AllEntries /\ entries' \in Seq(Images) /\ Len(entries') = 2
<1>1. entries[1] \in Images /\ entries[2] \in Images /\ AllEntries = {entries[1], entries[2]}
  BY Entries
<1> QED BY <1>1, Pairs DEF AllEntries

LEMMA TwoToSwap ==
    ASSUME DeploymentTypeOK, rollback
    PROVE  Len(entries) = 2
<1>1. SUFFICES ASSUME Len(entries) = 1
               PROVE  rollback_slot = {}
  BY Entries DEF rollback
<1>2. upOn = entries[1]
  BY <1>1, Entries DEF rollback
<1>3. \A j \in 1..Len(entries) : entries[j] = upOn
  BY <1>1, <1>2
<1> QED BY <1>3 DEF rollback_slot

LEMMA Rotated ==
    ASSUME NEW a \in Images, NEW b \in Images, entries' = <<a, b>>
    PROVE  AllEntries' = {a, b} /\ entries' \in Seq(Images) /\ Len(entries') = 2
BY Pairs DEF AllEntries

LEMMA GreenEntries ==
    ASSUME DeploymentTypeOK, Green
    PROVE  AllEntries' = AllEntries /\ entries' \in Seq(Images) /\ Len(entries') = Len(entries)
<1>1. CASE counter = -1 /\ entries[1] # upOn
  <2>1. Len(entries) = 2 /\ upOn = entries[2] /\ entries[1] \in Images /\ upOn \in Images
    BY <1>1, Entries DEF Green
  <2> QED BY <1>1, <2>1, Rotated, Entries DEF Green
<1>2. CASE ~(counter = -1 /\ entries[1] # upOn)
  BY <1>2, SameEntries DEF Green, DeploymentTypeOK
<1> QED BY <1>1, <1>2

\* Ranges, with the menu as a set.
LEMMA RangesAgain ==
    ASSUME /\ staging' \in {NotStaging, "upgrade", "stamp"}
           /\ {rootTag', staged', upOn', stamp'} \subseteq Images \cup {0}
           /\ entries' \in Seq(Images) /\ Len(entries') \in 1..2
           /\ titles' \in Seq(Images) /\ Len(titles') = Len(entries')
           /\ counter' \in {Unset} \cup (-1)..MaxTries
           /\ hook' \in {"none", "whole", "torn"}
           /\ upOn' # 0 => upOn' \in AllEntries'
           /\ {current', native', clean', twice', refreshed'} \subseteq BOOLEAN
    PROVE  DeploymentRanges'
BY DEF DeploymentRanges, DeploymentTypeOK, AllEntries, up

\* One pass of a counting block, and two of them, keep the counter in range.
LEMMA Counting ==
    ASSUME NEW c \in {Unset} \cup (-1)..MaxTries
    PROVE  /\ counted(c) \in {Unset} \cup (-1)..MaxTries
           /\ counted(counted(c)) \in {Unset} \cup (-1)..MaxTries
<1>1. \A n \in {Unset} \cup (-1)..MaxTries : counted(n) \in {Unset} \cup (-1)..MaxTries
  BY DeploymentAssumption DEF counted, spent, Unset
<1> QED BY <1>1

LEMMA DeploymentRangesStep ==
    ASSUME DeploymentRanges, Staging, DeploymentNext
    PROVE  DeploymentRanges'
<1> USE DEF bootc, menu, grub, session
<1>0. /\ staging \in {NotStaging, "upgrade", "stamp"}
      /\ {rootTag, staged, upOn, stamp} \subseteq Images \cup {0}
      /\ entries \in Seq(Images) /\ Len(entries) \in 1..2
      /\ titles \in Seq(Images) /\ Len(titles) = Len(entries)
      /\ counter \in {Unset} \cup (-1)..MaxTries
      /\ hook \in {"none", "whole", "torn"}
      /\ upOn # 0 => upOn \in AllEntries
      /\ {current, native, clean, twice, refreshed} \subseteq BOOLEAN
  BY Entries DEF DeploymentRanges, DeploymentTypeOK, up
<1>1. CASE sync_image_to_root
  BY <1>0, <1>1, RangesAgain, SameEntries, Entries, DeploymentAssumption DEF sync_image_to_root, up
<1>2. CASE Upgrade
  BY <1>0, <1>2, RangesAgain, SameEntries, Entries, DeploymentAssumption DEF Upgrade, up
<1>3. CASE Stamp
  BY <1>0, <1>3, RangesAgain, SameEntries, Entries, DeploymentAssumption DEF Stamp, up
<1>4. CASE StageFails
  BY <1>0, <1>4, RangesAgain, SameEntries, Entries, DeploymentAssumption DEF StageFails, up
<1>5. CASE rollback
  <2>1. Len(entries) = 2
    BY <1>5, TwoToSwap DEF DeploymentRanges
  <2>2. /\ AllEntries' = AllEntries /\ entries' \in Seq(Images) /\ Len(entries') = 2
    BY <2>1, <1>5, Swapped DEF rollback, DeploymentRanges
  <2> QED BY <2>1, <2>2, <1>0, <1>5, RangesAgain DEF rollback, stamp_left
<1>6. CASE RawRollback
  <2>1. /\ AllEntries' = AllEntries /\ entries' \in Seq(Images) /\ Len(entries') = 2
    BY <1>6, Swapped DEF RawRollback, DeploymentRanges
  <2> QED BY <2>1, <1>0, <1>6, RangesAgain DEF RawRollback
<1>7. CASE check_deployment
  BY <1>0, <1>7, RangesAgain, SameEntries, Entries, DeploymentAssumption DEF check_deployment, up
<1>8. CASE shutdown
  <2>1. CASE staged = 0
    BY <2>1, <1>0, <1>8, RangesAgain, SameEntries DEF shutdown, boot_titles
  <2>2. CASE staged # 0
    <3>1. /\ staged \in Images /\ upOn \in Images
          /\ entries' = <<staged, upOn>> /\ titles' = entries' /\ counter' = MaxTries
      BY <2>2, <1>0, <1>8 DEF shutdown, boot_titles, up
    <3>2. entries' \in Seq(Images) /\ Len(entries') = 2
      BY <3>1, Rotated
    <3> QED BY <3>1, <3>2, <1>0, <1>8, RangesAgain, DeploymentAssumption DEF shutdown
  <2> QED BY <2>1, <2>2
<1>9. CASE PowerCut
  <2>1. CASE UNCHANGED <<entries, titles, counter>>
    BY <2>1, <1>0, <1>9, RangesAgain, SameEntries DEF PowerCut
  <2>2. CASE staged # 0 /\ entries' = <<staged, upOn>> /\ counter' = MaxTries
                        /\ titles' = IF Len(titles) = 2 THEN titles ELSE titles \o titles
    <3>1. staged \in Images /\ upOn \in Images
      BY <2>2, <1>0, <1>9 DEF PowerCut, up
    <3>2. entries' \in Seq(Images) /\ Len(entries') = 2
      BY <2>2, <3>1, Rotated
    <3>3. titles' \in Seq(Images) /\ Len(titles') = 2
      <4>1. Len(titles) # 2 => Len(titles) = 1
        BY <1>0
      <4>2. titles \o titles \in Seq(Images) /\ Len(titles \o titles) = Len(titles) + Len(titles)
        BY <1>0, ConcatProperties
      <4>3. CASE Len(titles) = 2
        BY <4>3, <2>2, <1>0
      <4>4. CASE Len(titles) = 1
        BY <4>2, <4>4, <2>2
      <4> QED BY <4>1, <4>3, <4>4
    <3>4. counter' \in {Unset} \cup (-1)..MaxTries
      BY <2>2, DeploymentAssumption
    <3>5. /\ UNCHANGED <<rootTag, stamp, native, hook, twice, refreshed>>
          /\ staged' = 0 /\ current' = (stamp = 0) /\ staging' = NotStaging
          /\ upOn' = 0 /\ clean' = FALSE
      BY <1>9 DEF PowerCut
    <3>6. current' \in BOOLEAN /\ clean' \in BOOLEAN
      BY <3>5
    <3>7. {current', native', clean', twice', refreshed'} \subseteq BOOLEAN
      BY <3>5, <3>6, <1>0
    <3>8. {rootTag', staged', upOn', stamp'} \subseteq Images \cup {0}
      BY <3>5, <1>0
    <3>9. Len(entries') \in 1..2 /\ Len(titles') = Len(entries')
      BY <3>2, <3>3
    <3>10. staging' \in {NotStaging, "upgrade", "stamp"} /\ hook' \in {"none", "whole", "torn"}
           /\ (upOn' # 0 => upOn' \in AllEntries')
      BY <3>5, <1>0
    <3> QED BY <3>2, <3>3, <3>4, <3>7, <3>8, <3>9, <3>10, RangesAgain
  <2> QED BY <2>1, <2>2, <1>9 DEF PowerCut
<1>10. CASE Boot
  <2>1. counter' \in {Unset} \cup (-1)..MaxTries
    BY <1>0, <1>10, Counting DEF Boot
  <2>2. upOn' \in AllEntries /\ upOn' \in Images
    <3>1. upOn' = entries[1] \/ (Len(entries) = 2 /\ upOn' = entries[2])
      BY <1>0, <1>10 DEF Boot
    <3> QED BY <3>1, Entries DEF DeploymentRanges
  <2> QED BY <2>1, <2>2, <1>0, <1>10, RangesAgain, SameEntries DEF Boot
<1>11. CASE BootTitles
  BY <1>0, <1>11, RangesAgain, SameEntries DEF BootTitles, boot_titles
<1>12. CASE boot_health_sync
  BY <1>0, <1>12, RangesAgain, SameEntries DEF boot_health_sync, hook_converged
<1>13. CASE TornAppend
  BY <1>0, <1>13, RangesAgain, SameEntries, Entries, DeploymentAssumption DEF TornAppend, up
<1>14. CASE RefreshBootloader
  BY <1>0, <1>14, RangesAgain, SameEntries, Entries, DeploymentAssumption DEF RefreshBootloader, up
<1>15. CASE Green
  BY <1>0, <1>15, RangesAgain, GreenEntries DEF Green, DeploymentRanges
<1>16. CASE Red
  BY <1>0, <1>16, RangesAgain, SameEntries, Entries, DeploymentAssumption DEF Red, up
<1> QED BY <1>1, <1>2, <1>3, <1>4, <1>5, <1>6, <1>7, <1>8, <1>9, <1>10, <1>11, <1>12, <1>13, <1>14, <1>15, <1>16 DEF DeploymentNext

\* Where the entries swap or rotate, what they offer stays or is named.
LEMMA Offered ==
    ASSUME DeploymentRanges, Staging, DeploymentNext
    PROVE  \/ AllEntries' = AllEntries
           \/ staged # 0 /\ staging = NotStaging /\ AllEntries' = {staged, upOn} /\ staged' = 0
<1> USE DEF bootc, menu, grub, session
<1>0. /\ DeploymentTypeOK
      /\ {staged, upOn} \subseteq Images \cup {0}
  BY DEF DeploymentRanges, DeploymentTypeOK
<1>1. CASE sync_image_to_root
  BY <1>1, <1>0, SameEntries DEF sync_image_to_root
<1>2. CASE Upgrade
  BY <1>2, <1>0, SameEntries DEF Upgrade
<1>3. CASE Stamp
  BY <1>3, <1>0, SameEntries DEF Stamp
<1>4. CASE StageFails
  BY <1>4, <1>0, SameEntries DEF StageFails
<1>5. CASE rollback
  BY <1>5, <1>0, Swapped, TwoToSwap DEF rollback
<1>6. CASE RawRollback
  BY <1>6, <1>0, SameEntries, Swapped DEF RawRollback
<1>7. CASE check_deployment
  BY <1>7, <1>0, SameEntries DEF check_deployment
<1>8. CASE shutdown
  BY <1>8, <1>0, SameEntries, Rotated DEF shutdown, up
<1>9. CASE PowerCut
  BY <1>9, <1>0, SameEntries, Rotated DEF PowerCut, up
<1>10. CASE Boot
  BY <1>10, <1>0, SameEntries DEF Boot
<1>11. CASE BootTitles
  BY <1>11, <1>0, SameEntries DEF BootTitles
<1>12. CASE boot_health_sync
  BY <1>12, <1>0, SameEntries DEF boot_health_sync
<1>13. CASE TornAppend
  BY <1>13, <1>0, SameEntries DEF TornAppend
<1>14. CASE RefreshBootloader
  BY <1>14, <1>0, SameEntries DEF RefreshBootloader
<1>15. CASE Green
  BY <1>15, <1>0, GreenEntries
<1>16. CASE Red
  BY <1>16, <1>0, SameEntries DEF Red
<1> QED BY <1>1, <1>2, <1>3, <1>4, <1>5, <1>6, <1>7, <1>8, <1>9, <1>10, <1>11, <1>12, <1>13, <1>14, <1>15, <1>16 DEF DeploymentNext

LEMMA StagingStep ==
    ASSUME DeploymentRanges, Staging, DeploymentNext
    PROVE  Staging'
<1> USE DEF bootc, menu, grub, session, Staging, up, NotStaging
<1>0. {rootTag, staged, upOn, stamp} \subseteq Images \cup {0} /\ 0 \notin Images
  BY DeploymentAssumption DEF DeploymentRanges, DeploymentTypeOK
<1>1. CASE sync_image_to_root
  BY <1>1, <1>0 DEF sync_image_to_root
<1>2. CASE Upgrade
  BY <1>2, <1>0 DEF Upgrade
<1>3. CASE Stamp
  BY <1>3, <1>0 DEF Stamp
<1>4. CASE StageFails
  BY <1>4, <1>0 DEF StageFails
<1>5. CASE rollback
  BY <1>5, <1>0 DEF rollback, stamp_left
<1>6. CASE RawRollback
  BY <1>6, <1>0 DEF RawRollback
<1>7. CASE check_deployment
  BY <1>7, <1>0 DEF check_deployment, deployment_current
<1>8. CASE shutdown
  BY <1>8, <1>0 DEF shutdown
<1>9. CASE PowerCut
  BY <1>9, <1>0 DEF PowerCut
<1>10. CASE Boot
  BY <1>10, <1>0 DEF Boot
<1>11. CASE BootTitles
  BY <1>11, <1>0 DEF BootTitles
<1>12. CASE boot_health_sync
  BY <1>12, <1>0 DEF boot_health_sync
<1>13. CASE TornAppend
  BY <1>13, <1>0 DEF TornAppend
<1>14. CASE RefreshBootloader
  BY <1>14, <1>0 DEF RefreshBootloader
<1>15. CASE Green
  BY <1>15, <1>0 DEF Green
<1>16. CASE Red
  BY <1>16, <1>0 DEF Red
<1> QED BY <1>1, <1>2, <1>3, <1>4, <1>5, <1>6, <1>7, <1>8, <1>9, <1>10, <1>11, <1>12, <1>13, <1>14, <1>15, <1>16 DEF DeploymentNext

LEMMA StampStep ==
    ASSUME DeploymentRanges, Staging, StampTrue, DeploymentNext
    PROVE  StampTrue'
<1> USE DEF bootc, menu, grub, session
<1>1. stamp # 0 /\ current => stamp \in {staged} \cup AllEntries
  BY DEF StampTrue, AllEntries
<1>2. SUFFICES ASSUME stamp' # 0, current'
               PROVE  stamp' \in {staged'} \cup AllEntries'
  BY DEF StampTrue, AllEntries
<1>3. /\ upOn # 0 => upOn \in AllEntries
      /\ {rootTag, staged, upOn, stamp} \subseteq Images \cup {0} /\ 0 \notin Images
      /\ staging \in {NotStaging, "upgrade", "stamp"}
  BY Entries, DeploymentAssumption DEF DeploymentRanges, DeploymentTypeOK, up
<1>4. CASE Stamp
  <2>1. rootTag # 0 => rootTag \in {staged} \cup AllEntries
    BY <1>3, <1>4 DEF Stamp, Staging
  <2>2. AllEntries' = AllEntries /\ staged' = staged
    BY <1>4, SameEntries DEF Stamp
  <2> QED BY <1>1, <1>2, <1>4, <2>1, <2>2 DEF Stamp
<1>5. CASE sync_image_to_root
  BY <1>1, <1>2, <1>3, <1>5, Offered DEF sync_image_to_root, Staging, up, NotStaging
<1>6. CASE Upgrade
  BY <1>1, <1>2, <1>3, <1>6, Offered DEF Upgrade, Staging, up, NotStaging
<1>7. CASE StageFails
  BY <1>1, <1>2, <1>3, <1>7, Offered DEF StageFails, Staging, up, NotStaging
<1>8. CASE rollback
  BY <1>1, <1>2, <1>3, <1>8, Offered DEF rollback, Staging, up, NotStaging, stamp_left
<1>9. CASE RawRollback
  BY <1>1, <1>2, <1>3, <1>9, Offered DEF RawRollback, Staging, up, NotStaging
<1>10. CASE check_deployment
  BY <1>1, <1>2, <1>3, <1>10, Offered DEF check_deployment, Staging, up, NotStaging, deployment_current
<1>11. CASE shutdown
  <2>1. CASE staged = 0
    BY <1>1, <1>2, <1>3, <1>11, <2>1, SameEntries DEF shutdown
  <2>2. CASE staged # 0
    <3>1. AllEntries' = {staged, upOn}
      BY <1>3, <1>11, <2>2, Rotated DEF shutdown, up
    <3> QED BY <1>1, <1>2, <1>3, <1>11, <2>2, <3>1 DEF shutdown, Staging
  <2> QED BY <2>1, <2>2
<1>12. CASE PowerCut
  BY <1>1, <1>2, <1>3, <1>12, Offered DEF PowerCut, Staging, up, NotStaging
<1>13. CASE Boot
  BY <1>1, <1>2, <1>3, <1>13, Offered DEF Boot, Staging, up, NotStaging
<1>14. CASE BootTitles
  BY <1>1, <1>2, <1>3, <1>14, Offered DEF BootTitles, Staging, up, NotStaging
<1>15. CASE boot_health_sync
  BY <1>1, <1>2, <1>3, <1>15, Offered DEF boot_health_sync, Staging, up, NotStaging
<1>16. CASE TornAppend
  BY <1>1, <1>2, <1>3, <1>16, Offered DEF TornAppend, Staging, up, NotStaging
<1>17. CASE RefreshBootloader
  BY <1>1, <1>2, <1>3, <1>17, Offered DEF RefreshBootloader, Staging, up, NotStaging
<1>18. CASE Green
  BY <1>1, <1>2, <1>3, <1>18, Offered DEF Green, Staging, up, NotStaging
<1>19. CASE Red
  BY <1>1, <1>2, <1>3, <1>19, Offered DEF Red, Staging, up, NotStaging
<1> QED BY <1>4, <1>5, <1>6, <1>7, <1>8, <1>9, <1>10, <1>11, <1>12, <1>13, <1>14, <1>15, <1>16, <1>17, <1>18, <1>19 DEF DeploymentNext

\* The menu and the counter: a machine goes down clean by a shutdown, which
\* writes the titles last, and only a boot counts.
LEMMA TitlesStep ==
    ASSUME DeploymentRanges, TitlesTrue, DeploymentNext
    PROVE  TitlesTrue'
<1> USE DEF bootc, menu, grub, session, TitlesTrue, up
<1>1. CASE shutdown
  BY <1>1 DEF shutdown, boot_titles
<1>2. CASE sync_image_to_root \/ Upgrade \/ Stamp \/ StageFails \/ rollback \/ RawRollback
           \/ check_deployment
  BY <1>2 DEF sync_image_to_root, Upgrade, Stamp, StageFails, rollback, RawRollback,
              check_deployment
<1>3. CASE Boot
  <2>1. upOn' \in {entries[1], entries[2]} /\ (upOn' # entries[1] => Len(entries) = 2)
    BY <1>3 DEF Boot
  <2>2. upOn' # 0
    BY <2>1, Entries, DeploymentAssumption DEF DeploymentRanges
  <2> QED BY <2>2
<1>4. CASE PowerCut \/ TornAppend \/ Red
  BY <1>4 DEF PowerCut, TornAppend, Red
<1>5. CASE BootTitles \/ boot_health_sync \/ RefreshBootloader \/ Green
  BY <1>5 DEF BootTitles, boot_health_sync, RefreshBootloader, Green
<1> QED BY <1>1, <1>2, <1>3, <1>4, <1>5 DEF DeploymentNext

LEMMA CountStep ==
    ASSUME OneCounts, CountedOnce, DeploymentRanges, DeploymentNext
    PROVE  OneCounts' /\ CountedOnce'
<1> USE DEF bootc, menu, grub, session, OneCounts, CountedOnce
<1>0. {native, twice, refreshed} \subseteq BOOLEAN
  BY DEF DeploymentRanges
<1>1. CASE Boot
  <2>1. UNCHANGED <<native, hook, refreshed>>
    BY <1>1 DEF Boot
  <2>2. ~(times = 2 /\ ~refreshed)
    BY <1>0 DEF times
  <2>3. twice' = (twice \/ (times = 2 /\ counter # Unset /\ ~refreshed))
    BY <1>1 DEF Boot
  <2>4. ~twice'
    BY <2>2, <2>3
  <2> QED BY <2>1, <2>4
<1>2. CASE boot_health_sync
  BY <1>0, <1>2 DEF boot_health_sync, hook_converged
<1>3. CASE RefreshBootloader \/ TornAppend
  BY <1>3 DEF RefreshBootloader, TornAppend
<1>4. CASE sync_image_to_root \/ Upgrade \/ Stamp \/ StageFails \/ rollback \/ RawRollback
           \/ check_deployment \/ shutdown \/ PowerCut \/ BootTitles \/ Green \/ Red
  BY <1>4 DEF sync_image_to_root, Upgrade, Stamp, StageFails, rollback, RawRollback,
              check_deployment, shutdown, PowerCut, BootTitles, Green, Red
<1> QED BY <1>1, <1>2, <1>3, <1>4 DEF DeploymentNext

\* The deployments' inductive invariant.
THEOREM DeploymentHolds == DeploymentSpec => []DeploymentInv
<1>1. DeploymentInit => DeploymentInv
  <2> SUFFICES ASSUME DeploymentInit PROVE DeploymentInv
    OBVIOUS
  <2>1. <<1>> \in Seq(Images) /\ Len(<<1>>) = 1
    BY DeploymentAssumption
  <2>2. {current, native, clean, twice, refreshed} \subseteq BOOLEAN
    BY Zenon DEF DeploymentInit
  <2>3. DeploymentRanges
    <3>1. entries \in Seq(Images) /\ Len(entries) = 1 /\ titles \in Seq(Images) /\ Len(titles) = 1
      BY <2>1 DEF DeploymentInit
    <3>2. /\ staging = NotStaging /\ rootTag = 0 /\ staged = 0 /\ upOn = 0 /\ stamp = 0
          /\ counter = Unset /\ hook = "none"
      BY DEF DeploymentInit
    <3> QED BY <2>2, <3>1, <3>2 DEF DeploymentRanges, DeploymentTypeOK, up
  <2>4. Staging /\ OneCounts /\ TitlesTrue /\ StampTrue /\ CountedOnce
    BY DEF DeploymentInit, Staging, OneCounts, TitlesTrue, StampTrue, CountedOnce, up, NotStaging
  <2> QED BY <2>3, <2>4 DEF DeploymentInv
<1>2. DeploymentInv /\ [DeploymentNext]_deploymentVars => DeploymentInv'
  <2> SUFFICES ASSUME DeploymentInv, [DeploymentNext]_deploymentVars PROVE DeploymentInv'
    OBVIOUS
  <2>1. CASE DeploymentNext
    BY <2>1, DeploymentRangesStep, StagingStep, StampStep, TitlesStep, CountStep DEF DeploymentInv
  <2>2. CASE UNCHANGED deploymentVars
    BY <2>2 DEF deploymentVars, DeploymentInv, DeploymentRanges, DeploymentTypeOK, Staging,
        OneCounts, TitlesTrue, StampTrue, CountedOnce, up
  <2> QED BY <2>1, <2>2
<1> QED BY <1>1, <1>2, PTL DEF DeploymentSpec

\* TitlesTrue: the boot menu names what it boots after every shutdown that ran
\* to its end, whatever switches, rollbacks and power cuts came before it.
THEOREM MenuIsTrue == DeploymentSpec => []TitlesTrue
BY DeploymentHolds, PTL DEF DeploymentInv

\* StampTrue: the image the stamp names is staged or one the menu offers, as
\* long as what last moved the deployments also wrote or dropped the stamp.
THEOREM StampIsTrue == DeploymentSpec => []StampTrue
BY DeploymentHolds, PTL DEF DeploymentInv

\* CountedOnce: grub.cfg and kuma's hook never both count an attempt, once the
\* hook has met the grub.cfg.
THEOREM AttemptsCountOnce == DeploymentSpec => []CountedOnce
BY DeploymentHolds, PTL DEF DeploymentInv

-----------------------------------------------------------------------------
(* Application convergence.                                                *)

\* What was ever declared bounds what a run may take.
EverDeclared ==
    /\ record \subseteq ever /\ declared \subseteq ever /\ since \in BOOLEAN

\* What a run has behind it, at the step it is at; a run that goes on after
\* another wrote the record finds its list recorded.
RunsAreTrue ==
    \A u \in Syncs :
        /\ unit[u] = "install" => declared \ left[u] \subseteq installed \cup taken
        /\ unit[u] = "remove" => declared \subseteq installed \cup taken
        /\ unit[u] \in {"install", "remove"} /\ ~since => record = declared
RecordIsThere == ~since => record \subseteq installed \cup taken

ConvergeInv == ConvergeTypeOK /\ EverDeclared /\ RunsAreTrue /\ RecordIsThere

LEMMA ConvergeTypeStep ==
    ASSUME ConvergeTypeOK, ConvergeNext
    PROVE  ConvergeTypeOK'
<1> USE DEF baked, Syncs, Units, Daily, Steps
<1>0. /\ declared \in Lists /\ record \in Lists \cup {{}}
      /\ installed \subseteq Apps /\ taken \subseteq Apps \ installed
      /\ unit \in [Units -> Steps] /\ left \in [Syncs -> SUBSET Apps]
      /\ skip \in BOOLEAN /\ moment \in Moments /\ tool \in Setup
      /\ (~Brew => tool = "done") /\ boots \in 0..MaxBoots /\ Lists \subseteq SUBSET Apps
      /\ MaxBoots \in Nat
  BY ConvergeAssumption DEF ConvergeTypeOK
<1> USE <1>0
<1>1. CASE OwnerInstalls
  BY <1>1 DEF OwnerInstalls, ConvergeTypeOK
<1>2. CASE OwnerRemoves
  BY <1>2 DEF OwnerRemoves, ConvergeTypeOK
<1>3. CASE MomentChanges
  BY <1>3 DEF MomentChanges, ConvergeTypeOK
<1>4. CASE Restart
  <2>1. unit' \in [Units -> Steps] /\ left' \in [Syncs -> SUBSET Apps]
    BY <1>4 DEF Restart, Booting
  <2>2. tool' \in Setup /\ (~Brew => tool' = "done")
    BY <1>4 DEF Restart, Setup
  <2>3. declared' \in Lists /\ boots' \in 0..MaxBoots
    BY <1>4 DEF Restart
  <2>4. skip' \in BOOLEAN /\ UNCHANGED <<record, installed, taken, moment>>
    BY <1>4 DEF Restart
  <2> QED BY <2>1, <2>2, <2>3, <2>4 DEF ConvergeTypeOK
<1>5. CASE brew_setup_untar \/ brew_setup_link
  BY <1>5 DEF brew_setup_untar, brew_setup_link, ConvergeTypeOK, Setup
<1>6. CASE sync_unit
  BY <1>6 DEF sync_unit, ConvergeTypeOK
<1>7. ASSUME NEW u \in Daily, TimerFires(u) PROVE ConvergeTypeOK'
  BY <1>7 DEF TimerFires, ConvergeTypeOK
<1>8. ASSUME NEW u \in Daily, converge_gate(u) PROVE ConvergeTypeOK'
  <2>1. skip' \in BOOLEAN
    BY <1>8 DEF converge_gate
  <2>2. unit' \in [Units -> Steps]
    BY <1>8 DEF converge_gate
  <2> QED BY <2>1, <2>2, <1>8 DEF converge_gate, ConvergeTypeOK
<1>9. ASSUME NEW u \in Units, NEW how \in {"off", "failed"}, ends(u, how)
      PROVE  unit' \in [Units -> Steps] /\ skip' \in BOOLEAN
  <2>1. skip' \in BOOLEAN
    BY <1>9 DEF ends
  <2>2. unit' \in [Units -> Steps]
    BY <1>9 DEF ends
  <2> QED BY <2>1, <2>2
<1>10. ASSUME NEW u \in Syncs, passes(u)
       PROVE  unit' \in [Units -> Steps] /\ skip' \in BOOLEAN
  BY <1>10, <1>9 DEF passes
<1>11. ASSUME NEW u \in Units, Skipped(u) PROVE ConvergeTypeOK'
  BY <1>11, <1>9 DEF Skipped, ConvergeTypeOK
<1>12. ASSUME NEW u \in Syncs, Retry(u) PROVE ConvergeTypeOK'
  BY <1>12 DEF Retry, ConvergeTypeOK
<1>13. ASSUME NEW u \in Syncs, Equal(u) PROVE ConvergeTypeOK'
  BY <1>13, <1>10 DEF Equal, ConvergeTypeOK
<1>14. ASSUME NEW u \in Syncs, Unequal(u) PROVE ConvergeTypeOK'
  BY <1>14 DEF Unequal, ConvergeTypeOK
<1>15. ASSUME NEW u \in Syncs, install_one(u) PROVE ConvergeTypeOK'
  BY <1>15 DEF install_one, ConvergeTypeOK
<1>16. ASSUME NEW u \in Syncs, installed_all(u) PROVE ConvergeTypeOK'
  BY <1>16 DEF installed_all, dropped, ConvergeTypeOK
<1>17. ASSUME NEW u \in Syncs, uninstall_one(u) PROVE ConvergeTypeOK'
  BY <1>17 DEF uninstall_one, ConvergeTypeOK
<1>18. ASSUME NEW u \in Syncs, write_record(u) PROVE ConvergeTypeOK'
  BY <1>18, <1>10 DEF write_record, ConvergeTypeOK
<1>19. ASSUME NEW u \in Syncs, InstallFails(u) PROVE ConvergeTypeOK'
  BY <1>19, <1>9 DEF InstallFails, ConvergeTypeOK
<1>20. CASE full
  BY <1>20, <1>9 DEF full, ConvergeTypeOK
<1> QED BY <1>1, <1>2, <1>3, <1>4, <1>5, <1>6, <1>7, <1>8, <1>11, <1>12, <1>13, <1>14, <1>15, <1>16,
           <1>17, <1>18, <1>19, <1>20 DEF ConvergeNext, Run

LEMMA EverDeclaredStep ==
    ASSUME EverDeclared, ConvergeNext
    PROVE  EverDeclared'
<1> USE DEF baked, EverDeclared
<1>1. CASE Restart
  BY <1>1 DEF Restart
<1>2. CASE OwnerInstalls \/ OwnerRemoves \/ MomentChanges \/ brew_setup_untar \/ brew_setup_link
           \/ sync_unit \/ full
  BY <1>2 DEF OwnerInstalls, OwnerRemoves, MomentChanges, brew_setup_untar, brew_setup_link,
              sync_unit, full
<1>3. CASE \E u \in Daily : TimerFires(u) \/ converge_gate(u)
  BY <1>3 DEF TimerFires, converge_gate
<1>4. CASE \E u \in Units : Skipped(u)
  BY <1>4 DEF Skipped
<1>5. CASE \E u \in Syncs : Retry(u) \/ InstallFails(u)
  BY <1>5 DEF Retry, InstallFails
<1>6. CASE \E u \in Syncs : Equal(u) \/ install_one(u) \/ installed_all(u) \/ uninstall_one(u)
  BY <1>6 DEF Equal, install_one, installed_all, uninstall_one
<1>7. CASE \E u \in Syncs : Unequal(u) \/ write_record(u)
  BY <1>7 DEF Unequal, write_record
<1> QED BY <1>1, <1>2, <1>3, <1>4, <1>5, <1>6, <1>7 DEF ConvergeNext, Run

\* The units a step leaves where they are, or takes out of the convergence.
Elsewhere(u) == unit'[u] = unit[u] /\ left'[u] = left[u]
Outside(u) == unit'[u] \notin {"install", "remove"}

LEMMA RunsStep ==
    ASSUME ConvergeTypeOK, RunsAreTrue, RecordIsThere, ConvergeNext
    PROVE  RunsAreTrue' /\ RecordIsThere'
<1> USE DEF baked, Syncs, Units, Daily, Steps, RunsAreTrue, RecordIsThere
<1>0. unit \in [Units -> Steps] /\ left \in [Syncs -> SUBSET Apps]
  BY DEF ConvergeTypeOK
<1> USE <1>0
\* Steps that take no application out of sight and begin no run.
<1>1. ASSUME UNCHANGED <<declared, record, since>>,
             installed \cup taken \subseteq installed' \cup taken',
             \A u \in Syncs : Elsewhere(u) \/ Outside(u)
      PROVE  RunsAreTrue' /\ RecordIsThere'
  BY <1>1 DEF Elsewhere, Outside
<1>2. CASE OwnerInstalls
  BY <1>1, <1>2 DEF OwnerInstalls, Elsewhere
<1>3. CASE OwnerRemoves
  BY <1>1, <1>3 DEF OwnerRemoves, Elsewhere
<1>4. CASE MomentChanges \/ brew_setup_untar \/ brew_setup_link
  BY <1>1, <1>4 DEF MomentChanges, brew_setup_untar, brew_setup_link, Elsewhere
<1>5. CASE Restart
  BY <1>5 DEF Restart, Booting
<1>6. CASE sync_unit
  BY <1>1, <1>6 DEF sync_unit, Elsewhere, Outside
<1>7. ASSUME NEW u \in Daily, TimerFires(u) \/ converge_gate(u)
      PROVE  RunsAreTrue' /\ RecordIsThere'
  BY <1>1, <1>7 DEF TimerFires, converge_gate, Elsewhere, Outside
<1>8. ASSUME NEW u \in Units, Skipped(u) PROVE RunsAreTrue' /\ RecordIsThere'
  BY <1>1, <1>8 DEF Skipped, ends, Elsewhere, Outside
<1>9. ASSUME NEW u \in Syncs, Retry(u) \/ InstallFails(u) \/ Equal(u)
      PROVE  RunsAreTrue' /\ RecordIsThere'
  BY <1>1, <1>9 DEF Retry, InstallFails, Equal, passes, ends, Elsewhere, Outside
<1>10. CASE full
  BY <1>1, <1>10 DEF full, ends, Elsewhere, Outside
<1>11. ASSUME NEW u \in Syncs, Unequal(u) PROVE RunsAreTrue' /\ RecordIsThere'
  BY <1>11 DEF Unequal
<1>12. ASSUME NEW u \in Syncs, install_one(u) PROVE RunsAreTrue' /\ RecordIsThere'
  BY <1>12 DEF install_one
<1>13. ASSUME NEW u \in Syncs, installed_all(u) PROVE RunsAreTrue' /\ RecordIsThere'
  BY <1>13 DEF installed_all
<1>14. ASSUME NEW u \in Syncs, uninstall_one(u) PROVE RunsAreTrue' /\ RecordIsThere'
  BY <1>14 DEF uninstall_one, dropped
<1>15. ASSUME NEW u \in Syncs, write_record(u) PROVE RunsAreTrue' /\ RecordIsThere'
  BY <1>15 DEF write_record, passes, ends
<1> QED BY <1>2, <1>3, <1>4, <1>5, <1>6, <1>7, <1>8, <1>9, <1>10, <1>11, <1>12, <1>13, <1>14, <1>15
        DEF ConvergeNext, Run

\* The convergers' inductive invariant.
THEOREM ConvergeHolds == ConvergeSpec => []ConvergeInv
<1>1. ConvergeInit => ConvergeInv
  <2> SUFFICES ASSUME ConvergeInit PROVE ConvergeInv
    OBVIOUS
  <2>1. unit \in [Units -> Steps] /\ left \in [Syncs -> SUBSET Apps]
    BY DEF ConvergeInit, Booting, Units, Syncs, Steps
  <2>2. tool \in Setup /\ (~Brew => tool = "done")
    BY ConvergeAssumption DEF ConvergeInit, Setup
  <2>3. skip \in BOOLEAN /\ since \in BOOLEAN /\ moment \in Moments
    BY DEF ConvergeInit, Moments
  <2>4. /\ declared \in Lists /\ record = {} /\ installed = {} /\ taken = {} /\ boots \in 0..MaxBoots
        /\ ever = declared
    BY ConvergeAssumption DEF ConvergeInit
  <2>5. RunsAreTrue /\ RecordIsThere
    BY DEF ConvergeInit, Booting, Units, Syncs, RunsAreTrue, RecordIsThere
  <2> QED BY <2>1, <2>2, <2>3, <2>4, <2>5 DEF ConvergeInv, ConvergeTypeOK, EverDeclared
<1>2. ConvergeInv /\ [ConvergeNext]_convergeVars => ConvergeInv'
  <2> SUFFICES ASSUME ConvergeInv, [ConvergeNext]_convergeVars PROVE ConvergeInv'
    OBVIOUS
  <2>1. CASE ConvergeNext
    BY <2>1, ConvergeTypeStep, EverDeclaredStep, RunsStep DEF ConvergeInv
  <2>2. CASE UNCHANGED convergeVars
    BY <2>2 DEF convergeVars, ConvergeInv, ConvergeTypeOK, EverDeclared, RunsAreTrue, RecordIsThere
  <2> QED BY <2>1, <2>2
<1> QED BY <1>1, <1>2, PTL DEF ConvergeSpec

\* OwnersAppsStay, a step at a time: what goes was declared once, or the owner
\* took it.
LEMMA OwnersAppsStep ==
    ASSUME ConvergeInv, ConvergeNext
    PROVE  \A a \in installed \ installed' : a \in ever \/ a \in taken'
<1> USE DEF baked
<1>1. CASE OwnerInstalls \/ OwnerRemoves \/ MomentChanges \/ brew_setup_untar \/ brew_setup_link
           \/ sync_unit \/ full \/ Restart
  BY <1>1 DEF OwnerInstalls, OwnerRemoves, MomentChanges, brew_setup_untar, brew_setup_link,
              sync_unit, full, Restart
<1>2. CASE \E u \in Daily : TimerFires(u) \/ converge_gate(u)
  BY <1>2 DEF TimerFires, converge_gate
<1>3. CASE \E u \in Units : Skipped(u)
  BY <1>3 DEF Skipped
<1>4. CASE \E u \in Syncs : Retry(u) \/ InstallFails(u) \/ Equal(u) \/ Unequal(u)
  BY <1>4 DEF Retry, InstallFails, Equal, Unequal
<1>5. CASE \E u \in Syncs : install_one(u) \/ installed_all(u) \/ write_record(u)
  BY <1>5 DEF install_one, installed_all, write_record
<1>6. CASE \E u \in Syncs : uninstall_one(u)
  BY <1>6 DEF uninstall_one, dropped, ConvergeInv, EverDeclared
<1> QED BY <1>1, <1>2, <1>3, <1>4, <1>5, <1>6 DEF ConvergeNext, Run

\* RunsAreHonest: whatever the two units, the owner and restarts on any image
\* do between their steps, convergence takes back only what it gave, and a
\* record equal to the list, with no run begun since, means converged.
THEOREM RunsStayHonest == ConvergeSpec => RunsAreHonest
<1>1. ConvergeInv => RecordMeansConverged
  BY DEF ConvergeInv, RecordIsThere, RecordMeansConverged, drift_counted, diff, candidates,
         convergence_removes
<1>2. ConvergeInv /\ [ConvergeNext]_convergeVars
        => [\A a \in installed \ installed' : a \in ever \/ a \in taken']_convergeVars
  <2> SUFFICES ASSUME ConvergeInv, [ConvergeNext]_convergeVars
               PROVE  [\A a \in installed \ installed' : a \in ever \/ a \in taken']_convergeVars
    OBVIOUS
  <2>1. CASE ConvergeNext
    BY <2>1, OwnersAppsStep
  <2>2. CASE UNCHANGED convergeVars
    BY <2>2
  <2> QED BY <2>1, <2>2
<1> QED BY <1>1, <1>2, ConvergeHolds, PTL DEF ConvergeSpec, RunsAreHonest, OwnersAppsStay

-----------------------------------------------------------------------------
(* The state bare kuma names.                                              *)

\* A note that did not go astray is of what comes up next.
NoteTells ==
    note # None /\ ~astray => note = IF waiting = None THEN booted ELSE waiting
\* Only a kuma machine has a deployment behind it to return to.
PreviousRan == previous # None => machine = "kuma"
StatusInv == StatusTypeOK /\ PreviousRan /\ NoteTells

LEMMA NoImage == None \notin Image
BY StatusAssumption DEF None, Image

\* Ranges, with what a step of the status takes from its parts.
LEMMA StatusRanges ==
    ASSUME StatusTypeOK
    PROVE  /\ text \in Texts \cup {Missing, Invalid} /\ baking \in Texts \cup {Idle}
           /\ store \subseteq Image /\ older \subseteq store /\ built \in store \cup {None}
           /\ booted \in Image \cup {None} /\ previous \in Image \cup {None}
           /\ waiting \in Image \cup {None} /\ note \in Image \cup {None}
           /\ machine \in {"workspace", "foreign", "kuma"} /\ (machine = "kuma" <=> booted # None)
           /\ kuma \in Versions /\ converging \in BOOLEAN /\ events \in 0..MaxEvents
BY DEF StatusTypeOK

LEMMA StatusRangesAgain ==
    ASSUME /\ text' \in Texts \cup {Missing, Invalid} /\ baking' \in Texts \cup {Idle}
           /\ store' \subseteq Image /\ older' \subseteq store' /\ built' \in store' \cup {None}
           /\ booted' \in Image \cup {None} /\ previous' \in Image \cup {None}
           /\ waiting' \in Image \cup {None} /\ note' \in Image \cup {None}
           /\ machine' \in {"workspace", "foreign", "kuma"} /\ (machine' = "kuma" <=> booted' # None)
           /\ kuma' \in Versions /\ converging' \in BOOLEAN /\ events' \in 0..MaxEvents
    PROVE  StatusTypeOK'
BY DEF StatusTypeOK

LEMMA Slipping ==
    ASSUME events \in 0..MaxEvents, NEW s, Slip(s)
    PROVE  events' \in 0..MaxEvents
BY StatusAssumption DEF Slip

LEMMA StatusTypeStep ==
    ASSUME StatusTypeOK, PreviousRan, StatusNext
    PROVE  StatusTypeOK'
<1> USE DEF declaration, podman, deployments, apps
<1> USE StatusRanges
<1>1. CASE init
  <2>1. text' \in Texts
    BY <1>1, NoImage DEF init, Image
  <2> QED BY <2>1, <1>1, StatusRangesAgain DEF init
<1>2. CASE fix
  BY <1>2, StatusRangesAgain DEF fix
<1>3. CASE build
  BY <1>3, StatusRangesAgain DEF build
<1>4. CASE build_ends
  <2>1. built' \in Image /\ store' = store \cup {built'} /\ baking' = Idle
    BY <1>4 DEF build_ends, Image
  <2> QED BY <2>1, <1>4, StatusRangesAgain DEF build_ends
<1>5. CASE switch
  BY <1>5, StatusRangesAgain DEF switch
<1>6. CASE reboot
  BY <1>6, StatusRangesAgain DEF reboot
<1>7. CASE sync
  BY <1>7, StatusRangesAgain DEF sync
<1>8. CASE converged
  BY <1>8, StatusRangesAgain DEF converged
<1>9. CASE Edit
  BY <1>9, StatusRangesAgain, Slipping DEF Edit
<1>10. CASE Remove
  BY <1>10, StatusRangesAgain, Slipping DEF Remove
<1>11. CASE Touch
  BY <1>11, StatusRangesAgain, Slipping DEF Touch
<1>12. CASE OtherKuma
  BY <1>12, StatusRangesAgain, Slipping DEF OtherKuma
<1>13. CASE LoseStaged
  BY <1>13, StatusRangesAgain, Slipping DEF LoseStaged
<1>14. CASE rollback_cmd
  <2>1. booted' # None /\ machine' = "kuma"
    BY <1>14 DEF rollback_cmd, PreviousRan
  <2> QED BY <2>1, <1>14, StatusRangesAgain, Slipping DEF rollback_cmd
<1>15. CASE Drift
  BY <1>15, StatusRangesAgain, Slipping DEF Drift
<1>16. CASE StampFails
  BY <1>16, StatusRangesAgain, Slipping DEF StampFails
<1> QED BY <1>1, <1>2, <1>3, <1>4, <1>5, <1>6, <1>7, <1>8, <1>9, <1>10, <1>11, <1>12, <1>13, <1>14,
           <1>15, <1>16 DEF StatusNext, Advised, Follow, Unasked

LEMMA NoteStep ==
    ASSUME StatusInv, StatusNext
    PROVE  PreviousRan' /\ NoteTells'
<1> USE DEF declaration, podman, deployments, apps, StatusInv, PreviousRan, NoteTells
<1> USE StatusRanges
<1>1. CASE UNCHANGED deployments
  BY <1>1
<1>2. CASE switch
  BY <1>2 DEF switch
<1>3. CASE reboot
  BY <1>3 DEF reboot
<1>4. CASE LoseStaged
  BY <1>4 DEF LoseStaged
<1>5. CASE rollback_cmd
  BY <1>5 DEF rollback_cmd
<1>6. CASE StampFails
  BY <1>6 DEF StampFails
<1>7. CASE init \/ fix \/ build \/ build_ends \/ sync \/ converged
  BY <1>1, <1>7 DEF init, fix, build, build_ends, sync, converged
<1>8. CASE Edit \/ Remove \/ Touch \/ OtherKuma \/ Drift
  BY <1>1, <1>8 DEF Edit, Remove, Touch, OtherKuma, Drift
<1> QED BY <1>2, <1>3, <1>4, <1>5, <1>6, <1>7, <1>8 DEF StatusNext, Advised, Follow, Unasked

\* The status's inductive invariant.
THEOREM StatusHolds == StatusSpec => []StatusInv
<1>1. StatusInit => StatusInv
  <2> SUFFICES ASSUME StatusInit PROVE StatusInv
    OBVIOUS
  <2>1. machine = "kuma" <=> booted # None
    BY NoImage DEF StatusInit
  <2>2. /\ booted \in Image \cup {None} /\ previous = None /\ waiting = None /\ note = None
        /\ machine \in {"workspace", "foreign", "kuma"}
    BY DEF StatusInit
  <2>3. events \in 0..MaxEvents
    BY StatusAssumption DEF StatusInit
  <2>4. converging \in BOOLEAN
    BY Zenon DEF StatusInit
  <2> QED BY <2>1, <2>2, <2>3, <2>4 DEF StatusInit, StatusInv, StatusTypeOK, PreviousRan, NoteTells
<1>2. StatusInv /\ [StatusNext]_statusVars => StatusInv'
  <2> SUFFICES ASSUME StatusInv, [StatusNext]_statusVars PROVE StatusInv'
    OBVIOUS
  <2>1. CASE StatusNext
    BY <2>1, StatusTypeStep, NoteStep DEF StatusInv
  <2>2. CASE UNCHANGED statusVars
    <3>1. StatusTypeOK'
      BY <2>2, StatusRanges, StatusRangesAgain DEF statusVars, StatusInv
    <3> QED BY <2>2, <3>1 DEF statusVars, StatusInv, PreviousRan, NoteTells
  <2> QED BY <2>1, <2>2
<1> QED BY <1>1, <1>2, PTL DEF StatusSpec

\* A set of numbers has a least one.
LEMMA Least ==
    ASSUME NEW S \in SUBSET Nat, S # {}
    PROVE  \E m \in S : \A n \in S : m <= n
<1> DEFINE R == {p \in Nat \X Nat : p[1] < p[2]}
<1>1. R = OpToRel(<, Nat)
  BY DEF OpToRel
<1>2. IsWellFoundedOn(R, Nat)
  BY <1>1, NatLessThanWellFounded
<1> HIDE DEF R
<1>3. PICK m \in S : \A n \in S : <<n, m>> \notin R
  BY <1>2, WFMin
<1>4. \A n \in S : ~(n < m)
  BY <1>3 DEF R
<1> QED BY <1>3, <1>4

\* Every condition has its place, and only the last places say "in-sync".
Conditions == Claims \cup Quiet \cup seeding
LEMMA Places ==
    /\ \A c \in Conditions : c.at \in Nat /\ (c.state = "in-sync" => c.at >= 10)
    /\ \A c \in Claims : c.at <= 9 /\ c.edges # {}
    /\ \A c \in Quiet : c.state = "built" => c.at <= 9
<1>1. \A c \in Claims : c.at \in Nat /\ c.at <= 9 /\ c.state # "in-sync" /\ c.edges # {}
  BY DEF Claims
<1>2. \A c \in Quiet : c.at \in Nat /\ (c.state = "in-sync" => c.at >= 10)
                       /\ (c.state = "built" => c.at <= 9)
  BY DEF Quiet
<1>3. \A c \in seeding : c.at \in Nat /\ c.at >= 10
  BY DEF seeding
<1> QED BY <1>1, <1>2, <1>3 DEF Conditions

\* The state named is that of a condition that holds and comes first.
LEMMA FirstIsNamed ==
    ASSUME NEW d \in holding, d.at <= 9
    PROVE  state # "in-sync"
<1> DEFINE First(c) == c \in holding /\ \A e \in holding : c.at <= e.at
           Ats == {c.at : c \in holding}
<1>1. holding \subseteq Conditions
  BY DEF holding, quiet, Conditions
<1>2. Ats \in SUBSET Nat /\ Ats # {}
  BY <1>1, Places
<1>3. \E m \in Ats : \A n \in Ats : m <= n
  BY <1>2, Least
<1>4. \E c \in holding : \A e \in holding : c.at <= e.at
  BY <1>3
<1> DEFINE c == CHOOSE x \in holding : \A e \in holding : x.at <= e.at
<1>5. c \in holding /\ \A e \in holding : c.at <= e.at
  BY <1>4
<1>6. state = c.state
  BY DEF state
<1> HIDE DEF c
<1>7. c.at <= 9 /\ c.at \in Nat
  BY <1>1, <1>5, Places
<1> QED BY <1>1, <1>5, <1>6, <1>7, Places

\* In sync with something built, the machine is kuma's, nothing is staged and
\* its note, if any, is of the build.
LEMMA InSyncMeans ==
    ASSUME StatusTypeOK, state = "in-sync", built # None
    PROVE  machine = "kuma" /\ waiting = None /\ note \in {None, built}
<1>1. \A c \in Claims : c.at <= 9 /\ ~c.holds
  BY Places, FirstIsNamed DEF holding
<1>2. waiting = None
  BY <1>1 DEF Claims
<1>3. ~(built # None /\ deployed_id \notin {None, built})
  BY <1>1 DEF Claims
<1>4. pending = {}
  BY <1>1 DEF pending
<1>5. machine = "kuma"
  <2>1. \A c \in Quiet : c.holds => c.state # "built"
    BY <1>4, Places, FirstIsNamed DEF holding, quiet
  <2>2. ~(built # None /\ machine = "foreign") /\ ~(built # None /\ machine = "workspace")
    BY <2>1 DEF Quiet
  <2> QED BY <2>2 DEF StatusTypeOK
<1> QED BY <1>2, <1>3, <1>5 DEF deployed_id

\* InSyncRunsTheBuild: whichever edges a person follows and whatever slips
\* between, a machine that reads in sync and has a note runs what was built,
\* unless one of the three named things took the note and the staged
\* deployment apart.
THEOREM InSyncIsTrue == StatusSpec => []InSyncRunsTheBuild
<1>1. StatusInv => InSyncRunsTheBuild
  BY InSyncMeans DEF StatusInv, NoteTells, InSyncRunsTheBuild
<1> QED BY <1>1, StatusHolds, PTL

-----------------------------------------------------------------------------
(* The machine of the runs.                                                *)

\* What TLC runs is a behaviour of each component: every step is one
\* component's, and the others stutter.
THEOREM MachineIsEach == MachineFairSpec => DeploymentSpec /\ ConvergeSpec /\ StatusSpec
<1>1. MachineInit => DeploymentInit /\ ConvergeInit /\ StatusInit
  BY DEF MachineInit, DeploymentStill, ConvergeStill, StatusStill
<1>2. [MachineNext]_machineVars
        => [DeploymentNext]_deploymentVars /\ [ConvergeNext]_convergeVars /\ [StatusNext]_statusVars
  BY DEF MachineNext, machineVars
<1> QED BY <1>1, <1>2, PTL DEF MachineFairSpec, DeploymentSpec, ConvergeSpec, StatusSpec

\* MachineTypeOK, and with it what the three invariants say, of the machine of
\* the runs with any constants.
THEOREM MachineTypeHolds == MachineFairSpec => []MachineTypeOK
<1>1. DeploymentInv /\ ConvergeInv /\ StatusInv => MachineTypeOK
  BY DEF DeploymentInv, DeploymentRanges, ConvergeInv, StatusInv, MachineTypeOK
<1> QED BY <1>1, MachineIsEach, DeploymentHolds, ConvergeHolds, StatusHolds, PTL
=============================================================================
