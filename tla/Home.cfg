\* One of each where one is enough: a tag and a composed base with two versions;
\* three days of two snapshots; one account of the image's and two groups, one of
\* them missing on the machine; a disk that holds a system and swap or not both;
\* two offsets for the swapfile; three desktops and every line of the image; an
\* application with two keys; five declarations, a limit of two days of four.
CONSTANTS
    Refs = {"tag", "m"}
    Composed = {"m"}
    Versions = {1, 2}
    Files = {"a"}
    KeepRecent = 1
    KeepDaily = 1
    PerDay = 2
    MaxTime = 3
    MaxCopies = 2
    Restores = {TRUE, FALSE}
    Names = {"u"}
    Groups = {"g", "h"}
    Missing = {"h"}
    Hosts = {"x", "y"}
    MaxBoots = 2
    MaxDeeds = 1
    Offsets = {1, 2}
    MaxVerbs = 5
    DiskSizes = {20480}
    Asks = {200, 4096}
    Swaps = {2048}
    MaxRuns = 2
    Desktops = {"none", "niri", "cosmic"}
    Lines <- AllLines
    Slips = {"none", "private_key"}
    Enabled <- EnabledSets
    Disabled <- DisabledSets
    AppIds = {"a"}
    Keys = {"k", "l"}
    Values = {1}
    Inline = {"a"}
    Hasty = FALSE
    MaxChanges = 5
    Declarations = {{"user", "apps"}, {"backup", "links"}, {"snapshots"}, {"etc"}, {"nostr", "builds"}}
    Etc = {"policy", "key", "registries"}
    Stale = 2
    Period = 1
    MaxDay = 4
    MaxImage = 2
    MaxMishaps = 2
SPECIFICATION HomeSpec
CONSTRAINT Few
INVARIANTS HomeTypeOK  InstallKeepsItsWord  CleanBillIsTrue AdviceWorks
PROPERTIES  CopiesAreKept   QuietEtcTakesUpdates
\* Clocks, boots and attempts are bounded, so a behaviour ends.
CHECK_DEADLOCK FALSE
