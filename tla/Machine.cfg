\* Three images, one of which does not boot; two applications and one reboot;
\* three texts, two kumas and two slips.
CONSTANTS
    Images = {1, 2, 3}
    Healthy = {1, 3}
    MaxTries = 1
    Apps = {"a", "b"}
    Lists <- AppLists
    Brew = TRUE
    MaxBoots = 1
    Texts = {"a", "b", "c"}
    Versions = {1, 2}
    MaxEvents = 2
    Slips = {"edit", "race", "cut", "rollback", "drift", "stamp", "kuma", "remove"}
SPECIFICATION MachineFairSpec
INVARIANTS MachineTypeOK  StampTrue 
PROPERTIES BootsAreCounted RunsAreHonest Converges 
\* A machine whose boots and slips are spent may come to rest.
CHECK_DEADLOCK FALSE
