\* One image with one application, and no reboot.
CONSTANTS
    Apps = {"a"}
    Lists = {{"a"}}
    Brew = FALSE
    MaxBoots = 0
SPECIFICATION ConvergeFairSpec
PROPERTIES DiffIsHeeded
