\* One declared relay, one relay only apps name, two apps.
CONSTANTS
    u1 = u1  u2 = u2
    Url = {u1, u2}
    App = {a1, a2}
    Own = Own
    Declared = {u1}
    BeatsPerPing = 1
    MaxUnanswered = 1
    MaxRoads = 3
    MaxEvents = 2
    MaxBreaks = 1
SPECIFICATION PoolFairSpec
INVARIANTS PoolTypeOK RoadsKept
PROPERTIES Delivers 
\* The bounds leave a behaviour that may end.
CHECK_DEADLOCK FALSE
