\* Three plugins, the first and the last of the same library.
SPECIFICATION Spec
CONSTANTS
    stats = stats
    lastn = lastn
    Libs = {stats, lastn}
    Paths <- ThreePaths
    Workers = {w1, w2}
    Pollers = {p1, p2}
    MaxCalls = 2
INVARIANTS CallInUse BoundToOwn FanOut
           DestroyedOnce ContextNeedsLibrary AllReleased
CHECK_DEADLOCK FALSE
