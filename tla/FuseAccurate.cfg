\* Zero-copy transfers that report the size found by fstat.
SPECIFICATION Spec
CONSTANTS
    Workers = {w1}
    Handles = {h1}
    MaxFds = 1
    MaxLen = 1
    Ops = {"open", "read_buf"}
    ReportMode = "ACCURATE"
    PluginErrnos = {}
    MaxUsers = 1
    MaxCalls = 2
INVARIANTS UpperBound
