\* One application reads a file, also at its end.
SPECIFICATION Spec
CONSTANTS
    Workers = {w1}
    Handles = {h1}
    MaxFds = 1
    MaxLen = 1
    Ops = {"open", "read"}
    ReportMode = "NONE"
    PluginErrnos = {}
    MaxUsers = 1
    MaxCalls = 2
INVARIANTS EveryCallCounted
