\* Files, directories and connections share three descriptors.
SPECIFICATION Spec
CONSTANTS
    Workers = {w1, w2}
    Handles = {h1, h2}
    MaxFds = 3
    MaxLen = 0
    Ops = {"open", "opendir", "flush", "release", "releasedir", "readdir"}
    ReportMode = "OVER"
    PluginErrnos = {}
    MaxUsers = 2
    MaxCalls = 5
SYMMETRY Symmetry
INVARIANTS HandleOwnsDescriptor NoDescriptorLeak
