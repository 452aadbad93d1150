\* What reaches the plugins, one of which leaves its own errno behind, when
\* zero-copy transfers report the requested size.
SPECIFICATION Spec
CONSTANTS
    Workers = {w1, w2}
    Handles = {h1}
    MaxFds = 1
    MaxLen = 2
    Ops = {"create", "truncate", "read", "write", "read_buf", "write_buf", "fallocate"}
    ReportMode = "OVER"
    PluginErrnos = {"EINTR"}
    MaxUsers = 1
    MaxCalls = 4
SYMMETRY Symmetry
INVARIANTS TypeOK RecordedOnce BytesExact ErrnoFaithful UpperBound
