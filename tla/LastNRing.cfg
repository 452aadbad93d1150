\* Two workers around a ring of two slots, up to two laps and a half.
SPECIFICATION Spec
CONSTANTS
    N = 2
    Workers = {w1, w2}
    Pollers = {p1}
    Ops = {"read", "write_buf"}
    ZeroCopy = FALSE
    Members = {"size_bytes", "duration_ns"}
    MaxCalls = 5
INVARIANTS UnlappedExact LineHome QuietPageExact
