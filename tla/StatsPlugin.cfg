\* Two workers record reads and other operations, of a size at, between and above two
\* bounds, while the histogram of reads is printed again and again, all in program order.
SPECIFICATION Spec
CONSTANTS
    Workers = {w1, w2}
    Pollers = {p1}
    Ops = {"read", "read_buf", "mkdir"}
    EnabledOps = {"read_buf"}
    Dirs = {"read"}
    Bounds <- TwoBounds
    Units = {2, 3, 5}
    Durations = {7}
    MaxCalls = 3
    ProgramOrder = TRUE
SYMMETRY Symmetry
CONSTRAINT WithinBounds
INVARIANTS CountExact QuiescentCounts QuiescentSums ScrapeEnvelope ScrapeMonotone SkewBounded
PROPERTY AtomicCounters
