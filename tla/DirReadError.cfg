\* The underlying directory cannot be read to its end.
SPECIFICATION Spec
CONSTANTS
    N = 2
    ReadErrors = TRUE
INVARIANTS CompleteAtEnd
