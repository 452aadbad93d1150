\* Four places, every directory content and every change of it.
SPECIFICATION FairSpec
CONSTANTS
    N = 4
    ReadErrors = FALSE
INVARIANTS NoDuplicates NoneSkipped
PROPERTIES StreamSpec ListingEnds
