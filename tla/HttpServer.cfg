\* One connection more than threads, so that one may wait in the queue for a thread,
\* and up to three descriptors, so that one may wait in the backlog; at most two
\* requests per connection.  Once accept4() has failed the server stops, so deadlock
\* is not an error.
SPECIFICATION FairSpec
CONSTANTS
    MaxConns = 3
    Threads = {t1, t2}
    Kinds = {"page", "last", "part", "body"}
    KeepAliveMax = 2
    MaxFds = 3
    Backlog = 1
    MaxRequests = 2
INVARIANTS OneOwner NoJobForgotten DrainedWhenDown EndAnnounced
PROPERTIES ConnectionsEnd PoolEnds
CHECK_DEADLOCK FALSE
