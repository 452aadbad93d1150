----------------------------- MODULE DirStream -----------------------------
(***************************************************************************)
(* What an application may rely on when it lists a directory of the mount: *)
(* one open directory stream whose entries come one by one, while other    *)
(* processes create and remove entries.                                    *)
(*                                                                         *)
(* An entry is named by its place in the directory, a cookie in 1..N; the  *)
(* place of the stream is the cookie of the entry last delivered, 0 at the *)
(* beginning.                                                              *)
(***************************************************************************)
EXTENDS Naturals

CONSTANTS
    N,          \* the number of places in the directory
    ReadErrors  \* whether the directory may fail to be read

Cookies == 1..N

VARIABLES
    status,   \* "closed", "reading", or "ended" once the end was reported
    present,  \* the entries that exist
    stable,   \* those that have existed ever since opendir or rewinddir
    ever,     \* those that have existed at some time since
    kpos,     \* the place of the stream
    listed    \* the entries delivered up to that place

streamVars == <<status, present, stable, ever, kpos, listed>>

Init ==
    /\ status = "closed"
    /\ present \in SUBSET Cookies
    /\ stable = present
    /\ ever = present
    /\ kpos = 0
    /\ listed = {}

\* The stream starts again from the beginning and sees the directory anew.
FromStart ==
    /\ stable' = present
    /\ ever' = present
    /\ kpos' = 0
    /\ listed' = {}
    /\ status' = "reading"
    /\ UNCHANGED present

Open == status = "closed" /\ FromStart

Close ==
    /\ status # "closed"
    /\ status' = "closed"
    /\ UNCHANGED <<present, stable, ever, kpos, listed>>

Rewind == status # "closed" /\ FromStart

\* The application returns to the place of an entry it was given.
SeekTo(k) ==
    /\ status # "closed"
    /\ k \in listed
    /\ kpos' = k
    /\ listed' = {j \in listed : j <= k}
    /\ status' = "reading"
    /\ UNCHANGED <<present, stable, ever>>

\* The next entry lies ahead, exists or has existed, and skips no entry that
\* has existed all along.
Deliver(k) ==
    /\ status # "closed"
    /\ k \in ever
    /\ k > kpos
    /\ \A j \in stable : j > kpos => k <= j
    /\ kpos' = k
    /\ listed' = listed \cup {k}
    /\ UNCHANGED <<status, present, stable, ever>>

\* The end is reported only when nothing that has existed all along is left, or
\* nothing more can be read.
End ==
    /\ status # "closed"
    /\ ReadErrors \/ \A j \in stable : j <= kpos
    /\ status' = "ended"
    /\ UNCHANGED <<present, stable, ever, kpos, listed>>

Create(k) ==
    /\ k \notin present
    /\ present' = present \cup {k}
    /\ ever' = ever \cup {k}
    /\ UNCHANGED <<status, stable, kpos, listed>>

Unlink(k) ==
    /\ k \in present
    /\ present' = present \ {k}
    /\ stable' = stable \ {k}
    /\ UNCHANGED <<status, ever, kpos, listed>>

Next ==
    \/ Open \/ Close \/ Rewind \/ End
    \/ \E k \in Cookies : SeekTo(k) \/ Deliver(k) \/ Create(k) \/ Unlink(k)

Spec == Init /\ [][Next]_streamVars
=============================================================================
