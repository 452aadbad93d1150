----------------------------- MODULE DirHandle -----------------------------
(***************************************************************************)
(* opendir, readdir and releasedir of src/iofs.cc: the DirHandle that is   *)
(* kept between FUSE requests, over a DIR stream of the C library and a    *)
(* directory that other processes change, and under a kernel that asks for *)
(* a buffer of entries at a time and need not use all of a reply.          *)
(*                                                                         *)
(* The kernel holds the lock of the open file during a request, so the     *)
(* requests of one handle never overlap.                                   *)
(***************************************************************************)
EXTENDS Integers

CONSTANTS
    N,          \* the number of places in the directory
    ReadErrors  \* whether ::readdir may fail before the end of the directory

ASSUME DirHandleAssumption == N \in Nat /\ ReadErrors \in BOOLEAN

Cookies == 1..N
NULL == 0

VARIABLES
    status, present, stable, ever, kpos, listed,  \* as in DirStream
    phase,    \* "idle", or "loop" inside readdir()
    room,     \* how many more entries fit in the buffer of the request
    reply,    \* the entries of the last reply that the kernel has not used
    offset,   \* DirHandle::offset
    entry,    \* DirHandle::entry
    dpos,     \* the place of the DIR stream
    dbuf      \* the entries it has fetched and not yet returned

dirVars == <<present, stable, ever>>
appVars == <<kpos, listed>>
handleVars == <<offset, entry, dpos, dbuf>>
vars == <<status, dirVars, appVars, phase, room, reply, handleVars>>

Least(k, S) == k \in S /\ \A j \in S : k <= j
-----------------------------------------------------------------------------
Init ==
    /\ status = "closed"
    /\ present \in SUBSET Cookies
    /\ stable = present
    /\ ever = present
    /\ kpos = 0
    /\ listed = {}
    /\ phase = "idle"
    /\ room = 0
    /\ reply = {}
    /\ offset = 0
    /\ entry = NULL
    /\ dpos = 0
    /\ dbuf = {}

FromStart ==
    /\ stable' = present
    /\ ever' = present
    /\ kpos' = 0
    /\ listed' = {}
    /\ status' = "reading"
    /\ reply' = {}
    /\ UNCHANGED present

Opendir ==
    /\ status = "closed"
    /\ FromStart
    /\ offset' = 0
    /\ entry' = NULL
    /\ dpos' = 0
    /\ dbuf' = {}
    /\ UNCHANGED <<phase, room>>

Releasedir ==
    /\ status # "closed"
    /\ phase = "idle"
    /\ status' = "closed"
    /\ UNCHANGED <<dirVars, appVars, phase, room, reply, handleVars>>

\* The application rewinds or seeks.  Only the kernel sees it: the handle learns
\* of it from the offset of the next request.
Rewind ==
    /\ status # "closed"
    /\ phase = "idle"
    /\ FromStart
    /\ UNCHANGED <<phase, room, handleVars>>

SeekTo(k) ==
    /\ status # "closed"
    /\ phase = "idle"
    /\ k \in listed
    /\ kpos' = k
    /\ listed' = {j \in listed : j <= k}
    /\ status' = "reading"
    /\ reply' = {}
    /\ UNCHANGED <<dirVars, phase, room, handleVars>>

\* Mutants of EnterReaddir: the kept entry survives the seek; the offset of the
\* request is ignored; the stream is rewound instead of positioned.
EnterKeepsEntry(size) ==
    /\ status # "closed"
    /\ phase = "idle"
    /\ phase' = "loop"
    /\ room' = size
    /\ reply' = {}
    /\ IF kpos # offset
       THEN dpos' = kpos /\ dbuf' = {} /\ offset' = kpos /\ UNCHANGED entry
       ELSE UNCHANGED handleVars
    /\ UNCHANGED <<status, dirVars, appVars>>
EnterWithoutSeek(size) ==
    /\ status # "closed"
    /\ phase = "idle"
    /\ phase' = "loop"
    /\ room' = size
    /\ reply' = {}
    /\ UNCHANGED <<status, dirVars, appVars, handleVars>>
EnterRewinds(size) ==
    /\ status # "closed"
    /\ phase = "idle"
    /\ phase' = "loop"
    /\ room' = size
    /\ reply' = {}
    /\ IF kpos # offset
       THEN dpos' = 0 /\ dbuf' = {} /\ entry' = NULL /\ offset' = kpos
       ELSE UNCHANGED handleVars
    /\ UNCHANGED <<status, dirVars, appVars>>

\* The kernel asks for the entries after kpos, in a buffer for size of them.
\* What was left of the last reply is dropped.
EnterReaddir(size) ==
    /\ status # "closed"
    /\ phase = "idle"
    /\ phase' = "loop"
    /\ room' = size
    /\ reply' = {}
    /\ IF kpos # offset
       THEN /\ dpos' = kpos
            /\ dbuf' = {}
            /\ entry' = NULL
            /\ offset' = kpos
       ELSE UNCHANGED handleVars
    /\ UNCHANGED <<status, dirVars, appVars>>

\* What ::readdir may take its next entry from: what it has fetched, or some
\* first part of what the directory holds after its place.
Fetched ==
    LET ahead == {k \in present : k > dpos}
    IN IF dbuf # {} THEN {dbuf} ELSE {{k \in ahead : k <= u} : u \in ahead}

ReadEntry ==
    /\ phase = "loop"
    /\ entry = NULL
    /\ \E fetched \in Fetched : \E k \in fetched :
         /\ Least(k, fetched)
         /\ entry' = k
         /\ dpos' = k
         /\ dbuf' = fetched \ {k}
    /\ UNCHANGED <<status, dirVars, appVars, phase, room, reply, offset>>

\* The request is answered; an answer without entries reports the end.
Answer ==
    /\ phase' = "idle"
    /\ status' = IF reply = {} THEN "ended" ELSE status
    /\ UNCHANGED <<dirVars, appVars, room, reply, handleVars>>

\* ::readdir returns a null pointer, at the end or on an error.
ReadNothing ==
    /\ phase = "loop"
    /\ entry = NULL
    /\ Fetched # {} => ReadErrors
    /\ Answer

\* The filler takes the entry, with the offset of the next one.
Fill ==
    /\ phase = "loop"
    /\ entry # NULL
    /\ room > 0
    /\ reply' = reply \cup {entry}
    /\ room' = room - 1
    /\ entry' = NULL
    /\ offset' = dpos
    /\ UNCHANGED <<status, dirVars, appVars, phase, dpos, dbuf>>

\* Mutant of BufferFull: the refused entry is forgotten.
BufferFullForgets ==
    /\ phase = "loop"
    /\ entry # NULL
    /\ room = 0
    /\ phase' = "idle"
    /\ entry' = NULL
    /\ UNCHANGED <<status, dirVars, appVars, room, reply, offset, dpos, dbuf>>

\* The filler refuses the entry, which is kept for the next request.
BufferFull ==
    /\ phase = "loop"
    /\ entry # NULL
    /\ room = 0
    /\ Answer

\* The kernel gives the next entry of the reply to the application.
Use(k) ==
    /\ phase = "idle"
    /\ status # "closed"
    /\ Least(k, reply)
    /\ reply' = reply \ {k}
    /\ kpos' = k
    /\ listed' = listed \cup {k}
    /\ UNCHANGED <<status, dirVars, phase, room, handleVars>>

\* Other processes, at any time.
Create(k) ==
    /\ k \notin present
    /\ present' = present \cup {k}
    /\ ever' = ever \cup {k}
    /\ UNCHANGED <<status, stable, appVars, phase, room, reply, handleVars>>

Unlink(k) ==
    /\ k \in present
    /\ present' = present \ {k}
    /\ stable' = stable \ {k}
    /\ UNCHANGED <<status, ever, appVars, phase, room, reply, handleVars>>

Next ==
    \/ Opendir \/ Releasedir \/ Rewind
    \/ ReadEntry \/ ReadNothing \/ Fill \/ BufferFull
    \/ \E size \in Cookies : EnterReaddir(size)
    \/ \E k \in Cookies : SeekTo(k) \/ Use(k) \/ Create(k) \/ Unlink(k)

Spec == Init /\ [][Next]_vars
-----------------------------------------------------------------------------
TypeOK ==
    /\ status \in {"closed", "reading", "ended"}
    /\ present \subseteq Cookies
    /\ stable \subseteq present
    /\ ever \subseteq Cookies
    /\ kpos \in 0..N
    /\ listed \subseteq Cookies
    /\ phase \in {"idle", "loop"}
    /\ room \in 0..N
    /\ reply \subseteq Cookies
    /\ offset \in 0..N
    /\ entry \in 0..N
    /\ dpos \in 0..N
    /\ dbuf \subseteq Cookies

Stream == INSTANCE DirStream

\* The handle keeps the promise of a directory stream.
StreamSpec == Stream!Spec

\* No entry is handed out twice in a pass: one that is about to be handed out
\* comes after all that were, so that a reply is in order and the set reply
\* stands for it.
NoDuplicates ==
    /\ reply \cap listed = {}
    /\ phase = "loop" /\ entry # NULL => \A j \in reply \cup listed : j < entry

\* An entry that has existed since opendir or rewinddir is never passed over.
NoneSkipped == \A j \in stable : j <= kpos => j \in listed

\* When the end is reported all of those have been listed.
CompleteAtEnd == status = "ended" => stable \subseteq listed
-----------------------------------------------------------------------------
\* The server runs, and the client keeps reading: it sends requests and does
\* not for ever drop replies unused (as it may, when a signal interrupts it).
FairSpec ==
    /\ Spec
    /\ WF_vars(ReadEntry \/ ReadNothing \/ Fill \/ BufferFull)
    /\ WF_vars(\E size \in Cookies : EnterReaddir(size))
    /\ SF_vars(\E k \in Cookies : Use(k))

\* A client that stops seeking comes to the end of the directory, however small
\* its buffers are and whatever other processes do meanwhile.
ListingEnds ==
    <>[][~(Rewind \/ \E k \in Cookies : SeekTo(k))]_vars
        => (status = "reading" ~> status # "reading")
=============================================================================
