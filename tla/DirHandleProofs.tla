-------------------------- MODULE DirHandleProofs --------------------------
(***************************************************************************)
(* DirHandle implements DirStream for a directory of any size; that the end *)
(* it reports is the end needs a directory that can be read.                *)
(*                                                                         *)
(* The handle is ahead of the kernel by the reply in use, and the DIR      *)
(* stream ahead of the handle by the kept entry and by what it has fetched. *)
(* Each stage holds every stable entry between its two ends.  After a seek *)
(* this no longer holds, and the state is then not used: the next request  *)
(* finds another offset and positions the stream.                          *)
(***************************************************************************)
EXTENDS DirHandle, TLAPS

\* The kernel will go on where the handle stands.
Synced == phase = "loop" \/ reply # {} \/ kpos = offset

\* The kernel is never ahead of the handle, and lists only what there has been.
Places ==
    /\ present \subseteq ever
    /\ phase = "loop" => status # "closed"
    /\ kpos <= offset
    /\ \A k \in listed : k <= kpos /\ k \in ever

\* The reply holds the stable entries between the kernel and the handle.
ReplyInv ==
    /\ \A k \in reply : kpos < k /\ k <= offset /\ k \in ever
    /\ reply # {} => offset \in reply
    /\ phase = "loop" /\ reply = {} => kpos = offset /\ room > 0
    /\ Synced => \A j \in stable : kpos < j /\ j <= offset => j \in reply

\* The kept entry is the next stable one after the handle's offset.
EntryInv ==
    Synced =>
        IF entry = NULL THEN dpos = offset
        ELSE /\ entry = dpos /\ entry > offset /\ entry \in ever
             /\ \A j \in stable : j > offset => entry <= j

\* What the DIR stream has fetched holds the stable entries up to its end.
FetchInv ==
    Synced =>
        /\ \A k \in dbuf : k > dpos /\ k \in ever
        /\ dbuf # {} => \A j \in stable : j > dpos => j \in dbuf \/ \A k \in dbuf : k < j

\* A handle at the beginning has read nothing ahead, so that rewinding it need
\* not position the stream.
VirginInv ==
    offset = 0 => /\ entry = NULL => dpos = 0 /\ dbuf = {}
                  /\ phase = "idle" => entry = NULL

\* The inductive invariant of the handle.
HandleInv ==
    TypeOK /\ Places /\ ReplyInv /\ EntryInv /\ FetchInv /\ VirginInv /\ NoneSkipped

\* Nothing is open at the start.
LEMMA HandleInvInit == Init => HandleInv
BY DirHandleAssumption DEF Init, HandleInv, TypeOK, Places, ReplyInv, EntryInv, FetchInv, VirginInv,
       NoneSkipped, Cookies, NULL, Synced

\* A new handle has read nothing, and starts where the kernel does.
LEMMA StepOpendir ==
    ASSUME HandleInv, Opendir
    PROVE  HandleInv'
<1> USE DirHandleAssumption DEF HandleInv, Synced, NULL, Cookies
<1>1. /\ status = "closed" /\ status' = "reading" /\ stable' = present /\ ever' = present
      /\ kpos' = 0 /\ listed' = {} /\ reply' = {} /\ offset' = 0 /\ entry' = NULL
      /\ dpos' = 0 /\ dbuf' = {} /\ UNCHANGED <<present, phase, room>>
  BY DEF Opendir, FromStart
<1>2. TypeOK'
  BY <1>1 DEF TypeOK
<1>3. Places'
  BY <1>1 DEF TypeOK, Places
<1>4. ReplyInv'
  BY <1>1 DEF TypeOK, Places, ReplyInv
<1>5. EntryInv'
  BY <1>1 DEF TypeOK, EntryInv
<1>6. FetchInv'
  BY <1>1 DEF TypeOK, FetchInv
<1>7. VirginInv'
  BY <1>1 DEF TypeOK, VirginInv
<1>8. NoneSkipped'
  BY <1>1 DEF TypeOK, NoneSkipped
<1>9. QED
  BY <1>2, <1>3, <1>4, <1>5, <1>6, <1>7, <1>8

\* A closed handle is not used again.
LEMMA StepReleasedir ==
    ASSUME HandleInv, Releasedir
    PROVE  HandleInv'
<1> USE DirHandleAssumption DEF HandleInv, Synced, NULL, Cookies
<1>1. /\ phase = "idle" /\ status' = "closed"
      /\ UNCHANGED <<present, stable, ever, kpos, listed, phase, room, reply>>
      /\ UNCHANGED <<offset, entry, dpos, dbuf>>
  BY DEF Releasedir, dirVars, appVars, handleVars
<1>2. TypeOK'
  BY <1>1 DEF TypeOK
<1>3. Places'
  BY <1>1 DEF TypeOK, Places
<1>4. ReplyInv'
  BY <1>1 DEF TypeOK, ReplyInv
<1>5. EntryInv'
  BY <1>1 DEF TypeOK, EntryInv
<1>6. FetchInv'
  BY <1>1 DEF TypeOK, FetchInv
<1>7. VirginInv'
  BY <1>1 DEF TypeOK, VirginInv
<1>8. NoneSkipped'
  BY <1>1 DEF TypeOK, NoneSkipped
<1>9. QED
  BY <1>2, <1>3, <1>4, <1>5, <1>6, <1>7, <1>8

\* The kernel starts again; unless the handle stood at 0 it notices at the
\* next request.
LEMMA StepRewind ==
    ASSUME HandleInv, Rewind
    PROVE  HandleInv'
<1> USE DirHandleAssumption DEF HandleInv, Synced, NULL, Cookies
<1>1. /\ phase = "idle" /\ status' = "reading" /\ stable' = present /\ ever' = present
      /\ kpos' = 0 /\ listed' = {} /\ reply' = {}
      /\ UNCHANGED <<present, phase, room, offset, entry, dpos, dbuf>>
  BY DEF Rewind, FromStart, handleVars
<1>2. TypeOK'
  BY <1>1 DEF TypeOK
<1>3. Places'
  BY <1>1 DEF TypeOK, Places
<1>4. ReplyInv'
  BY <1>1 DEF TypeOK, ReplyInv
<1>5. EntryInv'
  BY <1>1 DEF TypeOK, EntryInv, VirginInv
<1>6. FetchInv'
  BY <1>1 DEF TypeOK, FetchInv, VirginInv
<1>7. VirginInv'
  BY <1>1 DEF TypeOK, VirginInv
<1>8. NoneSkipped'
  BY <1>1 DEF TypeOK, NoneSkipped
<1>9. QED
  BY <1>2, <1>3, <1>4, <1>5, <1>6, <1>7, <1>8

\* Likewise for a seek to an entry that was listed.
LEMMA StepSeekTo ==
    ASSUME HandleInv, NEW k \in Cookies, SeekTo(k)
    PROVE  HandleInv'
<1> USE DirHandleAssumption DEF HandleInv, Synced, NULL, Cookies
<1>1. /\ phase = "idle" /\ k \in listed /\ kpos' = k /\ listed' = {j \in listed : j <= k}
      /\ reply' = {} /\ status' = "reading"
      /\ UNCHANGED <<present, stable, ever, phase, room, offset, entry, dpos, dbuf>>
  BY DEF SeekTo, dirVars, handleVars
<1>2. TypeOK'
  <2>1. kpos' \in 0..N
    BY <1>1
  <2>2. listed' \subseteq Cookies /\ reply' \subseteq Cookies
    BY <1>1 DEF TypeOK
  <2>3. QED
    BY <1>1, <2>1, <2>2 DEF TypeOK
<1>3. Places'
  BY <1>1 DEF TypeOK, Places
<1>4. ReplyInv'
  BY <1>1 DEF TypeOK, Places, ReplyInv
<1>5. EntryInv'
  BY <1>1 DEF TypeOK, Places, EntryInv
<1>6. FetchInv'
  BY <1>1 DEF TypeOK, Places, FetchInv
<1>7. VirginInv'
  BY <1>1 DEF TypeOK, VirginInv
<1>8. NoneSkipped'
  BY <1>1 DEF TypeOK, Places, NoneSkipped
<1>9. QED
  BY <1>2, <1>3, <1>4, <1>5, <1>6, <1>7, <1>8

\* A request finds the handle in step with the kernel, or puts it there.
LEMMA StepEnter ==
    ASSUME HandleInv, NEW size \in Cookies, EnterReaddir(size)
    PROVE  HandleInv'
<1> USE DirHandleAssumption DEF HandleInv, Synced, NULL, Cookies
<1>1. /\ status # "closed" /\ phase = "idle" /\ phase' = "loop" /\ room' = size /\ reply' = {}
      /\ UNCHANGED <<status, present, stable, ever, kpos, listed>>
      /\ offset' = kpos
      /\ kpos # offset => dpos' = kpos /\ dbuf' = {} /\ entry' = NULL
      /\ kpos = offset => UNCHANGED <<entry, dpos, dbuf>>
  BY DEF EnterReaddir, dirVars, appVars, handleVars
<1>2. TypeOK'
  <2>1. offset' \in 0..N /\ room' \in 0..N
    BY <1>1 DEF TypeOK
  <2>2. entry' \in 0..N /\ dpos' \in 0..N /\ dbuf' \subseteq Cookies
    <3>1. CASE kpos # offset
      BY <1>1, <3>1 DEF TypeOK
    <3>2. CASE kpos = offset
      BY <1>1, <3>2 DEF TypeOK
    <3>3. QED BY <3>1, <3>2
  <2>3. QED
    BY <1>1, <2>1, <2>2 DEF TypeOK
<1>3. Places'
  BY <1>1 DEF TypeOK, Places
<1>4. ReplyInv'
  BY <1>1 DEF TypeOK, ReplyInv
<1>5. EntryInv'
  BY <1>1 DEF TypeOK, EntryInv
<1>6. FetchInv'
  BY <1>1 DEF TypeOK, FetchInv
<1>7. VirginInv'
  BY <1>1 DEF TypeOK, VirginInv
<1>8. NoneSkipped'
  BY <1>1 DEF TypeOK, NoneSkipped
<1>9. QED
  BY <1>2, <1>3, <1>4, <1>5, <1>6, <1>7, <1>8

\* The entry read is the next stable one, from the fetched ones or the directory.
LEMMA StepReadEntry ==
    ASSUME HandleInv, ReadEntry
    PROVE  HandleInv'
<1> USE DirHandleAssumption DEF HandleInv, Synced, NULL, Cookies
<1>1. /\ phase = "loop" /\ entry = NULL
      /\ UNCHANGED <<status, present, stable, ever, kpos, listed, phase, room, reply, offset>>
      /\ \E fetched \in Fetched : \E k \in fetched :
           Least(k, fetched) /\ entry' = k /\ dpos' = k /\ dbuf' = fetched \ {k}
  BY DEF ReadEntry, dirVars, appVars
<1>2. TypeOK'
  <2>1. PICK fetched \in Fetched : \E k \in fetched :
          Least(k, fetched) /\ entry' = k /\ dpos' = k /\ dbuf' = fetched \ {k}
    BY <1>1
  <2>2. fetched \subseteq Cookies
    BY DEF Fetched, TypeOK
  <2>3. entry' \in Cookies /\ dpos' \in Cookies /\ dbuf' \subseteq Cookies
    BY <2>1, <2>2
  <2>4. QED
    BY <1>1, <2>3 DEF TypeOK
<1>3. Places'
  BY <1>1 DEF TypeOK, Places
<1>4. ReplyInv'
  BY <1>1 DEF TypeOK, ReplyInv
<1>5. EntryInv'
  BY <1>1 DEF TypeOK, Places, EntryInv, FetchInv, Fetched, Least
<1>6. FetchInv'
  BY <1>1 DEF TypeOK, Places, EntryInv, FetchInv, Fetched, Least
<1>7. VirginInv'
  BY <1>1 DEF TypeOK, EntryInv, FetchInv, VirginInv, Fetched, Least
<1>8. NoneSkipped'
  BY <1>1 DEF TypeOK, NoneSkipped
<1>9. QED
  BY <1>2, <1>3, <1>4, <1>5, <1>6, <1>7, <1>8

\* What cannot be read, at the end or before, leaves the handle where it was.
LEMMA StepReadNothing ==
    ASSUME HandleInv, ReadNothing
    PROVE  HandleInv'
<1> USE DirHandleAssumption DEF HandleInv, Synced, NULL, Cookies
<1>1. /\ phase = "loop" /\ phase' = "idle" /\ entry = NULL
      /\ status' = IF reply = {} THEN "ended" ELSE status
      /\ UNCHANGED <<present, stable, ever, kpos, listed, room, reply>>
      /\ UNCHANGED <<offset, entry, dpos, dbuf>>
  BY DEF ReadNothing, Answer, dirVars, appVars, handleVars
<1>2. TypeOK'
  BY <1>1 DEF TypeOK
<1>3. Places'
  BY <1>1 DEF TypeOK, Places
<1>4. ReplyInv'
  BY <1>1 DEF TypeOK, ReplyInv
<1>5. EntryInv'
  BY <1>1 DEF TypeOK, EntryInv
<1>6. FetchInv'
  BY <1>1 DEF TypeOK, FetchInv
<1>7. VirginInv'
  BY <1>1 DEF TypeOK, VirginInv
<1>8. NoneSkipped'
  BY <1>1 DEF TypeOK, NoneSkipped
<1>9. QED
  BY <1>2, <1>3, <1>4, <1>5, <1>6, <1>7, <1>8

\* The entry moves from the handle to the reply, and the offset with it.
LEMMA StepFill ==
    ASSUME HandleInv, Fill
    PROVE  HandleInv'
<1> USE DirHandleAssumption DEF HandleInv, Synced, NULL, Cookies
<1>1. /\ phase = "loop" /\ entry # NULL /\ room > 0 /\ reply' = reply \cup {entry}
      /\ room' = room - 1 /\ entry' = NULL /\ offset' = dpos
      /\ UNCHANGED <<status, present, stable, ever, kpos, listed, phase, dpos, dbuf>>
  BY DEF Fill, dirVars, appVars
<1>2. TypeOK'
  BY <1>1 DEF TypeOK
<1>3. Places'
  BY <1>1 DEF TypeOK, Places, EntryInv
<1>4. ReplyInv'
  BY <1>1 DEF TypeOK, Places, ReplyInv, EntryInv
<1>5. EntryInv'
  BY <1>1 DEF TypeOK, EntryInv
<1>6. FetchInv'
  BY <1>1 DEF TypeOK, FetchInv
<1>7. VirginInv'
  BY <1>1 DEF TypeOK, EntryInv, VirginInv
<1>8. NoneSkipped'
  BY <1>1 DEF TypeOK, NoneSkipped
<1>9. QED
  BY <1>2, <1>3, <1>4, <1>5, <1>6, <1>7, <1>8

\* The refused entry stays for the next request.
LEMMA StepBufferFull ==
    ASSUME HandleInv, BufferFull
    PROVE  HandleInv'
<1> USE DirHandleAssumption DEF HandleInv, Synced, NULL, Cookies
<1>1. /\ phase = "loop" /\ phase' = "idle" /\ entry # NULL /\ room = 0
      /\ status' = IF reply = {} THEN "ended" ELSE status
      /\ UNCHANGED <<present, stable, ever, kpos, listed, room, reply>>
      /\ UNCHANGED <<offset, entry, dpos, dbuf>>
  BY DEF BufferFull, Answer, dirVars, appVars, handleVars
<1>2. TypeOK'
  BY <1>1 DEF TypeOK
<1>3. Places'
  BY <1>1 DEF TypeOK, Places
<1>4. ReplyInv'
  BY <1>1 DEF TypeOK, ReplyInv
<1>5. EntryInv'
  BY <1>1 DEF TypeOK, EntryInv
<1>6. FetchInv'
  BY <1>1 DEF TypeOK, FetchInv
<1>7. VirginInv'
  BY <1>1 DEF TypeOK, Places, ReplyInv, VirginInv
<1>8. NoneSkipped'
  BY <1>1 DEF TypeOK, NoneSkipped
<1>9. QED
  BY <1>2, <1>3, <1>4, <1>5, <1>6, <1>7, <1>8

\* The kernel uses the least entry of the reply, so none is passed over.
LEMMA StepUse ==
    ASSUME HandleInv, NEW k \in Cookies, Use(k)
    PROVE  HandleInv'
<1> USE DirHandleAssumption DEF HandleInv, Synced, NULL, Cookies
<1>1. /\ phase = "idle" /\ k \in reply /\ \A j \in reply : k <= j
      /\ reply' = reply \ {k} /\ kpos' = k /\ listed' = listed \cup {k}
      /\ UNCHANGED <<status, present, stable, ever, phase, room>>
      /\ UNCHANGED <<offset, entry, dpos, dbuf>>
  BY DEF Use, Least, dirVars, handleVars
<1>2. TypeOK'
  BY <1>1 DEF TypeOK
<1>3. Places'
  BY <1>1 DEF TypeOK, Places, ReplyInv
<1>4. ReplyInv'
  <2>1. \A j \in reply' : kpos' < j /\ j <= offset' /\ j \in ever'
    BY <1>1 DEF TypeOK, ReplyInv
  <2>2. ASSUME reply' # {} PROVE offset' \in reply'
    <3>1. PICK j \in reply : j # k
      BY <1>1, <2>2
    <3>2. k < j /\ j <= offset
      BY <1>1, <3>1 DEF TypeOK, ReplyInv
    <3>3. QED
      BY <1>1, <3>2 DEF TypeOK, ReplyInv
  <2>3. \A j \in stable' : kpos' < j /\ j <= offset' => j \in reply'
    BY <1>1 DEF TypeOK, ReplyInv
  <2>4. QED
    BY <1>1, <2>1, <2>2, <2>3 DEF ReplyInv
<1>5. EntryInv'
  BY <1>1 DEF TypeOK, ReplyInv, EntryInv
<1>6. FetchInv'
  BY <1>1 DEF TypeOK, ReplyInv, FetchInv
<1>7. VirginInv'
  BY <1>1 DEF TypeOK, VirginInv
<1>8. NoneSkipped'
  BY <1>1 DEF TypeOK, ReplyInv, NoneSkipped
<1>9. QED
  BY <1>2, <1>3, <1>4, <1>5, <1>6, <1>7, <1>8

\* An entry created meanwhile is not stable.
LEMMA StepCreate ==
    ASSUME HandleInv, NEW k \in Cookies, Create(k)
    PROVE  HandleInv'
<1> USE DirHandleAssumption DEF HandleInv, Synced, NULL, Cookies
<1>1. /\ present' = present \cup {k} /\ ever' = ever \cup {k}
      /\ UNCHANGED <<status, stable, kpos, listed, phase, room, reply>>
      /\ UNCHANGED <<offset, entry, dpos, dbuf>>
  BY DEF Create, appVars, handleVars
<1>2. TypeOK'
  BY <1>1 DEF TypeOK
<1>3. Places'
  BY <1>1 DEF TypeOK, Places
<1>4. ReplyInv'
  BY <1>1 DEF TypeOK, ReplyInv
<1>5. EntryInv'
  BY <1>1 DEF TypeOK, EntryInv
<1>6. FetchInv'
  BY <1>1 DEF TypeOK, FetchInv
<1>7. VirginInv'
  BY <1>1 DEF TypeOK, VirginInv
<1>8. NoneSkipped'
  BY <1>1 DEF TypeOK, NoneSkipped
<1>9. QED
  BY <1>2, <1>3, <1>4, <1>5, <1>6, <1>7, <1>8

\* An entry removed meanwhile is stable no longer.
LEMMA StepUnlink ==
    ASSUME HandleInv, NEW k \in Cookies, Unlink(k)
    PROVE  HandleInv'
<1> USE DirHandleAssumption DEF HandleInv, Synced, NULL, Cookies
<1>1. /\ present' = present \ {k} /\ stable' = stable \ {k}
      /\ UNCHANGED <<status, ever, kpos, listed, phase, room, reply>>
      /\ UNCHANGED <<offset, entry, dpos, dbuf>>
  BY DEF Unlink, appVars, handleVars
<1>2. TypeOK'
  BY <1>1 DEF TypeOK
<1>3. Places'
  BY <1>1 DEF TypeOK, Places
<1>4. ReplyInv'
  BY <1>1 DEF TypeOK, ReplyInv
<1>5. EntryInv'
  BY <1>1 DEF TypeOK, EntryInv
<1>6. FetchInv'
  BY <1>1 DEF TypeOK, FetchInv
<1>7. VirginInv'
  BY <1>1 DEF TypeOK, VirginInv
<1>8. NoneSkipped'
  BY <1>1 DEF TypeOK, NoneSkipped
<1>9. QED
  BY <1>2, <1>3, <1>4, <1>5, <1>6, <1>7, <1>8

\* Every step preserves the invariant.
LEMMA HandleInvStep ==
    ASSUME HandleInv, [Next]_vars
    PROVE  HandleInv'
<1>1. ASSUME UNCHANGED vars PROVE HandleInv'
  BY <1>1 DEF vars, dirVars, appVars, handleVars, HandleInv, TypeOK, Places, ReplyInv,
              EntryInv, FetchInv, VirginInv, NoneSkipped, Synced
<1>2. QED
  BY <1>1, StepOpendir, StepReleasedir, StepRewind, StepSeekTo, StepEnter, StepReadEntry,
     StepReadNothing, StepFill, StepBufferFull, StepUse, StepCreate, StepUnlink DEF Next

\* The invariant holds whether or not the directory can be read.
LEMMA HandleInvCorrect == Spec => []HandleInv
<1>1. HandleInv /\ [Next]_vars => HandleInv'
  BY HandleInvStep
<1>2. QED
  BY <1>1, HandleInvInit, PTL DEF Spec

\* At the end of the DIR stream no stable entry is left.
LEMMA NothingAhead ==
    ASSUME HandleInv, phase = "loop", entry = NULL, reply = {}, Fetched = {}
    PROVE  \A j \in stable : j <= kpos
<1>1. kpos = offset /\ dpos = offset
  BY DEF HandleInv, ReplyInv, EntryInv, Synced
<1>2. \A j \in present : ~(j > dpos)
  BY DEF Fetched
<1>3. QED
  BY <1>1, <1>2, DirHandleAssumption DEF HandleInv, TypeOK, Cookies

\* No entry that has existed since opendir or rewinddir is passed over, whatever
\* part of each reply the kernel uses, wherever the application seeks and whenever
\* a read fails (iofs.cc:236-320).
THEOREM NothingIsMissed == Spec => []NoneSkipped
<1>1. HandleInv => NoneSkipped
  BY DEF HandleInv
<1>2. QED
  BY <1>1, HandleInvCorrect, PTL

\* The end that is reported is that of the directory, as long as it can be read: a
\* failed ::readdir is answered like the end (iofs.cc:255-260).
THEOREM EndIsComplete ==
    ASSUME ReadErrors = FALSE
    PROVE  Spec => []CompleteAtEnd
<1>1. Init => CompleteAtEnd
  BY DEF Init, CompleteAtEnd
<1>2. HandleInv /\ HandleInv' /\ CompleteAtEnd /\ [Next]_vars => CompleteAtEnd'
  <2> SUFFICES ASSUME HandleInv, HandleInv', CompleteAtEnd, [Next]_vars,
                      status' = "ended"
               PROVE  stable' \subseteq listed'
    BY DEF CompleteAtEnd
  <2>1. ASSUME ReadNothing, reply = {} PROVE stable' \subseteq listed'
    <3>1. phase = "loop" /\ entry = NULL /\ Fetched = {} /\ UNCHANGED <<stable, listed>>
      BY <2>1 DEF ReadNothing, Answer, dirVars, appVars
    <3>2. \A j \in stable : j <= kpos
      BY <2>1, <3>1, NothingAhead
    <3>3. QED
      BY <3>1, <3>2 DEF HandleInv, NoneSkipped
  <2>2. ASSUME BufferFull, reply = {} PROVE FALSE
    BY <2>2 DEF BufferFull, HandleInv, ReplyInv
  <2>3. ASSUME (ReadNothing \/ BufferFull), reply # {} PROVE stable' \subseteq listed'
    BY <2>3 DEF ReadNothing, BufferFull, Answer, dirVars, appVars, CompleteAtEnd
  <2>4. ASSUME NEW k \in Cookies, Use(k) \/ Create(k) \/ Unlink(k)
        PROVE  stable' \subseteq listed'
    BY <2>4 DEF Use, Create, Unlink, dirVars, appVars, CompleteAtEnd
  <2>5. ASSUME ReadEntry \/ Fill \/ (\E size \in Cookies : EnterReaddir(size))
               \/ UNCHANGED vars
        PROVE  stable' \subseteq listed'
    BY <2>5 DEF ReadEntry, Fill, EnterReaddir, dirVars, appVars, vars, CompleteAtEnd
  <2>6. ASSUME Opendir \/ Releasedir \/ Rewind \/ (\E k \in Cookies : SeekTo(k))
        PROVE  FALSE
    BY <2>6 DEF Opendir, Releasedir, Rewind, SeekTo, FromStart
  <2>7. QED
    BY <2>1, <2>2, <2>3, <2>4, <2>5, <2>6 DEF Next
<1>3. QED
  BY <1>1, <1>2, HandleInvCorrect, PTL DEF Spec

\* No entry is handed out twice in one pass, because of the kept entry or after
\* a seek (iofs.cc:246-250, 254, 311-317).
THEOREM NothingIsRepeated == Spec => []NoDuplicates
<1>1. HandleInv => NoDuplicates
  <2> SUFFICES ASSUME HandleInv PROVE NoDuplicates
    OBVIOUS
  <2>1. \A j \in reply : kpos < j /\ j <= offset
    BY DEF HandleInv, ReplyInv
  <2>2. \A j \in listed : j <= kpos
    BY DEF HandleInv, Places
  <2>3. phase = "loop" /\ entry # NULL => offset < entry /\ kpos <= offset
    BY DirHandleAssumption DEF HandleInv, EntryInv, Synced, Places, TypeOK
  <2>4. QED
    BY <2>1, <2>2, <2>3, DirHandleAssumption DEF NoDuplicates, HandleInv, TypeOK, Cookies
<1>2. QED
  BY <1>1, HandleInvCorrect, PTL
-----------------------------------------------------------------------------
(* The handle implements the abstract stream. *)

\* An entry the kernel uses is one the stream may deliver.
LEMMA UseDelivers ==
    ASSUME HandleInv, NEW k \in Cookies, Use(k)
    PROVE  Stream!Deliver(k)
<1>1. \A j \in stable : j > kpos => k <= j
  BY DirHandleAssumption DEF HandleInv, TypeOK, ReplyInv, Synced, Use, Least, Cookies
<1>2. QED
  BY <1>1 DEF HandleInv, ReplyInv, Use, Least, dirVars, Stream!Deliver

\* The answer of a request is the end of the stream, or no step of it.
LEMMA AnswerEnds ==
    ASSUME HandleInv, ReadNothing \/ BufferFull
    PROVE  Stream!End \/ UNCHANGED Stream!streamVars
<1>1. CASE reply = {}
  <2>1. ReadNothing
    BY <1>1 DEF BufferFull, HandleInv, ReplyInv, NULL, TypeOK
  <2>2. phase = "loop" /\ entry = NULL /\ (ReadErrors \/ Fetched = {})
    BY <2>1, DirHandleAssumption DEF ReadNothing
  <2>3. ReadErrors \/ \A j \in stable : j <= kpos
    BY <1>1, <2>2, NothingAhead
  <2>4. QED
    BY <1>1, <2>1, <2>3 DEF ReadNothing, Answer, HandleInv, Places, dirVars, appVars, Stream!End
<1>2. CASE reply # {}
  BY <1>2 DEF ReadNothing, BufferFull, Answer, dirVars, appVars, Stream!streamVars
<1>3. QED
  BY <1>1, <1>2

\* Every behaviour of the handle, of the C library's stream and of the kernel is
\* one of the directory stream that applications expect, failing reads included.
THEOREM HandleImplementsStream == Spec => StreamSpec
<1>1. Init => Stream!Init
  BY DEF Init, Stream!Init, Cookies, Stream!Cookies
<1>2. HandleInv /\ [Next]_vars => [Stream!Next]_(Stream!streamVars)
  <2> SUFFICES ASSUME HandleInv, [Next]_vars
               PROVE  Stream!Next \/ UNCHANGED Stream!streamVars
    OBVIOUS
  <2> USE DEF Stream!Next, Stream!streamVars
  <2>1. CASE Opendir
    BY <2>1 DEF Opendir, FromStart, Stream!Open, Stream!FromStart
  <2>2. CASE Releasedir
    BY <2>2 DEF Releasedir, dirVars, appVars, Stream!Close
  <2>3. CASE Rewind
    BY <2>3 DEF Rewind, FromStart, Stream!Rewind, Stream!FromStart
  <2>4. ASSUME NEW k \in Cookies, SeekTo(k) \/ Use(k) \/ Create(k) \/ Unlink(k)
        PROVE  Stream!Next
    <3>1. Stream!SeekTo(k) \/ Stream!Deliver(k) \/ Stream!Create(k) \/ Stream!Unlink(k)
      BY <2>4, UseDelivers DEF SeekTo, Create, Unlink, dirVars, appVars,
                               Stream!SeekTo, Stream!Create, Stream!Unlink
    <3>2. QED BY <3>1 DEF Cookies, Stream!Cookies
  <2>5. CASE ReadEntry \/ Fill \/ \E size \in Cookies : EnterReaddir(size)
    BY <2>5 DEF ReadEntry, Fill, EnterReaddir, dirVars, appVars
  <2>6. CASE ReadNothing \/ BufferFull
    BY <2>6, AnswerEnds
  <2>7. CASE UNCHANGED vars
    BY <2>7 DEF vars, dirVars, appVars
  <2>8. QED
    BY <2>1, <2>2, <2>3, <2>4, <2>5, <2>6, <2>7 DEF Next
<1>3. QED
  BY <1>1, <1>2, HandleInvCorrect, PTL DEF Spec, StreamSpec, Stream!Spec
=============================================================================
