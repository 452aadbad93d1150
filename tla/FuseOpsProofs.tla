--------------------------- MODULE FuseOpsProofs ---------------------------
(***************************************************************************)
(* Types, errors, descriptors, recording and sizes in FuseOps, for any       *)
(* number of workers, handles and descriptors and any set of operations.     *)
(***************************************************************************)
EXTENDS FuseOps, FiniteSetTheorems, WellFoundedInduction, TLAPS

\* The results of a system call.
Errs == Errors \cup PluginErrnos \cup {OK}

\* The records of the handlers.
Recs == [at : {"idle", "entered", "dup", "returned", "reply"}, op : Ops \cup {None},
         h : Handles \cup {None}, off : 0..MaxLen, want : 0..MaxLen,
         size : 0..MaxLen \cup {1}, fd : Fds \cup {NoFd}, fault : Errs, result : Errs,
         n : 0..MaxLen]

\* The least of a nonempty set of descriptors is one of them.
LEMMA LowestFree == Free # {} => Lowest \in Free
<1> SUFFICES ASSUME Free # {} PROVE Lowest \in Free
  OBVIOUS
<1> DEFINE R == OpToRel(<, Nat)
<1>1. Free \subseteq Nat
  BY FuseOpsAssumption DEF Free, Fds
<1>2. PICK x \in Free : \A y \in Free : ~ (<<y, x>> \in R)
  <2> HIDE DEF R
  <2>1. IsWellFoundedOn(R, Nat)
    BY NatLessThanWellFounded DEF R
  <2>2. QED
    BY <1>1, <2>1, WFMin
<1>3. \A y \in Free : x <= y
  <2> TAKE y \in Free
  <2>1. <<y, x>> \in Nat \X Nat
    BY <1>1
  <2>2. ~(y < x)
    BY <1>2, <2>1 DEF OpToRel
  <2>3. QED
    BY <1>1, <2>2
<1>4. QED
  BY <1>3 DEF Lowest, Min

-----------------------------------------------------------------------------
(* Types. *)

\* The handlers that get a handle.
HandleOps == Opening \cup Closing \cup OnFile \cup {"readdir"}

\* What a handler holds where it stands, from its operation and its place alone.
Consistent(c) ==
    /\ c.off + c.want <= MaxLen
    /\ c.at # "idle" => IF c.op \in HandleOps THEN c.h \in Handles ELSE c.h = None
    /\ c.at = "idle" => c = Idle
    /\ c.at # "idle" => c.op \in Ops
    /\ c.at = "dup" => c.op = "flush"
    /\ c.at = "entered" => c.fd = NoFd
    /\ c.at \in {"entered", "dup"} => c.fault = OK /\ c.result = OK /\ c.n = 0
    /\ c.at \in {"entered", "dup"} /\ c.op \in Transfer => c.size = 0
    /\ c.at \in {"returned", "reply"} /\ c.op \in Transfer => c.size = c.n
    /\ c.at # "idle" /\ c.op \notin Transfer \cup ZeroCopy => c.size = 1
    /\ c.at = "returned" => c.result = c.fault /\ c.fault # "EOPNOTSUPP"

\* The part of TypeOK that is not about call.
Rest ==
    /\ errno \in [Workers -> Errs]
    /\ fds \in [Fds -> Handles \cup {"socket", "free"}]
    /\ fh \in [Handles -> Fds \cup {NoFd}]
    /\ state \in [Handles -> {"none", "opening", "file", "dir", "closing"}]
    /\ users \in [Handles -> 0..MaxUsers]
    /\ len \in 0..MaxLen
    /\ log \in [Ops -> Nat] /\ bytes \in [Ops -> Nat] /\ asked \in [Ops -> Nat]
    /\ due \in [Ops -> Nat] /\ moved \in [Ops -> Nat]

\* The records are consistent; a failed opendir still finds its error in errno.
CallInv ==
    /\ call \in [Workers -> Recs]
    /\ \A t \in Workers : Consistent(call[t])
    /\ \A t \in Workers : call[t].at = "returned" /\ call[t].fault # OK /\ call[t].op = "opendir"
                            => errno[t] = call[t].fault

\* The inductive invariant of the types.
TypeInv == Rest /\ CallInv

\* It says what TypeOK says.
LEMMA TypeInvOK == TypeInv => TypeOK
<1>1. call \in [Workers -> Recs] =>
        \A t \in Workers :
         /\ call[t].at \in {"idle", "entered", "dup", "returned", "reply"}
         /\ call[t].op \in Ops \cup {None}
         /\ call[t].h \in Handles \cup {None}
         /\ call[t].fd \in Fds \cup {NoFd}
         /\ call[t].size \in 0..MaxLen \cup {1} /\ call[t].n \in 0..MaxLen
         /\ {call[t].fault, call[t].result} \subseteq Errors \cup PluginErrnos \cup {OK}
  BY DEF Recs, Errs
<1>2. QED
  BY <1>1 DEF TypeInv, Rest, CallInv, TypeOK, Errs

\* It holds when no handler runs.
LEMMA TypeInit == Init => TypeInv
<1>1. Idle \in Recs /\ Consistent(Idle)
  BY FuseOpsAssumption DEF Idle, Recs, Errs, Consistent, OK, None, NoFd
<1>2. QED
  BY <1>1, FuseOpsAssumption DEF Init, TypeInv, Rest, CallInv, Errs, Idle

\* A step that changes the record of one worker.
LEMMA OneCall ==
    ASSUME CallInv, NEW t \in Workers, NEW c \in Recs, Consistent(c),
           call' = [call EXCEPT ![t] = c],
           \A u \in Workers \ {t} : errno'[u] = errno[u],
           c.at = "returned" /\ c.fault # OK /\ c.op = "opendir" => errno'[t] = c.fault
    PROVE  CallInv'
<1>1. call' \in [Workers -> Recs] /\ call'[t] = c /\ \A u \in Workers \ {t} : call'[u] = call[u]
  BY DEF CallInv
<1>2. ASSUME NEW u \in Workers
      PROVE  /\ Consistent(call'[u])
             /\ call'[u].at = "returned" /\ call'[u].fault # OK /\ call'[u].op = "opendir"
                  => errno'[u] = call'[u].fault
  <2>1. CASE u = t
    BY <1>1, <2>1
  <2>2. CASE u # t
    BY <1>1, <2>2 DEF CallInv
  <2>3. QED
    BY <2>1, <2>2
<1>3. (\A u \in Workers : Consistent(call[u]))' <=> \A u \in Workers : Consistent(call'[u])
  BY DEF Consistent
<1>4. QED
  BY <1>1, <1>2, <1>3 DEF CallInv

\* A handler is entered.
LEMMA EnterTypes ==
    ASSUME TypeInv, NEW t \in Workers, NEW op \in Ops, NEW h \in Handles \cup {None},
           NEW off \in 0..MaxLen, NEW want \in 0..MaxLen, off + want <= MaxLen,
           IF op \in HandleOps THEN h \in Handles ELSE h = None,
           Enter(t, op, h, off, want), errno' = errno
    PROVE  CallInv' /\ asked' \in [Ops -> Nat]
<1>1. PICK size \in InitSize(op, off, want) :
        call' = [call EXCEPT ![t] =
                    [at |-> "entered", op |-> op, h |-> h, off |-> off, want |-> want, size |-> size,
                     fd |-> NoFd, fault |-> OK, result |-> OK, n |-> 0]]
  BY DEF Enter
<1>2. /\ size \in 0..MaxLen \cup {1}
      /\ op \in Transfer => size = 0
      /\ op \notin Transfer \cup ZeroCopy => size = 1
  BY FuseOpsAssumption DEF InitSize, Avail, TypeInv, Rest
<1> DEFINE c == [at |-> "entered", op |-> op, h |-> h, off |-> off, want |-> want, size |-> size,
                  fd |-> NoFd, fault |-> OK, result |-> OK, n |-> 0]
<1>3. c \in Recs /\ Consistent(c) /\ c.at = "entered"
  <2>1. c \in Recs
    BY <1>2, FuseOpsAssumption DEF Recs, Errs, None
  <2>2. QED
    BY <1>2, <2>1 DEF Consistent
<1>4. CallInv'
  <2>1. call' = [call EXCEPT ![t] = c] /\ errno' = errno
    BY <1>1
  <2> HIDE DEF c
  <2>2. QED
    BY <1>3, <2>1, OneCall DEF TypeInv
<1>5. QED
  BY <1>4 DEF Enter, TypeInv, Rest

\* The timer is about to go out of scope.
LEMMA ReturnTypes ==
    ASSUME TypeInv, NEW t \in Workers, NEW fault \in Errs, fault # "EOPNOTSUPP",
           NEW n \in 0..MaxLen, NEW size \in 0..MaxLen \cup {1},
           call[t].at \in {"entered", "dup"},
           Return(t, fault, fault, n, size),
           call[t].op \in Transfer => size = n,
           call[t].op \notin Transfer \cup ZeroCopy => size = 1,
           \A u \in Workers \ {t} : errno'[u] = errno[u],
           fault # OK /\ call[t].op = "opendir" => errno'[t] = fault
    PROVE  CallInv'
<1> DEFINE c == [call[t] EXCEPT !.at = "returned", !.fault = fault,
                                 !.result = fault, !.n = n, !.size = size]
<1>1. call[t] \in Recs /\ Consistent(call[t])
  BY DEF TypeInv, CallInv
<1>2. c \in Recs /\ Consistent(c) /\ c.op = call[t].op /\ c.fault = fault
  BY <1>1 DEF Recs, Consistent
<1>3. call' = [call EXCEPT ![t] = c]
  BY DEF Return
<1> HIDE DEF c
<1>4. QED
  BY <1>2, <1>3, OneCall DEF TypeInv

\* A system call that fails.
LEMMA FailTypes ==
    ASSUME TypeInv, NEW t \in Workers, NEW fault \in Errors \ {"EOPNOTSUPP"},
           call[t].at \in {"entered", "dup"}, Fail(t, fault)
    PROVE  CallInv' /\ errno' \in [Workers -> Errs]
<1>1. call[t] \in Recs /\ Consistent(call[t]) /\ errno \in [Workers -> Errs]
  BY DEF TypeInv, CallInv, Rest
<1>2. /\ errno' = [errno EXCEPT ![t] = fault]
      /\ Return(t, fault, fault, 0, call[t].size)
  BY DEF Fail
<1>3. /\ call[t].size \in 0..MaxLen \cup {1}
      /\ call[t].op \in Transfer => call[t].size = 0
      /\ call[t].op \notin Transfer \cup ZeroCopy => call[t].size = 1
  BY <1>1 DEF Recs, Consistent
<1>4. fault \in Errs /\ 0 \in 0..MaxLen
  BY FuseOpsAssumption DEF Errs
<1>5. errno' \in [Workers -> Errs] /\ errno'[t] = fault /\ \A u \in Workers \ {t} : errno'[u] = errno[u]
  BY <1>1, <1>2, <1>4
<1>6. QED
  BY <1>2, <1>3, <1>4, <1>5, ReturnTypes

\* A system call that succeeds.
LEMMA SucceedTypes ==
    ASSUME TypeInv, NEW t \in Workers, call[t].at \in {"entered", "dup"}, Succeed(t)
    PROVE  CallInv' /\ errno' = errno
<1>1. call[t] \in Recs /\ Consistent(call[t])
  BY DEF TypeInv, CallInv
<1>2. errno' = errno /\ Return(t, OK, OK, 0, call[t].size)
  BY DEF Succeed
<1>3. /\ call[t].size \in 0..MaxLen \cup {1}
      /\ call[t].op \in Transfer => call[t].size = 0
      /\ call[t].op \notin Transfer \cup ZeroCopy => call[t].size = 1
  BY <1>1 DEF Recs, Consistent
<1>4. OK \in Errs /\ OK # "EOPNOTSUPP" /\ 0 \in 0..MaxLen
  BY FuseOpsAssumption DEF Errs, OK
<1>5. QED
  BY <1>2, <1>3, <1>4, ReturnTypes

\* Every request enters its handler with what the handler needs.
LEMMA RequestTypes == ASSUME TypeInv, NEW t \in Workers, Request(t) PROVE TypeInv'
<1> USE FuseOpsAssumption
<1>1. CASE RequestPath(t)
  <2>1. PICK op \in Ops : Enter(t, op, None, 0, 0) /\ op \notin HandleOps
    BY <1>1 DEF RequestPath, HandleOps, Simple
  <2>2. CallInv' /\ asked' \in [Ops -> Nat]
    BY <1>1, <2>1, EnterTypes DEF RequestPath
  <2>3. QED
    BY <1>1, <2>2 DEF RequestPath, TypeInv, Rest, kernelVars
<1>2. ASSUME NEW h \in Handles, RequestOpen(t, h) PROVE TypeInv'
  <2>1. PICK op \in Ops : Enter(t, op, h, 0, 0) /\ op \in HandleOps
    BY <1>2 DEF RequestOpen, HandleOps
  <2>2. CallInv' /\ asked' \in [Ops -> Nat]
    BY <1>2, <2>1, EnterTypes DEF RequestOpen
  <2>3. QED
    BY <1>2, <2>2 DEF RequestOpen, TypeInv, Rest
<1>3. ASSUME NEW h \in Handles, RequestFile(t, h) PROVE TypeInv'
  <2>1. PICK op \in Ops, off \in 0..MaxLen, want \in 0..MaxLen :
          off + want <= MaxLen /\ Enter(t, op, h, off, want) /\ op \in HandleOps
    <3>0. OnFile \subseteq HandleOps /\ "flush" \in HandleOps
      BY DEF OnFile, HandleOps
    <3>1. CASE \E op \in Ops \cap (OnFile \ {"flush"}), off \in 0..MaxLen :
                 \E want \in 1..(MaxLen - off) : Enter(t, op, h, off, want)
      <4>1. PICK op \in Ops \cap OnFile, off \in 0..MaxLen :
              \E want \in 1..(MaxLen - off) : Enter(t, op, h, off, want)
        BY <3>1
      <4>2. \A want \in 1..(MaxLen - off) : want \in 0..MaxLen /\ off + want <= MaxLen
        OBVIOUS
      <4>3. QED
        BY <3>0, <4>1, <4>2
    <3>2. CASE "flush" \in Ops /\ Enter(t, "flush", h, 0, 0)
      BY <3>0, <3>2
    <3>3. QED
      BY <1>3, <3>1, <3>2 DEF RequestFile
  <2>2. CallInv' /\ asked' \in [Ops -> Nat]
    BY <1>3, <2>1, EnterTypes DEF RequestFile
  <2>3. users' \in [Handles -> 0..MaxUsers]
    BY <1>3 DEF RequestFile, TypeInv, Rest
  <2>4. QED
    BY <1>3, <2>2, <2>3 DEF RequestFile, TypeInv, Rest
<1>4. ASSUME NEW h \in Handles, RequestDir(t, h) PROVE TypeInv'
  <2>1. Enter(t, "readdir", h, 0, 0) /\ "readdir" \in Ops /\ "readdir" \in HandleOps
    BY <1>4 DEF RequestDir, HandleOps
  <2>2. CallInv' /\ asked' \in [Ops -> Nat]
    BY <1>4, <2>1, EnterTypes DEF RequestDir
  <2>3. QED
    BY <1>4, <2>2 DEF RequestDir, TypeInv, Rest, kernelVars
<1>5. ASSUME NEW h \in Handles, RequestRelease(t, h) PROVE TypeInv'
  <2>1. PICK op \in Ops : Enter(t, op, h, 0, 0) /\ op \in HandleOps
    BY <1>5 DEF RequestRelease, HandleOps, Closing
  <2>2. CallInv' /\ asked' \in [Ops -> Nat]
    BY <1>5, <2>1, EnterTypes DEF RequestRelease
  <2>3. QED
    BY <1>5, <2>2 DEF RequestRelease, TypeInv, Rest
<1>6. QED
  BY <1>1, <1>2, <1>3, <1>4, <1>5 DEF Request

\* What the transfers move, and how far they extend the file.
LEMMA TransferFacts ==
    ASSUME TypeInv, NEW t \in Workers, call[t].at = "entered"
    PROVE  /\ call[t].off \in 0..MaxLen /\ call[t].want \in 0..MaxLen
           /\ call[t].off + call[t].want <= MaxLen
           /\ Avail(call[t].off, call[t].want) \in 0..MaxLen
           /\ \A n \in 0..call[t].want : Extend(call[t].off + n) => len' \in 0..MaxLen
           /\ call[t].size \in 0..MaxLen \cup {1}
           /\ call[t].op \in Transfer => call[t].size = 0
           /\ call[t].op \notin Transfer \cup ZeroCopy => call[t].size = 1
<1>1. call[t] \in Recs /\ Consistent(call[t]) /\ len \in 0..MaxLen
  BY DEF TypeInv, CallInv, Rest
<1>2. call[t].off \in 0..MaxLen /\ call[t].want \in 0..MaxLen /\ call[t].size \in 0..MaxLen \cup {1}
  BY <1>1 DEF Recs
<1>3. /\ call[t].off + call[t].want <= MaxLen
      /\ call[t].op \in Transfer => call[t].size = 0
      /\ call[t].op \notin Transfer \cup ZeroCopy => call[t].size = 1
  BY <1>1 DEF Consistent
<1>4. QED
  BY <1>1, <1>2, <1>3, FuseOpsAssumption DEF Avail, Extend

\* The handlers that do not touch the table of descriptors.
LEMMA CallTypes ==
    ASSUME TypeInv, NEW t \in Workers,
           \/ SystemCall(t) \/ Readdir(t) \/ Read(t) \/ Write(t) \/ ReadBuf(t) \/ Fallocate(t)
    PROVE  TypeInv'
<1> USE FuseOpsAssumption DEF kernelVars, logVars, historyVars
<1>0. call[t].at = "entered" /\ OK \in Errs /\ OK # "EOPNOTSUPP"
  BY DEF SystemCall, Readdir, Read, Write, ReadBuf, Fallocate, Running, Errs, OK
<1>a. {"EIO", "ENOMEM"} \subseteq Errors \ {"EOPNOTSUPP"} /\ "EIO" \in Errs
  BY DEF Errors, Errs
<1>1. CASE SystemCall(t)
  <2>1. CallInv' /\ errno' \in [Workers -> Errs] /\ len' \in 0..MaxLen
    BY <1>0, <1>a, <1>1, FailTypes, SucceedTypes DEF SystemCall, TypeInv, Rest
  <2>2. QED
    BY <1>1, <2>1 DEF SystemCall, TypeInv, Rest
<1>2. CASE Readdir(t)
  BY <1>0, <1>2, SucceedTypes DEF Readdir, TypeInv, Rest
<1>3. CASE Read(t)
  <2>1. CallInv' /\ errno' \in [Workers -> Errs]
    <3>1. CASE Fail(t, "EIO")
      BY <1>0, <1>a, <3>1, FailTypes
    <3>2. ASSUME NEW n \in 0..Avail(call[t].off, call[t].want),
                 Return(t, OK, OK, n, n), errno' = errno
          PROVE  CallInv' /\ errno' \in [Workers -> Errs]
      <4>1. n \in 0..MaxLen
        BY <1>0, <3>2, TransferFacts
      <4>2. call[t].op \in Transfer /\ call[t].op # "opendir"
        BY <1>3 DEF Read, Running, Transfer
      <4>3. QED
        BY <1>0, <3>2, <4>1, <4>2, ReturnTypes DEF TypeInv, Rest
    <3>3. QED
      BY <1>3, <3>1, <3>2 DEF Read
  <2>2. QED
    BY <1>3, <2>1 DEF Read, TypeInv, Rest
<1>4. CASE Write(t)
  <2>1. CallInv' /\ errno' \in [Workers -> Errs] /\ len' \in 0..MaxLen
    <3>1. CASE Fail(t, "EIO") /\ UNCHANGED len
      BY <1>0, <1>a, <3>1, FailTypes DEF TypeInv, Rest
    <3>2. ASSUME NEW n \in 1..call[t].want, errno' = errno, Extend(call[t].off + n),
                 Return(t, OK, OK, n, IF call[t].op = "write" THEN n ELSE call[t].size)
          PROVE  CallInv' /\ errno' \in [Workers -> Errs] /\ len' \in 0..MaxLen
      <4>1. n \in 0..MaxLen /\ n \in 0..call[t].want /\ call[t].size \in 0..MaxLen \cup {1}
        BY <1>0, <3>2, TransferFacts
      <4>2. call[t].op = "write" \/ call[t].op = "write_buf"
        BY <1>4 DEF Write, Running
      <4>3. PICK size \in 0..MaxLen \cup {1} :
              /\ Return(t, OK, OK, n, size) /\ (call[t].op \in Transfer => size = n)
              /\ call[t].op \in Transfer \cup ZeroCopy /\ call[t].op # "opendir"
        BY <3>2, <4>1, <4>2 DEF Transfer, ZeroCopy
      <4>4. CallInv'
        BY <1>0, <3>2, <4>1, <4>3, ReturnTypes
      <4>5. QED
        BY <1>0, <3>2, <4>1, <4>4, TransferFacts DEF TypeInv, Rest
    <3>3. QED
      BY <1>4, <3>1, <3>2 DEF Write
  <2>2. QED
    BY <1>4, <2>1 DEF Write, TypeInv, Rest
<1>5. CASE ReadBuf(t)
  <2>1. CallInv' /\ errno' \in [Workers -> Errs]
    BY <1>0, <1>a, <1>5, FailTypes, SucceedTypes DEF ReadBuf, TypeInv, Rest
  <2>2. QED
    BY <1>5, <2>1 DEF ReadBuf, TypeInv, Rest
<1>6. CASE Fallocate(t)
  <2>1. CallInv' /\ errno' = errno /\ len' \in 0..MaxLen
    <3>0. call[t].op = "fallocate" /\ call[t].op \notin Transfer \cup ZeroCopy
      BY <1>6 DEF Fallocate, Running, Transfer, ZeroCopy
    <3>1. CASE /\ call' = [call EXCEPT ![t].at = "reply", ![t].fault = "EOPNOTSUPP",
                                        ![t].result = "EOPNOTSUPP"]
               /\ UNCHANGED <<errno, len>>
      <4> DEFINE c == [call[t] EXCEPT !.at = "reply", !.fault = "EOPNOTSUPP",
                                       !.result = "EOPNOTSUPP"]
      <4>1. call[t] \in Recs /\ Consistent(call[t])
        BY DEF TypeInv, CallInv
      <4>2. c \in Recs /\ Consistent(c) /\ c.at # "returned"
        BY <1>0, <3>0, <4>1 DEF Recs, Consistent, Errs, Errors
      <4>3. call' = [call EXCEPT ![t] = c]
        BY <3>1, <4>1 DEF TypeInv, CallInv
      <4> HIDE DEF c
      <4>4. QED
        BY <3>1, <4>2, <4>3, OneCall DEF TypeInv, Rest
    <3>2. CASE Return(t, "EIO", "EIO", 0, call[t].size) /\ UNCHANGED <<errno, len>>
      <4>1. "EIO" # "EOPNOTSUPP" /\ call[t].op # "opendir" /\ 0 \in 0..MaxLen
        BY <3>0
      <4>2. CallInv'
        BY <1>0, <1>a, <3>0, <3>2, <4>1, TransferFacts, ReturnTypes
      <4>3. QED
        BY <3>2, <4>2 DEF TypeInv, Rest
    <3>3. CASE Succeed(t) /\ Extend(call[t].off + call[t].want)
      <4>1. call[t].want \in 0..call[t].want
        BY <1>0, TransferFacts
      <4>2. QED
        BY <1>0, <3>3, <4>1, TransferFacts, SucceedTypes
    <3>4. QED
      BY <1>6, <3>1, <3>2, <3>3 DEF Fallocate
  <2>2. QED
    BY <1>6, <2>1 DEF Fallocate, TypeInv, Rest
<1>7. QED
  BY <1>1, <1>2, <1>3, <1>4, <1>5, <1>6

\* The handlers that do.
LEMMA DescriptorTypes ==
    ASSUME TypeInv, NEW t \in Workers, Open(t) \/ FlushDup(t) \/ FlushClose(t) \/ Release(t)
    PROVE  TypeInv'
<1> USE FuseOpsAssumption DEF kernelVars, logVars, historyVars
<1>0. call[t] \in Recs /\ Consistent(call[t]) /\ call[t].at \in {"entered", "dup"}
  BY DEF TypeInv, CallInv, Open, FlushDup, FlushClose, Release, Running
<1>a. {"EIO", "EMFILE", "EBADF"} \subseteq Errors \ {"EOPNOTSUPP"} /\ Free \subseteq Fds
  BY DEF Errors, Free
<1>b. fds \in [Fds -> Handles \cup {"socket", "free"}] /\ fh \in [Handles -> Fds \cup {NoFd}]
  BY DEF TypeInv, Rest
<1>c. call[t].h \in Handles
  <2>1. call[t].op \in HandleOps
    BY <1>0 DEF Open, FlushDup, FlushClose, Release, Running, HandleOps, OnFile, Consistent
  <2>2. QED
    BY <1>0, <2>1 DEF Consistent
<1>1. CASE Open(t)
  <2>1. CallInv' /\ errno' \in [Workers -> Errs]
    BY <1>0, <1>a, <1>1, FailTypes, SucceedTypes DEF Open, TypeInv, Rest
  <2>2. fds' \in [Fds -> Handles \cup {"socket", "free"}] /\ fh' \in [Handles -> Fds \cup {NoFd}]
    BY <1>a, <1>b, <1>c, <1>1, LowestFree DEF Open
  <2>3. QED
    BY <1>1, <2>1, <2>2 DEF Open, TypeInv, Rest
<1>2. CASE FlushDup(t)
  <2>1. call[t].at = "entered" /\ call[t].op = "flush" /\ "flush" \notin Transfer \cup {"opendir"}
    BY <1>2 DEF FlushDup, Running, Transfer
  <2>2. PICK fd \in Fds \cup {NoFd} : call' = [call EXCEPT ![t].at = "dup", ![t].fd = fd]
    <3>1. CASE Free = {}
      <4>1. call' = [call EXCEPT ![t].at = "dup"] /\ call[t].fd = NoFd
        BY <1>0, <1>2, <2>1, <3>1 DEF FlushDup, Consistent
      <4>2. [call EXCEPT ![t].at = "dup"] = [call EXCEPT ![t].at = "dup", ![t].fd = NoFd]
        BY <1>0, <4>1 DEF Recs, TypeInv, CallInv
      <4>3. QED
        BY <4>1, <4>2
    <3>2. CASE Free # {}
      BY <1>a, <1>2, <3>2, LowestFree DEF FlushDup
    <3>3. QED
      BY <3>1, <3>2
  <2> DEFINE c == [call[t] EXCEPT !.at = "dup", !.fd = fd]
  <2>3. call' = [call EXCEPT ![t] = c]
    BY <2>2 DEF TypeInv, CallInv
  <2>4. c \in Recs /\ Consistent(c) /\ c.at # "returned"
    BY <1>0, <2>1 DEF Recs, Consistent
  <2>5. errno' \in [Workers -> Errs] /\ \A u \in Workers \ {t} : errno'[u] = errno[u]
    BY <1>a, <1>2 DEF FlushDup, TypeInv, Rest, Errs
  <2> HIDE DEF c
  <2>6. CallInv'
    BY <2>3, <2>4, <2>5, OneCall DEF TypeInv
  <2>7. fds' \in [Fds -> Handles \cup {"socket", "free"}]
    BY <1>a, <1>b, <1>c, <1>2, LowestFree DEF FlushDup
  <2>8. QED
    BY <1>2, <2>5, <2>6, <2>7 DEF FlushDup, TypeInv, Rest
<1>3. CASE FlushClose(t)
  <2>1. CallInv' /\ errno' \in [Workers -> Errs]
    BY <1>0, <1>a, <1>3, FailTypes, SucceedTypes DEF FlushClose, TypeInv, Rest
  <2>2. fds' \in [Fds -> Handles \cup {"socket", "free"}]
    BY <1>b, <1>3 DEF FlushClose
  <2>3. QED
    BY <1>3, <2>1, <2>2 DEF FlushClose, TypeInv, Rest
<1>4. CASE Release(t)
  <2>1. CallInv' /\ errno' \in [Workers -> Errs]
    BY <1>0, <1>4, SucceedTypes DEF Release, TypeInv, Rest
  <2>2. fds' \in [Fds -> Handles \cup {"socket", "free"}] /\ fh' \in [Handles -> Fds \cup {NoFd}]
    BY <1>b, <1>c, <1>4 DEF Release
  <2>3. QED
    BY <1>4, <2>1, <2>2 DEF Release, TypeInv, Rest
<1>5. QED
  BY <1>1, <1>2, <1>3, <1>4

\* What a record leaves in errno, and in the handler.
LEMMA RecordFacts ==
    ASSUME TypeInv, NEW t \in Workers, Record(t)
    PROVE  /\ call[t].at = "returned" /\ call[t].op \in Ops
           /\ errno' \in [Workers -> Errs] /\ \A u \in Workers \ {t} : errno'[u] = errno[u]
           /\ errno'[t] \in {errno[t]} \cup PluginErrnos
           /\ \E r \in Errs : /\ call' = [call EXCEPT ![t] = [call[t] EXCEPT !.at = "reply", !.result = r]]
                              /\ r = IF EvaluatesLate(call[t].op) /\ call[t].fault # OK
                                     THEN errno'[t] ELSE call[t].result
<1>1. call[t] \in Recs /\ Consistent(call[t]) /\ errno \in [Workers -> Errs] /\ call[t].at = "returned"
  BY DEF TypeInv, CallInv, Rest, Record
<1>2. /\ errno' \in [Workers -> Errs] /\ \A u \in Workers \ {t} : errno'[u] = errno[u]
      /\ errno'[t] \in {errno[t]} \cup PluginErrnos
  <2>1. CASE call[t].size > 0
    <3>1. PICK e \in {errno[t]} \cup PluginErrnos : errno' = [errno EXCEPT ![t] = e]
      BY <2>1 DEF Record
    <3>2. e \in Errs
      BY <1>1, <3>1 DEF Errs
    <3>3. QED
      BY <1>1, <3>1, <3>2
  <2>2. CASE ~(call[t].size > 0)
    BY <1>1, <2>2 DEF Record
  <2>3. QED
    BY <2>1, <2>2
<1> DEFINE r == IF EvaluatesLate(call[t].op) /\ call[t].fault # OK THEN errno'[t] ELSE call[t].result
<1>3. r \in Errs
  BY <1>1, <1>2 DEF Recs
<1>4. call' = [call EXCEPT ![t] = [call[t] EXCEPT !.at = "reply", !.result = r]]
  <2>1. call' = [call EXCEPT ![t].at = "reply", ![t].result = r]
    BY DEF Record
  <2>2. QED
    BY <2>1 DEF TypeInv, CallInv
<1>5. QED
  <2> HIDE DEF r
  <2>1. \E q \in Errs : /\ call' = [call EXCEPT ![t] = [call[t] EXCEPT !.at = "reply", !.result = q]]
                        /\ q = r
    BY <1>3, <1>4
  <2>2. QED
    BY <1>1, <1>2, <2>1 DEF Consistent, r

\* The timer goes out of scope.
LEMMA RecordTypes == ASSUME TypeInv, NEW t \in Workers, Record(t) PROVE TypeInv'
<1> USE FuseOpsAssumption
<1>1. call[t] \in Recs /\ Consistent(call[t])
  BY DEF TypeInv, CallInv
<1>2. /\ errno' \in [Workers -> Errs] /\ \A u \in Workers \ {t} : errno'[u] = errno[u]
      /\ call[t].at = "returned" /\ call[t].op \in Ops
  BY RecordFacts
<1>3. PICK r \in Errs : call' = [call EXCEPT ![t] = [call[t] EXCEPT !.at = "reply", !.result = r]]
  BY RecordFacts
<1> DEFINE c == [call[t] EXCEPT !.at = "reply", !.result = r]
<1>4. c \in Recs /\ Consistent(c) /\ c.at # "returned"
  BY <1>1, <1>2 DEF Recs, Consistent
<1>5. CallInv'
  <2>1. call' = [call EXCEPT ![t] = c]
    BY <1>3
  <2> HIDE DEF c
  <2>2. QED
    BY <1>2, <1>4, <2>1, OneCall DEF TypeInv
<1>6. log' \in [Ops -> Nat] /\ bytes' \in [Ops -> Nat]
  <2>1. call[t].size \in Nat
    BY <1>1 DEF Recs
  <2>2. QED
    BY <1>2, <2>1 DEF Record, TypeInv, Rest
<1>7. QED
  BY <1>2, <1>5, <1>6 DEF Record, kernelVars, historyVars, TypeInv, Rest

\* The answer is sent.
LEMMA ReplyTypes == ASSUME TypeInv, NEW t \in Workers, Reply(t) PROVE TypeInv'
<1> USE FuseOpsAssumption
<1>1. call[t] \in Recs /\ Consistent(call[t]) /\ call[t].at = "reply" /\ call[t].op \in Ops
  BY DEF TypeInv, CallInv, Reply, Consistent
<1>2. CallInv'
  <2>1. Idle \in Recs /\ Consistent(Idle) /\ Idle.at = "idle"
    BY DEF Idle, Recs, Errs, Consistent, OK, None, NoFd
  <2>2. call' = [call EXCEPT ![t] = Idle] /\ errno' = errno
    BY DEF Reply
  <2>3. QED
    BY <2>1, <2>2, OneCall DEF TypeInv
<1>3. moved' \in [Ops -> Nat] /\ due' \in [Ops -> Nat]
  <2>1. /\ call[t].off \in Nat /\ call[t].want \in Nat /\ call[t].n \in Nat /\ len \in Nat
        /\ moved \in [Ops -> Nat] /\ due \in [Ops -> Nat]
    BY <1>1 DEF Recs, TypeInv, Rest
  <2>2. 0..Avail(call[t].off, call[t].want) \subseteq Nat
    OBVIOUS
  <2>3. PICK n \in Nat : moved' = [moved EXCEPT ![call[t].op] = @ + n]
    BY <2>1, <2>2 DEF Reply
  <2>4. due' \in [Ops -> Nat]
    BY <1>1, <2>1 DEF Reply
  <2>5. moved[call[t].op] + n \in Nat
    BY <1>1, <2>1
  <2>6. QED
    BY <2>1, <2>3, <2>4, <2>5
<1>4. /\ state' \in [Handles -> {"none", "opening", "file", "dir", "closing"}]
      /\ users' \in [Handles -> 0..MaxUsers]
  <2>1. /\ state \in [Handles -> {"none", "opening", "file", "dir", "closing"}]
        /\ users \in [Handles -> 0..MaxUsers] /\ 1 \in 0..MaxUsers
    BY DEF TypeInv, Rest
  <2>2. \/ state' = state
        \/ \E s \in {"none", "file", "dir"} : state' = [state EXCEPT ![call[t].h] = s]
    BY DEF Reply
  <2>3. users' = users \/ users' = [users EXCEPT ![call[t].h] = 1]
    BY DEF Reply
  <2>4. QED
    BY <2>1, <2>2, <2>3
<1>5. QED
  BY <1>2, <1>3, <1>4 DEF Reply, logVars, TypeInv, Rest

\* The applications, the HTTP server and other processes.
LEMMA OtherTypes ==
    ASSUME TypeInv,
           \/ \E h \in Handles : Share(h)
           \/ Accept \/ (\E d \in Fds : Hangup(d)) \/ ChangeLength \/ UNCHANGED vars
    PROVE  TypeInv'
<1> USE FuseOpsAssumption DEF kernelVars, logVars, historyVars
<1>0. CallInv'
  <2>1. call' = call /\ errno' = errno
    BY DEF Share, Accept, Hangup, ChangeLength, vars
  <2>2. QED
    BY <2>1 DEF TypeInv, CallInv, Consistent
<1>1. CASE \E h \in Handles : Share(h)
  BY <1>0, <1>1 DEF Share, TypeInv, Rest
<1>2. CASE Accept
  <2>1. Lowest \in Fds
    BY <1>2, LowestFree DEF Accept, Free
  <2>2. QED
    BY <1>0, <1>2, <2>1 DEF Accept, TypeInv, Rest
<1>3. CASE \E d \in Fds : Hangup(d)
  BY <1>0, <1>3 DEF Hangup, TypeInv, Rest
<1>4. CASE ChangeLength
  BY <1>0, <1>4 DEF ChangeLength, TypeInv, Rest
<1>5. CASE UNCHANGED vars
  BY <1>0, <1>5 DEF vars, TypeInv, Rest
<1>6. QED
  BY <1>1, <1>2, <1>3, <1>4, <1>5

\* Every step keeps the types.
LEMMA TypeStep == TypeInv /\ [Next]_vars => TypeInv'
<1> SUFFICES ASSUME TypeInv, [Next]_vars PROVE TypeInv'
  OBVIOUS
<1>1. ASSUME NEW t \in Workers, Request(t) PROVE TypeInv'
  BY <1>1, RequestTypes
<1>2. ASSUME NEW t \in Workers, Handler(t) PROVE TypeInv'
  BY <1>2, CallTypes, DescriptorTypes, RecordTypes, ReplyTypes DEF Handler
<1>3. QED
  BY <1>1, <1>2, OtherTypes DEF Next

\* The state of the handlers is well-typed, for any number of workers, handles and
\* descriptors (all of iofs.cc).
THEOREM FuseTypes == Spec => []TypeOK
<1>1. Spec => []TypeInv
  BY TypeInit, TypeStep, PTL DEF Spec
<1>2. QED
  BY <1>1, TypeInvOK, PTL
-----------------------------------------------------------------------------
(* Errors. *)

\* What a handler answers is the result of its system call; with a plugin that
\* changes errno at least whether there was an error.
ErrorInv ==
    \A t \in Workers : call[t].at = "reply" =>
        /\ call[t].result = OK <=> call[t].fault = OK
        /\ (call[t].op = "opendir" => PluginErrnos = {}) => call[t].result = call[t].fault

\* A system call that returns leaves the operation, the handle and the duplicate.
LEMMA ReturnKeeps ==
    ASSUME NEW t \in Workers, call \in [Workers -> Recs],
           NEW fault, NEW result, NEW n, NEW size, Return(t, fault, result, n, size)
    PROVE  /\ call'[t].op = call[t].op /\ call'[t].h = call[t].h /\ call'[t].at = "returned"
           /\ call'[t].fd = call[t].fd /\ call'[t].fault = fault /\ call'[t].n = n
<1>1. call' = [call EXCEPT ![t] = [call[t] EXCEPT !.at = "returned", !.fault = fault,
                                    !.result = result, !.n = n, !.size = size]]
  BY DEF Return
<1>2. QED
  BY <1>1 DEF Recs

\* A handler whose operation is neither an opening nor a closing nor a flush goes
\* on without its handle being touched.
LEMMA CallShape ==
    ASSUME TypeInv, NEW t \in Workers,
           \/ SystemCall(t) \/ Readdir(t) \/ Read(t) \/ Write(t) \/ ReadBuf(t) \/ Fallocate(t)
    PROVE  /\ call[t].at = "entered" /\ call[t].op \notin Opening \cup Closing \cup {"flush"}
           /\ UNCHANGED <<fds, fh, state, users, log, bytes, asked, due, moved>>
           /\ \E c \in Recs :
                /\ call' = [call EXCEPT ![t] = c] /\ c.op = call[t].op /\ c.h = call[t].h
                /\ \/ c.at = "returned"
                   \/ c.at = "reply" /\ c.fault = "EOPNOTSUPP" /\ c.result = "EOPNOTSUPP"
<1>0. call[t] \in Recs /\ call \in [Workers -> Recs]
  BY DEF TypeInv, CallInv
<1>1. call[t].at = "entered" /\ call[t].op \notin Opening \cup Closing \cup {"flush"}
  BY DEF SystemCall, Readdir, Read, Write, ReadBuf, Fallocate, Running, Simple, Opening, Closing,
         Transfer, ZeroCopy
<1>2. UNCHANGED <<fds, fh, state, users, log, bytes, asked, due, moved>>
  BY DEF SystemCall, Readdir, Read, Write, ReadBuf, Fallocate, kernelVars, logVars, historyVars
<1>3. \E fault, result, n, size : Return(t, fault, result, n, size)
      \/ call' = [call EXCEPT ![t].at = "reply", ![t].fault = "EOPNOTSUPP", ![t].result = "EOPNOTSUPP"]
  BY DEF SystemCall, Readdir, Read, Write, ReadBuf, Fallocate, Fail, Succeed
<1>4. call'[t] \in Recs /\ call' = [call EXCEPT ![t] = call'[t]]
  <2>1. TypeInv'
    BY CallTypes
  <2>2. QED
    BY <1>0, <1>3, <2>1 DEF TypeInv, CallInv, Return
<1>5. /\ call'[t].op = call[t].op /\ call'[t].h = call[t].h
      /\ \/ call'[t].at = "returned"
         \/ call'[t].at = "reply" /\ call'[t].fault = "EOPNOTSUPP" /\ call'[t].result = "EOPNOTSUPP"
  <2>1. ASSUME NEW fault, NEW result, NEW n, NEW size, Return(t, fault, result, n, size)
        PROVE  call'[t].op = call[t].op /\ call'[t].h = call[t].h /\ call'[t].at = "returned"
    BY <1>0, <2>1, ReturnKeeps
  <2>2. CASE call' = [call EXCEPT ![t].at = "reply", ![t].fault = "EOPNOTSUPP",
                                  ![t].result = "EOPNOTSUPP"]
    <3>1. call' = [call EXCEPT ![t] = [call[t] EXCEPT !.at = "reply", !.fault = "EOPNOTSUPP",
                                                      !.result = "EOPNOTSUPP"]]
      BY <1>0, <2>2
    <3>2. QED
      BY <1>0, <3>1 DEF Recs
  <2>3. QED
    BY <1>3, <2>1, <2>2
<1>6. QED
  BY <1>1, <1>2, <1>4, <1>5

\* The shape of the steps that take and give back descriptors.
LEMMA DescriptorShape ==
    ASSUME TypeInv, NEW t \in Workers, Open(t) \/ FlushDup(t) \/ FlushClose(t) \/ Release(t)
    PROVE  /\ call[t].at \in {"entered", "dup"} /\ call[t].op \in Opening \cup Closing \cup {"flush"}
           /\ call[t].h \in Handles
           /\ \E c \in Recs :
                /\ call' = [call EXCEPT ![t] = c] /\ c.op = call[t].op /\ c.h = call[t].h
                /\ c.at \in {"dup", "returned"}
<1>0. call[t] \in Recs /\ call \in [Workers -> Recs] /\ Consistent(call[t])
  BY DEF TypeInv, CallInv
<1>1. call[t].at \in {"entered", "dup"} /\ call[t].op \in Opening \cup Closing \cup {"flush"}
  BY <1>0 DEF Open, FlushDup, FlushClose, Release, Running, Consistent
<1>2. call[t].h \in Handles
  BY <1>0, <1>1 DEF Consistent, HandleOps, OnFile
<1>3. \/ \E fault, result, n, size : Return(t, fault, result, n, size)
      \/ call' = [call EXCEPT ![t].at = "dup"]
      \/ call' = [call EXCEPT ![t].at = "dup", ![t].fd = Lowest]
  BY DEF Open, FlushDup, FlushClose, Release, Fail, Succeed
<1>4. call'[t] \in Recs /\ call' = [call EXCEPT ![t] = call'[t]]
  <2>1. TypeInv'
    BY DescriptorTypes
  <2>2. QED
    BY <1>0, <1>3, <2>1 DEF TypeInv, CallInv, Return
<1>5. /\ call'[t].op = call[t].op /\ call'[t].h = call[t].h /\ call'[t].at \in {"dup", "returned"}
  <2>1. ASSUME NEW fault, NEW result, NEW n, NEW size, Return(t, fault, result, n, size)
        PROVE  call'[t].op = call[t].op /\ call'[t].h = call[t].h /\ call'[t].at = "returned"
    BY <1>0, <2>1, ReturnKeeps
  <2>2. CASE call' = [call EXCEPT ![t].at = "dup"]
    BY <1>0, <2>2 DEF Recs
  <2>3. CASE call' = [call EXCEPT ![t].at = "dup", ![t].fd = Lowest]
    <3>1. call' = [call EXCEPT ![t] = [call[t] EXCEPT !.at = "dup", !.fd = Lowest]]
      BY <1>0, <2>3
    <3>2. QED
      BY <1>0, <3>1 DEF Recs
  <2>4. QED
    BY <1>3, <2>1, <2>2, <2>3
<1>6. QED
  BY <1>1, <1>2, <1>4, <1>5

\* Every step keeps ErrorInv: what plugins leave in errno reaches opendir only.
LEMMA ErrorStep == TypeInv /\ ErrorInv /\ [Next]_vars => ErrorInv'
<1> SUFFICES ASSUME TypeInv, ErrorInv, [Next]_vars PROVE ErrorInv'
  OBVIOUS
<1>0. call \in [Workers -> Recs]
  BY DEF TypeInv, CallInv
<1>1. ASSUME NEW t \in Workers, NEW c, call' = [call EXCEPT ![t] = c],
             c.at = "reply" => c.fault = c.result /\ c.fault # OK
      PROVE  ErrorInv'
  BY <1>0, <1>1 DEF ErrorInv
<1>2. ASSUME NEW t \in Workers, Request(t) PROVE ErrorInv'
  <2>1. PICK op, h, off, want : Enter(t, op, h, off, want)
    BY <1>2 DEF Request, RequestPath, RequestOpen, RequestFile, RequestDir, RequestRelease
  <2>2. QED
    BY <1>1, <2>1 DEF Enter
<1>3. ASSUME NEW t \in Workers,
             \/ SystemCall(t) \/ Readdir(t) \/ Read(t) \/ Write(t) \/ ReadBuf(t) \/ Fallocate(t)
      PROVE  ErrorInv'
  <2>1. PICK c \in Recs : /\ call' = [call EXCEPT ![t] = c]
                          /\ \/ c.at = "returned"
                             \/ c.at = "reply" /\ c.fault = "EOPNOTSUPP" /\ c.result = "EOPNOTSUPP"
    BY <1>3, CallShape
  <2>2. QED
    BY <1>1, <2>1 DEF OK
<1>4. ASSUME NEW t \in Workers, Open(t) \/ FlushDup(t) \/ FlushClose(t) \/ Release(t)
      PROVE  ErrorInv'
  <2>1. PICK c \in Recs : call' = [call EXCEPT ![t] = c] /\ c.at \in {"dup", "returned"}
    BY <1>4, DescriptorShape
  <2>2. QED
    BY <1>1, <2>1
<1>5. ASSUME NEW t \in Workers, Record(t) PROVE ErrorInv'
  <2>1. PICK r \in Errs :
          /\ call' = [call EXCEPT ![t] = [call[t] EXCEPT !.at = "reply", !.result = r]]
          /\ r = IF EvaluatesLate(call[t].op) /\ call[t].fault # OK THEN errno'[t] ELSE call[t].result
    BY <1>5, RecordFacts
  <2>2. /\ call[t].at = "returned" /\ call[t].result = call[t].fault
        /\ call[t].fault # OK /\ call[t].op = "opendir" => errno[t] = call[t].fault
        /\ errno'[t] \in {errno[t]} \cup PluginErrnos
    BY <1>5, RecordFacts DEF TypeInv, CallInv, Consistent
  <2>3. /\ r = OK <=> call[t].fault = OK
        /\ (call[t].op = "opendir" => PluginErrnos = {}) => r = call[t].fault
    BY <2>1, <2>2, FuseOpsAssumption DEF EvaluatesLate, OK
  <2>4. call'[t].fault = call[t].fault /\ call'[t].result = r /\ call'[t].op = call[t].op
        /\ \A u \in Workers \ {t} : call'[u] = call[u]
    BY <1>0, <2>1 DEF Recs
  <2>5. QED
    BY <2>3, <2>4 DEF ErrorInv
<1>6. ASSUME NEW t \in Workers, Reply(t) PROVE ErrorInv'
  BY <1>1, <1>6 DEF Reply, Idle
<1>7. CASE \/ \E h \in Handles : Share(h)
           \/ Accept \/ (\E d \in Fds : Hangup(d)) \/ ChangeLength \/ UNCHANGED vars
  <2>1. call' = call
    BY <1>7 DEF Share, Accept, Hangup, ChangeLength, vars
  <2>2. QED
    BY <2>1 DEF ErrorInv
<1>8. QED
  BY <1>2, <1>3, <1>4, <1>5, <1>6, <1>7 DEF Next, Handler

\* ErrorInv holds always.
LEMMA ErrorAlways == Spec => [](TypeInv /\ ErrorInv)
<1>1. Init => TypeInv /\ ErrorInv
  BY TypeInit DEF Init, ErrorInv, Idle
<1>2. TypeInv /\ ErrorInv /\ [Next]_vars => (TypeInv /\ ErrorInv)'
  BY TypeStep, ErrorStep
<1>3. QED
  BY <1>1, <1>2, PTL DEF Spec

\* The error that is answered is that of the handler's own system call (iofs.cc:32-489);
\* for opendir (iofs.cc:229) only if no plugin changes errno.
THEOREM ErrorsAreFaithful == Spec => []ErrnoFaithful
<1>1. ErrorInv => ErrnoFaithful
  BY DEF ErrorInv, ErrnoFaithful
<1>2. QED
  BY <1>1, ErrorAlways, PTL
-----------------------------------------------------------------------------
(* Descriptors. *)

\* What a handler c on a handle asks of the state s of the handle and of its
\* descriptor d.
Fits(c, s, d) ==
    /\ c.op \in Opening => /\ s = "opening"
                           /\ IF c.at = "entered" THEN d = NoFd ELSE c.fault = OK <=> d # NoFd
    /\ c.op \in Closing => s = "closing" /\ (c.at = "entered" <=> d # NoFd)
    /\ c.op \in OnFile => s = "file"
    /\ c.op = "readdir" => s = "dir"

\* A handle has a descriptor while it is open, and one that is its own.
FhInv ==
    \A h \in Handles :
        /\ state[h] \in {"file", "dir"} => fh[h] # NoFd
        /\ state[h] = "none" => fh[h] = NoFd
        /\ fh[h] # NoFd => fds[fh[h]] = h

\* Each handler fits the state of its handle, and one that opens or closes it is
\* alone.
UseInv ==
    /\ \A t \in Workers : call[t].h \in Handles => Fits(call[t], state[call[t].h], fh[call[t].h])
    /\ \A t, u \in Workers : t # u /\ call[t].h \in Handles /\ call[u].h = call[t].h
                               => call[t].op \notin Opening \cup Closing

\* The duplicate of a flush refers to its handle and is no other's.
DupInv ==
    /\ \A t \in Workers : call[t].at = "dup" /\ call[t].fd # NoFd
                            => fds[call[t].fd] = call[t].h /\ fh[call[t].h] # call[t].fd
    /\ \A t, u \in Workers : t # u /\ call[t].at = "dup" /\ call[u].at = "dup" /\ call[t].fd # NoFd
                               => call[t].fd # call[u].fd

\* Every descriptor of a handle is the handle's own or a duplicate.
KnownInv ==
    \A d \in Fds : fds[d] \in Handles =>
        fh[fds[d]] = d \/ \E t \in Workers : call[t].at = "dup" /\ call[t].fd = d

\* The inductive invariant of the descriptors.
OwnInv == FhInv /\ UseInv /\ DupInv /\ KnownInv

\* With what it rests on.
OwnBase == TypeInv /\ ErrorInv /\ OwnInv

\* A step of a handler that leaves the descriptors and the states of the handles, and
\* neither makes nor gives up a duplicate.
LEMMA OwnCallOnly ==
    ASSUME OwnBase, NEW t \in Workers, NEW c \in Recs, call' = [call EXCEPT ![t] = c],
           UNCHANGED <<fds, fh, state>>,
           c.op = call[t].op, c.h = call[t].h, call[t].at # "dup", c.at # "dup",
           c.h \in Handles => Fits(c, state[c.h], fh[c.h])
    PROVE  OwnInv'
<1>0. call \in [Workers -> Recs] /\ fds \in [Fds -> Handles \cup {"socket", "free"}]
  BY DEF OwnBase, TypeInv, CallInv, Rest
<1>1. call'[t] = c /\ \A u \in Workers \ {t} : call'[u] = call[u]
  BY <1>0
<1>2. FhInv'
  BY DEF OwnBase, OwnInv, FhInv
<1>3. UseInv'
  <2>1. ASSUME NEW u \in Workers, call'[u].h \in Handles
        PROVE  Fits(call'[u], state[call'[u].h], fh[call'[u].h])
    BY <1>1, <2>1 DEF OwnBase, OwnInv, UseInv
  <2>2. \A u \in Workers : call'[u].h = call[u].h /\ call'[u].op = call[u].op
    BY <1>1
  <2>3. (\A u \in Workers : call[u].h \in Handles => Fits(call[u], state[call[u].h], fh[call[u].h]))'
    BY <2>1 DEF Fits
  <2>4. QED
    BY <2>2, <2>3 DEF OwnBase, OwnInv, UseInv
<1>4. DupInv'
  BY <1>1 DEF OwnBase, OwnInv, DupInv
<1>5. KnownInv'
  BY <1>0, <1>1 DEF OwnBase, OwnInv, KnownInv
<1>6. QED
  BY <1>2, <1>3, <1>4, <1>5 DEF OwnInv

\* A request that is not for an opening or a release is for a handle in the right state.
LEMMA OwnEnter ==
    ASSUME OwnBase, NEW t \in Workers, NEW op \in Ops, NEW h \in Handles \cup {None},
           NEW off, NEW want, call[t].at = "idle", Enter(t, op, h, off, want), UNCHANGED <<fds, fh>>,
           \A g \in Handles : g # h => state'[g] = state[g],
           \/ h \notin Handles /\ op \notin HandleOps
           \/ h \in Handles /\ state'[h] = state[h] /\ op \in OnFile /\ state[h] = "file"
           \/ h \in Handles /\ state'[h] = state[h] /\ op = "readdir" /\ state[h] = "dir"
           \/ /\ h \in Handles /\ \A u \in Workers : call[u].h # h
              /\ \/ op \in Opening /\ state[h] = "none" /\ state'[h] = "opening"
                 \/ op \in Closing /\ state[h] \in {"file", "dir"} /\ state'[h] = "closing"
    PROVE  OwnInv'
<1>0. /\ call \in [Workers -> Recs] /\ fds \in [Fds -> Handles \cup {"socket", "free"}]
      /\ fh \in [Handles -> Fds \cup {NoFd}]
      /\ None \notin Handles
  BY FuseOpsAssumption DEF OwnBase, TypeInv, CallInv, Rest, None
<1>1. PICK size : call' = [call EXCEPT ![t] =
                    [at |-> "entered", op |-> op, h |-> h, off |-> off, want |-> want, size |-> size,
                     fd |-> NoFd, fault |-> OK, result |-> OK, n |-> 0]]
  BY DEF Enter
<1>2. /\ call'[t].op = op /\ call'[t].h = h /\ call'[t].at = "entered"
      /\ \A u \in Workers \ {t} : call'[u] = call[u]
  BY <1>0, <1>1
<1>3. FhInv'
  <2>1. ASSUME NEW g \in Handles
        PROVE  /\ state'[g] \in {"file", "dir"} => fh[g] # NoFd
               /\ state'[g] = "none" => fh[g] = NoFd
    BY DEF OwnBase, OwnInv, FhInv
  <2>2. QED
    BY <2>1 DEF OwnBase, OwnInv, FhInv
<1>4. UseInv'
  <2>1. ASSUME NEW u \in Workers, u # t, call'[u].h \in Handles
        PROVE  Fits(call'[u], state'[call'[u].h], fh[call'[u].h])
    <3>1. state'[call[u].h] = state[call[u].h]
      BY <1>2, <2>1
    <3>2. QED
      BY <1>2, <2>1, <3>1 DEF OwnBase, OwnInv, UseInv
  <2>2. h \in Handles => Fits(call'[t], state'[h], fh[h])
    BY <1>2 DEF Fits, Opening, Closing, OnFile, Transfer, ZeroCopy, OwnBase, OwnInv, FhInv
  <2>3. ASSUME NEW u \in Workers, u # t, call[u].h \in Handles, call[u].h = h
        PROVE  op \notin Opening \cup Closing /\ call[u].op \notin Opening \cup Closing
    <3>1. (op \in OnFile /\ state[h] = "file") \/ (op = "readdir" /\ state[h] = "dir")
      BY <2>3
    <3>2. Fits(call[u], state[h], fh[h])
      BY <2>3 DEF OwnBase, OwnInv, UseInv
    <3>3. QED
      BY <3>1, <3>2 DEF Fits, Opening, Closing, OnFile, Transfer, ZeroCopy
  <2>4. ASSUME NEW u \in Workers, NEW v \in Workers, u # v, call'[u].h \in Handles,
               call'[v].h = call'[u].h
        PROVE  call'[u].op \notin Opening \cup Closing
    <3>1. CASE u = t
      BY <1>2, <2>3, <2>4, <3>1
    <3>2. CASE v = t
      BY <1>2, <2>3, <2>4, <3>2
    <3>3. CASE u # t /\ v # t
      BY <1>2, <2>4, <3>3 DEF OwnBase, OwnInv, UseInv
    <3>4. QED
      BY <3>1, <3>2, <3>3
  <2>5. (\A u \in Workers : call[u].h \in Handles => Fits(call[u], state[call[u].h], fh[call[u].h]))'
    BY <1>2, <2>1, <2>2 DEF Fits
  <2>6. QED
    BY <2>4, <2>5 DEF UseInv
<1>5. DupInv'
  BY <1>2 DEF OwnBase, OwnInv, DupInv
<1>6. KnownInv'
  BY <1>0, <1>2 DEF OwnBase, OwnInv, KnownInv
<1>7. QED
  BY <1>3, <1>4, <1>5, <1>6 DEF OwnInv

\* Requests come for handles in the right state only.
LEMMA OwnRequest == ASSUME OwnBase, NEW t \in Workers, Request(t) PROVE OwnInv'
<1>0. /\ state \in [Handles -> {"none", "opening", "file", "dir", "closing"}]
      /\ None \notin Handles
  BY FuseOpsAssumption DEF OwnBase, TypeInv, Rest, None
<1>1. CASE RequestPath(t)
  <2>1. PICK op \in (Ops \cap Simple) \ OnFile : Enter(t, op, None, 0, 0)
    BY <1>1 DEF RequestPath
  <2>2. op \notin HandleOps
    BY <2>1 DEF HandleOps, Simple, OnFile, Transfer, ZeroCopy
  <2>3. QED
    BY <1>0, <1>1, <2>1, <2>2, OwnEnter DEF RequestPath, May, kernelVars
<1>2. ASSUME NEW h \in Handles, RequestOpen(t, h) PROVE OwnInv'
  <2>1. PICK op \in Ops \cap Opening : Enter(t, op, h, 0, 0)
    BY <1>2 DEF RequestOpen
  <2>2. ASSUME NEW u \in Workers PROVE call[u].h # h
    <3>1. SUFFICES ASSUME call[u].h = h PROVE FALSE
      OBVIOUS
    <3>2. call[u].at # "idle" /\ call[u].op \in HandleOps
      BY <1>0, <3>1 DEF OwnBase, TypeInv, CallInv, Consistent, Idle
    <3>3. Fits(call[u], "none", fh[h]) /\ fh[h] = NoFd
      BY <1>2, <3>1 DEF RequestOpen, OwnBase, OwnInv, UseInv, FhInv
    <3>4. QED
      BY <3>2, <3>3 DEF Fits, HandleOps
  <2>3. QED
    BY <1>0, <1>2, <2>1, <2>2, OwnEnter DEF RequestOpen, May
<1>3. ASSUME NEW h \in Handles, RequestFile(t, h) PROVE OwnInv'
  <2>1. PICK op, off, want : op \in Ops \cap OnFile /\ Enter(t, op, h, off, want)
    BY <1>3 DEF RequestFile, OnFile
  <2>2. QED
    BY <1>0, <1>3, <2>1, OwnEnter DEF RequestFile, May
<1>4. ASSUME NEW h \in Handles, RequestDir(t, h) PROVE OwnInv'
  BY <1>0, <1>4, OwnEnter DEF RequestDir, May, kernelVars
<1>5. ASSUME NEW h \in Handles, RequestRelease(t, h) PROVE OwnInv'
  <2>1. PICK op \in Ops \cap Closing : Enter(t, op, h, 0, 0)
    BY <1>5 DEF RequestRelease, Closing
  <2>2. QED
    BY <1>0, <1>5, <2>1, OwnEnter DEF RequestRelease, May
<1>6. QED
  BY <1>1, <1>2, <1>3, <1>4, <1>5 DEF Request

\* System calls that leave the descriptors alone.
LEMMA OwnCall ==
    ASSUME OwnBase, NEW t \in Workers,
           \/ SystemCall(t) \/ Readdir(t) \/ Read(t) \/ Write(t) \/ ReadBuf(t) \/ Fallocate(t)
    PROVE  OwnInv'
<1>1. PICK c \in Recs :
        /\ call' = [call EXCEPT ![t] = c] /\ c.op = call[t].op /\ c.h = call[t].h
        /\ c.at \in {"returned", "reply"}
  BY CallShape DEF OwnBase
<1>2. /\ call[t].at = "entered" /\ call[t].op \notin Opening \cup Closing \cup {"flush"}
      /\ UNCHANGED <<fds, fh, state>>
  BY CallShape DEF OwnBase
<1>3. c.h \in Handles => Fits(c, state[c.h], fh[c.h])
  BY <1>1, <1>2 DEF Fits, OwnBase, OwnInv, UseInv
<1>4. QED
  BY <1>1, <1>2, <1>3, OwnCallOnly

\* The timer goes out of scope.
LEMMA OwnRecord == ASSUME OwnBase, NEW t \in Workers, Record(t) PROVE OwnInv'
<1>0. call[t] \in Recs
  BY DEF OwnBase, TypeInv, CallInv
<1>1. PICK r \in Errs : call' = [call EXCEPT ![t] = [call[t] EXCEPT !.at = "reply", !.result = r]]
  BY RecordFacts DEF OwnBase
<1> DEFINE c == [call[t] EXCEPT !.at = "reply", !.result = r]
<1>2. /\ c \in Recs /\ c.op = call[t].op /\ c.h = call[t].h /\ c.at = "reply" /\ c.fault = call[t].fault
      /\ call[t].at = "returned"
  BY <1>0 DEF Recs, Record
<1>3. c.h \in Handles => Fits(c, state[c.h], fh[c.h])
  BY <1>2 DEF Fits, OwnBase, OwnInv, UseInv
<1>4. UNCHANGED <<fds, fh, state>>
  BY DEF Record, kernelVars
<1> HIDE DEF c
<1>5. QED
  BY <1>1, <1>2, <1>3, <1>4, OwnCallOnly DEF c

\* What a failing or succeeding system call leaves of the record.
LEMMA FailShape ==
    ASSUME OwnBase, NEW t \in Workers, NEW fault \in Errs, NEW result, NEW n, NEW size,
           TypeInv', Return(t, fault, result, n, size)
    PROVE  \E c \in Recs :
             /\ call' = [call EXCEPT ![t] = c] /\ c.op = call[t].op /\ c.h = call[t].h
             /\ c.at = "returned" /\ c.fault = fault
<1>0. call \in [Workers -> Recs] /\ call' \in [Workers -> Recs]
  BY DEF OwnBase, TypeInv, CallInv
<1>1. /\ call'[t].op = call[t].op /\ call'[t].h = call[t].h /\ call'[t].at = "returned"
      /\ call'[t].fault = fault
  BY <1>0, ReturnKeeps
<1>2. call' = [call EXCEPT ![t] = call'[t]]
  BY <1>0 DEF Return
<1>3. QED
  BY <1>0, <1>1, <1>2

\* An opening takes a descriptor that is free, or leaves the handle without one.
LEMMA OwnOpen == ASSUME OwnBase, NEW t \in Workers, Open(t) PROVE OwnInv'
<1>0. /\ call[t] \in Recs /\ call \in [Workers -> Recs]
      /\ fds \in [Fds -> Handles \cup {"socket", "free"}] /\ fh \in [Handles -> Fds \cup {NoFd}]
      /\ Consistent(call[t]) /\ NoFd \notin Fds /\ "free" \notin Handles
  BY FuseOpsAssumption DEF OwnBase, TypeInv, CallInv, Rest, Fds, NoFd
<1>1. /\ call[t].at = "entered" /\ call[t].op \in Opening /\ call[t].h \in Handles
      /\ UNCHANGED state
  BY <1>0 DEF Open, Running, Consistent, HandleOps, kernelVars
<1> DEFINE h == call[t].h
<1>2. /\ Fits(call[t], state[h], fh[h]) /\ state[h] = "opening" /\ fh[h] = NoFd
      /\ \A u \in Workers \ {t} : call[u].h # h
  BY <1>1 DEF Fits, OwnBase, OwnInv, UseInv
<1>3. TypeInv'
  BY DescriptorTypes DEF OwnBase
<1>4. CASE (Fail(t, "EIO") \/ Fail(t, "EMFILE")) /\ UNCHANGED <<fds, fh>>
  <2>1. PICK fault \in {"EIO", "EMFILE"} : Return(t, fault, fault, 0, call[t].size)
    BY <1>4 DEF Fail
  <2>2. PICK c \in Recs :
             /\ call' = [call EXCEPT ![t] = c] /\ c.op = call[t].op /\ c.h = call[t].h
             /\ c.at = "returned" /\ c.fault = fault
    BY <1>3, <2>1, FailShape DEF Errs, Errors
  <2>3. Fits(c, state[h], fh[h])
    BY <1>1, <1>2, <2>2 DEF Fits, OK, Opening, Closing, OnFile, Transfer, ZeroCopy
  <2>4. QED
    BY <1>1, <1>4, <2>2, <2>3, OwnCallOnly
<1>5. CASE /\ Free # {} /\ Succeed(t)
           /\ fds' = [fds EXCEPT ![Lowest] = h] /\ fh' = [fh EXCEPT ![h] = Lowest]
  <2>1. PICK d \in Fds : d = Lowest /\ fds[d] = "free"
    BY <1>5, LowestFree DEF Free
  <2>2. PICK c \in Recs :
             /\ call' = [call EXCEPT ![t] = c] /\ c.op = call[t].op /\ c.h = call[t].h
             /\ c.at = "returned" /\ c.fault = OK
    BY <1>3, <1>5, FailShape DEF Errs, Succeed
  <2>3. /\ call'[t] = c /\ \A u \in Workers \ {t} : call'[u] = call[u]
        /\ fds'[d] = h /\ \A e \in Fds \ {d} : fds'[e] = fds[e]
        /\ fh'[h] = d /\ \A g \in Handles \ {h} : fh'[g] = fh[g]
    BY <1>0, <1>1, <1>5, <2>1, <2>2
  <2>4. \A g \in Handles : fh[g] # d
    BY <1>0, <2>1 DEF OwnBase, OwnInv, FhInv
  <2> HIDE DEF h
  <2>5. FhInv'
    <3>1. ASSUME NEW g \in Handles
          PROVE  /\ state'[g] \in {"file", "dir"} => fh'[g] # NoFd
                 /\ state'[g] = "none" => fh'[g] = NoFd
                 /\ fh'[g] # NoFd => fds'[fh'[g]] = g
      <4>1. CASE g = h
        BY <1>0, <1>1, <1>2, <2>3, <4>1
      <4>2. CASE g # h
        BY <1>0, <1>1, <2>3, <2>4, <4>2 DEF OwnBase, OwnInv, FhInv
      <4>3. QED
        BY <4>1, <4>2
    <3>2. QED
      BY <3>1 DEF FhInv
  <2>6. UseInv'
    <3>1. Fits(c, state[h], d)
      BY <1>0, <1>1, <1>2, <2>1, <2>2 DEF Fits, Opening, Closing, OnFile, Transfer, ZeroCopy
    <3>2. ASSUME NEW u \in Workers, call'[u].h \in Handles
          PROVE  Fits(call'[u], state'[call'[u].h], fh'[call'[u].h])
      <4>1. CASE u = t
        BY <1>1, <2>2, <2>3, <3>1, <4>1 DEF h
      <4>2. CASE u # t
        BY <1>1, <1>2, <2>3, <3>2, <4>2 DEF OwnBase, OwnInv, UseInv
      <4>3. QED
        BY <4>1, <4>2
    <3>3. \A u \in Workers : call'[u].h = call[u].h /\ call'[u].op = call[u].op
      BY <2>2, <2>3
    <3>4. (\A u \in Workers : call[u].h \in Handles => Fits(call[u], state[call[u].h], fh[call[u].h]))'
      BY <3>2 DEF Fits
    <3>5. QED
      BY <3>3, <3>4 DEF OwnBase, OwnInv, UseInv
  <2>7. DupInv'
    <3>1. ASSUME NEW u \in Workers, call'[u].at = "dup", call'[u].fd # NoFd
          PROVE  /\ u # t /\ call[u].fd \in Fds /\ call[u].h \in Handles \ {h}
                 /\ call[u].fd # d /\ fds[call[u].fd] = call[u].h /\ fh[call[u].h] # call[u].fd
      <4>1. u # t /\ call'[u] = call[u]
        BY <2>2, <2>3, <3>1
      <4>2. Consistent(call[u]) /\ call[u] \in Recs
        BY DEF OwnBase, TypeInv, CallInv
      <4>3. call[u].fd \in Fds /\ call[u].h \in Handles /\ call[u].h # h
        BY <1>2, <3>1, <4>1, <4>2 DEF Consistent, HandleOps, OnFile, Recs, h
      <4>4. QED
        BY <1>0, <2>1, <3>1, <4>1, <4>3 DEF OwnBase, OwnInv, DupInv
    <3>2. QED
      BY <2>3, <3>1 DEF OwnBase, OwnInv, DupInv
  <2>8. KnownInv'
    <3>1. ASSUME NEW e \in Fds, fds'[e] \in Handles
          PROVE  fh'[fds'[e]] = e \/ \E u \in Workers : call'[u].at = "dup" /\ call'[u].fd = e
      <4>1. CASE e = d
        BY <2>3, <4>1
      <4>2. CASE e # d
        <5>1. fds'[e] = fds[e]
          BY <2>3, <4>2
        <5>2. fh[fds[e]] = e \/ \E u \in Workers : call[u].at = "dup" /\ call[u].fd = e
          BY <3>1, <5>1 DEF OwnBase, OwnInv, KnownInv
        <5>3. CASE fh[fds[e]] = e
          BY <1>0, <1>2, <2>3, <3>1, <5>1, <5>3 DEF h
        <5>4. ASSUME NEW u \in Workers, call[u].at = "dup", call[u].fd = e
              PROVE  call'[u].at = "dup" /\ call'[u].fd = e
          BY <1>1, <2>3, <5>4
        <5>5. QED
          BY <5>2, <5>3, <5>4
      <4>3. QED
        BY <4>1, <4>2
    <3>2. QED
      BY <3>1 DEF KnownInv
  <2>9. QED
    BY <2>5, <2>6, <2>7, <2>8 DEF OwnInv
<1>6. QED
  BY <1>4, <1>5 DEF Open

\* The handlers of a flush are on an open file; no handler opens or closes it.
LEMMA FlushFacts ==
    ASSUME OwnBase, NEW t \in Workers, FlushDup(t) \/ FlushClose(t)
    PROVE  /\ call[t] \in Recs /\ call[t].h \in Handles /\ call[t].op = "flush"
           /\ call[t].at \in {"entered", "dup"}
           /\ call[t].at = "entered" => call[t].fd = NoFd
           /\ state[call[t].h] = "file" /\ fh[call[t].h] # NoFd /\ UNCHANGED <<fh, state>>
           /\ TypeInv'
<1>1. call[t] \in Recs /\ Consistent(call[t])
  BY DEF OwnBase, TypeInv, CallInv
<1>2. /\ call[t].op = "flush" /\ call[t].at \in {"entered", "dup"} /\ call[t].h \in Handles
      /\ call[t].at = "entered" => call[t].fd = NoFd
  BY <1>1 DEF Consistent, FlushDup, FlushClose, Running, HandleOps, OnFile
<1>3. state[call[t].h] = "file"
  BY <1>2 DEF OwnBase, OwnInv, UseInv, Fits, OnFile
<1>4. fh[call[t].h] # NoFd
  BY <1>2, <1>3 DEF OwnBase, OwnInv, FhInv
<1>5. TypeInv'
  BY DescriptorTypes DEF OwnBase
<1>6. QED
  BY <1>1, <1>2, <1>3, <1>4, <1>5 DEF FlushDup, FlushClose, kernelVars

\* UseInv is kept by a step of a flush.
LEMMA FlushUse ==
    ASSUME OwnBase, NEW t \in Workers, FlushDup(t) \/ FlushClose(t),
           NEW c \in Recs, call' = [call EXCEPT ![t] = c], c.op = call[t].op, c.h = call[t].h
    PROVE  UseInv'
<1>0. call \in [Workers -> Recs]
  BY DEF OwnBase, TypeInv, CallInv
<1>1. call'[t] = c /\ \A u \in Workers \ {t} : call'[u] = call[u]
  BY <1>0
<1>2. Fits(c, state[c.h], fh[c.h])
  BY FlushFacts DEF Fits, Opening, Closing, OnFile
<1>3. ASSUME NEW u \in Workers, call'[u].h \in Handles
      PROVE  Fits(call'[u], state'[call'[u].h], fh'[call'[u].h])
  BY <1>1, <1>2, <1>3, FlushFacts DEF OwnBase, OwnInv, UseInv
<1>4. \A u \in Workers : call'[u].h = call[u].h /\ call'[u].op = call[u].op
  BY <1>1
<1>5. (\A u \in Workers : call[u].h \in Handles => Fits(call[u], state[call[u].h], fh[call[u].h]))'
  BY <1>3 DEF Fits
<1>6. QED
  BY <1>4, <1>5 DEF OwnBase, OwnInv, UseInv

\* dup takes one that is free; a failed one leaves the handle's own in place.
LEMMA OwnDup == ASSUME OwnBase, NEW t \in Workers, FlushDup(t) PROVE OwnInv'
<1>0. /\ call \in [Workers -> Recs] /\ fds \in [Fds -> Handles \cup {"socket", "free"}]
      /\ fh \in [Handles -> Fds \cup {NoFd}]
      /\ NoFd \notin Fds /\ "free" \notin Handles
  BY FuseOpsAssumption DEF OwnBase, TypeInv, CallInv, Rest, Fds, NoFd
<1>1. call[t].at = "entered" /\ call[t].fd = NoFd /\ call[t].h \in Handles /\ call[t] \in Recs
  BY FlushFacts DEF FlushDup, Running
<1> DEFINE h == call[t].h
<1>2. CASE Free = {}
  <2> DEFINE c == [call[t] EXCEPT !.at = "dup"]
  <2>1. call' = [call EXCEPT ![t] = c] /\ UNCHANGED <<fds, fh, state>>
    BY <1>0, <1>2, FlushFacts DEF FlushDup
  <2>2. c \in Recs /\ c.op = call[t].op /\ c.h = h /\ c.fd = NoFd /\ c.at = "dup"
    BY <1>1 DEF Recs
  <2> HIDE DEF c
  <2>3. call'[t] = c /\ \A u \in Workers \ {t} : call'[u] = call[u]
    BY <1>0, <2>1
  <2>4. UseInv'
    BY <2>1, <2>2, FlushUse
  <2>5. FhInv'
    BY <2>1 DEF OwnBase, OwnInv, FhInv
  <2>6. DupInv'
    BY <2>1, <2>2, <2>3 DEF OwnBase, OwnInv, DupInv
  <2>7. KnownInv'
    BY <1>0, <1>1, <2>1, <2>3 DEF OwnBase, OwnInv, KnownInv
  <2>8. QED
    BY <2>4, <2>5, <2>6, <2>7 DEF OwnInv
<1>3. CASE Free # {}
  <2>1. PICK d \in Fds : d = Lowest /\ fds[d] = "free"
    BY <1>3, LowestFree DEF Free
  <2> DEFINE c == [call[t] EXCEPT !.at = "dup", !.fd = d]
  <2>2. /\ call' = [call EXCEPT ![t] = c] /\ fds' = [fds EXCEPT ![d] = h]
        /\ UNCHANGED <<fh, state>>
    BY <1>0, <1>3, <2>1, FlushFacts DEF FlushDup
  <2>3. c \in Recs /\ c.op = call[t].op /\ c.h = h /\ c.fd = d /\ c.at = "dup"
    BY <1>1 DEF Recs
  <2> HIDE DEF c
  <2>4. /\ call'[t] = c /\ \A u \in Workers \ {t} : call'[u] = call[u]
        /\ fds'[d] = h /\ \A e \in Fds \ {d} : fds'[e] = fds[e]
    BY <1>0, <2>2
  <2>5. \A g \in Handles : fh[g] # d
    BY <1>0, <2>1 DEF OwnBase, OwnInv, FhInv
  <2>6. UseInv'
    BY <2>2, <2>3, FlushUse
  <2>7. FhInv'
    BY <1>0, <2>2, <2>4, <2>5 DEF OwnBase, OwnInv, FhInv
  <2>8. DupInv'
    <3>1. ASSUME NEW u \in Workers \ {t}, call[u].at = "dup", call[u].fd # NoFd
          PROVE  /\ call[u].fd \in Fds /\ call[u].h \in Handles
                 /\ call[u].fd # d /\ fds[call[u].fd] = call[u].h /\ fh[call[u].h] # call[u].fd
      <4>1. Consistent(call[u]) /\ call[u] \in Recs
        BY DEF OwnBase, TypeInv, CallInv
      <4>2. call[u].fd \in Fds /\ call[u].h \in Handles
        BY <3>1, <4>1 DEF Consistent, HandleOps, OnFile, Recs
      <4>3. QED
        BY <1>0, <2>1, <3>1, <4>2 DEF OwnBase, OwnInv, DupInv
    <3>2. \A u \in Workers : call'[u].at = "dup" /\ call'[u].fd # NoFd
            => fds'[call'[u].fd] = call'[u].h /\ fh'[call'[u].h] # call'[u].fd
      BY <1>1, <2>2, <2>3, <2>4, <2>5, <3>1
    <3>3. \A u, v \in Workers : u # v /\ call'[u].at = "dup" /\ call'[v].at = "dup"
                                 /\ call'[u].fd # NoFd => call'[u].fd # call'[v].fd
      <4>1. SUFFICES ASSUME NEW u \in Workers, NEW v \in Workers, u # v, call'[u].at = "dup",
                            call'[v].at = "dup", call'[u].fd # NoFd, call'[u].fd = call'[v].fd
                     PROVE  FALSE
        OBVIOUS
      <4>2. CASE u = t
        BY <2>3, <2>4, <3>1, <4>1, <4>2
      <4>3. CASE v = t
        BY <2>3, <2>4, <3>1, <4>1, <4>3
      <4>4. CASE u # t /\ v # t
        BY <2>4, <4>1, <4>4 DEF OwnBase, OwnInv, DupInv
      <4>5. QED
        BY <4>2, <4>3, <4>4
    <3>4. QED
      BY <3>2, <3>3 DEF DupInv
  <2>9. KnownInv'
    <3>1. ASSUME NEW e \in Fds, fds'[e] \in Handles
          PROVE  fh'[fds'[e]] = e \/ \E u \in Workers : call'[u].at = "dup" /\ call'[u].fd = e
      <4>1. CASE e = d
        BY <2>3, <2>4, <4>1
      <4>2. CASE e # d
        BY <1>1, <2>2, <2>4, <3>1, <4>2 DEF OwnBase, OwnInv, KnownInv
      <4>3. QED
        BY <4>1, <4>2
    <3>2. QED
      BY <3>1 DEF KnownInv
  <2>10. QED
    BY <2>6, <2>7, <2>8, <2>9 DEF OwnInv
<1>4. QED
  BY <1>2, <1>3

\* Only the duplicate is closed by a flush.
LEMMA OwnClose == ASSUME OwnBase, NEW t \in Workers, FlushClose(t) PROVE OwnInv'
<1>0. /\ call \in [Workers -> Recs] /\ fds \in [Fds -> Handles \cup {"socket", "free"}]
      /\ fh \in [Handles -> Fds \cup {NoFd}]
      /\ NoFd \notin Fds /\ "free" \notin Handles
  BY FuseOpsAssumption DEF OwnBase, TypeInv, CallInv, Rest, Fds, NoFd
<1>1. call[t].at = "dup" /\ call[t].h \in Handles /\ call[t] \in Recs /\ UNCHANGED <<fh, state>>
  BY FlushFacts DEF FlushClose
<1>2. PICK fault, result, n, size : fault \in {"ok", "EBADF", "EIO"} /\ Return(t, fault, result, n, size)
  BY DEF FlushClose, Fail, Succeed, OK
<1>3. PICK c \in Recs :
             /\ call' = [call EXCEPT ![t] = c] /\ c.op = call[t].op /\ c.h = call[t].h
             /\ c.at = "returned"
  BY <1>2, FlushFacts, FailShape DEF Errs, Errors, OK
<1>4. call'[t] = c /\ \A u \in Workers \ {t} : call'[u] = call[u]
  BY <1>0, <1>3
<1>5. UseInv'
  BY <1>3, FlushUse
<1>6. CASE call[t].fd = NoFd
  <2>1. UNCHANGED fds
    BY <1>6 DEF FlushClose
  <2>2. FhInv'
    BY <1>1, <2>1 DEF OwnBase, OwnInv, FhInv
  <2>3. DupInv'
    BY <1>1, <1>3, <1>4, <2>1 DEF OwnBase, OwnInv, DupInv
  <2>4. KnownInv'
    BY <1>0, <1>1, <1>4, <1>6, <2>1 DEF OwnBase, OwnInv, KnownInv
  <2>5. QED
    BY <1>5, <2>2, <2>3, <2>4 DEF OwnInv
<1>7. CASE call[t].fd # NoFd
  <2>1. PICK d \in Fds : d = call[t].fd /\ fds' = [fds EXCEPT ![d] = "free"]
    BY <1>1, <1>7 DEF FlushClose, Recs
  <2>2. /\ fds[d] = call[t].h /\ fh[call[t].h] # d
        /\ \A u \in Workers \ {t} : call[u].at = "dup" => call[u].fd # d
    BY <1>1, <1>7, <2>1 DEF OwnBase, OwnInv, DupInv
  <2>3. fds'[d] = "free" /\ \A e \in Fds \ {d} : fds'[e] = fds[e]
    BY <1>0, <2>1
  <2>4. \A g \in Handles : fh[g] # d
    BY <1>7, <2>1, <2>2 DEF OwnBase, OwnInv, FhInv
  <2>5. FhInv'
    BY <1>0, <1>1, <2>3, <2>4 DEF OwnBase, OwnInv, FhInv
  <2>6. DupInv'
    <3>1. ASSUME NEW u \in Workers, call'[u].at = "dup"
          PROVE  u # t /\ call'[u] = call[u] /\ call[u].fd # d /\ call[u].fd \in Fds \cup {NoFd}
      BY <1>0, <1>3, <1>4, <2>2, <3>1 DEF Recs
    <3>2. QED
      BY <1>1, <2>3, <3>1 DEF OwnBase, OwnInv, DupInv
  <2>7. KnownInv'
    <3>1. ASSUME NEW e \in Fds, fds'[e] \in Handles
          PROVE  fh'[fds'[e]] = e \/ \E u \in Workers : call'[u].at = "dup" /\ call'[u].fd = e
      <4>1. e # d /\ fds'[e] = fds[e]
        BY <1>0, <2>3, <3>1
      <4>2. QED
        BY <1>1, <1>4, <2>1, <3>1, <4>1 DEF OwnBase, OwnInv, KnownInv
    <3>2. QED
      BY <3>1 DEF KnownInv
  <2>8. QED
    BY <1>5, <2>5, <2>6, <2>7 DEF OwnInv
<1>8. QED
  BY <1>6, <1>7

\* A release gives back the handle's own descriptor, and nobody uses it then.
LEMMA OwnRelease == ASSUME OwnBase, NEW t \in Workers, Release(t) PROVE OwnInv'
<1>0. /\ call[t] \in Recs /\ call \in [Workers -> Recs]
      /\ fds \in [Fds -> Handles \cup {"socket", "free"}] /\ fh \in [Handles -> Fds \cup {NoFd}]
      /\ Consistent(call[t]) /\ NoFd \notin Fds /\ "free" \notin Handles
  BY FuseOpsAssumption DEF OwnBase, TypeInv, CallInv, Rest, Fds, NoFd
<1>1. /\ call[t].at = "entered" /\ call[t].op \in Closing /\ call[t].h \in Handles
      /\ UNCHANGED state
  BY <1>0 DEF Release, Running, Consistent, HandleOps, kernelVars
<1> DEFINE h == call[t].h
<1>2. /\ Fits(call[t], state[h], fh[h]) /\ state[h] = "closing" /\ fh[h] # NoFd
      /\ \A u \in Workers \ {t} : call[u].h # h
  BY <1>1 DEF Fits, OwnBase, OwnInv, UseInv
<1>3. TypeInv'
  BY DescriptorTypes DEF OwnBase
<1>4. PICK d \in Fds : d = fh[h] /\ fds[d] = h
  BY <1>0, <1>1, <1>2 DEF OwnBase, OwnInv, FhInv
<1>5. PICK c \in Recs :
             /\ call' = [call EXCEPT ![t] = c] /\ c.op = call[t].op /\ c.h = call[t].h
             /\ c.at = "returned"
  BY <1>3, FailShape DEF Errs, Succeed, Release
<1>6. /\ call'[t] = c /\ \A u \in Workers \ {t} : call'[u] = call[u]
      /\ fds'[d] = "free" /\ \A e \in Fds \ {d} : fds'[e] = fds[e]
      /\ fh'[h] = NoFd /\ \A g \in Handles \ {h} : fh'[g] = fh[g]
  BY <1>0, <1>1, <1>4, <1>5 DEF Release
<1> HIDE DEF h
<1>7. FhInv'
  <2>1. \A g \in Handles \ {h} : fh[g] # d
    BY <1>0, <1>4 DEF OwnBase, OwnInv, FhInv
  <2>2. ASSUME NEW g \in Handles
        PROVE  /\ state'[g] \in {"file", "dir"} => fh'[g] # NoFd
               /\ state'[g] = "none" => fh'[g] = NoFd
               /\ fh'[g] # NoFd => fds'[fh'[g]] = g
    <3>1. CASE g = h
      BY <1>1, <1>2, <1>6, <3>1
    <3>2. CASE g # h
      BY <1>0, <1>1, <1>6, <2>1, <3>2 DEF OwnBase, OwnInv, FhInv
    <3>3. QED
      BY <3>1, <3>2
  <2>3. QED
    BY <2>2 DEF FhInv
<1>8. UseInv'
  <2>1. Fits(c, state[h], NoFd)
    BY <1>1, <1>2, <1>5 DEF Fits, Opening, Closing, OnFile, Transfer, ZeroCopy
  <2>2. ASSUME NEW u \in Workers, call'[u].h \in Handles
        PROVE  Fits(call'[u], state'[call'[u].h], fh'[call'[u].h])
    <3>1. CASE u = t
      BY <1>1, <1>5, <1>6, <2>1, <3>1 DEF h
    <3>2. CASE u # t
      BY <1>1, <1>2, <1>6, <2>2, <3>2 DEF OwnBase, OwnInv, UseInv
    <3>3. QED
      BY <3>1, <3>2
  <2>3. \A u \in Workers : call'[u].h = call[u].h /\ call'[u].op = call[u].op
    BY <1>5, <1>6
  <2>4. (\A u \in Workers : call[u].h \in Handles => Fits(call[u], state[call[u].h], fh[call[u].h]))'
    BY <2>2 DEF Fits
  <2>5. QED
    BY <2>3, <2>4 DEF OwnBase, OwnInv, UseInv
<1>9. DupInv'
  <2>1. ASSUME NEW u \in Workers, call'[u].at = "dup"
        PROVE  /\ u # t /\ call'[u] = call[u]
               /\ call[u].fd # NoFd => call[u].fd # d /\ call[u].fd \in Fds /\ call[u].h \in Handles \ {h}
    <3>1. u # t /\ call'[u] = call[u]
      BY <1>5, <1>6, <2>1
    <3>2. Consistent(call[u]) /\ call[u] \in Recs
      BY DEF OwnBase, TypeInv, CallInv
    <3>3. call[u].fd \in Fds \cup {NoFd} /\ call[u].h \in Handles /\ call[u].h # h
      BY <1>2, <2>1, <3>1, <3>2 DEF Consistent, HandleOps, OnFile, Recs
    <3>4. QED
      BY <1>4, <2>1, <3>1, <3>3 DEF OwnBase, OwnInv, DupInv
  <2>2. QED
    BY <1>6, <2>1 DEF OwnBase, OwnInv, DupInv
<1>10. KnownInv'
  <2>1. ASSUME NEW e \in Fds, fds'[e] \in Handles
        PROVE  fh'[fds'[e]] = e \/ \E u \in Workers : call'[u].at = "dup" /\ call'[u].fd = e
    <3>1. e # d /\ fds'[e] = fds[e]
      BY <1>0, <1>6, <2>1
    <3>2. fh[fds[e]] = e \/ \E u \in Workers : call[u].at = "dup" /\ call[u].fd = e
      BY <2>1, <3>1 DEF OwnBase, OwnInv, KnownInv
    <3>3. CASE fh[fds[e]] = e
      BY <1>4, <1>6, <2>1, <3>1, <3>3
    <3>4. ASSUME NEW u \in Workers, call[u].at = "dup", call[u].fd = e
          PROVE  call'[u].at = "dup" /\ call'[u].fd = e
      BY <1>1, <1>6, <3>4
    <3>5. QED
      BY <3>2, <3>3, <3>4
  <2>2. QED
    BY <2>1 DEF KnownInv
<1>11. QED
  BY <1>7, <1>8, <1>9, <1>10 DEF OwnInv

\* A handle becomes open, or free again, with the answer.
LEMMA OwnReply == ASSUME OwnBase, NEW t \in Workers, Reply(t) PROVE OwnInv'
<1>0. /\ call[t] \in Recs /\ call \in [Workers -> Recs] /\ fh \in [Handles -> Fds \cup {NoFd}]
      /\ state \in [Handles -> {"none", "opening", "file", "dir", "closing"}]
      /\ fds \in [Fds -> Handles \cup {"socket", "free"}]
      /\ Consistent(call[t]) /\ None \notin Handles
  BY FuseOpsAssumption DEF OwnBase, TypeInv, CallInv, Rest, None
<1>1. /\ call[t].at = "reply" /\ UNCHANGED <<fds, fh>>
      /\ call' = [call EXCEPT ![t] = Idle]
      /\ state' = IF call[t].op \in Opening
                  THEN [state EXCEPT ![call[t].h] = IF call[t].result # OK THEN "none"
                                     ELSE IF call[t].op = "opendir" THEN "dir" ELSE "file"]
                  ELSE IF call[t].op \in Closing THEN [state EXCEPT ![call[t].h] = "none"] ELSE state
  BY DEF Reply, logVars
<1>2. call'[t] = Idle /\ \A u \in Workers \ {t} : call'[u] = call[u]
  BY <1>0, <1>1
<1>3. call[t].result = OK <=> call[t].fault = OK
  BY <1>1 DEF OwnBase, ErrorInv
<1>4. DupInv'
  BY <1>1, <1>2 DEF OwnBase, OwnInv, DupInv, Idle
<1>5. KnownInv'
  BY <1>0, <1>1, <1>2 DEF OwnBase, OwnInv, KnownInv
<1>6. CASE call[t].op \in Opening \cup Closing
  <2> DEFINE h == call[t].h
  <2>1. h \in Handles
    BY <1>0, <1>1, <1>6 DEF Consistent, HandleOps
  <2>2. Fits(call[t], state[h], fh[h]) /\ \A u \in Workers \ {t} : call[u].h # h
    BY <1>6, <2>1 DEF OwnBase, OwnInv, UseInv
  <2>3. /\ state'[h] \in {"none", "file", "dir"}
        /\ \A g \in Handles \ {h} : state'[g] = state[g]
        /\ state'[h] = "none" <=> fh[h] = NoFd
    BY <1>0, <1>1, <1>3, <1>6, <2>1, <2>2 DEF Fits
  <2>4. FhInv'
    <3>1. ASSUME NEW g \in Handles
          PROVE  /\ state'[g] \in {"file", "dir"} => fh[g] # NoFd
                 /\ state'[g] = "none" => fh[g] = NoFd
      BY <2>3 DEF OwnBase, OwnInv, FhInv
    <3>2. QED
      BY <1>1, <3>1 DEF OwnBase, OwnInv, FhInv
  <2>5. UseInv'
    <3>1. ASSUME NEW u \in Workers, call'[u].h \in Handles
          PROVE  u # t /\ Fits(call'[u], state'[call'[u].h], fh'[call'[u].h])
      <4>1. u # t /\ call'[u] = call[u]
        BY <1>0, <1>2, <3>1 DEF Idle
      <4>2. state'[call[u].h] = state[call[u].h]
        BY <2>2, <2>3, <3>1, <4>1
      <4>3. QED
        BY <1>1, <3>1, <4>1, <4>2 DEF OwnBase, OwnInv, UseInv
    <3>2. (\A u \in Workers : call[u].h \in Handles => Fits(call[u], state[call[u].h], fh[call[u].h]))'
      BY <3>1 DEF Fits
    <3>3. ASSUME NEW u \in Workers, NEW v \in Workers, u # v, call'[u].h \in Handles,
                 call'[v].h = call'[u].h
          PROVE  call'[u].op \notin Opening \cup Closing
      BY <1>2, <3>1, <3>3 DEF OwnBase, OwnInv, UseInv
    <3>4. QED
      BY <3>2, <3>3 DEF UseInv
  <2>6. QED
    BY <1>4, <1>5, <2>4, <2>5 DEF OwnInv
<1>7. CASE call[t].op \notin Opening \cup Closing
  <2>1. state' = state
    BY <1>1, <1>7
  <2>2. FhInv'
    BY <1>1, <2>1 DEF OwnBase, OwnInv, FhInv
  <2>3. ASSUME NEW u \in Workers, call'[u].h \in Handles
        PROVE  u # t /\ call'[u] = call[u] /\ Fits(call'[u], state'[call'[u].h], fh'[call'[u].h])
    BY <1>0, <1>1, <1>2, <2>1, <2>3 DEF Idle, OwnBase, OwnInv, UseInv
  <2>4. (\A u \in Workers : call[u].h \in Handles => Fits(call[u], state[call[u].h], fh[call[u].h]))'
    BY <2>3 DEF Fits
  <2>5. ASSUME NEW u \in Workers, NEW v \in Workers, u # v, call'[u].h \in Handles,
               call'[v].h = call'[u].h
        PROVE  call'[u].op \notin Opening \cup Closing
    BY <2>3, <2>5 DEF OwnBase, OwnInv, UseInv
  <2>6. UseInv'
    BY <2>4, <2>5 DEF UseInv
  <2>7. QED
    BY <1>4, <1>5, <2>2, <2>6 DEF OwnInv
<1>8. QED
  BY <1>6, <1>7

\* The HTTP server takes and gives back descriptors of its own only.
LEMMA OwnOther ==
    ASSUME OwnBase,
           \/ \E h \in Handles : Share(h)
           \/ Accept \/ (\E d \in Fds : Hangup(d)) \/ ChangeLength \/ UNCHANGED vars
    PROVE  OwnInv'
<1>0. /\ call \in [Workers -> Recs] /\ fds \in [Fds -> Handles \cup {"socket", "free"}]
      /\ fh \in [Handles -> Fds \cup {NoFd}]
      /\ NoFd \notin Fds /\ "free" \notin Handles /\ "socket" \notin Handles
      /\ \A t \in Workers : Consistent(call[t])
  BY FuseOpsAssumption DEF OwnBase, TypeInv, CallInv, Rest, Fds, NoFd
<1>1. UNCHANGED <<call, fh, state>>
  BY DEF Share, Accept, Hangup, ChangeLength, vars, kernelVars
<1>2. UseInv'
  BY <1>1 DEF OwnBase, OwnInv, UseInv, Fits
<1>3. CASE UNCHANGED fds
  BY <1>1, <1>2, <1>3 DEF OwnBase, OwnInv, FhInv, DupInv, KnownInv
<1>4. ASSUME NEW d \in Fds, NEW x \in {"socket", "free"}, fds[d] \notin Handles,
             fds' = [fds EXCEPT ![d] = x]
      PROVE  OwnInv'
  <2>1. fds'[d] = x /\ \A e \in Fds \ {d} : fds'[e] = fds[e]
    BY <1>0, <1>4
  <2>2. FhInv'
    <3>1. \A g \in Handles : fh[g] # d
      BY <1>0, <1>4 DEF OwnBase, OwnInv, FhInv
    <3>2. QED
      BY <1>0, <1>1, <2>1, <3>1 DEF OwnBase, OwnInv, FhInv
  <2>3. DupInv'
    <3>1. ASSUME NEW u \in Workers, call[u].at = "dup", call[u].fd # NoFd
          PROVE  call[u].fd \in Fds \ {d}
      <4>1. call[u].fd \in Fds /\ call[u].h \in Handles
        BY <1>0, <3>1 DEF Consistent, HandleOps, OnFile, Recs
      <4>2. QED
        BY <1>4, <3>1, <4>1 DEF OwnBase, OwnInv, DupInv
    <3>2. QED
      BY <1>1, <2>1, <3>1 DEF OwnBase, OwnInv, DupInv
  <2>4. KnownInv'
    BY <1>0, <1>1, <2>1 DEF OwnBase, OwnInv, KnownInv
  <2>5. QED
    BY <1>2, <2>2, <2>3, <2>4 DEF OwnInv
<1>5. CASE Accept
  <2>1. Lowest \in Fds /\ fds[Lowest] = "free"
    BY <1>5, LowestFree DEF Accept, Free
  <2>2. QED
    BY <1>0, <1>4, <1>5, <2>1 DEF Accept
<1>6. ASSUME NEW d \in Fds, Hangup(d) PROVE OwnInv'
  BY <1>0, <1>4, <1>6 DEF Hangup
<1>7. CASE (\E h \in Handles : Share(h)) \/ ChangeLength \/ UNCHANGED vars
  BY <1>3, <1>7 DEF Share, ChangeLength, vars
<1>8. QED
  BY <1>5, <1>6, <1>7

\* Every step keeps the descriptors in order.
LEMMA OwnStep == OwnBase /\ [Next]_vars => OwnBase'
<1> SUFFICES ASSUME OwnBase, [Next]_vars PROVE OwnBase'
  OBVIOUS
<1>1. (TypeInv /\ ErrorInv)'
  BY TypeStep, ErrorStep DEF OwnBase
<1>2. ASSUME NEW t \in Workers, Request(t) PROVE OwnInv'
  BY <1>2, OwnRequest
<1>3. ASSUME NEW t \in Workers, Handler(t) PROVE OwnInv'
  BY <1>3, OwnCall, OwnOpen, OwnDup, OwnClose, OwnRelease, OwnRecord, OwnReply DEF Handler
<1>4. QED
  BY <1>1, <1>2, <1>3, OwnOther DEF Next, OwnBase

\* They are in order always.
LEMMA OwnAlways == Spec => []OwnBase
<1>1. Init => OwnBase
  <2>1. Init => TypeInv /\ ErrorInv
    BY TypeInit DEF Init, ErrorInv, Idle
  <2>2. Init => OwnInv
    BY FuseOpsAssumption DEF Init, OwnInv, FhInv, UseInv, DupInv, KnownInv, Idle, None
  <2>3. QED
    BY <2>1, <2>2 DEF OwnBase
<1>2. QED
  BY <1>1, OwnStep, PTL DEF Spec

\* The descriptor of an open handle is its own until the release, whatever workers and
\* the HTTP server open and close meanwhile (iofs.cc:224-330, 392-419).
THEOREM DescriptorsAreOwned == Spec => []HandleOwnsDescriptor
<1>1. OwnBase => HandleOwnsDescriptor
  <2> SUFFICES ASSUME OwnBase, NEW h \in Handles, state[h] \in {"file", "dir"}
               PROVE  fh[h] \in Fds /\ fds[fh[h]] = h
    BY DEF HandleOwnsDescriptor
  <2>1. QED
    BY DEF OwnBase, OwnInv, FhInv, TypeInv, Rest
<1>2. QED
  BY <1>1, OwnAlways, PTL

\* Every descriptor that refers to a handle is the handle's own, or that of a flush
\* under way (iofs.cc:392-419).
THEOREM NothingIsLeaked == Spec => []NoDescriptorLeak
<1>1. OwnBase => NoDescriptorLeak
  <2> SUFFICES ASSUME OwnBase, NEW d \in Fds, fds[d] \in Handles
               PROVE  \/ fh[fds[d]] = d /\ state[fds[d]] # "none"
                      \/ \E t \in Workers : call[t].at = "dup" /\ call[t].fd = d
    BY DEF NoDescriptorLeak
  <2>1. NoFd \notin Fds
    BY FuseOpsAssumption DEF Fds, NoFd
  <2>2. QED
    BY <2>1 DEF OwnBase, OwnInv, FhInv, KnownInv
<1>2. QED
  BY <1>1, OwnAlways, PTL
-----------------------------------------------------------------------------
(* The sizes of zero-copy handlers. *)

\* A handler with zero copy reports something if it is to be seen; with the requested
\* size it reports what was asked for, and moves no more.
CoverInv ==
    \A t \in Workers : call[t].op \in ZeroCopy =>
        /\ call[t].op \in Watched => call[t].size > 0
        /\ ReportMode = "OVER" => call[t].size = call[t].want /\ call[t].n <= call[t].want

\* The size of a handler with zero copy stays what it was when it was entered.
LEMMA CoverStep == TypeInv /\ CoverInv /\ [Next]_vars => CoverInv'
<1> SUFFICES ASSUME TypeInv, CoverInv, [Next]_vars PROVE CoverInv'
  OBVIOUS
<1> DEFINE Covered(c) == /\ c.op \in Watched => c.size > 0
                         /\ ReportMode = "OVER" => c.size = c.want /\ c.n <= c.want
<1>0. call \in [Workers -> Recs] /\ \A t \in Workers : Consistent(call[t]) /\ call[t] \in Recs
  BY DEF TypeInv, CallInv
<1>1. ASSUME NEW t \in Workers, NEW c, call' = [call EXCEPT ![t] = c],
             c.op \in ZeroCopy => Covered(c)
      PROVE  CoverInv'
  BY <1>0, <1>1 DEF CoverInv, Watched
<1>2. ASSUME NEW t \in Workers, Request(t) PROVE CoverInv'
  <2>1. PICK op, h, off, want : Enter(t, op, h, off, want) /\ (op \in ZeroCopy => want \in Nat \ {0})
    <3>1. ASSUME NEW h \in Handles, RequestFile(t, h)
          PROVE  \E op, off, want : Enter(t, op, h, off, want) /\ (op \in ZeroCopy => want \in Nat \ {0})
      BY <3>1, FuseOpsAssumption DEF RequestFile, ZeroCopy
    <3>2. /\ \A op \in Opening \cup Closing \cup {"readdir"} : op \notin ZeroCopy
          /\ \A op \in (Ops \cap Simple) \ OnFile : op \notin ZeroCopy
      BY DEF Opening, Closing, ZeroCopy, OnFile
    <3>3. QED
      BY <1>2, <3>1, <3>2 DEF Request, RequestPath, RequestOpen, RequestDir, RequestRelease, Closing
  <2>2. PICK size \in InitSize(op, off, want) : call' = [call EXCEPT ![t] =
                     [at |-> "entered", op |-> op, h |-> h, off |-> off, want |-> want,
                      size |-> size, fd |-> NoFd, fault |-> OK, result |-> OK, n |-> 0]]
    BY <2>1 DEF Enter
  <2>3. op \in ZeroCopy => /\ op \in Watched => size \in {1, want}
                           /\ ReportMode = "OVER" => size = want
    BY <2>2, FuseOpsAssumption DEF InitSize, Transfer, ZeroCopy, Watched
  <2>4. PICK c : /\ call' = [call EXCEPT ![t] = c]
                 /\ c = [at |-> "entered", op |-> op, h |-> h, off |-> off, want |-> want,
                         size |-> size, fd |-> NoFd, fault |-> OK, result |-> OK, n |-> 0]
    BY <2>2, Zenon
  <2>5. c.op \in ZeroCopy => Covered(c)
    <3>1. c.op = op /\ c.size = size /\ c.want = want /\ c.n = 0
      BY <2>4
    <3>2. ASSUME op \in ZeroCopy
          PROVE  want \in Nat \ {0} /\ (op \in Watched => size \in {1, want})
      BY <2>1, <2>3, <3>2
    <3>3. ASSUME op \in ZeroCopy, op \in Watched PROVE size > 0
      BY <3>2, <3>3
    <3>4. ASSUME op \in ZeroCopy, ReportMode = "OVER" PROVE size = want /\ 0 <= want
      BY <2>3, <3>2, <3>4
    <3>5. QED
      BY <3>1, <3>3, <3>4
  <2>6. QED
    BY <1>1, <2>4, <2>5
<1>3. ASSUME NEW t \in Workers, NEW fault, NEW result, NEW n, NEW size,
             Return(t, fault, result, n, size),
             call[t].op \in ZeroCopy => size = call[t].size /\ n <= call[t].want
      PROVE  CoverInv'
  <2>1. PICK c : /\ call' = [call EXCEPT ![t] = c]
                 /\ c = [call[t] EXCEPT !.at = "returned", !.fault = fault,
                                        !.result = result, !.n = n, !.size = size]
    BY <1>3 DEF Return
  <2>2. c.op = call[t].op /\ c.want = call[t].want /\ c.n = n /\ c.size = size
    BY <1>0, <2>1 DEF Recs
  <2>3. QED
    BY <1>1, <1>3, <2>1, <2>2 DEF CoverInv
<1>4. ASSUME NEW t \in Workers,
             \/ SystemCall(t) \/ Readdir(t) \/ Read(t) \/ Write(t) \/ ReadBuf(t) \/ Fallocate(t)
      PROVE  CoverInv'
  <2>1. CASE Write(t)
    <3>1. CASE Fail(t, "EIO")
      <4>1. call[t].want \in Nat
        BY <1>0, FuseOpsAssumption DEF Recs
      <4>2. QED
        BY <1>3, <3>1, <4>1 DEF Fail
    <3>2. ASSUME NEW n \in 1..call[t].want,
                 Return(t, OK, OK, n, IF call[t].op = "write" THEN n ELSE call[t].size)
          PROVE  CoverInv'
      <4>1. n <= call[t].want
        OBVIOUS
      <4>2. QED
        BY <1>3, <3>2, <4>1 DEF ZeroCopy
    <3>3. QED
      BY <2>1, <3>1, <3>2 DEF Write
  <2>2. CASE ReadBuf(t)
    <3>1. call[t].want \in Nat
      BY <1>0, FuseOpsAssumption DEF Recs
    <3>2. QED
      BY <1>3, <2>2, <3>1 DEF ReadBuf, Fail, Succeed
  <2>3. CASE SystemCall(t) \/ Readdir(t) \/ Read(t) \/ Fallocate(t)
    <3>1. call[t].op \notin ZeroCopy
      BY <2>3 DEF SystemCall, Readdir, Read, Fallocate, Running, Simple, ZeroCopy
    <3>2. PICK c \in Recs : call' = [call EXCEPT ![t] = c] /\ c.op = call[t].op
      BY <1>4, CallShape
    <3>3. QED
      BY <1>1, <3>1, <3>2
  <2>4. QED
    BY <1>4, <2>1, <2>2, <2>3
<1>5. ASSUME NEW t \in Workers, Open(t) \/ FlushDup(t) \/ FlushClose(t) \/ Release(t)
      PROVE  CoverInv'
  <2>1. PICK c \in Recs : call' = [call EXCEPT ![t] = c] /\ c.op = call[t].op
    BY <1>5, DescriptorShape
  <2>2. call[t].op \notin ZeroCopy
    BY <1>5, DescriptorShape DEF Opening, Closing, ZeroCopy
  <2>3. QED
    BY <1>1, <2>1, <2>2
<1>6. ASSUME NEW t \in Workers, Record(t) PROVE CoverInv'
  <2>1. PICK r \in Errs : call' = [call EXCEPT ![t] = [call[t] EXCEPT !.at = "reply", !.result = r]]
    BY <1>6, RecordFacts
  <2>2. PICK c : call' = [call EXCEPT ![t] = c] /\ c = [call[t] EXCEPT !.at = "reply", !.result = r]
    BY <2>1
  <2>3. c.op = call[t].op /\ c.want = call[t].want /\ c.n = call[t].n /\ c.size = call[t].size
    BY <1>0, <2>2 DEF Recs
  <2>4. QED
    BY <1>1, <2>2, <2>3 DEF CoverInv
<1>7. ASSUME NEW t \in Workers, Reply(t) PROVE CoverInv'
  <2>1. call' = [call EXCEPT ![t] = Idle] /\ Idle.op \notin ZeroCopy
    BY <1>7 DEF Reply, Idle, None, ZeroCopy
  <2>2. QED
    BY <1>1, <2>1
<1>8. CASE \/ \E h \in Handles : Share(h)
           \/ Accept \/ (\E d \in Fds : Hangup(d)) \/ ChangeLength \/ UNCHANGED vars
  <2>1. call' = call
    BY <1>8 DEF Share, Accept, Hangup, ChangeLength, vars
  <2>2. QED
    BY <2>1 DEF CoverInv, Watched
<1>9. QED
  BY <1>2, <1>4, <1>5, <1>6, <1>7, <1>8 DEF Next, Handler
-----------------------------------------------------------------------------
(* Recording. *)

\* A call that a plugin is meant to see, as the size of its timer tells it.
Sees(c) == (c.op \in Transfer => c.n > 0) /\ c.fault # "EOPNOTSUPP"
\* The handlers of an operation whose call the plugins saw and that are to answer.
Waiting(op) == {t \in Workers : call[t].at = "reply" /\ call[t].op = op /\ Sees(call[t])}

\* What the plugins were given are the calls answered and those about to be.
CountInv ==
    \A op \in Watched :
        log[op] \in Nat /\ due[op] \in Nat /\ log[op] = due[op] + Cardinality(Waiting(op))

\* A step that neither reaches nor leaves the answer of a call that is to be seen.
LEMMA CountKept ==
    ASSUME CountInv, UNCHANGED <<log, due>>, NEW t \in Workers, NEW c,
           call \in [Workers -> Recs], call' = [call EXCEPT ![t] = c],
           call[t].at # "reply", c.at # "reply" \/ c.fault = "EOPNOTSUPP"
    PROVE  CountInv'
<1>1. call'[t] = c /\ \A u \in Workers \ {t} : call'[u] = call[u]
  OBVIOUS
<1>2. ASSUME NEW op \in Ops PROVE Waiting(op)' = Waiting(op)
  <2>1. \A u \in Workers : u \in Waiting(op)' <=> u \in Waiting(op)
    BY <1>1 DEF Waiting, Sees
  <2>2. QED
    BY <2>1 DEF Waiting
<1>3. Watched \subseteq Ops
  BY DEF Watched
<1>4. ASSUME NEW op \in Watched
      PROVE  /\ log'[op] \in Nat /\ due'[op] \in Nat
             /\ log'[op] = due'[op] + Cardinality(Waiting(op)')
  BY <1>2, <1>3 DEF CountInv
<1>5. QED
  BY <1>4 DEF CountInv, Watched

\* A call is recorded when its timer goes, and answered after that.
LEMMA CountStep == TypeInv /\ CoverInv /\ CountInv /\ [Next]_vars => CountInv'
<1> SUFFICES ASSUME TypeInv, CoverInv, CountInv, [Next]_vars PROVE CountInv'
  OBVIOUS
<1> USE DEF Watched
<1>0. /\ call \in [Workers -> Recs] /\ log \in [Ops -> Nat] /\ due \in [Ops -> Nat]
      /\ \A op : IsFiniteSet(Waiting(op))
      /\ \A t \in Workers : Consistent(call[t]) /\ call[t] \in Recs
  <2>1. \A op : Waiting(op) \subseteq Workers
    BY DEF Waiting
  <2>2. QED
    BY <2>1, FS_Subset, FuseOpsAssumption DEF TypeInv, CallInv, Rest
<1>1. ASSUME NEW t \in Workers, Request(t) PROVE CountInv'
  <2>1. PICK op, h, off, want : Enter(t, op, h, off, want)
    BY <1>1 DEF Request, RequestPath, RequestOpen, RequestFile, RequestDir, RequestRelease
  <2>2. PICK size \in InitSize(op, off, want) : call' = [call EXCEPT ![t] =
                     [at |-> "entered", op |-> op, h |-> h, off |-> off, want |-> want,
                      size |-> size, fd |-> NoFd, fault |-> OK, result |-> OK, n |-> 0]]
    BY <2>1 DEF Enter
  <2>3. call[t].at = "idle" /\ UNCHANGED <<log, due>>
    BY <1>1 DEF Request, RequestPath, RequestOpen, RequestFile, RequestDir, RequestRelease, May
  <2>4. QED
    BY <1>0, <2>2, <2>3, CountKept
<1>2. ASSUME NEW t \in Workers,
             \/ SystemCall(t) \/ Readdir(t) \/ Read(t) \/ Write(t) \/ ReadBuf(t) \/ Fallocate(t)
      PROVE  CountInv'
  <2>1. PICK c \in Recs : /\ call' = [call EXCEPT ![t] = c]
                          /\ c.at = "returned" \/ c.fault = "EOPNOTSUPP"
    BY <1>2, CallShape
  <2>2. call[t].at = "entered" /\ UNCHANGED <<log, due>>
    BY <1>2, CallShape
  <2>3. QED
    BY <1>0, <2>1, <2>2, CountKept
<1>3. ASSUME NEW t \in Workers, Open(t) \/ FlushDup(t) \/ FlushClose(t) \/ Release(t)
      PROVE  CountInv'
  <2>1. PICK c \in Recs : call' = [call EXCEPT ![t] = c] /\ c.at \in {"dup", "returned"}
    BY <1>3, DescriptorShape
  <2>2. call[t].at \in {"entered", "dup"} /\ UNCHANGED <<log, due>>
    BY <1>3, DescriptorShape
       DEF Open, FlushDup, FlushClose, Release, logVars, historyVars
  <2>3. QED
    BY <1>0, <2>1, <2>2, CountKept
<1>4. ASSUME NEW t \in Workers, Record(t) PROVE CountInv'
  <2>1. PICK r \in Errs : call' = [call EXCEPT ![t] = [call[t] EXCEPT !.at = "reply", !.result = r]]
    BY <1>4, RecordFacts
  <2>2. /\ call'[t].at = "reply" /\ call'[t].op = call[t].op /\ call'[t].n = call[t].n
        /\ call'[t].fault = call[t].fault
        /\ \A u \in Workers \ {t} : call'[u] = call[u]
    BY <1>0, <2>1 DEF Recs
  <2>3. /\ call[t].at = "returned" /\ call[t].op \in Ops /\ UNCHANGED due
        /\ log' = IF call[t].size > 0 THEN [log EXCEPT ![call[t].op] = @ + 1] ELSE log
    BY <1>4, RecordFacts DEF Record, historyVars
  <2>4. call[t].op \in Watched => (Sees(call[t]) <=> call[t].size > 0)
    <3>1. CASE call[t].op \in ZeroCopy
      BY <1>0, <2>3, <3>1 DEF Consistent, Sees, CoverInv, Transfer, ZeroCopy
    <3>2. CASE call[t].op \notin ZeroCopy
      BY <1>0, <2>3, <3>2 DEF Consistent, Sees, Recs
    <3>3. QED
      BY <3>1, <3>2
  <2>5. ASSUME NEW op \in Watched
        PROVE  log'[op] \in Nat /\ due'[op] \in Nat /\ log'[op] = due'[op] + Cardinality(Waiting(op)')
    <3>1. CASE op = call[t].op /\ call[t].size > 0
      <4>1. Waiting(op)' = Waiting(op) \cup {t} /\ t \notin Waiting(op)
        <5>1. \A u \in Workers : u \in Waiting(op)' <=> u \in Waiting(op) \/ u = t
          BY <2>2, <2>3, <2>4, <3>1 DEF Waiting, Sees
        <5>2. QED
          BY <2>3, <5>1 DEF Waiting
      <4>2. Cardinality(Waiting(op)') = Cardinality(Waiting(op)) + 1
        BY <1>0, <4>1, FS_AddElement
      <4>3. Cardinality(Waiting(op)) \in Nat
        BY <1>0, FS_CardinalityType
      <4>4. log'[op] = log[op] + 1 /\ due'[op] = due[op]
        BY <1>0, <2>3, <3>1
      <4>5. QED
        BY <1>0, <4>2, <4>3, <4>4 DEF CountInv
    <3>2. CASE ~(op = call[t].op /\ call[t].size > 0)
      <4>1. Waiting(op)' = Waiting(op)
        <5>1. \A u \in Workers : u \in Waiting(op)' <=> u \in Waiting(op)
          BY <2>2, <2>3, <2>4, <3>2 DEF Waiting, Sees
        <5>2. QED
          BY <5>1 DEF Waiting
      <4>2. log'[op] = log[op] /\ due'[op] = due[op]
        BY <1>0, <2>3, <3>2
      <4>3. QED
        BY <4>1, <4>2 DEF CountInv
    <3>3. QED
      BY <3>1, <3>2
  <2>6. QED
    BY <2>5 DEF CountInv
<1>5. ASSUME NEW t \in Workers, Reply(t) PROVE CountInv'
  <2>1. /\ call[t].at = "reply" /\ call' = [call EXCEPT ![t] = Idle] /\ UNCHANGED log
        /\ due' = IF Sees(call[t]) THEN [due EXCEPT ![call[t].op] = @ + 1] ELSE due
    <3>1. call[t].at = "reply" /\ call' = [call EXCEPT ![t] = Idle] /\ UNCHANGED log
      BY <1>5 DEF Reply, logVars
    <3>2. CASE (call[t].op \in Transfer => call[t].n > 0) /\ call[t].fault # "EOPNOTSUPP"
      <4>1. due' = [due EXCEPT ![call[t].op] = @ + 1]
        BY <1>5, <3>2 DEF Reply, Transfer
      <4>2. QED
        BY <3>1, <3>2, <4>1 DEF Sees
    <3>3. CASE ~((call[t].op \in Transfer => call[t].n > 0) /\ call[t].fault # "EOPNOTSUPP")
      <4>1. due' = due
        BY <1>5, <3>3 DEF Reply, Transfer
      <4>2. QED
        BY <3>1, <3>3, <4>1 DEF Sees
    <3>4. QED
      BY <3>2, <3>3
  <2>2. call'[t].at = "idle" /\ \A u \in Workers \ {t} : call'[u] = call[u]
    BY <1>0, <2>1 DEF Idle
  <2>3. call[t].op \in Ops
    BY <1>0, <2>1 DEF Consistent
  <2>4. ASSUME NEW op \in Watched
        PROVE  log'[op] \in Nat /\ due'[op] \in Nat /\ log'[op] = due'[op] + Cardinality(Waiting(op)')
    <3>1. CASE t \in Waiting(op)
      <4>1. Waiting(op)' = Waiting(op) \ {t}
        <5>1. \A u \in Workers : u \in Waiting(op)' <=> u \in Waiting(op) /\ u # t
          BY <2>2 DEF Waiting, Sees
        <5>2. QED
          BY <5>1 DEF Waiting
      <4>2. Cardinality(Waiting(op)') = Cardinality(Waiting(op)) - 1
        BY <1>0, <3>1, <4>1, FS_RemoveElement
      <4>3. Cardinality(Waiting(op)) \in Nat
        BY <1>0, FS_CardinalityType
      <4>4. log'[op] = log[op] /\ due'[op] = due[op] + 1
        BY <1>0, <2>1, <2>3, <3>1 DEF Waiting
      <4>5. QED
        BY <1>0, <4>2, <4>3, <4>4 DEF CountInv
    <3>2. CASE t \notin Waiting(op)
      <4>1. Waiting(op)' = Waiting(op)
        <5>1. \A u \in Workers : u \in Waiting(op)' <=> u \in Waiting(op)
          BY <2>2, <3>2 DEF Waiting, Sees
        <5>2. QED
          BY <5>1 DEF Waiting
      <4>2. log'[op] = log[op] /\ due'[op] = due[op]
        BY <1>0, <2>1, <2>3, <3>2 DEF Waiting
      <4>3. QED
        BY <4>1, <4>2 DEF CountInv
    <3>3. QED
      BY <3>1, <3>2
  <2>5. QED
    BY <2>4 DEF CountInv
<1>6. CASE \/ \E h \in Handles : Share(h)
           \/ Accept \/ (\E d \in Fds : Hangup(d)) \/ ChangeLength \/ UNCHANGED vars
  <2>1. UNCHANGED <<call, log, due>>
    BY <1>6 DEF Share, Accept, Hangup, ChangeLength, vars, logVars, historyVars
  <2>2. QED
    BY <2>1 DEF CountInv, Waiting, Sees
<1>7. QED
  BY <1>1, <1>2, <1>3, <1>4, <1>5, <1>6 DEF Next, Handler

\* A call is answered or still in flight when it was asked for.
AskedInv ==
    \A op \in Ops : due[op] + Cardinality(InFlight(op)) <= asked[op]

\* A step within a handler leaves the calls in flight as they are.
LEMMA AskedKept ==
    ASSUME AskedInv, UNCHANGED <<asked, due>>, NEW t \in Workers, NEW c,
           call \in [Workers -> Recs], call' = [call EXCEPT ![t] = c],
           call[t].at # "idle", c.at # "idle", c.op = call[t].op
    PROVE  AskedInv'
<1>1. call'[t] = c /\ \A u \in Workers \ {t} : call'[u] = call[u]
  OBVIOUS
<1>2. ASSUME NEW op \in Ops PROVE InFlight(op)' = InFlight(op)
  <2>1. \A u \in Workers : u \in InFlight(op)' <=> u \in InFlight(op)
    BY <1>1 DEF InFlight
  <2>2. QED
    BY <2>1 DEF InFlight
<1>3. QED
  BY <1>2 DEF AskedInv

\* A request is one call more, an answer one less in flight.
LEMMA AskedStep == TypeInv /\ AskedInv /\ [Next]_vars => AskedInv'
<1> SUFFICES ASSUME TypeInv, AskedInv, [Next]_vars PROVE AskedInv'
  OBVIOUS
<1>0. /\ call \in [Workers -> Recs] /\ asked \in [Ops -> Nat] /\ due \in [Ops -> Nat]
      /\ \A op : IsFiniteSet(InFlight(op)) /\ Cardinality(InFlight(op)) \in Nat
      /\ \A t \in Workers : Consistent(call[t]) /\ call[t] \in Recs
  <2>1. \A op : InFlight(op) \subseteq Workers
    BY DEF InFlight
  <2>2. QED
    BY <2>1, FS_Subset, FS_CardinalityType, FuseOpsAssumption DEF TypeInv, CallInv, Rest
<1>1. ASSUME NEW t \in Workers, Request(t) PROVE AskedInv'
  <2>0. PICK op \in Ops : \E h, off, want : Enter(t, op, h, off, want)
    BY <1>1 DEF Request, RequestPath, RequestOpen, RequestFile, RequestDir, RequestRelease
  <2>1. PICK h, off, want : Enter(t, op, h, off, want)
    BY <2>0
  <2>2. PICK size \in InitSize(op, off, want) : call' = [call EXCEPT ![t] =
                     [at |-> "entered", op |-> op, h |-> h, off |-> off, want |-> want,
                      size |-> size, fd |-> NoFd, fault |-> OK, result |-> OK, n |-> 0]]
    BY <2>1 DEF Enter
  <2>3. /\ call[t].at = "idle" /\ due' = due /\ asked' = [asked EXCEPT ![op] = @ + 1]
    BY <1>1, <2>1 DEF Enter, Request, RequestPath, RequestOpen, RequestFile, RequestDir, RequestRelease, May
  <2>4. call'[t].at = "entered" /\ call'[t].op = op /\ \A u \in Workers \ {t} : call'[u] = call[u]
    BY <1>0, <2>2
  <2>5. ASSUME NEW o \in Ops PROVE due'[o] + Cardinality(InFlight(o)') <= asked'[o]
    <3>1. CASE o = op
      <4>1. InFlight(o)' = InFlight(o) \cup {t} /\ t \notin InFlight(o)
        <5>1. \A u \in Workers : u \in InFlight(o)' <=> u \in InFlight(o) \/ u = t
          BY <2>4, <3>1 DEF InFlight
        <5>2. QED
          BY <2>3, <5>1 DEF InFlight
      <4>2. Cardinality(InFlight(o)') = Cardinality(InFlight(o)) + 1
        BY <1>0, <4>1, FS_AddElement
      <4>3. asked'[o] = asked[o] + 1 /\ due'[o] = due[o]
        BY <1>0, <2>3, <3>1
      <4>4. QED
        BY <1>0, <4>2, <4>3 DEF AskedInv
    <3>2. CASE o # op
      <4>1. InFlight(o)' = InFlight(o)
        <5>1. \A u \in Workers : u \in InFlight(o)' <=> u \in InFlight(o)
          BY <2>3, <2>4, <3>2 DEF InFlight
        <5>2. QED
          BY <5>1 DEF InFlight
      <4>2. asked'[o] = asked[o] /\ due'[o] = due[o]
        BY <1>0, <2>3, <3>2
      <4>3. QED
        BY <4>1, <4>2 DEF AskedInv
    <3>3. QED
      BY <3>1, <3>2
  <2>6. QED
    BY <2>5 DEF AskedInv
<1>2. ASSUME NEW t \in Workers,
             \/ SystemCall(t) \/ Readdir(t) \/ Read(t) \/ Write(t) \/ ReadBuf(t) \/ Fallocate(t)
      PROVE  AskedInv'
  <2>1. PICK c \in Recs : /\ call' = [call EXCEPT ![t] = c] /\ c.op = call[t].op
                          /\ c.at \in {"returned", "reply"}
    BY <1>2, CallShape
  <2>2. call[t].at = "entered" /\ UNCHANGED <<asked, due>>
    BY <1>2, CallShape
  <2>3. QED
    BY <1>0, <2>1, <2>2, AskedKept
<1>3. ASSUME NEW t \in Workers, Open(t) \/ FlushDup(t) \/ FlushClose(t) \/ Release(t)
      PROVE  AskedInv'
  <2>1. PICK c \in Recs : /\ call' = [call EXCEPT ![t] = c] /\ c.op = call[t].op
                          /\ c.at \in {"dup", "returned"}
    BY <1>3, DescriptorShape
  <2>2. call[t].at \in {"entered", "dup"} /\ UNCHANGED <<asked, due>>
    BY <1>3, DescriptorShape DEF Open, FlushDup, FlushClose, Release, historyVars
  <2>3. QED
    BY <1>0, <2>1, <2>2, AskedKept
<1>4. ASSUME NEW t \in Workers, Record(t) PROVE AskedInv'
  <2>1. PICK r \in Errs : call' = [call EXCEPT ![t] = [call[t] EXCEPT !.at = "reply", !.result = r]]
    BY <1>4, RecordFacts
  <2>2. PICK c : call' = [call EXCEPT ![t] = c] /\ c = [call[t] EXCEPT !.at = "reply", !.result = r]
    BY <2>1
  <2>3. c.at = "reply" /\ c.op = call[t].op
    BY <1>0, <2>2 DEF Recs
  <2>4. call[t].at = "returned" /\ UNCHANGED <<asked, due>>
    BY <1>4 DEF Record, historyVars
  <2>5. QED
    BY <1>0, <2>2, <2>3, <2>4, AskedKept
<1>5. ASSUME NEW t \in Workers, Reply(t) PROVE AskedInv'
  <2>1. call[t].at = "reply" /\ call' = [call EXCEPT ![t] = Idle] /\ UNCHANGED asked
    BY <1>5 DEF Reply
  <2>2. due' = [due EXCEPT ![call[t].op] = @ + 1] \/ due' = due
    BY <1>5 DEF Reply
  <2>3. call'[t].at = "idle" /\ call[t].op \in Ops /\ \A u \in Workers \ {t} : call'[u] = call[u]
    BY <1>0, <2>1 DEF Idle, Consistent
  <2>4. ASSUME NEW o \in Ops PROVE due'[o] + Cardinality(InFlight(o)') <= asked'[o]
    <3>1. CASE o = call[t].op
      <4>1. InFlight(o)' = InFlight(o) \ {t} /\ t \in InFlight(o)
        <5>1. \A u \in Workers : u \in InFlight(o)' <=> u \in InFlight(o) /\ u # t
          BY <2>3 DEF InFlight
        <5>2. QED
          BY <2>1, <3>1, <5>1 DEF InFlight
      <4>2. Cardinality(InFlight(o)') = Cardinality(InFlight(o)) - 1
        BY <1>0, <4>1, FS_RemoveElement
      <4>3. due'[o] \in {due[o], due[o] + 1}
        BY <1>0, <2>2, <3>1
      <4>4. QED
        BY <1>0, <2>1, <4>2, <4>3 DEF AskedInv
    <3>2. CASE o # call[t].op
      <4>1. InFlight(o)' = InFlight(o)
        <5>1. \A u \in Workers : u \in InFlight(o)' <=> u \in InFlight(o)
          BY <2>3, <3>2 DEF InFlight
        <5>2. QED
          BY <5>1 DEF InFlight
      <4>2. due'[o] = due[o]
        BY <1>0, <2>2, <3>2
      <4>3. QED
        BY <2>1, <4>1, <4>2 DEF AskedInv
    <3>3. QED
      BY <3>1, <3>2
  <2>5. QED
    BY <2>4 DEF AskedInv
<1>6. CASE \/ \E h \in Handles : Share(h)
           \/ Accept \/ (\E d \in Fds : Hangup(d)) \/ ChangeLength \/ UNCHANGED vars
  <2>1. UNCHANGED <<call, asked, due>>
    BY <1>6 DEF Share, Accept, Hangup, ChangeLength, vars, historyVars
  <2>2. QED
    BY <2>1 DEF AskedInv, InFlight
<1>7. QED
  BY <1>1, <1>2, <1>3, <1>4, <1>5, <1>6 DEF Next, Handler

\* No call is handed to the plugins twice, and none that moved data or is no transfer
\* goes by them unseen (iofs.cc:32-489), by the time it is answered.
THEOREM CallsAreRecordedOnce == Spec => []RecordedOnce
<1>1. Init => TypeInv /\ CoverInv /\ CountInv /\ AskedInv
  <2>1. ASSUME Init, NEW op \in Ops
        PROVE  /\ log[op] = 0 /\ due[op] = 0 /\ asked[op] = 0
               /\ Waiting(op) = {} /\ InFlight(op) = {}
    BY <2>1 DEF Init, Waiting, InFlight, Idle
  <2>2. Init => CoverInv
    BY DEF Init, CoverInv, Idle, None, ZeroCopy
  <2>3. ASSUME Init, NEW op \in Watched
        PROVE  log[op] \in Nat /\ due[op] \in Nat /\ log[op] = due[op] + Cardinality(Waiting(op))
    <3>1. op \in Ops
      BY DEF Watched
    <3>2. log[op] = 0 /\ due[op] = 0 /\ Cardinality(Waiting(op)) = 0
      BY <2>1, <2>3, <3>1, FS_EmptySet
    <3>3. QED
      BY <3>2
  <2>4. Init => AskedInv
    BY <2>1, FS_EmptySet DEF AskedInv
  <2>5. QED
    BY <2>2, <2>3, <2>4, TypeInit DEF CountInv
<1>2. TypeInv /\ CoverInv /\ CountInv /\ AskedInv /\ [Next]_vars
        => (TypeInv /\ CoverInv /\ CountInv /\ AskedInv)'
  BY TypeStep, CoverStep, CountStep, AskedStep
<1>3. TypeInv /\ CountInv /\ AskedInv => RecordedOnce
  <2> SUFFICES ASSUME TypeInv, CountInv, AskedInv, NEW op \in Watched
               PROVE  due[op] <= log[op] /\ log[op] <= asked[op]
    BY DEF RecordedOnce
  <2>1. Waiting(op) \subseteq InFlight(op) /\ IsFiniteSet(InFlight(op))
    <3>1. InFlight(op) \subseteq Workers
      BY DEF InFlight
    <3>2. QED
      BY <3>1, FS_Subset, FuseOpsAssumption DEF Waiting, InFlight
  <2>2. /\ Cardinality(Waiting(op)) \in Nat /\ Cardinality(InFlight(op)) \in Nat
        /\ Cardinality(Waiting(op)) <= Cardinality(InFlight(op))
    BY <2>1, FS_Subset, FS_CardinalityType
  <2>3. op \in Ops /\ asked[op] \in Nat
    BY DEF Watched, TypeInv, Rest
  <2>4. QED
    BY <2>2, <2>3 DEF CountInv, AskedInv
<1>4. QED
  BY <1>1, <1>2, <1>3, PTL DEF Spec
-----------------------------------------------------------------------------
(* Sizes. *)

\* The operations whose size is tied to what they move: with the reported size the
\* requested one, those with zero copy too.
Sized == Transfer \cup (IF ReportMode = "OVER" THEN ZeroCopy ELSE {})

\* The bytes that were reported and are still to be answered, one element each.
Pending(op) ==
    {p \in Workers \X (1..(MaxLen + 1)) :
        call[p[1]].at = "reply" /\ call[p[1]].op = op /\ p[2] <= call[p[1]].size}

\* What was reported covers what was moved and what is about to be; for read and
\* write it is the same.
BytesInv ==
    \A op \in Ops \cap Sized :
        /\ moved[op] + Cardinality(Pending(op)) <= bytes[op]
        /\ op \in Transfer => moved[op] + Cardinality(Pending(op)) = bytes[op]

\* The bytes of one worker come to its size.
LEMMA OwnBytes ==
    ASSUME NEW t, NEW k \in Nat, NEW S, IsFiniteSet(S), S \cap ({t} \X (1..k)) = {}
    PROVE  /\ IsFiniteSet(S \cup ({t} \X (1..k)))
           /\ Cardinality(S \cup ({t} \X (1..k))) = Cardinality(S) + k
<1>1. IsFiniteSet({t}) /\ Cardinality({t}) = 1
  BY FS_Singleton
<1>2. IsFiniteSet(1..k) /\ Cardinality(1..k) = k
  BY FS_Interval
<1>3. IsFiniteSet({t} \X (1..k)) /\ Cardinality({t} \X (1..k)) = 1 * k
  <2> DEFINE A == {t}
             B == 1..k
  <2>1. IsFiniteSet(A) /\ IsFiniteSet(B) /\ Cardinality(A) = 1 /\ Cardinality(B) = k
    BY <1>1, <1>2
  <2> HIDE DEF A, B
  <2>2. IsFiniteSet(A \X B) /\ Cardinality(A \X B) = 1 * k
    BY <2>1, FS_Product
  <2>3. QED
    BY <2>2 DEF A, B
<1>4. Cardinality(S) \in Nat
  BY FS_CardinalityType
<1> DEFINE T == {t} \X (1..k)
<1> HIDE DEF T
<1>5. /\ IsFiniteSet(S \cup T)
      /\ Cardinality(S \cup T) = Cardinality(S) + Cardinality(T) - Cardinality(S \cap T)
  BY <1>3, FS_Union DEF T
<1>6. Cardinality(S \cap T) = 0
  BY FS_EmptySet DEF T
<1>7. QED
  BY <1>3, <1>4, <1>5, <1>6 DEF T

\* There are finitely many bytes to be answered.
LEMMA PendingFinite ==
    ASSUME NEW op
    PROVE  /\ IsFiniteSet(Pending(op)) /\ Cardinality(Pending(op)) \in Nat
           /\ IsFiniteSet(Pending(op)') /\ Cardinality(Pending(op)') \in Nat
<1>1. IsFiniteSet(1..(MaxLen + 1))
  BY FuseOpsAssumption, FS_Interval
<1>2. IsFiniteSet(Workers \X (1..(MaxLen + 1)))
  BY <1>1, FuseOpsAssumption, FS_Product
<1>3. /\ Pending(op) \subseteq Workers \X (1..(MaxLen + 1))
      /\ Pending(op)' \subseteq Workers \X (1..(MaxLen + 1))
  BY DEF Pending
<1>4. QED
  BY <1>2, <1>3, FS_Subset, FS_CardinalityType

\* A step that neither reaches nor leaves the answer of a call whose size counts.
LEMMA BytesKept ==
    ASSUME BytesInv, UNCHANGED <<bytes, moved>>, NEW t \in Workers, NEW c,
           call \in [Workers -> Recs], call' = [call EXCEPT ![t] = c],
           call[t].at # "reply", c.at # "reply" \/ c.op \notin Sized
    PROVE  BytesInv'
<1>1. call'[t] = c /\ \A u \in Workers \ {t} : call'[u] = call[u]
  OBVIOUS
<1>2. ASSUME NEW op \in Ops \cap Sized PROVE Pending(op)' = Pending(op)
  <2>1. \A p \in Workers \X (1..(MaxLen + 1)) : p \in Pending(op)' <=> p \in Pending(op)
    BY <1>1, <1>2 DEF Pending
  <2>2. QED
    BY <2>1 DEF Pending
<1>3. QED
  BY <1>2 DEF BytesInv, Sized

\* A timer reports its size: the bytes reported and those pending grow by it.
LEMMA BytesRecord == ASSUME TypeInv, BytesInv, NEW t \in Workers, Record(t) PROVE BytesInv'
<1>1. PICK r \in Errs : call' = [call EXCEPT ![t] = [call[t] EXCEPT !.at = "reply", !.result = r]]
  BY RecordFacts
<1>2. /\ call \in [Workers -> Recs] /\ bytes \in [Ops -> Nat] /\ moved \in [Ops -> Nat]
      /\ call[t].op \in Ops /\ call[t].at = "returned" /\ call[t].size \in 0..MaxLen \cup {1}
  BY RecordFacts DEF TypeInv, CallInv, Rest, Recs
<1>3. /\ call'[t].at = "reply" /\ call'[t].op = call[t].op /\ call'[t].size = call[t].size
      /\ \A u \in Workers \ {t} : call'[u] = call[u]
  BY <1>1, <1>2 DEF Recs
<1>4. /\ moved' = moved
      /\ bytes' = [bytes EXCEPT ![call[t].op] = @ + call[t].size]
  <2>1. CASE call[t].size > 0
    BY <2>1 DEF Record, historyVars
  <2>2. CASE ~(call[t].size > 0)
    <3>1. call[t].size = 0 /\ bytes[call[t].op] + 0 = bytes[call[t].op]
      BY <1>2, <2>2, FuseOpsAssumption
    <3>2. QED
      BY <1>2, <2>2, <3>1 DEF Record, historyVars
  <2>3. QED
    BY <2>1, <2>2
<1>5. ASSUME NEW op \in Ops \cap Sized
      PROVE  /\ moved'[op] + Cardinality(Pending(op)') <= bytes'[op]
             /\ op \in Transfer => moved'[op] + Cardinality(Pending(op)') = bytes'[op]
  <2>1. /\ moved[op] + Cardinality(Pending(op)) <= bytes[op]
        /\ op \in Transfer => moved[op] + Cardinality(Pending(op)) = bytes[op]
        /\ Cardinality(Pending(op)) \in Nat /\ IsFiniteSet(Pending(op))
    BY PendingFinite DEF BytesInv
  <2>2. CASE op = call[t].op
    <3>1. Pending(op)' = Pending(op) \cup ({t} \X (1..call[t].size))
      <4>1. call[t].size \in Nat /\ call[t].size <= MaxLen + 1
        BY <1>2, FuseOpsAssumption
      <4>2. ASSUME NEW u \in Workers, NEW i \in 1..(MaxLen + 1)
            PROVE  <<u, i>> \in Pending(op)'
                     <=> <<u, i>> \in Pending(op) \/ (u = t /\ i \in 1..call[t].size)
        BY <1>2, <1>3, <2>2, <4>1 DEF Pending
      <4>3. \A u \in Workers, i \in 1..(MaxLen + 1) :
              <<u, i>> \in Pending(op)' <=> <<u, i>> \in Pending(op) \cup ({t} \X (1..call[t].size))
        BY <4>2
      <4>4. /\ Pending(op)' \subseteq Workers \X (1..(MaxLen + 1))
            /\ Pending(op) \cup ({t} \X (1..call[t].size)) \subseteq Workers \X (1..(MaxLen + 1))
        <5>1. 1..call[t].size \subseteq 1..(MaxLen + 1)
          BY <4>1, FuseOpsAssumption
        <5>2. QED
          BY <5>1 DEF Pending
      <4>5. QED
        BY <4>3, <4>4
    <3>2. Pending(op) \cap ({t} \X (1..call[t].size)) = {}
      BY <1>2 DEF Pending
    <3>3. Cardinality(Pending(op)') = Cardinality(Pending(op)) + call[t].size
      <4> DEFINE k == call[t].size
                 S == Pending(op)
      <4>1. k \in Nat /\ IsFiniteSet(S) /\ S \cap ({t} \X (1..k)) = {}
        BY <1>2, <2>1, <3>2
      <4> HIDE DEF k, S
      <4>2. Cardinality(S \cup ({t} \X (1..k))) = Cardinality(S) + k
        BY <4>1, OwnBytes
      <4>3. QED
        BY <3>1, <4>2 DEF k, S
    <3>4. bytes'[op] = bytes[op] + call[t].size /\ moved'[op] = moved[op]
      BY <1>2, <1>4, <2>2
    <3>5. QED
      BY <1>2, <2>1, <3>3, <3>4, FuseOpsAssumption
  <2>3. CASE op # call[t].op
    <3>1. Pending(op)' = Pending(op)
      <4>1. \A p \in Workers \X (1..(MaxLen + 1)) : p \in Pending(op)' <=> p \in Pending(op)
        BY <1>3, <2>3 DEF Pending
      <4>2. QED
        BY <4>1 DEF Pending
    <3>2. bytes'[op] = bytes[op] /\ moved'[op] = moved[op]
      BY <1>2, <1>4, <2>3
    <3>3. QED
      BY <2>1, <3>1, <3>2
  <2>4. QED
    BY <2>2, <2>3
<1>6. QED
  BY <1>5 DEF BytesInv, Sized

\* An answer moves the bytes that its timer reported, or with zero copy no more.
LEMMA BytesReply ==
    ASSUME TypeInv, CoverInv, BytesInv, NEW t \in Workers, Reply(t) PROVE BytesInv'
<1>1. /\ call \in [Workers -> Recs] /\ bytes \in [Ops -> Nat] /\ moved \in [Ops -> Nat]
      /\ call[t].op \in Ops /\ call[t].at = "reply" /\ Consistent(call[t])
      /\ call[t].size \in 0..MaxLen \cup {1} /\ call[t].n \in 0..MaxLen
      /\ call[t].want \in 0..MaxLen /\ call[t].off \in 0..MaxLen /\ len \in 0..MaxLen
  BY DEF TypeInv, CallInv, Rest, Recs, Reply, Consistent
<1>2. call' = [call EXCEPT ![t] = Idle] /\ bytes' = bytes
  BY DEF Reply, logVars
<1>3. call'[t].at = "idle" /\ \A u \in Workers \ {t} : call'[u] = call[u]
  BY <1>1, <1>2 DEF Idle
<1>4. PICK n \in Nat : /\ moved' = [moved EXCEPT ![call[t].op] = @ + n]
                       /\ \/ n = call[t].n
                          \/ call[t].op = "read_buf" /\ n <= call[t].want
  <2>1. Avail(call[t].off, call[t].want) \in Nat /\ Avail(call[t].off, call[t].want) <= call[t].want
    BY <1>1, FuseOpsAssumption DEF Avail
  <2>2. CASE call[t].op = "read_buf" /\ call[t].result = OK
    <3>1. PICK n \in 0..Avail(call[t].off, call[t].want) :
            moved' = [moved EXCEPT ![call[t].op] = @ + n]
      BY <2>2 DEF Reply
    <3>2. n \in Nat /\ n <= call[t].want
      BY <1>1, <2>1, <3>1
    <3>3. QED
      BY <2>2, <3>1, <3>2
  <2>3. CASE ~(call[t].op = "read_buf" /\ call[t].result = OK)
    <3>1. moved' = [moved EXCEPT ![call[t].op] = @ + call[t].n]
      BY <2>3 DEF Reply
    <3>2. call[t].n \in Nat
      BY <1>1
    <3>3. QED
      BY <3>1, <3>2
  <2>4. QED
    BY <2>2, <2>3
<1>5. call[t].op \in Sized => n <= call[t].size /\ (call[t].op \in Transfer => n = call[t].size)
  <2>1. CASE call[t].op \in Transfer
    BY <1>1, <1>4, <2>1 DEF Consistent, Transfer
  <2>2. CASE call[t].op \in ZeroCopy /\ ReportMode = "OVER"
    BY <1>1, <1>4, <2>2 DEF CoverInv, Transfer, ZeroCopy
  <2>3. QED
    BY <2>1, <2>2 DEF Sized
<1>6. ASSUME NEW op \in Ops \cap Sized
      PROVE  /\ moved'[op] + Cardinality(Pending(op)') <= bytes'[op]
             /\ op \in Transfer => moved'[op] + Cardinality(Pending(op)') = bytes'[op]
  <2>1. /\ moved[op] + Cardinality(Pending(op)) <= bytes[op]
        /\ op \in Transfer => moved[op] + Cardinality(Pending(op)) = bytes[op]
        /\ Cardinality(Pending(op)) \in Nat /\ IsFiniteSet(Pending(op))
        /\ IsFiniteSet(Pending(op)') /\ Cardinality(Pending(op)') \in Nat
    BY PendingFinite DEF BytesInv
  <2>2. CASE op = call[t].op
    <3>1. Pending(op) = Pending(op)' \cup ({t} \X (1..call[t].size))
      <4>1. call[t].size \in Nat /\ call[t].size <= MaxLen + 1
        BY <1>1, FuseOpsAssumption
      <4>2. ASSUME NEW u \in Workers, NEW i \in 1..(MaxLen + 1)
            PROVE  <<u, i>> \in Pending(op)
                     <=> <<u, i>> \in Pending(op)' \/ (u = t /\ i \in 1..call[t].size)
        BY <1>1, <1>3, <2>2, <4>1 DEF Pending
      <4>3. \A u \in Workers, i \in 1..(MaxLen + 1) :
              <<u, i>> \in Pending(op) <=> <<u, i>> \in Pending(op)' \cup ({t} \X (1..call[t].size))
        BY <4>2
      <4>4. /\ Pending(op) \subseteq Workers \X (1..(MaxLen + 1))
            /\ Pending(op)' \cup ({t} \X (1..call[t].size)) \subseteq Workers \X (1..(MaxLen + 1))
        <5>1. 1..call[t].size \subseteq 1..(MaxLen + 1)
          BY <4>1, FuseOpsAssumption
        <5>2. QED
          BY <5>1 DEF Pending
      <4>5. QED
        BY <4>3, <4>4
    <3>2. Pending(op)' \cap ({t} \X (1..call[t].size)) = {}
      BY <1>3 DEF Pending
    <3>3. Cardinality(Pending(op)) = Cardinality(Pending(op)') + call[t].size
      <4> DEFINE k == call[t].size
                 S == Pending(op)'
      <4>1. k \in Nat /\ IsFiniteSet(S) /\ S \cap ({t} \X (1..k)) = {}
        BY <1>1, <2>1, <3>2
      <4> HIDE DEF k, S
      <4>2. Cardinality(S \cup ({t} \X (1..k))) = Cardinality(S) + k
        BY <4>1, OwnBytes
      <4>3. QED
        BY <3>1, <4>2 DEF k, S
    <3>4. bytes'[op] = bytes[op] /\ moved'[op] = moved[op] + n
      BY <1>1, <1>2, <1>4, <2>2
    <3>5. n <= call[t].size /\ (op \in Transfer => n = call[t].size)
      BY <1>5, <1>6, <2>2
    <3>6. QED
      BY <1>1, <2>1, <3>3, <3>4, <3>5, FuseOpsAssumption
  <2>3. CASE op # call[t].op
    <3>1. Pending(op)' = Pending(op)
      <4>1. \A p \in Workers \X (1..(MaxLen + 1)) : p \in Pending(op)' <=> p \in Pending(op)
        BY <1>1, <1>3, <2>3 DEF Pending
      <4>2. QED
        BY <4>1 DEF Pending
    <3>2. bytes'[op] = bytes[op] /\ moved'[op] = moved[op]
      BY <1>1, <1>2, <1>4, <2>3
    <3>3. QED
      BY <2>1, <3>1, <3>2
  <2>4. QED
    BY <2>2, <2>3
<1>7. QED
  BY <1>6 DEF BytesInv, Sized

\* Every step keeps the balance of the sizes.
LEMMA BytesStep == TypeInv /\ CoverInv /\ BytesInv /\ [Next]_vars => BytesInv'
<1> SUFFICES ASSUME TypeInv, CoverInv, BytesInv, [Next]_vars PROVE BytesInv'
  OBVIOUS
<1>0. call \in [Workers -> Recs] /\ \A t \in Workers : Consistent(call[t])
  BY DEF TypeInv, CallInv
<1>1. ASSUME NEW t \in Workers, Request(t) PROVE BytesInv'
  <2>1. PICK op, h, off, want : Enter(t, op, h, off, want)
    BY <1>1 DEF Request, RequestPath, RequestOpen, RequestFile, RequestDir, RequestRelease
  <2>2. PICK size \in InitSize(op, off, want) : call' = [call EXCEPT ![t] =
                     [at |-> "entered", op |-> op, h |-> h, off |-> off, want |-> want,
                      size |-> size, fd |-> NoFd, fault |-> OK, result |-> OK, n |-> 0]]
    BY <2>1 DEF Enter
  <2>3. call[t].at = "idle" /\ UNCHANGED <<bytes, moved>>
    BY <1>1 DEF Request, RequestPath, RequestOpen, RequestFile, RequestDir, RequestRelease, May
  <2>4. QED
    BY <1>0, <2>2, <2>3, BytesKept
<1>2. ASSUME NEW t \in Workers,
             \/ SystemCall(t) \/ Readdir(t) \/ Read(t) \/ Write(t) \/ ReadBuf(t) \/ Fallocate(t)
      PROVE  BytesInv'
  <2>1. PICK c \in Recs : call' = [call EXCEPT ![t] = c] /\ c.op = call[t].op
    BY <1>2, CallShape
  <2>2. call[t].at = "entered" /\ UNCHANGED <<bytes, moved>>
    BY <1>2, CallShape
  <2>3. c.at # "reply" \/ c.op \notin Sized
    <3>1. CASE Fallocate(t)
      <4>1. call[t].op = "fallocate"
        BY <3>1 DEF Fallocate, Running
      <4>2. "fallocate" \notin Sized
        BY DEF Sized, Transfer, ZeroCopy
      <4>3. QED
        BY <2>1, <4>1, <4>2
    <3>2. CASE SystemCall(t) \/ Readdir(t) \/ Read(t) \/ Write(t) \/ ReadBuf(t)
      <4>1. \E fault, result, n, size : Return(t, fault, result, n, size)
        BY <3>2 DEF SystemCall, Readdir, Read, Write, ReadBuf, Fail, Succeed
      <4>2. call'[t].at = "returned"
        BY <1>0, <4>1, ReturnKeeps
      <4>3. QED
        BY <1>0, <2>1, <4>2
    <3>3. QED
      BY <1>2, <3>1, <3>2
  <2>4. QED
    BY <1>0, <2>1, <2>2, <2>3, BytesKept
<1>3. ASSUME NEW t \in Workers, Open(t) \/ FlushDup(t) \/ FlushClose(t) \/ Release(t)
      PROVE  BytesInv'
  <2>1. PICK c \in Recs : call' = [call EXCEPT ![t] = c] /\ c.at \in {"dup", "returned"}
    BY <1>3, DescriptorShape
  <2>2. call[t].at \in {"entered", "dup"} /\ UNCHANGED <<bytes, moved>>
    BY <1>3, DescriptorShape
       DEF Open, FlushDup, FlushClose, Release, logVars, historyVars
  <2>3. QED
    BY <1>0, <2>1, <2>2, BytesKept
<1>4. CASE \/ \E h \in Handles : Share(h)
           \/ Accept \/ (\E d \in Fds : Hangup(d)) \/ ChangeLength \/ UNCHANGED vars
  <2>1. UNCHANGED <<call, bytes, moved>>
    BY <1>4 DEF Share, Accept, Hangup, ChangeLength, vars, logVars, historyVars
  <2>2. QED
    BY <2>1 DEF BytesInv, Pending, Sized
<1>5. QED
  BY <1>1, <1>2, <1>3, <1>4, BytesRecord, BytesReply DEF Next, Handler

\* The balance holds always.
LEMMA BytesAlways == Spec => [](TypeInv /\ BytesInv)
<1>1. Init => TypeInv /\ CoverInv /\ BytesInv
  <2> SUFFICES ASSUME Init PROVE TypeInv /\ CoverInv /\ BytesInv
    OBVIOUS
  <2>1. CoverInv
    BY DEF Init, CoverInv, Idle, None, ZeroCopy
  <2>2. \A op \in Ops : bytes[op] = 0 /\ moved[op] = 0 /\ Pending(op) = {}
    BY DEF Init, Pending, Idle
  <2>3. QED
    BY <2>1, <2>2, TypeInit, FS_EmptySet DEF BytesInv
<1>2. TypeInv /\ CoverInv /\ BytesInv /\ [Next]_vars => (TypeInv /\ CoverInv /\ BytesInv)'
  BY TypeStep, CoverStep, BytesStep
<1>3. QED
  BY <1>1, <1>2, PTL DEF Spec

\* The sizes that plugins are given for read and write come to the bytes that moved
\* (TimerGuard::update_file_size of iofs.cc:151-187).
THEOREM SizesAreExact == Spec => []BytesExact
<1>1. TypeInv /\ BytesInv => BytesExact
  <2> SUFFICES ASSUME TypeInv, BytesInv, AtRest, NEW op \in Ops \cap Transfer PROVE bytes[op] = moved[op]
    BY DEF BytesExact
  <2>1. Pending(op) = {}
    BY DEF Pending, AtRest
  <2>2. moved[op] \in Nat /\ moved[op] + 0 = bytes[op]
    BY <2>1, FS_EmptySet DEF BytesInv, Sized, TypeInv, Rest
  <2>3. QED
    BY <2>2
<1>2. QED
  BY <1>1, BytesAlways, PTL

\* With ZERO_COPY_REPORT_OVER what was reported for operations with zero copy is never
\* less than what they moved (iofs.cc:430-489).
THEOREM OverIsAnUpperBound == ASSUME ReportMode = "OVER" PROVE Spec => []UpperBound
<1>1. TypeInv /\ BytesInv => UpperBound
  <2> SUFFICES ASSUME TypeInv, BytesInv, NEW op \in Ops \cap ZeroCopy PROVE moved[op] <= bytes[op]
    BY DEF UpperBound
  <2>1. op \in Ops \cap Sized
    BY DEF Sized
  <2>2. moved[op] + Cardinality(Pending(op)) <= bytes[op] /\ moved[op] \in Nat /\ bytes[op] \in Nat
    BY <2>1 DEF BytesInv, TypeInv, Rest
  <2>3. QED
    BY <2>2, PendingFinite
<1>2. QED
  BY <1>1, BytesAlways, PTL
=============================================================================
