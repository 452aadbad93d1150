------------------------------ MODULE FuseOps ------------------------------
(***************************************************************************)
(* The handlers of src/iofs.cc: what each takes from and gives back to the *)
(* table of descriptors, which error it returns, and what its TimerGuard    *)
(* hands to the plugins before libfuse sends the reply.                    *)
(*                                                                         *)
(* Worker threads run handlers concurrently.  A handler is a few steps: it *)
(* is entered, makes its system call, and when its timer goes out of scope *)
(* the plugins run.  All handles are open on one file of length len, which *)
(* other processes change; a handle h stands for an open file description, *)
(* to which several descriptors may refer.  The kernel sends no request on *)
(* a handle before its open is answered, and its release last.             *)
(***************************************************************************)
EXTENDS PluginApi, Integers, FiniteSets, FiniteSetsExt

CONSTANTS
    Workers,      \* threads of the FUSE loop
    Handles,      \* the open files and directories of the kernel
    MaxFds,       \* limit on the descriptors of the process
    MaxLen,       \* bound on the length of the file and on the place of a transfer
    Ops,          \* the operations that occur
    ReportMode,   \* "NONE", "UNDER", "OVER" or "ACCURATE"
    PluginErrnos, \* what plugins may leave in errno; {} for those of the repository
    MaxUsers,     \* bound on the descriptors an application has of one open file
    MaxCalls      \* bound on the number of requests

ASSUME FuseOpsAssumption ==
    /\ IsFiniteSet(Workers)
    /\ Handles \cap {"none", "socket", "free"} = {}
    /\ MaxFds \in Nat /\ MaxLen \in Nat /\ MaxUsers \in Nat \ {0} /\ MaxCalls \in Nat
    /\ Ops \subseteq AllOps
    /\ ReportMode \in {"NONE", "UNDER", "OVER", "ACCURATE"}
    /\ "ok" \notin PluginErrnos   \* no library function sets errno to zero

Fds == 0..(MaxFds - 1)
NoFd == -1
OK == "ok"
None == "none"

VARIABLES
    call,   \* call[t] is the handler that worker t runs
    errno,  \* errno[t]
    fds,    \* the table of descriptors: a handle, "socket" or "free"
    fh,     \* fh[h] is fi->fh of an open file, the descriptor of the DIR otherwise
    state,  \* state[h], as the kernel sees it
    users,  \* users[h] is the number of descriptors of the application
    len,    \* the length of the file
    log,    \* log[op] is the number of calls handed to the plugins,
    bytes,  \* bytes[op] the sum of their sizes
    asked,  \* history: asked[op] is the number of requests made,
    due,    \* due[op] that of those answered that a plugin must have seen,
    moved   \* moved[op] the number of bytes moved by those answered

kernelVars == <<state, users>>
historyVars == <<asked, due, moved>>
vars == <<call, errno, fds, fh, state, users, len, log, bytes, asked, due, moved>>

Opening == {"open", "create", "opendir"}
Closing == {"release", "releasedir"}
Transfer == {"read", "write"}
ZeroCopy == {"read_buf", "write_buf"}
OnFile == Transfer \cup ZeroCopy \cup {"flush", "fsync", "flock", "fallocate"}

\* The handlers that make one system call and return its result.
Simple == AllOps \ (Opening \cup Closing \cup Transfer \cup ZeroCopy
                        \cup {"flush", "fallocate", "readdir"})

\* at: "entered", "dup" (flush has its duplicate), "returned" (the timer is about
\* to go out of scope) or "reply"; size: m_size of the timer; fault: the result
\* of the system call; result: that of the handler; n: the bytes moved.
Idle == [at |-> "idle", op |-> None, h |-> None, off |-> 0, want |-> 0, size |-> 0,
         fd |-> NoFd, fault |-> OK, result |-> OK, n |-> 0]

Errors == {"EIO", "EMFILE", "EBADF", "ENOMEM", "EOPNOTSUPP"}

Free == {d \in Fds : fds[d] = "free"}
Lowest == Min(Free)
InFlight(op) == {t \in Workers : call[t].at # "idle" /\ call[t].op = op}

\* What a transfer of want bytes at off can reach.
Avail(off, want) ==
    IF len <= off THEN 0 ELSE IF len - off < want THEN len - off ELSE want
-----------------------------------------------------------------------------
Init ==
    /\ call = [t \in Workers |-> Idle]
    /\ errno = [t \in Workers |-> OK]
    /\ fds = [d \in Fds |-> "free"]
    /\ fh = [h \in Handles |-> NoFd]
    /\ state = [h \in Handles |-> "none"]
    /\ users = [h \in Handles |-> 0]
    /\ len \in 0..MaxLen
    /\ log = [op \in Ops |-> 0]
    /\ bytes = [op \in Ops |-> 0]
    /\ asked = [op \in Ops |-> 0]
    /\ due = [op \in Ops |-> 0]
    /\ moved = [op \in Ops |-> 0]

\* Mutant of InitSize: a zero-copy operation reports one byte less than it may move.
InitSizeShort(op, off, want) == {IF op \in ZeroCopy THEN want - 1 ELSE 1}

\* The size a timer starts with.  The accurate one is computed by fstat, and is
\* the requested one if that fails.
InitSize(op, off, want) ==
    IF op \in Transfer THEN {0}
    ELSE IF op \notin ZeroCopy \/ ReportMode = "UNDER" THEN {1}
    ELSE IF ReportMode = "NONE" THEN {0}
    ELSE IF op = "read_buf" /\ ReportMode = "ACCURATE" THEN {Avail(off, want), want}
    ELSE {want}

\* A handler is entered, up to its system call.
Enter(t, op, h, off, want) ==
    /\ \E size \in InitSize(op, off, want) :
         call' = [call EXCEPT ![t] =
                    [at |-> "entered", op |-> op, h |-> h, off |-> off, want |-> want, size |-> size,
                     fd |-> NoFd, fault |-> OK, result |-> OK, n |-> 0]]
    /\ asked' = [asked EXCEPT ![op] = @ + 1]

May(t) ==
    /\ call[t].at = "idle"
    /\ MapThenSumSet(LAMBDA op : asked[op], Ops) < MaxCalls

RequestPath(t) ==
    /\ May(t)
    /\ \E op \in (Ops \cap Simple) \ OnFile : Enter(t, op, None, 0, 0)
    /\ UNCHANGED <<errno, fds, fh, kernelVars, len, log, bytes, due, moved>>

RequestOpen(t, h) ==
    /\ May(t)
    /\ state[h] = "none"
    /\ \E op \in Ops \cap Opening : Enter(t, op, h, 0, 0)
    /\ state' = [state EXCEPT ![h] = "opening"]
    /\ UNCHANGED <<errno, fds, fh, users, len, log, bytes, due, moved>>

RequestFile(t, h) ==
    /\ May(t)
    /\ state[h] = "file"
    /\ users[h] > 0
    /\ \/ /\ \E op \in Ops \cap (OnFile \ {"flush"}), off \in 0..MaxLen :
               \E want \in 1..(MaxLen - off) : Enter(t, op, h, off, want)
          /\ UNCHANGED users
       \* the application closes a descriptor
       \/ /\ "flush" \in Ops
          /\ Enter(t, "flush", h, 0, 0)
          /\ users' = [users EXCEPT ![h] = @ - 1]
    /\ UNCHANGED <<errno, fds, fh, state, len, log, bytes, due, moved>>

RequestDir(t, h) ==
    /\ May(t)
    /\ state[h] = "dir"
    /\ "readdir" \in Ops
    /\ Enter(t, "readdir", h, 0, 0)
    /\ UNCHANGED <<errno, fds, fh, kernelVars, len, log, bytes, due, moved>>

RequestRelease(t, h) ==
    /\ May(t)
    /\ \A u \in Workers : call[u].h # h
    /\ \/ state[h] = "file" /\ users[h] = 0 /\ "release" \in Ops /\ Enter(t, "release", h, 0, 0)
       \/ state[h] = "dir" /\ "releasedir" \in Ops /\ Enter(t, "releasedir", h, 0, 0)
    /\ state' = [state EXCEPT ![h] = "closing"]
    /\ UNCHANGED <<errno, fds, fh, users, len, log, bytes, due, moved>>

\* The application duplicates a descriptor, or forks.
Share(h) ==
    /\ state[h] = "file"
    /\ users[h] \in 1..(MaxUsers - 1)
    /\ users' = [users EXCEPT ![h] = @ + 1]
    /\ UNCHANGED <<call, errno, fds, fh, state, len, log, bytes, historyVars>>
-----------------------------------------------------------------------------
\* The system call of a handler is done and its return value evaluated.
Return(t, fault, result, n, size) ==
    call' = [call EXCEPT ![t] = [@ EXCEPT !.at = "returned", !.fault = fault,
               !.result = result, !.n = n, !.size = size]]

Fail(t, fault) ==
    /\ errno' = [errno EXCEPT ![t] = fault]
    /\ Return(t, fault, fault, 0, call[t].size)

Succeed(t) ==
    /\ Return(t, OK, OK, 0, call[t].size)
    /\ UNCHANGED errno

Running(t, ops) == call[t].at = "entered" /\ call[t].op \in ops
logVars == <<log, bytes>>

SystemCall(t) ==
    /\ Running(t, Simple)
    /\ \/ Fail(t, "EIO") /\ UNCHANGED len
       \/ /\ Succeed(t)
          /\ IF call[t].op = "truncate" THEN len' \in 0..MaxLen ELSE UNCHANGED len
    /\ UNCHANGED <<fds, fh, kernelVars, logVars, historyVars>>

Readdir(t) ==
    /\ Running(t, {"readdir"})
    /\ Succeed(t)
    /\ UNCHANGED <<fds, fh, kernelVars, len, logVars, historyVars>>

\* Mutants of Read: the timer gets the result before it is compared with -1; it
\* gets the size of the request.
ReadUpdatesFirst(t) ==
    /\ Running(t, {"read"})
    /\ \/ /\ errno' = [errno EXCEPT ![t] = "EIO"]
          /\ Return(t, "EIO", "EIO", 0, -1)
       \/ \E n \in 0..Avail(call[t].off, call[t].want) :
            /\ n = 0 => Avail(call[t].off, call[t].want) = 0
            /\ Return(t, OK, OK, n, n)
            /\ UNCHANGED errno
    /\ UNCHANGED <<fds, fh, kernelVars, len, logVars, historyVars>>
ReadReportsWanted(t) ==
    /\ Running(t, {"read"})
    /\ \/ Fail(t, "EIO")
       \/ \E n \in 0..Avail(call[t].off, call[t].want) :
            /\ n = 0 => Avail(call[t].off, call[t].want) = 0
            /\ Return(t, OK, OK, n, call[t].want)
            /\ UNCHANGED errno
    /\ UNCHANGED <<fds, fh, kernelVars, len, logVars, historyVars>>

Read(t) ==
    /\ Running(t, {"read"})
    /\ \/ Fail(t, "EIO")
       \/ \E n \in 0..Avail(call[t].off, call[t].want) :
            /\ n = 0 => Avail(call[t].off, call[t].want) = 0
            /\ Return(t, OK, OK, n, n)
            /\ UNCHANGED errno
    /\ UNCHANGED <<fds, fh, kernelVars, len, logVars, historyVars>>

Extend(to) == len' = IF to > len THEN to ELSE len

\* Mutant of Write: the timer of write is not told either.
WriteUntold(t) ==
    /\ Running(t, {"write", "write_buf"})
    /\ \/ Fail(t, "EIO") /\ UNCHANGED len
       \/ \E n \in 1..call[t].want :
            /\ Return(t, OK, OK, n, call[t].size)
            /\ Extend(call[t].off + n)
            /\ UNCHANGED errno
    /\ UNCHANGED <<fds, fh, kernelVars, logVars, historyVars>>

\* write tells the timer what it wrote; write_buf leaves it as it was.
Write(t) ==
    /\ Running(t, {"write", "write_buf"})
    /\ \/ Fail(t, "EIO") /\ UNCHANGED len
       \/ \E n \in 1..call[t].want :
            /\ Return(t, OK, OK, n, IF call[t].op = "write" THEN n ELSE call[t].size)
            /\ Extend(call[t].off + n)
            /\ UNCHANGED errno
    /\ UNCHANGED <<fds, fh, kernelVars, logVars, historyVars>>

\* Only the description of the transfer is made here; libfuse makes the
\* transfer when it sends the reply.
ReadBuf(t) ==
    /\ Running(t, {"read_buf"})
    /\ Succeed(t) \/ Fail(t, "ENOMEM")
    /\ UNCHANGED <<fds, fh, kernelVars, len, logVars, historyVars>>

\* A mode is refused before there is a timer.
Fallocate(t) ==
    /\ Running(t, {"fallocate"})
    /\ \/ /\ call' = [call EXCEPT ![t].at = "reply", ![t].fault = "EOPNOTSUPP",
                                  ![t].result = "EOPNOTSUPP"]
          /\ UNCHANGED <<errno, len>>
       \/ Return(t, "EIO", "EIO", 0, call[t].size) /\ UNCHANGED <<errno, len>>
       \/ Succeed(t) /\ Extend(call[t].off + call[t].want)
    /\ UNCHANGED <<fds, fh, kernelVars, logVars, historyVars>>

\* open, create and opendir take a descriptor.
Open(t) ==
    /\ Running(t, Opening)
    /\ \/ Fail(t, "EIO") /\ UNCHANGED <<fds, fh>>
       \/ Free = {} /\ Fail(t, "EMFILE") /\ UNCHANGED <<fds, fh>>
       \/ /\ Free # {}
          /\ fds' = [fds EXCEPT ![Lowest] = call[t].h]
          /\ fh' = [fh EXCEPT ![call[t].h] = Lowest]
          /\ Succeed(t)
    /\ UNCHANGED <<kernelVars, len, logVars, historyVars>>

\* dup, which may find no descriptor.
FlushDup(t) ==
    /\ Running(t, {"flush"})
    /\ IF Free = {}
       THEN /\ call' = [call EXCEPT ![t].at = "dup"]
            /\ errno' = [errno EXCEPT ![t] = "EMFILE"]
            /\ UNCHANGED fds
       ELSE /\ call' = [call EXCEPT ![t].at = "dup", ![t].fd = Lowest]
            /\ fds' = [fds EXCEPT ![Lowest] = call[t].h]
            /\ UNCHANGED errno
    /\ UNCHANGED <<fh, kernelVars, len, logVars, historyVars>>

\* Mutant of FlushClose: the handle's own descriptor is closed.
FlushClosesHandle(t) ==
    /\ call[t].at = "dup"
    /\ Succeed(t) \/ Fail(t, "EIO")
    /\ fds' = [fds EXCEPT ![fh[call[t].h]] = "free"]
    /\ UNCHANGED <<fh, kernelVars, len, logVars, historyVars>>

\* The duplicate is closed, if there is one.
FlushClose(t) ==
    /\ call[t].at = "dup"
    /\ IF call[t].fd = NoFd
       THEN Fail(t, "EBADF") /\ UNCHANGED fds
       ELSE /\ Succeed(t) \/ Fail(t, "EIO")
            /\ fds' = [fds EXCEPT ![call[t].fd] = "free"]
    /\ UNCHANGED <<fh, kernelVars, len, logVars, historyVars>>

\* Mutant of Release: the descriptor is left open.
ReleaseKeeps(t) ==
    /\ Running(t, Closing)
    /\ fh' = [fh EXCEPT ![call[t].h] = NoFd]
    /\ Succeed(t)
    /\ UNCHANGED <<fds, kernelVars, len, logVars, historyVars>>

Release(t) ==
    /\ Running(t, Closing)
    /\ fds' = [fds EXCEPT ![fh[call[t].h]] = "free"]
    /\ fh' = [fh EXCEPT ![call[t].h] = NoFd]
    /\ Succeed(t)
    /\ UNCHANGED <<kernelVars, len, logVars, historyVars>>
-----------------------------------------------------------------------------
\* Mutant of EvaluatesLate: every handler commits its timer early.
AllEvaluateLate(op) == TRUE

\* The handlers that read errno after their timer is gone.
EvaluatesLate(op) == op = "opendir"

\* The timer goes out of scope; if its size is positive the plugins run.
Record(t) ==
    /\ call[t].at = "returned"
    /\ IF call[t].size > 0
       THEN /\ log' = [log EXCEPT ![call[t].op] = @ + 1]
            /\ bytes' = [bytes EXCEPT ![call[t].op] = @ + call[t].size]
            /\ \E e \in {errno[t]} \cup PluginErrnos : errno' = [errno EXCEPT ![t] = e]
       ELSE UNCHANGED <<log, bytes, errno>>
    /\ call' = [call EXCEPT ![t].at = "reply",
                  ![t].result = IF EvaluatesLate(call[t].op) /\ call[t].fault # OK
                                THEN errno'[t] ELSE @]
    /\ UNCHANGED <<fds, fh, kernelVars, len, historyVars>>

\* What a reply carries to the kernel: only that of read_buf moves data now, as
\* much as there is by now, or nothing if the transfer fails.
Reply(t) ==
    LET c == call[t]
        moves == IF c.op = "read_buf" /\ c.result = OK THEN 0..Avail(c.off, c.want) ELSE {c.n}
    IN /\ c.at = "reply"
       /\ \E n \in moves :
            /\ moved' = [moved EXCEPT ![c.op] = @ + n]
            /\ due' = IF (c.op \in Transfer => n > 0) /\ c.fault # "EOPNOTSUPP"
                      THEN [due EXCEPT ![c.op] = @ + 1] ELSE due
       /\ state' = IF c.op \in Opening
                   THEN [state EXCEPT ![c.h] = IF c.result # OK THEN "none"
                                               ELSE IF c.op = "opendir" THEN "dir" ELSE "file"]
                   ELSE IF c.op \in Closing THEN [state EXCEPT ![c.h] = "none"] ELSE state
       /\ users' = IF c.op \in {"open", "create"} /\ c.result = OK
                   THEN [users EXCEPT ![c.h] = 1] ELSE users
       /\ call' = [call EXCEPT ![t] = Idle]
       /\ UNCHANGED <<errno, fds, fh, len, logVars, asked>>

\* Other threads of the process and other processes on the source directory.
Accept ==
    /\ Free # {}
    /\ fds' = [fds EXCEPT ![Lowest] = "socket"]
    /\ UNCHANGED <<call, errno, fh, kernelVars, len, logVars, historyVars>>

Hangup(d) ==
    /\ fds[d] = "socket"
    /\ fds' = [fds EXCEPT ![d] = "free"]
    /\ UNCHANGED <<call, errno, fh, kernelVars, len, logVars, historyVars>>

ChangeLength ==
    /\ len' \in 0..MaxLen
    /\ UNCHANGED <<call, errno, fds, fh, kernelVars, logVars, historyVars>>

Handler(t) ==
    \/ SystemCall(t) \/ Readdir(t) \/ Read(t) \/ Write(t) \/ ReadBuf(t) \/ Fallocate(t)
    \/ Open(t) \/ FlushDup(t) \/ FlushClose(t) \/ Release(t) \/ Record(t) \/ Reply(t)

Request(t) ==
    \/ RequestPath(t)
    \/ \E h \in Handles : \/ RequestOpen(t, h) \/ RequestFile(t, h)
                          \/ RequestDir(t, h) \/ RequestRelease(t, h)

Next ==
    \/ \E t \in Workers : Request(t) \/ Handler(t)
    \/ \E h \in Handles : Share(h)
    \/ Accept \/ (\E d \in Fds : Hangup(d)) \/ ChangeLength

Spec == Init /\ [][Next]_vars
-----------------------------------------------------------------------------
TypeOK ==
    /\ \A t \in Workers :
         /\ call[t].at \in {"idle", "entered", "dup", "returned", "reply"}
         /\ call[t].op \in Ops \cup {None}
         /\ call[t].h \in Handles \cup {None}
         /\ call[t].fd \in Fds \cup {NoFd}
         /\ call[t].size \in 0..MaxLen \cup {1} /\ call[t].n \in 0..MaxLen
         /\ {call[t].fault, call[t].result} \subseteq Errors \cup PluginErrnos \cup {OK}
    /\ errno \in [Workers -> Errors \cup PluginErrnos \cup {OK}]
    /\ fds \in [Fds -> Handles \cup {"socket", "free"}]
    /\ fh \in [Handles -> Fds \cup {NoFd}]
    /\ state \in [Handles -> {"none", "opening", "file", "dir", "closing"}]
    /\ users \in [Handles -> 0..MaxUsers]
    /\ len \in 0..MaxLen
    /\ {log, bytes, asked, due, moved} \subseteq [Ops -> Nat]

\* The descriptor of an open handle is its own until its release, whatever is
\* opened, flushed and closed meanwhile: it is never closed and reused by
\* another file or a connection.
HandleOwnsDescriptor ==
    \A h \in Handles :
        state[h] \in {"file", "dir"} => fh[h] \in Fds /\ fds[fh[h]] = h

\* No descriptor is left behind: one that refers to a handle is the handle's own
\* or that of a flush under way.
NoDescriptorLeak ==
    \A d \in Fds : fds[d] \in Handles =>
        \/ fh[fds[d]] = d /\ state[fds[d]] # "none"
        \/ \E t \in Workers : call[t].at = "dup" /\ call[t].fd = d

\* The operations whose calls the plugins are meant to see: with zero copy those
\* that always report a size.
Watched ==
    Ops \ (IF ReportMode = "NONE" THEN ZeroCopy
           ELSE IF ReportMode = "ACCURATE" THEN {"read_buf"} ELSE {})

\* By the time the application has its answer, a call has been handed to the plugins
\* if it moved data or is no transfer (a refused fallocate apart), and no call ever
\* is twice.
RecordedOnce ==
    \A op \in Watched : due[op] <= log[op] /\ log[op] <= asked[op]

AtRest == \A t \in Workers : call[t].at = "idle"

\* Every call is counted ("Cumulative number of times each FUSE op was called.",
\* stats.cc:353).
EveryCallCounted == AtRest => \A op \in Watched : log[op] = asked[op]

\* The sizes handed over for read and write are the bytes that they moved.
BytesExact == AtRest => \A op \in Ops \cap Transfer : bytes[op] = moved[op]

\* The size reported for a zero-copy operation is an upper bound on what it
\* moves ("a HUGE upper bound" of iofs.hh:23; "the true upper bound on bytes that
\* can actually be transferred from this offset" of iofs.cc:440-442).
UpperBound ==
    ReportMode \in {"OVER", "ACCURATE"} =>
        \A op \in Ops \cap ZeroCopy : moved[op] <= bytes[op]

\* A failed handler returns the error of its own system call, even if a plugin
\* leaves something else in errno; opendir does only if none does.
ErrnoFaithful ==
    \A t \in Workers :
        call[t].at = "reply" /\ (call[t].op = "opendir" => PluginErrnos = {})
            => call[t].result = call[t].fault
=============================================================================
