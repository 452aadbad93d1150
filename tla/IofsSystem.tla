----------------------------- MODULE IofsSystem -----------------------------
(***************************************************************************)
(* The whole of iofs-ng around its counters: applications that use the      *)
(* mount, the queue of the kernel, the workers of the FUSE loop, the plugins *)
(* that Monitoring::record calls one after another, and the HTTP threads    *)
(* that assemble a page from them.  Here a handler is its system call, the  *)
(* record of its timer and its reply, in this order; FuseOps has its         *)
(* details, StatsPlugin those of the stats plugin, of which the number of   *)
(* calls stands for all counters, and PluginHost how a context is reached.   *)
(*                                                                         *)
(* flock is the operation that does not return by itself: a worker waits in *)
(* it until the lock is free.                                              *)
(***************************************************************************)
EXTENDS Naturals, Sequences, FiniteSets

CONSTANTS
    Clients,   \* threads of applications, each with one request at a time
    Workers,   \* threads of the FUSE loop
    Pollers,   \* HTTP threads
    Plugins,   \* the kinds of the plugins, in the order of m_plugins
    MaxOps     \* bound on the number of requests

None == "none"
Ops == {"read", "mkdir", "lock", "unlock"}

ASSUME IofsAssumption ==
    /\ IsFiniteSet(Workers)
    /\ None \notin Clients
    /\ Plugins \in Seq({"stats", "sample"})
    /\ MaxOps \in Nat

VARIABLES
    op,       \* op[c] is the operation c waits for, None if for none
    asked,    \* the number of requests so far
    queue,    \* requests the kernel holds, by client
    job,      \* job[t] is the client worker t serves, None if it is free
    stage,    \* stage[t]: "free", "call" or "record"
    todo,     \* todo[t] is the set of counters the record of t has still to add to
    holder,   \* the client that holds the lock
    m,        \* the counters of the plugins
    polling,  \* the HTTP threads inside generate_prometheus_output()
    unread,   \* unread[p] is the set of counters p has still to load
    page      \* page[p] holds the numbers p has printed

vars == <<op, asked, queue, job, stage, todo, holder, m, polling, unread, page>>
pageVars == <<polling, unread, page>>
-----------------------------------------------------------------------------
\* m_ops_total of the stats plugin, total_ops and total_bytes_transferred of the
\* sample plugin.  Its total_duration_ns is never printed.
Cells ==
    {<<i, "calls">> : i \in DOMAIN Plugins}
    \cup {<<i, "bytes">> : i \in {j \in DOMAIN Plugins : Plugins[j] = "sample"}}

\* The counters that the record of an operation adds to (a read of one byte).
Adds(o) == {c \in Cells : c[2] = "bytes" => o = "read"}

\* Monitoring::record goes from plugin to plugin, and record() of the sample plugin
\* from the calls to the bytes.
AddsBefore(c, d) == c[1] < d[1] \/ (c[1] = d[1] /\ c[2] = "calls" /\ d[2] = "bytes")

\* Mutant of LoadsBefore: the plugins are polled from the last to the first.
LoadsBeforeReversed(c, d) == c[1] > d[1]

\* A page is assembled plugin by plugin.  The two loads of the sample plugin are
\* arguments of one snprintf, evaluated in any order.
LoadsBefore(c, d) == c[1] < d[1]
-----------------------------------------------------------------------------
Init ==
    /\ op = [c \in Clients |-> None]
    /\ asked = 0
    /\ queue = <<>>
    /\ job = [t \in Workers |-> None]
    /\ stage = [t \in Workers |-> "free"]
    /\ todo = [t \in Workers |-> {}]
    /\ holder = None
    /\ m = [c \in Cells |-> 0]
    /\ polling = {}
    /\ unread = [p \in Pollers |-> {}]
    /\ page = [p \in Pollers |-> [c \in Cells |-> 0]]

\* An application makes a system call on the mount.
Ask(c) ==
    /\ op[c] = None
    /\ asked < MaxOps
    /\ \E o \in Ops : op' = [op EXCEPT ![c] = o]
    /\ asked' = asked + 1
    /\ queue' = Append(queue, c)
    /\ UNCHANGED <<job, stage, todo, holder, m, pageVars>>

\* Mutant of Take: the loop of libfuse has a single thread.
TakeAlone(t) ==
    /\ \A u \in Workers : stage[u] = "free"
    /\ queue # <<>>
    /\ job' = [job EXCEPT ![t] = Head(queue)]
    /\ stage' = [stage EXCEPT ![t] = "call"]
    /\ queue' = Tail(queue)
    /\ UNCHANGED <<op, asked, todo, holder, m, pageVars>>

\* A free worker takes the next request and enters the handler.
Take(t) ==
    /\ stage[t] = "free"
    /\ queue # <<>>
    /\ job' = [job EXCEPT ![t] = Head(queue)]
    /\ stage' = [stage EXCEPT ![t] = "call"]
    /\ queue' = Tail(queue)
    /\ UNCHANGED <<op, asked, todo, holder, m, pageVars>>

\* The system call returns; ::flock(LOCK_EX) only once no other holds the lock.
SystemCall(t) ==
    LET c == job[t] IN
    /\ stage[t] = "call"
    /\ op[c] = "lock" => holder \in {None, c}
    /\ holder' = IF op[c] = "lock" THEN c
                 ELSE IF op[c] = "unlock" /\ holder = c THEN None ELSE holder
    /\ stage' = [stage EXCEPT ![t] = "record"]
    /\ todo' = [todo EXCEPT ![t] = Adds(op[c])]
    /\ UNCHANGED <<op, asked, queue, job, m, pageVars>>

\* One fetch_add of one plugin.
FetchAdd(t, c) ==
    /\ c \in todo[t]
    /\ \A d \in todo[t] : ~AddsBefore(d, c)
    /\ m' = [m EXCEPT ![c] = @ + 1]
    /\ todo' = [todo EXCEPT ![t] = @ \ {c}]
    /\ UNCHANGED <<op, asked, queue, job, stage, holder, pageVars>>

\* Mutant of Reply: the first plugin is waited for, the others record later.
ReplyEarly(t) ==
    /\ stage[t] = "record"
    /\ \A c \in todo[t] : c[1] > 1
    /\ op' = [op EXCEPT ![job[t]] = None]
    /\ job' = [job EXCEPT ![t] = None]
    /\ stage' = [stage EXCEPT ![t] = "free"]
    /\ UNCHANGED <<asked, queue, todo, holder, m, pageVars>>

\* The handler returns and libfuse sends the reply.
Reply(t) ==
    /\ stage[t] = "record"
    /\ todo[t] = {}
    /\ op' = [op EXCEPT ![job[t]] = None]
    /\ job' = [job EXCEPT ![t] = None]
    /\ stage' = [stage EXCEPT ![t] = "free"]
    /\ UNCHANGED <<asked, queue, todo, holder, m, pageVars>>

\* A request for /metrics reaches its handler.
AskPage(p) ==
    /\ p \notin polling
    /\ polling' = polling \cup {p}
    /\ unread' = [unread EXCEPT ![p] = Cells]
    /\ page' = [page EXCEPT ![p] = [c \in Cells |-> 0]]
    /\ UNCHANGED <<op, asked, queue, job, stage, todo, holder, m>>

\* Mutant of Load: a lock that the handlers hold too, tried again and again.
LoadTryLock(p, c) ==
    /\ c \in unread[p]
    /\ \A d \in unread[p] : ~LoadsBefore(d, c)
    /\ IF \A t \in Workers : stage[t] = "free"
       THEN /\ page' = [page EXCEPT ![p][c] = m[c]]
            /\ unread' = [unread EXCEPT ![p] = @ \ {c}]
       ELSE UNCHANGED <<page, unread>>
    /\ UNCHANGED <<op, asked, queue, job, stage, todo, holder, m, polling>>

\* One load of poll_metrics() of one plugin.
Load(p, c) ==
    /\ c \in unread[p]
    /\ \A d \in unread[p] : ~LoadsBefore(d, c)
    /\ page' = [page EXCEPT ![p][c] = m[c]]
    /\ unread' = [unread EXCEPT ![p] = @ \ {c}]
    /\ UNCHANGED <<op, asked, queue, job, stage, todo, holder, m, polling>>

\* The page is sent.
ServePage(p) ==
    /\ p \in polling
    /\ unread[p] = {}
    /\ polling' = polling \ {p}
    /\ UNCHANGED <<op, asked, queue, job, stage, todo, holder, m, unread, page>>

Worker(t) == Take(t) \/ SystemCall(t) \/ (\E c \in Cells : FetchAdd(t, c)) \/ Reply(t)
Poller(p) == AskPage(p) \/ (\E c \in Cells : Load(p, c)) \/ ServePage(p)

Next ==
    \/ \E c \in Clients : Ask(c)
    \/ \E t \in Workers : Worker(t)
    \/ \E p \in Pollers : Poller(p)

Spec == Init /\ [][Next]_vars

\* The workers and the HTTP threads are scheduled; applications may stop anywhere,
\* with the lock in their hands too.
FairSpec ==
    /\ Spec
    /\ \A t \in Workers : WF_vars(Worker(t))
    /\ \A p \in Pollers : WF_vars((\E c \in Cells : Load(p, c)) \/ ServePage(p))
-----------------------------------------------------------------------------
TypeOK ==
    /\ op \in [Clients -> Ops \cup {None}]
    /\ asked \in 0..MaxOps
    /\ queue \in Seq(Clients)
    /\ job \in [Workers -> Clients \cup {None}]
    /\ stage \in [Workers -> {"free", "call", "record"}]
    /\ todo \in [Workers -> SUBSET Cells]
    /\ holder \in Clients \cup {None}
    /\ m \in [Cells -> Nat]
    /\ polling \subseteq Pollers
    /\ unread \in [Pollers -> SUBSET Cells]
    /\ page \in [Pollers -> [Cells -> Nat]]

\* What the request of c has been counted in so far.
Counted(c) ==
    UNION {Adds(op[c]) \ todo[t] : t \in {u \in Workers : job[u] = c /\ stage[u] = "record"}}

Promise == INSTANCE OpCounter WITH
    Counters <- Cells,
    wanted   <- [c \in Clients |-> IF op[c] = None THEN {} ELSE Adds(op[c])],
    counted  <- [c \in Clients |-> Counted(c)],
    total    <- m,
    asking   <- polling,
    unseen   <- unread,
    number   <- page

\* To whoever uses the mount and reads the pages, the numbers are atomic counters
\* of the operations: what was answered before a page was asked for is on it, what
\* is asked for later is not, and the numbers of two pages never go back.
CounterSpec == Promise!Spec

\* The plugins are called in the order in which a page shows them.  So a page may
\* show fewer calls for a later plugin, but for each worker at most one.
PluginsAgree ==
    \A p \in Pollers : unread[p] = {} =>
        \A i, j \in DOMAIN Plugins : i < j =>
            page[p][<<i, "calls">>] <= page[p][<<j, "calls">>] + Cardinality(Workers)

\* An operation that waits for no lock is answered, whatever the others wait
\* for: with as many workers as clients, those that wait for the lock leave one.
Answered ==
    \A c \in Clients : op[c] \in Ops \ {"lock"} ~> op[c] = None

\* A page that was asked for is served, whatever the workers do meanwhile and
\* however long one of them waits in flock: no lock is shared with them.
PageServed == \A p \in Pollers : p \in polling ~> p \notin polling
=============================================================================
