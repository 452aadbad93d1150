---------------------------- MODULE StatsPlugin ----------------------------
(***************************************************************************)
(* One context of plugins/stats.cc: arrays of 64-bit atomic counters that  *)
(* FUSE worker threads add to in record() and that HTTP threads read one   *)
(* by one in poll_metrics(), with no lock between them.                    *)
(*                                                                         *)
(* A counter is named by a cell <<kind, key, b>>: m_ops_total and          *)
(* m_duration_ns are keyed by an operation, the histogram arrays by a      *)
(* direction.  Every fetch_add and every load is a step of its own.        *)
(* calls, before, shown and floor are history variables: the program has   *)
(* no such state, the properties are stated with it.                       *)
(***************************************************************************)
EXTENDS PluginApi, FiniteSets, Functions

CONSTANTS
    Workers,      \* threads of the FUSE loop, which call record()
    Pollers,      \* threads of the HTTP server, which call poll_metrics()
    Ops,          \* the operations that occur
    EnabledOps,   \* those with OP_ENABLED: all, or the STATS_MINIMAL ones
    Dirs,         \* the directions histograms are kept for: both in the code,
                  \* a run may leave out one that no call of it moves data in
    Bounds,       \* STATS_HIST_BOUNDS
    Units,        \* the byte counts that occur; TimerGuard drops a zero
    Durations,    \* the durations that occur
    MaxCalls,     \* bound on the number of record() calls
    ProgramOrder  \* FALSE lets the relaxed accesses of a call be reordered

ASSUME StatsAssumption ==
    /\ IsFiniteSet(Workers)
    /\ Ops \subseteq AllOps
    /\ EnabledOps \subseteq Ops
    /\ Dirs \subseteq Directions
    /\ \A op \in Ops, d \in Directions : op \in MovesData(d) => d \in Dirs
    /\ Bounds \in Seq(Nat)
    /\ \A i, j \in DOMAIN Bounds : i < j => Bounds[i] < Bounds[j]
    /\ Units \subseteq Nat \ {0}
    /\ Durations \subseteq Nat
    /\ MaxCalls \in Nat
    /\ ProgramOrder \in BOOLEAN

VARIABLES
    m,        \* the counters
    calls,    \* history: every record() call begun, in order
    cur,      \* cur[t] is the call that worker t is in, 0 if in none
    todo,     \* todo[t] is the set of counters it has still to add to
    polling,  \* the pollers inside poll_metrics()
    unread,   \* unread[p] is the set of counters p has still to load
    page,     \* page[p] holds the numbers p has printed
    before,   \* history: the calls that had returned when p began to poll
    shown,    \* history: the highest number served so far for each counter
    floor     \* history: the value of shown when p began to poll

vars == <<m, calls, cur, todo, polling, unread, page, before, shown, floor>>
workerVars == <<m, calls, cur, todo>>
pollerVars == <<polling, unread, page, before, shown, floor>>
-----------------------------------------------------------------------------
InfBucket == Len(Bounds) + 1
Buckets == 1..InfBucket

OpsTotal(op) == <<"ops", op, 0>>
DurationNs(op) == <<"dur", op, 0>>
HistBucket(d, b) == <<"bucket", d, b>>
HistCount(d) == <<"count", d, 0>>
HistSum(d) == <<"sum", d, 0>>

UnitCells ==
    {OpsTotal(op) : op \in Ops} \cup {HistCount(d) : d \in Dirs}
        \cup {HistBucket(d, b) : d \in Dirs, b \in Buckets}
AmountCells ==
    {DurationNs(op) : op \in Ops} \cup {HistSum(d) : d \in Dirs}
Cells == UnitCells \cup AmountCells

\* The arguments of record(), and the bucket it computes from them.
Call == [op : Ops, dur : Durations, units : Units, bucket : Buckets]

\* Mutant of BucketFor: the bound itself falls in the next bucket.
BucketForStrict(units) ==
    {b \in Buckets : /\ b # InfBucket => units < Bounds[b]
                     /\ \A a \in 1..(b - 1) : units >= Bounds[a]}

\* The bucket whose bound is the first that holds the byte count.
BucketFor(units) ==
    {b \in Buckets : /\ b # InfBucket => units <= Bounds[b]
                     /\ \A a \in 1..(b - 1) : units > Bounds[a]}

\* The counters a call adds to: the per-operation ones when the operation is
\* enabled, and the histogram of its direction from its bucket upward.
Touched(call) ==
    {c \in {OpsTotal(call.op), DurationNs(call.op)} : call.op \in EnabledOps}
    \cup UNION {{HistBucket(d, b) : b \in call.bucket..InfBucket}
                    \cup {HistCount(d), HistSum(d)} :
                d \in {e \in Dirs : call.op \in MovesData(e)}}

\* Mutant of Amount: the sum is incremented like the count.
AmountOne(c, call) == IF c[1] = "dur" THEN call.dur ELSE 1

Amount(c, call) ==
    CASE c[1] = "dur" -> call.dur
      [] c[1] = "sum" -> call.units
      [] OTHER -> 1

\* The order in which record() adds and poll_metrics() loads.
Section(c) ==
    CASE c[1] = "ops" -> 1
      [] c[1] = "dur" -> 2
      [] OTHER -> IF c[2] = "read" THEN 3 ELSE 4
Line(c) ==
    CASE c[1] \in {"ops", "dur"} -> Ordinal(c[2])
      [] c[1] = "bucket" -> c[3]
      [] c[1] = "count" -> InfBucket + 1
      [] OTHER -> InfBucket + 2
Before(c, d) ==
    \/ Section(c) < Section(d)
    \/ Section(c) = Section(d) /\ Line(c) < Line(d)

MayAccess(c, remaining) ==
    /\ c \in remaining
    /\ ProgramOrder => \A d \in remaining : ~Before(d, c)

\* What poll_metrics() prints: the counters of disabled operations are left out.
PollCells == {c \in Cells : c[1] \in {"ops", "dur"} => c[2] \in EnabledOps}

Returned == {i \in DOMAIN calls : \A t \in Workers : cur[t] # i}
-----------------------------------------------------------------------------
Init ==
    /\ m = [c \in Cells |-> 0]
    /\ calls = <<>>
    /\ cur = [t \in Workers |-> 0]
    /\ todo = [t \in Workers |-> {}]
    /\ polling = {}
    /\ unread = [p \in Pollers |-> {}]
    /\ page = [p \in Pollers |-> [c \in Cells |-> 0]]
    /\ before = [p \in Pollers |-> {}]
    /\ shown = [c \in Cells |-> 0]
    /\ floor = [p \in Pollers |-> [c \in Cells |-> 0]]

\* A worker enters record(op, duration_ns, units).
BeginRecord(t) ==
    /\ cur[t] = 0
    /\ Len(calls) < MaxCalls
    /\ \E call \in Call :
         /\ call.bucket \in BucketFor(call.units)
         /\ calls' = Append(calls, call)
         /\ todo' = [todo EXCEPT ![t] = Touched(call)]
    /\ cur' = [cur EXCEPT ![t] = Len(calls) + 1]
    /\ UNCHANGED <<m, pollerVars>>

\* Mutant of FetchAdd: a load and a store, which lose the addition of a worker
\* that comes between them.
LoadThenStore(t, c) ==
    /\ MayAccess(c, todo[t])
    /\ \E lost \in BOOLEAN :
         /\ lost => \E u \in Workers \ {t} : c \in todo[u]
         /\ m' = IF lost THEN m
                 ELSE [m EXCEPT ![c] = @ + Amount(c, calls[cur[t]])]
    /\ todo' = [todo EXCEPT ![t] = @ \ {c}]
    /\ UNCHANGED <<calls, cur, pollerVars>>

\* One fetch_add of record().
FetchAdd(t, c) ==
    /\ MayAccess(c, todo[t])
    /\ m' = [m EXCEPT ![c] = @ + Amount(c, calls[cur[t]])]
    /\ todo' = [todo EXCEPT ![t] = @ \ {c}]
    /\ UNCHANGED <<calls, cur, pollerVars>>

\* record() returns.
EndRecord(t) ==
    /\ cur[t] # 0
    /\ todo[t] = {}
    /\ cur' = [cur EXCEPT ![t] = 0]
    /\ UNCHANGED <<m, calls, todo, pollerVars>>

\* Mutant of StartPoll: an HTTP thread serves again the page of its last scrape,
\* which its buffer still holds.
StartPollCached(p) ==
    /\ p \notin polling
    /\ polling' = polling \cup {p}
    /\ unread' = [unread EXCEPT ![p] = IF before[p] = {} THEN PollCells ELSE {}]
    /\ before' = [before EXCEPT ![p] = Returned]
    /\ floor' = [floor EXCEPT ![p] = shown]
    /\ UNCHANGED <<page, shown, workerVars>>

\* An HTTP thread enters poll_metrics().
StartPoll(p) ==
    /\ p \notin polling
    /\ polling' = polling \cup {p}
    /\ unread' = [unread EXCEPT ![p] = PollCells]
    /\ page' = [page EXCEPT ![p] = [c \in Cells |-> 0]]
    /\ before' = [before EXCEPT ![p] = Returned]
    /\ floor' = [floor EXCEPT ![p] = shown]
    /\ UNCHANGED <<shown, workerVars>>

\* Mutant of Load: the counter starts again at zero once it is read.
LoadAndReset(p, c) ==
    /\ p \in polling
    /\ MayAccess(c, unread[p])
    /\ page' = [page EXCEPT ![p][c] = m[c]]
    /\ m' = [m EXCEPT ![c] = 0]
    /\ unread' = [unread EXCEPT ![p] = @ \ {c}]
    /\ UNCHANGED <<polling, before, shown, floor, calls, cur, todo>>

\* Mutant of Load: the lines of a histogram are printed from the last to the first,
\* the count before the buckets.
LoadBackward(p, c) ==
    /\ p \in polling
    /\ c \in unread[p]
    /\ \A d \in unread[p] : ~Before(c, d)
    /\ page' = [page EXCEPT ![p][c] = m[c]]
    /\ unread' = [unread EXCEPT ![p] = @ \ {c}]
    /\ UNCHANGED <<polling, before, shown, floor, workerVars>>

\* One load of poll_metrics(), printed as a line of the page.
Load(p, c) ==
    /\ p \in polling
    /\ MayAccess(c, unread[p])
    /\ page' = [page EXCEPT ![p][c] = m[c]]
    /\ unread' = [unread EXCEPT ![p] = @ \ {c}]
    /\ UNCHANGED <<polling, before, shown, floor, workerVars>>

\* poll_metrics() returns and the page is served.
Serve(p) ==
    /\ p \in polling
    /\ unread[p] = {}
    /\ polling' = polling \ {p}
    /\ shown' = [c \in Cells |->
                    IF page[p][c] > shown[c] THEN page[p][c] ELSE shown[c]]
    /\ UNCHANGED <<unread, page, before, floor, workerVars>>

Worker(t) == BeginRecord(t) \/ EndRecord(t) \/ \E c \in Cells : FetchAdd(t, c)
Poller(p) == StartPoll(p) \/ Serve(p) \/ \E c \in Cells : Load(p, c)

Next == (\E t \in Workers : Worker(t)) \/ (\E p \in Pollers : Poller(p))

Spec == Init /\ [][Next]_vars
-----------------------------------------------------------------------------
TypeOK ==
    /\ m \in [Cells -> Nat]
    /\ calls \in Seq(Call)
    /\ cur \in [Workers -> 0..Len(calls)]
    /\ todo \in [Workers -> SUBSET Cells]
    /\ polling \subseteq Pollers
    /\ unread \in [Pollers -> SUBSET PollCells]
    /\ page \in [Pollers -> [Cells -> Nat]]
    /\ before \in [Pollers -> SUBSET (1..Len(calls))]
    /\ shown \in [Cells -> Nat]
    /\ floor \in [Pollers -> [Cells -> Nat]]

\* Two workers are never in the same call, and what a worker has still to add
\* to belongs to its own call.
OwnCall ==
    /\ \A t, u \in Workers : t # u /\ cur[t] = cur[u] => cur[t] = 0
    /\ \A t \in Workers :
         IF cur[t] = 0 THEN todo[t] = {} ELSE todo[t] \subseteq Touched(calls[cur[t]])

\* The calls whose addition to c has been made.
Added(c) ==
    {i \in DOMAIN calls :
        /\ c \in Touched(calls[i])
        /\ \A t \in Workers : cur[t] = i => c \notin todo[t]}

\* What calls add to c: one each, their bytes or their nanoseconds.
Total(c, S) == SumFunctionOnSet([i \in DOMAIN calls |-> Amount(c, calls[i])], S)

\* No addition is lost or made twice, in whatever order the steps of the
\* workers come: a counter is at every moment what the calls that have made
\* their fetch_add on it come to.
CountExact == \A c \in Cells : m[c] = Total(c, Added(c))

\* The definition the page documents, free of buckets and of cells: the calls
\* in direction d that moved at most the bound of b.
Observations(d, b) ==
    {i \in DOMAIN calls : /\ calls[i].op \in MovesData(d)
                          /\ b # InfBucket => calls[i].units <= Bounds[b]}

\* Once every record() has returned the counters agree with what was recorded:
\* bucket[le] is the number of observations <= le (stats.cc:340), the count is
\* that of all observations, and the number of an enabled operation that of its
\* calls.
QuiescentCounts ==
    (\A t \in Workers : cur[t] = 0) =>
        /\ \A d \in Dirs :
             /\ \A b \in Buckets :
                  m[HistBucket(d, b)] = Cardinality(Observations(d, b))
             /\ m[HistCount(d)] = Cardinality(Observations(d, InfBucket))
        /\ \A op \in EnabledOps :
             m[OpsTotal(op)] = Cardinality({i \in DOMAIN calls : calls[i].op = op})

\* Likewise for the sums: of the bytes of a direction and of the nanoseconds of
\* an operation.
QuiescentSums ==
    (\A t \in Workers : cur[t] = 0) =>
        /\ \A d \in Dirs :
             m[HistSum(d)] = SumFunctionOnSet([i \in DOMAIN calls |-> calls[i].units],
                                              Observations(d, InfBucket))
        /\ \A op \in EnabledOps :
             m[DurationNs(op)] =
                 SumFunctionOnSet([i \in DOMAIN calls |-> calls[i].dur],
                                  {i \in DOMAIN calls : calls[i].op = op})

Touching(S, c) == {i \in S : c \in Touched(calls[i])}

\* Every number on a page holds what each call that had returned when the scrape
\* began added to it, and nothing of one that has not begun.  The e2e test relies on
\* the first half: it writes, then scrapes, and expects a delta of one
\* (test_metrics.py:79-87).
ScrapeEnvelope ==
    \A p \in Pollers : \A c \in PollCells \ unread[p] :
        /\ Total(c, Touching(before[p], c)) <= page[p][c]
        /\ page[p][c] <= Total(c, Touching(DOMAIN calls, c))

\* Prometheus counters: a scrape that begins after another was served never
\* shows a smaller number, whichever HTTP threads served the two.
ScrapeMonotone ==
    \A p \in Pollers : \A c \in PollCells \ unread[p] : floor[p][c] <= page[p][c]

\* Lines of a page such that each call counted in the first is counted in the
\* second: a bucket and the next, the last bucket and the count.
Successive ==
    {<<HistBucket(d, b), HistBucket(d, b + 1)>> : d \in Dirs, b \in 1..Len(Bounds)}
    \cup {<<HistBucket(d, InfBucket), HistCount(d)>> : d \in Dirs}

Skew(c, d, slack) ==
    \A p \in Pollers : unread[p] = {} => page[p][c] <= page[p][d] + slack

\* A page may catch calls half way, but it is off by at most one call per
\* worker however many calls are made while it is printed: it loads the lines
\* in the order in which record() adds to them.
SkewBounded == \A cd \in Successive : Skew(cd[1], cd[2], Cardinality(Workers))

\* The numbers of calls that are on a page.
CallCounts == PollCells \cap UnitCells

\* The counters of calls that the call of t belongs to.
CountedAt(t) == IF cur[t] = 0 THEN {} ELSE Touched(calls[cur[t]]) \cap CallCounts

Promise == INSTANCE OpCounter WITH
    Clients  <- Workers,
    Counters <- CallCounts,
    wanted   <- [t \in Workers |-> CountedAt(t)],
    counted  <- [t \in Workers |-> CountedAt(t) \ todo[t]],
    total    <- [c \in CallCounts |-> m[c]],
    asking   <- polling,
    unseen   <- [p \in Pollers |-> unread[p] \cap CallCounts],
    number   <- [p \in Pollers |-> [c \in CallCounts |-> page[p][c]]]

\* To the threads that record and the threads that serve pages the numbers of calls
\* are atomic counters: a call is counted once in each of its counters between the
\* entry of record() and its return, and a number of a page is what its counter was
\* in one step of poll_metrics().  No lock between the two is needed for that.
AtomicCounters == Promise!Spec
=============================================================================
