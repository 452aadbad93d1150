--------------------------- MODULE IofsSystemProofs ---------------------------
(***************************************************************************)
(* For any number of clients, workers, HTTP threads and plugins: the system *)
(* implements OpCounter, and the plugins of a page agree but for the records *)
(* under way.                                                              *)
(***************************************************************************)
EXTENDS IofsSystem, FiniteSetTheorems, TLAPS

\* Each request is in one place: in the queue or with one worker.
OnePlace ==
    /\ \A t \in Workers : stage[t] = "free" <=> job[t] = None
    /\ \A t \in Workers : job[t] # None => op[job[t]] # None
    /\ \A t, u \in Workers : t # u /\ job[t] = job[u] => job[t] = None
    /\ \A i \in DOMAIN queue : op[queue[i]] # None /\ \A t \in Workers : job[t] # queue[i]
    /\ \A i, j \in DOMAIN queue : queue[i] = queue[j] => i = j

\* What a worker has still to add to belongs to the request it serves.
OwnTodo ==
    \A t \in Workers :
        IF stage[t] = "record" THEN todo[t] \subseteq Adds(op[job[t]]) ELSE todo[t] = {}

\* The inductive invariant of the requests.
SystemInv == TypeOK /\ OnePlace /\ OwnTodo
-----------------------------------------------------------------------------
\* A record adds to counters of the plugins only.
LEMMA AddsAreCells == \A o : Adds(o) \subseteq Cells
  BY DEF Adds

\* The invariant holds at the start,
LEMMA SystemInvInit == Init => SystemInv
<1> SUFFICES ASSUME Init PROVE SystemInv
  OBVIOUS
<1> USE IofsAssumption DEF Init
<1>1. TypeOK
  BY DEF TypeOK
<1>2. OnePlace
  BY DEF OnePlace
<1>3. OwnTodo
  BY DEF OwnTodo
<1> QED BY <1>1, <1>2, <1>3 DEF SystemInv

\* A step that leaves the requests and the workers alone.
LEMMA PageStepKeeps ==
    ASSUME SystemInv, UNCHANGED <<op, queue, job, stage, todo>>, TypeOK'
    PROVE  SystemInv'
<1>1. OnePlace'
  BY DEF SystemInv, OnePlace
<1>2. OwnTodo'
  BY DEF SystemInv, OwnTodo
<1> QED BY <1>1, <1>2 DEF SystemInv

\* when a client, which has no request yet, asks,
LEMMA AskKeeps == ASSUME SystemInv, NEW c \in Clients, Ask(c) PROVE SystemInv'
<1> USE IofsAssumption
<1>1. PICK o \in Ops : op' = [op EXCEPT ![c] = o]
  BY DEF Ask
<1>2. /\ op[c] = None /\ asked < MaxOps /\ asked' = asked + 1 /\ queue' = Append(queue, c)
      /\ UNCHANGED <<job, stage, todo, holder, m, polling, unread, page>>
  BY DEF Ask, pageVars
<1>3. op \in [Clients -> Ops \cup {None}] /\ queue \in Seq(Clients) /\ o # None
  BY DEF SystemInv, TypeOK, Ops, None
<1>4. TypeOK'
  BY <1>1, <1>2, <1>3 DEF SystemInv, TypeOK
<1>5. \A t \in Workers : job[t] # c
  BY <1>2, IofsAssumption DEF SystemInv, OnePlace
<1>6. \A i \in DOMAIN queue' :
          (i \in DOMAIN queue /\ queue'[i] = queue[i] /\ queue[i] # c /\ queue[i] \in Clients)
          \/ (i \notin DOMAIN queue /\ i = Len(queue) + 1 /\ queue'[i] = c)
  <2>1. \A i \in DOMAIN queue : queue[i] # c /\ queue[i] \in Clients
    BY <1>2, <1>3 DEF SystemInv, OnePlace
  <2>2. /\ DOMAIN queue' = 1..(Len(queue) + 1) /\ DOMAIN queue = 1..Len(queue) /\ Len(queue) \in Nat
        /\ queue'[Len(queue) + 1] = c /\ \A i \in 1..Len(queue) : queue'[i] = queue[i]
    BY <1>2, <1>3
  <2> QED BY <2>1, <2>2
<1>7. OnePlace'
  <2>1. \A t \in Workers : (stage'[t] = "free" <=> job'[t] = None)
                         /\ (job'[t] # None => op'[job'[t]] # None)
    BY <1>1, <1>2, <1>3, <1>5 DEF SystemInv, OnePlace, TypeOK
  <2>2. \A t, u \in Workers : t # u /\ job'[t] = job'[u] => job'[t] = None
    BY <1>2 DEF SystemInv, OnePlace
  <2>3. \A i \in DOMAIN queue' : op'[queue'[i]] # None /\ \A t \in Workers : job'[t] # queue'[i]
    BY <1>1, <1>2, <1>3, <1>5, <1>6 DEF SystemInv, OnePlace
  <2>4. \A i, j \in DOMAIN queue' : queue'[i] = queue'[j] => i = j
    BY <1>6 DEF SystemInv, OnePlace
  <2> QED BY <2>1, <2>2, <2>3, <2>4 DEF OnePlace
<1>8. OwnTodo'
  BY <1>1, <1>2, <1>3, <1>5 DEF SystemInv, OwnTodo, TypeOK, OnePlace
<1> QED BY <1>4, <1>7, <1>8 DEF SystemInv

\* when its request passes from the queue to a worker,
LEMMA TakeKeeps == ASSUME SystemInv, NEW t \in Workers, Take(t) PROVE SystemInv'
<1> USE IofsAssumption
<1>1. /\ stage[t] = "free" /\ queue # <<>>
      /\ job' = [job EXCEPT ![t] = Head(queue)]
      /\ stage' = [stage EXCEPT ![t] = "call"]
      /\ queue' = Tail(queue)
      /\ UNCHANGED <<op, asked, todo, holder, m, polling, unread, page>>
  BY DEF Take, pageVars
<1>2. /\ queue \in Seq(Clients) /\ job \in [Workers -> Clients \cup {None}]
      /\ stage \in [Workers -> {"free", "call", "record"}]
  BY DEF SystemInv, TypeOK
<1>3. /\ Head(queue) \in Clients /\ Head(queue) = queue[1] /\ 1 \in DOMAIN queue
      /\ queue' \in Seq(Clients)
      /\ \A i \in DOMAIN queue' : i + 1 \in DOMAIN queue /\ queue'[i] = queue[i + 1] /\ i \in Nat /\ i > 0
  BY <1>1, <1>2
<1>4. TypeOK'
  BY <1>1, <1>2, <1>3 DEF SystemInv, TypeOK
<1>5. op[Head(queue)] # None /\ \A u \in Workers : job[u] # Head(queue)
  BY <1>3 DEF SystemInv, OnePlace
<1>6. \A i \in DOMAIN queue' : queue'[i] # Head(queue)
  BY <1>3 DEF SystemInv, OnePlace
<1>7. OnePlace'
  <2>1. \A u \in Workers : (stage'[u] = "free" <=> job'[u] = None)
                         /\ (job'[u] # None => op'[job'[u]] # None)
    BY <1>1, <1>2, <1>3, <1>5 DEF SystemInv, OnePlace
  <2>2. \A v, u \in Workers : v # u /\ job'[v] = job'[u] => job'[v] = None
    BY <1>1, <1>2, <1>5 DEF SystemInv, OnePlace
  <2>3. \A i \in DOMAIN queue' : op'[queue'[i]] # None /\ \A u \in Workers : job'[u] # queue'[i]
    BY <1>1, <1>2, <1>3, <1>6 DEF SystemInv, OnePlace
  <2>4. \A i, j \in DOMAIN queue' : queue'[i] = queue'[j] => i = j
    BY <1>3 DEF SystemInv, OnePlace
  <2> QED BY <2>1, <2>2, <2>3, <2>4 DEF OnePlace
<1>8. OwnTodo'
  BY <1>1, <1>2 DEF SystemInv, OwnTodo
<1> QED BY <1>4, <1>7, <1>8 DEF SystemInv

\* when the record begins,
LEMMA SystemCallKeeps == ASSUME SystemInv, NEW t \in Workers, SystemCall(t) PROVE SystemInv'
<1> USE IofsAssumption
<1>1. /\ stage[t] = "call"
      /\ holder' = holder \/ holder' = None \/ holder' = job[t]
      /\ stage' = [stage EXCEPT ![t] = "record"]
      /\ todo' = [todo EXCEPT ![t] = Adds(op[job[t]])]
      /\ UNCHANGED <<op, asked, queue, job, m, polling, unread, page>>
  BY DEF SystemCall, pageVars
<1>2. /\ job \in [Workers -> Clients \cup {None}] /\ holder \in Clients \cup {None}
      /\ stage \in [Workers -> {"free", "call", "record"}] /\ todo \in [Workers -> SUBSET Cells]
  BY DEF SystemInv, TypeOK
<1>3. TypeOK'
  BY <1>1, <1>2, AddsAreCells DEF SystemInv, TypeOK
<1>4. OnePlace'
  BY <1>1, <1>2 DEF SystemInv, OnePlace
<1>5. OwnTodo'
  BY <1>1, <1>2 DEF SystemInv, OwnTodo
<1> QED BY <1>3, <1>4, <1>5 DEF SystemInv

\* when it goes on,
LEMMA FetchAddKeeps ==
    ASSUME SystemInv, NEW t \in Workers, NEW c \in Cells, FetchAdd(t, c) PROVE SystemInv'
<1>1. /\ c \in todo[t]
      /\ m' = [m EXCEPT ![c] = @ + 1]
      /\ todo' = [todo EXCEPT ![t] = @ \ {c}]
      /\ UNCHANGED <<op, asked, queue, job, stage, holder, polling, unread, page>>
  BY DEF FetchAdd, pageVars
<1>2. todo \in [Workers -> SUBSET Cells] /\ m \in [Cells -> Nat]
  BY DEF SystemInv, TypeOK
<1>3. TypeOK'
  <2>1. m' \in [Cells -> Nat]
    BY <1>1, <1>2
  <2>2. todo' \in [Workers -> SUBSET Cells]
    BY <1>1, <1>2
  <2> QED BY <1>1, <2>1, <2>2 DEF SystemInv, TypeOK
<1>4. OnePlace'
  BY <1>1 DEF SystemInv, OnePlace
<1>5. OwnTodo'
  BY <1>1, <1>2 DEF SystemInv, OwnTodo
<1> QED BY <1>3, <1>4, <1>5 DEF SystemInv

\* when the client has its answer,
LEMMA ReplyKeeps == ASSUME SystemInv, NEW t \in Workers, Reply(t) PROVE SystemInv'
<1> USE IofsAssumption
<1>1. /\ stage[t] = "record" /\ todo[t] = {}
      /\ op' = [op EXCEPT ![job[t]] = None]
      /\ job' = [job EXCEPT ![t] = None]
      /\ stage' = [stage EXCEPT ![t] = "free"]
      /\ UNCHANGED <<asked, queue, todo, holder, m, polling, unread, page>>
  BY DEF Reply, pageVars
<1>2. /\ job \in [Workers -> Clients \cup {None}] /\ op \in [Clients -> Ops \cup {None}]
      /\ stage \in [Workers -> {"free", "call", "record"}] /\ queue \in Seq(Clients)
  BY DEF SystemInv, TypeOK
<1>3. TypeOK'
  BY <1>1, <1>2 DEF SystemInv, TypeOK
<1>4. job[t] # None /\ \A u \in Workers : u # t => job[u] # job[t]
  BY <1>1 DEF SystemInv, OnePlace
<1>5. OnePlace'
  <2>1. \A u \in Workers : (stage'[u] = "free" <=> job'[u] = None)
                         /\ (job'[u] # None => op'[job'[u]] # None)
    BY <1>1, <1>2, <1>4 DEF SystemInv, OnePlace
  <2>2. \A v, u \in Workers : v # u /\ job'[v] = job'[u] => job'[v] = None
    BY <1>1, <1>2 DEF SystemInv, OnePlace
  <2>3. \A i \in DOMAIN queue : queue[i] # job[t] /\ queue[i] \in Clients
    BY <1>2 DEF SystemInv, OnePlace
  <2>4. \A i \in DOMAIN queue' : op'[queue'[i]] # None /\ \A u \in Workers : job'[u] # queue'[i]
    BY <1>1, <1>2, <2>3 DEF SystemInv, OnePlace
  <2>5. \A i, j \in DOMAIN queue' : queue'[i] = queue'[j] => i = j
    BY <1>1 DEF SystemInv, OnePlace
  <2> QED BY <2>1, <2>2, <2>4, <2>5 DEF OnePlace
<1>6. OwnTodo'
  BY <1>1, <1>2, <1>4 DEF SystemInv, OwnTodo
<1> QED BY <1>3, <1>5, <1>6 DEF SystemInv

\* when a page is assembled,
LEMMA PageKeeps == ASSUME SystemInv, NEW p \in Pollers, Poller(p) PROVE SystemInv'
<1>1. /\ polling \subseteq Pollers /\ m \in [Cells -> Nat]
      /\ unread \in [Pollers -> SUBSET Cells] /\ page \in [Pollers -> [Cells -> Nat]]
  BY DEF SystemInv, TypeOK
<1>2. CASE AskPage(p)
  <2>1. UNCHANGED <<op, asked, queue, job, stage, todo, holder, m>>
    BY <1>2 DEF AskPage
  <2>2. polling' \subseteq Pollers /\ unread' \in [Pollers -> SUBSET Cells]
    BY <1>1, <1>2 DEF AskPage
  <2>3. page' \in [Pollers -> [Cells -> Nat]]
    BY <1>1, <1>2 DEF AskPage
  <2> QED BY <2>1, <2>2, <2>3, PageStepKeeps DEF SystemInv, TypeOK
<1>3. ASSUME NEW c \in Cells, Load(p, c) PROVE SystemInv'
  <2>1. UNCHANGED <<op, asked, queue, job, stage, todo, holder, m, polling>>
    BY <1>3 DEF Load
  <2>2. unread' \in [Pollers -> SUBSET Cells]
    BY <1>1, <1>3 DEF Load
  <2>3. page' \in [Pollers -> [Cells -> Nat]]
    BY <1>1, <1>3 DEF Load
  <2> QED BY <2>1, <2>2, <2>3, PageStepKeeps DEF SystemInv, TypeOK
<1>4. CASE ServePage(p)
  <2>1. UNCHANGED <<op, asked, queue, job, stage, todo, holder, m, unread, page>>
        /\ polling' \subseteq Pollers
    BY <1>1, <1>4 DEF ServePage
  <2> QED BY <2>1, PageStepKeeps DEF SystemInv, TypeOK
<1> QED BY <1>2, <1>3, <1>4 DEF Poller

\* and so in every step
LEMMA SystemInvNext == SystemInv /\ [Next]_vars => SystemInv'
<1> SUFFICES ASSUME SystemInv, [Next]_vars PROVE SystemInv'
  OBVIOUS
<1>1. ASSUME NEW c \in Clients, Ask(c) PROVE SystemInv'
  BY <1>1, AskKeeps
<1>2. ASSUME NEW t \in Workers, Worker(t) PROVE SystemInv'
  BY <1>2, TakeKeeps, SystemCallKeeps, FetchAddKeeps, ReplyKeeps DEF Worker
<1>3. ASSUME NEW p \in Pollers, Poller(p) PROVE SystemInv'
  BY <1>3, PageKeeps
<1>4. CASE UNCHANGED vars
  <2>1. UNCHANGED <<op, asked, queue, job, stage, todo, holder, m, polling, unread, page>>
    BY <1>4 DEF vars
  <2> QED BY <2>1, PageStepKeeps DEF SystemInv, TypeOK
<1> QED BY <1>1, <1>2, <1>3, <1>4 DEF Next

\* and every reachable state.
LEMMA SystemInvariant == Spec => []SystemInv
<1> QED BY SystemInvInit, SystemInvNext, PTL DEF Spec

\* Requests, workers, the lock, the counters and the pages keep their types.
THEOREM SystemTypes == Spec => []TypeOK
<1>1. SystemInv => TypeOK
  BY DEF SystemInv
<1> QED BY <1>1, SystemInvariant, PTL
-----------------------------------------------------------------------------
(* The refinement.  An operation has been counted where the worker that      *)
(* records it has no more to add to.                                         *)

\* What is counted of operation o of client c, when the workers have td, jb and st.
CountedIn(o, td, jb, st, c) ==
    UNION {Adds(o) \ td[t] : t \in {u \in Workers : jb[u] = c /\ st[u] = "record"}}

\* When one worker records it, what this one has no more to add to.
LEMMA CountedOfOne ==
    ASSUME NEW o, NEW td, NEW jb, NEW st, NEW t \in Workers, st[t] = "record",
           \A u \in Workers : u # t => jb[u] # jb[t]
    PROVE  \A x : x \in CountedIn(o, td, jb, st, jb[t]) <=> x \in Adds(o) \ td[t]
<1>1. {u \in Workers : jb[u] = jb[t] /\ st[u] = "record"} = {t}
  OBVIOUS
<1> QED BY <1>1 DEF CountedIn

\* Nothing before its record begins.
LEMMA CountedOfNone ==
    ASSUME NEW o, NEW td, NEW jb, NEW st, NEW c,
           \A u \in Workers : jb[u] # c \/ st[u] # "record"
    PROVE  CountedIn(o, td, jb, st, c) = {}
<1>1. {u \in Workers : jb[u] = c /\ st[u] = "record"} = {}
  OBVIOUS
<1> QED BY <1>1 DEF CountedIn

\* It depends only on the workers that record for c.
LEMMA CountedSame ==
    ASSUME NEW o, NEW td, NEW jb, NEW st, NEW td2, NEW jb2, NEW st2, NEW c,
           \A u \in Workers : (jb[u] = c /\ st[u] = "record") <=> (jb2[u] = c /\ st2[u] = "record"),
           \A u \in Workers : jb[u] = c /\ st[u] = "record" => td[u] = td2[u]
    PROVE  CountedIn(o, td, jb, st, c) = CountedIn(o, td2, jb2, st2, c)
<1>1. {u \in Workers : jb[u] = c /\ st[u] = "record"} = {u \in Workers : jb2[u] = c /\ st2[u] = "record"}
  OBVIOUS
<1>2. {Adds(o) \ td[t] : t \in {u \in Workers : jb[u] = c /\ st[u] = "record"}}
      = {Adds(o) \ td2[t] : t \in {u \in Workers : jb2[u] = c /\ st2[u] = "record"}}
  BY <1>1
<1> QED BY <1>2 DEF CountedIn

\* The two halves of the mapping that depend on more than one variable.
Wanted == [c \in Clients |-> IF op[c] = None THEN {} ELSE Adds(op[c])]
CountedMap == [c \in Clients |-> Counted(c)]
systemVars == <<Wanted, CountedMap, m, polling, unread, page>>

\* The mapping in these terms, now and after a step.
LEMMA CountedDef ==
    /\ \A c \in Clients : CountedMap[c] = CountedIn(op[c], todo, job, stage, c)
    /\ \A c \in Clients : CountedMap'[c] = CountedIn(op'[c], todo', job', stage', c)
<1>1. \A c \in Clients : Counted(c) = CountedIn(op[c], todo, job, stage, c)
  BY DEF Counted, CountedIn
<1>2. \A c \in Clients : Counted(c)' = CountedIn(op'[c], todo', job', stage', c)
  BY DEF Counted, CountedIn
<1> QED BY <1>1, <1>2 DEF CountedMap

\* Where neither the request of c nor the worker that serves it changes.
LEMMA CountedKept ==
    ASSUME NEW c \in Clients, op'[c] = op[c],
           \A u \in Workers : (job[u] = c /\ stage[u] = "record") <=> (job'[u] = c /\ stage'[u] = "record"),
           \A u \in Workers : job[u] = c /\ stage[u] = "record" => todo[u] = todo'[u]
    PROVE  CountedMap'[c] = CountedMap[c]
<1>1. CountedIn(op[c], todo, job, stage, c) = CountedIn(op[c], todo', job', stage', c)
  BY CountedSame
<1> QED BY <1>1, CountedDef

\* What the steps need of the invariant.
LEMMA SystemTyped ==
    ASSUME SystemInv
    PROVE  /\ op \in [Clients -> Ops \cup {None}] /\ job \in [Workers -> Clients \cup {None}]
           /\ stage \in [Workers -> {"free", "call", "record"}] /\ todo \in [Workers -> SUBSET Cells]
           /\ None \notin Clients /\ None \notin Ops
           /\ \A t \in Workers : stage[t] # "free" => job[t] \in Clients /\ op[job[t]] \in Ops
           /\ \A t, u \in Workers : t # u /\ stage[t] # "free" => job[u] # job[t]
  BY IofsAssumption DEF SystemInv, TypeOK, OnePlace, Ops, None

\* A request is a request of the counters.
LEMMA AskMaps == ASSUME SystemInv, NEW c \in Clients, Ask(c) PROVE Promise!Ask(c)
<1> USE SystemTyped
<1>1. PICK o \in Ops : op' = [op EXCEPT ![c] = o]
  BY DEF Ask
<1>2. op[c] = None /\ UNCHANGED <<job, stage, todo, m, polling, unread, page>>
  BY DEF Ask, pageVars
<1>3. Wanted[c] = {} /\ Wanted' = [Wanted EXCEPT ![c] = Adds(o)] /\ Adds(o) \subseteq Cells
  BY <1>1, <1>2, AddsAreCells DEF Wanted
<1>4. ASSUME NEW d \in Clients PROVE CountedMap'[d] = CountedMap[d]
  <2>1. CASE d = c
    <3>1. \A u \in Workers : job[u] # c
      BY <1>2 DEF SystemInv, OnePlace
    <3>2. CountedIn(op[d], todo, job, stage, d) = {} /\ CountedIn(op'[d], todo', job', stage', d) = {}
      BY <1>2, <2>1, <3>1, CountedOfNone
    <3> QED BY <3>2, CountedDef
  <2>2. CASE d # c
    <3>1. op'[d] = op[d]
      BY <1>1, <2>2
    <3> QED BY <1>2, <3>1, CountedKept
  <2> QED BY <2>1, <2>2
<1>5. CountedMap' = CountedMap
  BY <1>4 DEF CountedMap
<1> QED BY <1>2, <1>3, <1>5 DEF Promise!Ask, Wanted, CountedMap

\* That a worker takes it is not seen by them,
LEMMA TakeMaps == ASSUME SystemInv, NEW t \in Workers, Take(t) PROVE UNCHANGED systemVars
<1> USE SystemTyped
<1>1. /\ stage[t] = "free"
      /\ job' = [job EXCEPT ![t] = Head(queue)]
      /\ stage' = [stage EXCEPT ![t] = "call"]
      /\ UNCHANGED <<op, todo, m, polling, unread, page>>
  BY DEF Take, pageVars
<1>2. ASSUME NEW d \in Clients PROVE CountedMap'[d] = CountedMap[d]
  BY <1>1, CountedKept
<1>3. CountedMap' = CountedMap
  BY <1>2 DEF CountedMap
<1> QED BY <1>1, <1>3 DEF systemVars, Wanted

\* nor that the system call returns: nothing is counted yet.
LEMMA SystemCallMaps == ASSUME SystemInv, NEW t \in Workers, SystemCall(t) PROVE UNCHANGED systemVars
<1> USE SystemTyped
<1>1. /\ stage[t] = "call"
      /\ stage' = [stage EXCEPT ![t] = "record"]
      /\ todo' = [todo EXCEPT ![t] = Adds(op[job[t]])]
      /\ UNCHANGED <<op, job, m, polling, unread, page>>
  BY DEF SystemCall, pageVars
<1>2. ASSUME NEW d \in Clients PROVE CountedMap'[d] = CountedMap[d]
  <2>1. CASE d = job[t]
    <3>1. CountedIn(op[d], todo, job, stage, d) = {}
      BY <1>1, <2>1, CountedOfNone
    <3>2. CountedIn(op[d], todo', job', stage', job'[t]) = Adds(op[d]) \ todo'[t]
      <4>1. stage'[t] = "record" /\ \A u \in Workers : u # t => job'[u] # job'[t]
        BY <1>1
      <4> QED BY <4>1, CountedOfOne
    <3>3. CountedIn(op'[d], todo', job', stage', d) = {}
      BY <1>1, <2>1, <3>2
    <3> QED BY <3>1, <3>3, CountedDef
  <2>2. CASE d # job[t]
    BY <1>1, <2>2, CountedKept
  <2> QED BY <2>1, <2>2
<1>3. CountedMap' = CountedMap
  BY <1>2 DEF CountedMap
<1> QED BY <1>1, <1>3 DEF systemVars, Wanted

\* An addition of the worker counts the operation of its client once more.
LEMMA FetchAddMaps ==
    ASSUME SystemInv, NEW t \in Workers, NEW k \in Cells, FetchAdd(t, k)
    PROVE  job[t] \in Clients /\ Promise!Count(job[t], k)
<1> USE SystemTyped
<1> DEFINE c == job[t]
<1>1. /\ k \in todo[t]
      /\ m' = [m EXCEPT ![k] = @ + 1]
      /\ todo' = [todo EXCEPT ![t] = @ \ {k}]
      /\ UNCHANGED <<op, job, stage, polling, unread, page>>
  BY DEF FetchAdd, pageVars
<1>2. stage[t] = "record" /\ k \in Adds(op[c]) /\ c \in Clients /\ op[c] # None
  BY <1>1 DEF SystemInv, OwnTodo, OnePlace
<1>3. /\ CountedMap[c] = Adds(op[c]) \ todo[t]
      /\ CountedMap'[c] = Adds(op[c]) \ todo'[t]
  <2>1. CountedIn(op[c], todo, job, stage, job[t]) = Adds(op[c]) \ todo[t]
    BY <1>2, CountedOfOne
  <2>2. CountedIn(op[c], todo', job', stage', job'[t]) = Adds(op[c]) \ todo'[t]
    <3>1. stage'[t] = "record" /\ \A u \in Workers : u # t => job'[u] # job'[t]
      BY <1>1, <1>2
    <3> QED BY <3>1, CountedOfOne
  <2> QED BY <1>1, <1>2, <2>1, <2>2, CountedDef
<1>4. CountedMap'[c] = CountedMap[c] \cup {k}
  BY <1>1, <1>2, <1>3
<1>5. ASSUME NEW d \in Clients, d # c PROVE CountedMap'[d] = CountedMap[d]
  BY <1>1, <1>5, CountedKept
<1>6. CountedMap' = [CountedMap EXCEPT ![c] = @ \cup {k}]
  BY <1>2, <1>4, <1>5 DEF CountedMap
<1>7. Wanted' = Wanted /\ k \in Wanted[c] \ CountedMap[c]
  BY <1>1, <1>2, <1>3 DEF Wanted
<1> QED BY <1>1, <1>2, <1>6, <1>7 DEF Promise!Count, Wanted, CountedMap

\* The reply comes when the operation is counted everywhere.
LEMMA ReplyMaps ==
    ASSUME SystemInv, NEW t \in Workers, Reply(t)
    PROVE  \E c \in Clients : Promise!Answer(c)
<1> USE SystemTyped
<1>0. PICK c \in Clients : c = job[t]
  BY DEF Reply
<1>1. /\ stage[t] = "record" /\ todo[t] = {}
      /\ op' = [op EXCEPT ![c] = None]
      /\ job' = [job EXCEPT ![t] = None]
      /\ stage' = [stage EXCEPT ![t] = "free"]
      /\ UNCHANGED <<todo, m, polling, unread, page>>
  BY <1>0 DEF Reply, pageVars
<1>2. c \in Clients /\ op[c] \in Ops
  BY <1>0, <1>1
<1>3. CountedMap[c] = Adds(op[c])
  <2>1. CountedIn(op[c], todo, job, stage, job[t]) = Adds(op[c]) \ todo[t]
    <3>1. \A u \in Workers : u # t => job[u] # job[t]
      BY <1>0, <1>1
    <3> QED BY <1>0, <1>1, <3>1, CountedOfOne
  <2> QED BY <1>0, <1>1, <1>2, <2>1, CountedDef
<1>4. CountedMap'[c] = {}
  <2>1. \A u \in Workers : job'[u] # c \/ stage'[u] # "record"
    BY <1>0, <1>1
  <2>2. CountedIn(op'[c], todo', job', stage', c) = {}
    BY <2>1, CountedOfNone
  <2> QED BY <1>2, <2>2, CountedDef
<1>5. ASSUME NEW d \in Clients, d # c PROVE CountedMap'[d] = CountedMap[d]
  <2>1. op'[d] = op[d]
    BY <1>0, <1>1, <1>5
  <2> QED BY <1>0, <1>1, <1>5, <2>1, CountedKept
<1>6. CountedMap' = [CountedMap EXCEPT ![c] = {}]
  BY <1>2, <1>4, <1>5 DEF CountedMap
<1>7. Wanted' = [Wanted EXCEPT ![c] = {}] /\ Wanted[c] = Adds(op[c])
  BY <1>0, <1>1, <1>2 DEF Wanted
<1> QED BY <1>0, <1>1, <1>2, <1>3, <1>6, <1>7 DEF Promise!Answer, Wanted, CountedMap

\* A page is a page.
LEMMA PageMaps ==
    ASSUME SystemInv, NEW p \in Pollers, Poller(p)
    PROVE  Promise!AskPage(p) \/ (\E k \in Cells : Promise!Read(p, k)) \/ Promise!Show(p)
<1> USE SystemTyped
<1>1. UNCHANGED <<op, job, stage, todo>> => Wanted' = Wanted /\ CountedMap' = CountedMap
  <2> SUFFICES ASSUME UNCHANGED <<op, job, stage, todo>>
               PROVE  Wanted' = Wanted /\ CountedMap' = CountedMap
    OBVIOUS
  <2>1. \A d \in Clients : CountedMap'[d] = CountedMap[d]
    BY CountedKept
  <2> QED BY <2>1 DEF CountedMap, Wanted
<1>2. CASE AskPage(p)
  BY <1>1, <1>2 DEF AskPage, Promise!AskPage, Wanted, CountedMap
<1>3. ASSUME NEW k \in Cells, Load(p, k) PROVE Promise!Read(p, k)
  BY <1>1, <1>3 DEF Load, Promise!Read, Wanted, CountedMap
<1>4. CASE ServePage(p)
  BY <1>1, <1>4 DEF ServePage, Promise!Show, Wanted, CountedMap
<1> QED BY <1>2, <1>3, <1>4 DEF Poller

\* Every step is a step of the counters or none.
LEMMA StepMaps == SystemInv /\ [Next]_vars => [Promise!Next]_(Promise!vars)
<1> SUFFICES ASSUME SystemInv, [Next]_vars PROVE [Promise!Next]_(Promise!vars)
  OBVIOUS
<1>1. UNCHANGED systemVars => UNCHANGED Promise!vars
  BY DEF systemVars, Wanted, CountedMap, Promise!vars
<1>2. ASSUME NEW c \in Clients, Ask(c) PROVE Promise!Next
  BY <1>2, AskMaps DEF Promise!Next
<1>3. ASSUME NEW t \in Workers, Worker(t) PROVE [Promise!Next]_(Promise!vars)
  <2>1. CASE Take(t) \/ SystemCall(t)
    BY <1>1, <2>1, TakeMaps, SystemCallMaps
  <2>2. ASSUME NEW k \in Cells, FetchAdd(t, k) PROVE Promise!Next
    BY <2>2, FetchAddMaps DEF Promise!Next
  <2>3. ASSUME Reply(t) PROVE Promise!Next
    <3>1. PICK c \in Clients : Promise!Answer(c)
      BY <2>3, ReplyMaps
    <3> QED BY <3>1 DEF Promise!Next
  <2>4. Take(t) \/ SystemCall(t) \/ (\E k \in Cells : FetchAdd(t, k)) \/ Reply(t)
    BY <1>3 DEF Worker
  <2> QED BY <2>1, <2>2, <2>3, <2>4, Zenon
<1>4. ASSUME NEW p \in Pollers, Poller(p) PROVE Promise!Next
  BY <1>4, PageMaps DEF Promise!Next
<1>5. CASE UNCHANGED vars
  <2>1. UNCHANGED <<op, job, stage, todo, m, polling, unread, page>>
    BY <1>5 DEF vars
  <2>2. \A d \in Clients : CountedMap'[d] = CountedMap[d]
    BY <2>1, CountedKept
  <2>3. Wanted' = Wanted /\ CountedMap' = CountedMap
    BY <2>1, <2>2 DEF CountedMap, Wanted
  <2> QED BY <1>1, <2>1, <2>3 DEF systemVars
<1>6. \/ \E c \in Clients : Ask(c)
      \/ \E t \in Workers : Worker(t)
      \/ \E p \in Pollers : Poller(p)
      \/ UNCHANGED vars
  BY DEF Next
<1> QED BY <1>2, <1>3, <1>4, <1>5, <1>6, Zenon

\* The start is their start.
LEMMA InitMaps == Init => Promise!Init
<1> SUFFICES ASSUME Init PROVE Promise!Init
  OBVIOUS
<1>1. \A c \in Clients : CountedMap[c] = {}
  <2>1. \A c \in Clients : CountedIn(op[c], todo, job, stage, c) = {}
    BY CountedOfNone DEF Init
  <2> QED BY <2>1, CountedDef
<1>2. Wanted = [c \in Clients |-> {}] /\ CountedMap = [c \in Clients |-> {}]
  BY <1>1 DEF Init, Wanted, CountedMap
<1> QED BY <1>2 DEF Init, Promise!Init, Wanted, CountedMap

\* iofs-ng implements the atomic counters of operations that OpCounter promises:
\* an operation is counted once per counter before its answer, and a page shows
\* each counter as it was at one moment between the request and the page.
THEOREM ImplementsOpCounter == Spec => CounterSpec
<1> QED BY SystemInvariant, InitMaps, StepMaps, PTL DEF Spec, CounterSpec, Promise!Spec
-----------------------------------------------------------------------------
(* The plugins of a page.  The count of an earlier plugin is ahead of that of *)
(* a later one by the records that are between the two.                       *)

\* The number of calls of a plugin, the pairs of an earlier and a later plugin, and
\* the workers that have added to the one and not to the other.
Calls(i) == <<i, "calls">>
Pairs == {ij \in (DOMAIN Plugins) \X (DOMAIN Plugins) : ij[1] < ij[2]}
Between(i, j) == {t \in Workers : Calls(i) \notin todo[t] /\ Calls(j) \in todo[t]}

\* A record adds to the plugins in their order.
InOrder ==
    \A t \in Workers : \A ij \in Pairs : Calls(ij[1]) \in todo[t] => Calls(ij[2]) \in todo[t]

\* The counts of the two differ by these workers.
Ahead == \A ij \in Pairs : m[Calls(ij[1])] = m[Calls(ij[2])] + Cardinality(Between(ij[1], ij[2]))

\* A page that has an earlier plugin is at most the records under way ahead of
\* what it has, or will get, of a later one.
PageAhead ==
    \A p \in Pollers : \A ij \in Pairs :
        /\ Calls(ij[1]) \in unread[p] => Calls(ij[2]) \in unread[p]
        /\ Calls(ij[1]) \notin unread[p] =>
              page[p][Calls(ij[1])] <= Cardinality(Workers) + IF Calls(ij[2]) \in unread[p]
                                          THEN m[Calls(ij[2])] ELSE page[p][Calls(ij[2])]

\* Every plugin counts calls.
LEMMA CallsAreCells ==
    /\ \A i \in DOMAIN Plugins : Calls(i) \in Cells
    /\ \A ij \in Pairs : /\ ij[1] \in DOMAIN Plugins /\ ij[2] \in DOMAIN Plugins
                         /\ ij[1] \in Nat /\ ij[2] \in Nat /\ ij[1] < ij[2]
                         /\ Calls(ij[1]) # Calls(ij[2])
                         /\ Calls(ij[1]) \in Cells /\ Calls(ij[2]) \in Cells
  BY IofsAssumption DEF Calls, Cells, Pairs

\* There are at most as many workers between two plugins as workers.
LEMMA BetweenFinite ==
    \A i, j \in DOMAIN Plugins :
        /\ IsFiniteSet(Between(i, j)) /\ Cardinality(Between(i, j)) \in Nat
        /\ Cardinality(Between(i, j)) <= Cardinality(Workers) /\ Cardinality(Workers) \in Nat
<1> SUFFICES ASSUME NEW i \in DOMAIN Plugins, NEW j \in DOMAIN Plugins
             PROVE  /\ IsFiniteSet(Between(i, j)) /\ Cardinality(Between(i, j)) \in Nat
                    /\ Cardinality(Between(i, j)) <= Cardinality(Workers) /\ Cardinality(Workers) \in Nat
  OBVIOUS
<1>1. Between(i, j) \subseteq Workers
  BY DEF Between
<1> QED BY <1>1, IofsAssumption, FS_Subset, FS_CardinalityType

\* The inductive invariant of the pages.
AgreeInv == SystemInv /\ InOrder /\ Ahead /\ PageAhead

\* All counts and pages are zero at the start.
LEMMA AgreeInit == Init => AgreeInv
<1> SUFFICES ASSUME Init PROVE AgreeInv
  OBVIOUS
<1> USE CallsAreCells
<1>1. \A i, j \in DOMAIN Plugins : Cardinality(Between(i, j)) = 0
  BY FS_EmptySet DEF Init, Between
<1>2. InOrder /\ Ahead
  BY <1>1 DEF Init, InOrder, Ahead
<1>3. PageAhead
  <2>1. Cardinality(Workers) \in Nat
    BY IofsAssumption, FS_CardinalityType
  <2> QED BY <2>1 DEF Init, PageAhead
<1> QED BY <1>2, <1>3, SystemInvInit DEF AgreeInv

\* Only the workers change what is between, only they the counters.
LEMMA WorkersAgree ==
    ASSUME AgreeInv, NEW t \in Workers, SystemCall(t) PROVE InOrder' /\ Ahead' /\ PageAhead'
<1> USE CallsAreCells
<1>1. /\ todo' = [todo EXCEPT ![t] = Adds(op[job[t]])] /\ m' = m /\ unread' = unread /\ page' = page
      /\ stage[t] = "call" /\ todo \in [Workers -> SUBSET Cells]
  BY DEF SystemCall, pageVars, AgreeInv, SystemInv, TypeOK
<1>2. todo[t] = {} /\ \A i \in DOMAIN Plugins : Calls(i) \in Adds(op[job[t]])
  BY <1>1, CallsAreCells DEF Adds, Calls, AgreeInv, SystemInv, OwnTodo
<1>3. InOrder'
  BY <1>1, <1>2 DEF InOrder, AgreeInv
<1>4. \A ij \in Pairs : Between(ij[1], ij[2])' = Between(ij[1], ij[2])
  BY <1>1, <1>2 DEF Between
<1> QED BY <1>1, <1>3, <1>4 DEF AgreeInv, Ahead, PageAhead

\* An addition lets its worker in between two plugins, or out.
LEMMA AddAgrees ==
    ASSUME AgreeInv, NEW t \in Workers, NEW c \in Cells, FetchAdd(t, c)
    PROVE  InOrder' /\ Ahead' /\ PageAhead'
<1> USE CallsAreCells
<1>1. /\ c \in todo[t] /\ todo' = [todo EXCEPT ![t] = @ \ {c}] /\ m' = [m EXCEPT ![c] = @ + 1]
      /\ unread' = unread /\ page' = page /\ todo \in [Workers -> SUBSET Cells]
      /\ m \in [Cells -> Nat] /\ page \in [Pollers -> [Cells -> Nat]]
  BY DEF FetchAdd, pageVars, AgreeInv, SystemInv, TypeOK
<1>2. \A ij \in Pairs : c = Calls(ij[2]) => Calls(ij[1]) \notin todo[t]
  BY DEF FetchAdd, AddsBefore, Calls
<1>3. InOrder'
  BY <1>1, <1>2 DEF InOrder, AgreeInv
<1>4. ASSUME NEW ij \in Pairs
      PROVE  m'[Calls(ij[1])] = m'[Calls(ij[2])] + Cardinality(Between(ij[1], ij[2])')
  <2> DEFINE B == Between(ij[1], ij[2])
  <2>1. m[Calls(ij[1])] = m[Calls(ij[2])] + Cardinality(B)
    BY DEF AgreeInv, Ahead
  <2>2. IsFiniteSet(B) /\ Cardinality(B) \in Nat
    BY BetweenFinite
  <2>3. CASE c = Calls(ij[1])
    <3>1. B' = B \cup {t} /\ t \notin B
      BY <1>1, <2>3 DEF Between, InOrder, AgreeInv
    <3>2. Cardinality(B') = Cardinality(B) + 1
      BY <2>2, <3>1, FS_AddElement
    <3> QED BY <1>1, <2>1, <2>2, <2>3, <3>2
  <2>4. CASE c = Calls(ij[2])
    <3>1. B' = B \ {t} /\ t \in B
      BY <1>1, <1>2, <2>4 DEF Between
    <3>2. Cardinality(B') = Cardinality(B) - 1
      BY <2>2, <3>1, FS_RemoveElement
    <3> QED BY <1>1, <2>1, <2>2, <2>4, <3>2
  <2>5. CASE c # Calls(ij[1]) /\ c # Calls(ij[2])
    <3>1. B' = B
      BY <1>1, <2>5 DEF Between
    <3> QED BY <1>1, <2>1, <2>5, <3>1
  <2> QED BY <2>3, <2>4, <2>5
<1>5. \A d \in Cells : m[d] <= m'[d] /\ m[d] \in Nat /\ m'[d] \in Nat
  BY <1>1
<1>6. Cardinality(Workers) \in Nat
  BY IofsAssumption, FS_CardinalityType
<1>7. PageAhead'
  BY <1>1, <1>5, <1>6 DEF PageAhead, AgreeInv
<1>8. Ahead'
  BY <1>4 DEF Ahead
<1> QED BY <1>3, <1>7, <1>8

\* A page loads the later plugin after the earlier one.
LEMMA PagesAgree ==
    ASSUME AgreeInv, NEW p \in Pollers, Poller(p) PROVE InOrder' /\ Ahead' /\ PageAhead'
<1> USE CallsAreCells
<1>1. UNCHANGED <<todo, m>> /\ m \in [Cells -> Nat] /\ page \in [Pollers -> [Cells -> Nat]]
      /\ unread \in [Pollers -> SUBSET Cells]
  BY DEF Poller, AskPage, Load, ServePage, AgreeInv, SystemInv, TypeOK
<1>2. InOrder' /\ Ahead'
  <2>1. \A ij \in Pairs : Between(ij[1], ij[2])' = Between(ij[1], ij[2])
    BY <1>1 DEF Between
  <2> QED BY <1>1, <2>1 DEF InOrder, Ahead, AgreeInv
<1>3. CASE AskPage(p)
  BY <1>1, <1>2, <1>3 DEF AskPage, PageAhead, AgreeInv
<1>4. ASSUME NEW c \in Cells, Load(p, c) PROVE PageAhead'
  <2>1. /\ c \in unread[p] /\ page' = [page EXCEPT ![p][c] = m[c]]
        /\ unread' = [unread EXCEPT ![p] = @ \ {c}]
    BY <1>4 DEF Load
  <2>2. \A ij \in Pairs : c = Calls(ij[2]) => Calls(ij[1]) \notin unread[p]
    BY <1>4 DEF Load, LoadsBefore, Calls
  <2>3. \A ij \in Pairs : m[Calls(ij[1])] <= Cardinality(Workers) + m[Calls(ij[2])]
    BY <1>1, BetweenFinite DEF AgreeInv, Ahead
  <2>4. ASSUME NEW ij \in Pairs, Calls(ij[1]) \in unread'[p] PROVE Calls(ij[2]) \in unread'[p]
    BY <1>1, <2>1, <2>2, <2>4 DEF AgreeInv, PageAhead
  <2>5. ASSUME NEW ij \in Pairs, Calls(ij[1]) \notin unread'[p]
        PROVE  page'[p][Calls(ij[1])] <= Cardinality(Workers) + IF Calls(ij[2]) \in unread'[p]
                                          THEN m[Calls(ij[2])] ELSE page'[p][Calls(ij[2])]
    <3>1. CASE c = Calls(ij[1])
      BY <1>1, <2>1, <2>3, <3>1 DEF AgreeInv, PageAhead
    <3>2. CASE c # Calls(ij[1])
      BY <1>1, <2>1, <2>5, <3>2 DEF AgreeInv, PageAhead
    <3> QED BY <3>1, <3>2
  <2>6. \A q \in Pollers : q # p => unread'[q] = unread[q] /\ page'[q] = page[q]
    BY <1>1, <2>1
  <2> QED BY <1>1, <2>4, <2>5, <2>6 DEF AgreeInv, PageAhead
<1>5. CASE ServePage(p)
  <2>1. UNCHANGED <<unread, page>>
    BY <1>5 DEF ServePage
  <2>2. PageAhead'
    BY <1>1, <2>1 DEF PageAhead, AgreeInv
  <2> QED BY <1>2, <2>2
<1> QED BY <1>2, <1>3, <1>4, <1>5 DEF Poller

\* Every step keeps the invariant.
LEMMA AgreeNext == AgreeInv /\ [Next]_vars => AgreeInv'
<1> SUFFICES ASSUME AgreeInv, [Next]_vars PROVE AgreeInv'
  OBVIOUS
<1>1. SystemInv'
  BY SystemInvNext DEF AgreeInv
<1>2. ASSUME UNCHANGED <<todo, m, unread, page>> PROVE InOrder' /\ Ahead' /\ PageAhead'
  BY <1>2 DEF AgreeInv, InOrder, Ahead, Between, PageAhead
<1>3. ASSUME NEW t \in Workers, Worker(t) PROVE InOrder' /\ Ahead' /\ PageAhead'
  <2>1. CASE Take(t) \/ Reply(t)
    BY <1>2, <2>1 DEF Take, Reply, pageVars
  <2> QED BY <1>3, <2>1, WorkersAgree, AddAgrees DEF Worker
<1>4. ASSUME NEW c \in Clients, Ask(c) PROVE UNCHANGED <<todo, m, unread, page>>
  BY <1>4 DEF Ask, pageVars
<1>5. UNCHANGED vars => UNCHANGED <<todo, m, unread, page>>
  BY DEF vars
<1> QED BY <1>1, <1>2, <1>3, <1>4, <1>5, PagesAgree DEF Next, AgreeInv

\* On a finished page a later plugin shows at most one call per worker less
\* than an earlier one.
THEOREM PluginsAgreeOnPages == Spec => []PluginsAgree
<1>1. AgreeInv => PluginsAgree
  <2> SUFFICES ASSUME AgreeInv, NEW p \in Pollers, unread[p] = {},
                      NEW i \in DOMAIN Plugins, NEW j \in DOMAIN Plugins, i < j
               PROVE  page[p][<<i, "calls">>] <= page[p][<<j, "calls">>] + Cardinality(Workers)
    BY DEF PluginsAgree
  <2>1. <<i, j>> \in Pairs /\ Calls(i) \in Cells /\ Calls(j) \in Cells
    BY CallsAreCells DEF Pairs
  <2>2. /\ page[p] \in [Cells -> Nat] /\ Cardinality(Workers) \in Nat
        /\ page[p][Calls(i)] <= Cardinality(Workers) + page[p][Calls(j)]
    BY <2>1, IofsAssumption, FS_CardinalityType DEF AgreeInv, PageAhead, SystemInv, TypeOK
  <2> QED BY <2>1, <2>2 DEF Calls
<1> QED BY <1>1, AgreeInit, AgreeNext, PTL DEF Spec
=============================================================================
