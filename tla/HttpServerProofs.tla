--------------------------- MODULE HttpServerProofs ---------------------------
(***************************************************************************)
(* The safety of HttpServer for any number of connections, threads and       *)
(* descriptors.                                                             *)
(***************************************************************************)
EXTENDS HttpServer, FiniteSetTheorems, TLAPS

\* Where the acceptor and the threads are says what they hold.
Holding ==
    /\ server = "enqueue" <=> hand # 0
    /\ \A t \in Threads : at[t] \in Busy <=> conn[t] # 0
    /\ \A t \in Threads : at[t] = "answer" => req[t] \in Whole

\* What the kernel holds was never accepted before.
Fresh ==
    /\ \A i \in DOMAIN backlog : net[backlog[i]] # "new" /\ backlog[i] \notin open
    /\ \A i, j \in DOMAIN backlog : backlog[i] = backlog[j] => i = j
    /\ \A c \in open : net[c] # "new"

\* The pool ends in this order: the flag, the queue, the threads, the acceptor.
Ending ==
    /\ shutdown => server \in {"notify_all", "join", "down"}
    /\ server \in {"notify_all", "join"} => shutdown
    /\ \A t \in Threads : at[t] = "exit" => shutdown /\ jobs = <<>>
    /\ server = "down" /\ shutdown => \A t \in Threads : at[t] = "exit"

\* The loop over the requests of a connection goes on until something ends it,
\* and before it nothing is said about the end.
Loop ==
    /\ \A t \in Threads : at[t] \in {"poll", "answer"} =>
         left[t] > 0 /\ ended[conn[t]] = None /\ ~told[conn[t]]
    /\ \A c \in Conns : ended[c] # None \/ told[c] =>
         /\ net[c] # "new"
         /\ \A i \in DOMAIN backlog : backlog[i] # c
         /\ c \in open => \E t \in Threads : conn[t] = c

\* The inductive invariant of the server.
HttpInv ==
    TypeOK /\ Holding /\ Fresh /\ OneOwner /\ NoJobForgotten /\ Ending /\ Loop /\ EndAnnounced
-----------------------------------------------------------------------------
\* It holds before the port is bound.
LEMMA HttpInit == Init => HttpInv
<1> SUFFICES ASSUME Init PROVE HttpInv
  OBVIOUS
<1> USE HttpAssumption DEF Init
<1>1. TypeOK
  <2>1. 0 \in 0..KeepAliveMax /\ 0 \in 0..MaxRequests /\ room \in 0..MaxFds
    OBVIOUS
  <2>2. left \in [Threads -> 0..KeepAliveMax]
    BY <2>1
  <2>3. sent \in [Conns -> Seq(AllKinds)]
    OBVIOUS
  <2>4. jobs \in Seq(Conns) /\ backlog \in Seq(Conns)
    OBVIOUS
  <2>5. /\ at \in [Threads -> {"lock", "wait", "exit"} \cup Busy]
        /\ conn \in [Threads -> Conns \cup {0}] /\ req \in [Threads -> Whole \cup {None}]
        /\ net \in [Conns -> {"new", "there", "gone"}]
    OBVIOUS
  <2>6. /\ told \in [Conns -> BOOLEAN]
        /\ ended \in [Conns -> {None, "limit", "over"}]
    OBVIOUS
  <2> QED BY <2>1, <2>2, <2>3, <2>4, <2>5, <2>6 DEF TypeOK
<1>2. Holding
  BY DEF Holding, Busy
<1>3. Fresh /\ Ending
  BY DEF Fresh, Ending
<1>4. OneOwner
  BY DEF OneOwner, Conns
<1>5. NoJobForgotten
  BY DEF NoJobForgotten
<1>6. Loop /\ EndAnnounced
  BY DEF Loop, EndAnnounced, None
<1> QED BY <1>1, <1>2, <1>3, <1>4, <1>5, <1>6 DEF HttpInv

\* 0, "no connection", is none.
LEMMA ConnsNotZero == 0 \notin Conns /\ Conns \subseteq Nat
  BY HttpAssumption DEF Conns

\* Threads can be counted.
LEMMA LockedThreads ==
    \A L \in SUBSET Threads : IsFiniteSet(L) /\ Cardinality(L) \in Nat
  BY HttpAssumption, FS_Subset, FS_CardinalityType

\* A connection the kernel takes has not been seen before.
LEMMA ConnectKeeps == ASSUME HttpInv, NEW c \in Conns, Connect(c) PROVE HttpInv'
<1> USE ConnsNotZero
<1>1. /\ net[c] = "new" /\ net' = [net EXCEPT ![c] = "there"] /\ backlog' = Append(backlog, c)
      /\ UNCHANGED <<server, hand, jobs, shutdown, at, conn, left, req, open, room, sent, asked, told, ended>>
  BY DEF Connect, poolVars, endVars
<1>2. backlog \in Seq(Conns) /\ net \in [Conns -> {"new", "there", "gone"}]
  BY DEF HttpInv, TypeOK
<1>3. TypeOK'
  BY <1>1, <1>2 DEF HttpInv, TypeOK
<1>4. \A i \in DOMAIN backlog : backlog[i] # c /\ backlog[i] \in Conns
  BY <1>1, <1>2 DEF HttpInv, Fresh
<1>5. \A i \in DOMAIN backlog' :
         (i \in DOMAIN backlog /\ backlog'[i] = backlog[i])
         \/ (i \notin DOMAIN backlog /\ i = Len(backlog) + 1 /\ backlog'[i] = c)
  BY <1>1, <1>2
<1>6. c \notin open
  BY <1>1 DEF HttpInv, Fresh
<1>7. Fresh'
  <2>1. \A i \in DOMAIN backlog' : net'[backlog'[i]] # "new" /\ backlog'[i] \notin open'
    BY <1>1, <1>2, <1>4, <1>5, <1>6 DEF HttpInv, Fresh
  <2>2. \A i, j \in DOMAIN backlog' : backlog'[i] = backlog'[j] => i = j
    BY <1>4, <1>5 DEF HttpInv, Fresh
  <2>3. \A d \in open' : net'[d] # "new"
    BY <1>1, <1>2 DEF HttpInv, Fresh, TypeOK
  <2> QED BY <2>1, <2>2, <2>3 DEF Fresh
<1>8. Loop'
  <2>1. ended[c] = None /\ ~told[c]
    BY <1>1 DEF HttpInv, Loop
  <2>2. \A d \in Conns : ended'[d] # None \/ told'[d] =>
           net'[d] # "new" /\ \A i \in DOMAIN backlog' : backlog'[i] # d
    BY <1>1, <1>2, <1>5, <2>1 DEF HttpInv, Loop
  <2> QED BY <1>1, <2>2 DEF HttpInv, Loop
<1>9. Holding' /\ OneOwner' /\ NoJobForgotten' /\ Ending' /\ EndAnnounced'
  BY <1>1 DEF HttpInv, Holding, OneOwner, NoJobForgotten, Ending, EndAnnounced
<1> QED BY <1>3, <1>7, <1>8, <1>9 DEF HttpInv

\* What else a client does touches no thread.
LEMMA ClientKeeps == ASSUME HttpInv, NEW c \in Conns, Send(c) \/ Finish(c) \/ Leave(c) PROVE HttpInv'
<1>1. /\ UNCHANGED <<server, hand, jobs, shutdown, at, conn, left, req, open, room, backlog, told, ended>>
      /\ \A d \in Conns : net'[d] = "new" <=> net[d] = "new"
  BY DEF Send, Finish, Leave, poolVars, endVars, HttpInv, TypeOK
<1>2. TypeOK'
  <2>1. CASE Send(c)
    <3>1. PICK k \in Kinds : sent' = [sent EXCEPT ![c] = Append(@, k)]
      BY <2>1 DEF Send
    <3>2. sent' \in [Conns -> Seq(AllKinds)]
      BY <3>1, HttpAssumption DEF HttpInv, TypeOK
    <3>3. asked' \in 0..MaxRequests
      BY <2>1, HttpAssumption DEF Send, HttpInv, TypeOK
    <3>4. net' = net
      BY <2>1 DEF Send
    <3> QED BY <1>1, <3>2, <3>3, <3>4 DEF HttpInv, TypeOK
  <2>2. CASE Finish(c)
    <3>1. PICK k \in Whole : sent' = [sent EXCEPT ![c][Len(sent[c])] = k]
      BY <2>2 DEF Finish
    <3>2. sent[c] \in Seq(AllKinds) /\ k \in AllKinds /\ sent[c] # <<>>
      BY <2>2 DEF Finish, HttpInv, TypeOK, AllKinds
    <3>3. [sent[c] EXCEPT ![Len(sent[c])] = k] \in Seq(AllKinds)
      BY <3>2
    <3>4. sent' \in [Conns -> Seq(AllKinds)]
      BY <3>1, <3>3 DEF HttpInv, TypeOK
    <3>5. net' = net /\ asked' = asked
      BY <2>2 DEF Finish
    <3> QED BY <1>1, <3>4, <3>5 DEF HttpInv, TypeOK
  <2>3. CASE Leave(c)
    BY <1>1, <2>3 DEF Leave, HttpInv, TypeOK
  <2> QED BY <2>1, <2>2, <2>3
<1>3. open \subseteq Conns /\ \A i \in DOMAIN backlog : backlog[i] \in Conns
  BY DEF HttpInv, TypeOK
<1>4. Fresh' /\ Loop'
  BY <1>1, <1>3 DEF HttpInv, Fresh, Loop
<1>5. Holding' /\ OneOwner' /\ NoJobForgotten' /\ Ending' /\ EndAnnounced'
  BY <1>1 DEF HttpInv, Holding, OneOwner, NoJobForgotten, Ending, EndAnnounced
<1> QED BY <1>2, <1>4, <1>5 DEF HttpInv

(* The acceptor. *)

\* The connection passes from the backlog to the acceptor.
LEMMA AcceptKeeps == ASSUME HttpInv, Accept PROVE HttpInv'
<1> USE ConnsNotZero
<1> DEFINE c == Head(backlog)
<1>1. /\ server = "accept" /\ server' = "enqueue" /\ backlog # <<>>
      /\ hand' = c /\ backlog' = Tail(backlog) /\ open' = open \cup {c}
      /\ UNCHANGED <<jobs, shutdown, at, conn, left, req, room, net, sent, asked, told, ended>>
  BY DEF Accept, poolVars, clientVars, endVars
<1>2. backlog \in Seq(Conns) /\ open \subseteq Conns
  BY DEF HttpInv, TypeOK
<1>3. /\ c \in Conns /\ c = backlog[1] /\ 1 \in DOMAIN backlog /\ backlog' \in Seq(Conns)
      /\ \A i \in DOMAIN backlog' : i + 1 \in DOMAIN backlog /\ backlog'[i] = backlog[i + 1] /\ i \in Nat /\ i > 0
  BY <1>1, <1>2
<1>4. c \notin open /\ net[c] # "new" /\ \A i \in DOMAIN backlog' : backlog'[i] # c
  BY <1>3 DEF HttpInv, Fresh
<1> HIDE DEF c
<1>5. TypeOK'
  BY <1>1, <1>2, <1>3 DEF HttpInv, TypeOK
<1>6. Fresh'
  BY <1>1, <1>3, <1>4 DEF HttpInv, Fresh
<1>7. OneOwner'
  BY <1>1, <1>3, <1>4 DEF HttpInv, OneOwner, Holding
<1>8. ended[c] = None /\ ~told[c]
  BY <1>3 DEF HttpInv, Loop
<1>9. Loop'
  BY <1>1, <1>3, <1>8 DEF HttpInv, Loop
<1>10. Holding'
  BY <1>1, <1>3 DEF HttpInv, Holding
<1>11. NoJobForgotten' /\ Ending' /\ EndAnnounced'
  BY <1>1 DEF HttpInv, NoJobForgotten, Ending, EndAnnounced
<1> QED BY <1>5, <1>6, <1>7, <1>9, <1>10, <1>11 DEF HttpInv

\* It passes on to the queue, with a wake-up owed.
LEMMA EnqueueKeeps == ASSUME HttpInv, Enqueue PROVE HttpInv'
<1> USE ConnsNotZero
<1>1. /\ server = "enqueue" /\ server' = "notify" /\ jobs' = Append(jobs, hand) /\ hand' = 0
      /\ UNCHANGED <<shutdown, at, conn, left, req, backlog, open, room, net, sent, asked, told, ended>>
  BY DEF Enqueue, clientVars, endVars
<1>2. jobs \in Seq(Conns) /\ hand \in Conns /\ Len(jobs) \in Nat
  BY <1>1 DEF HttpInv, TypeOK, Holding
<1>3. /\ DOMAIN jobs' = 1..(Len(jobs) + 1) /\ DOMAIN jobs = 1..Len(jobs)
      /\ jobs'[Len(jobs) + 1] = hand /\ \A i \in 1..Len(jobs) : jobs'[i] = jobs[i]
      /\ Len(jobs') = Len(jobs) + 1 /\ jobs' \in Seq(Conns)
  BY <1>1, <1>2
<1>4. \A i \in DOMAIN jobs' :
         (i \in DOMAIN jobs /\ jobs'[i] = jobs[i]) \/ (i \notin DOMAIN jobs /\ i = Len(jobs) + 1 /\ jobs'[i] = hand)
  BY <1>2, <1>3
<1>5. TypeOK'
  BY <1>1, <1>3 DEF HttpInv, TypeOK
<1>6. OneOwner'
  <2>1. \A d \in Conns : (\E i \in DOMAIN jobs' : jobs'[i] = d) <=> d = hand \/ \E i \in DOMAIN jobs : jobs[i] = d
    BY <1>2, <1>3, <1>4
  <2>2. \A d \in Conns : d \in open' <=> \/ d = hand'
                                         \/ \E i \in DOMAIN jobs' : jobs'[i] = d
                                         \/ \E t \in Threads : conn'[t] = d
    BY <1>1, <1>2, <2>1 DEF HttpInv, OneOwner
  <2>3. \A i, j \in DOMAIN jobs' : jobs'[i] = jobs'[j] => i = j
    BY <1>4 DEF HttpInv, OneOwner
  <2>4. \A i \in DOMAIN jobs' : jobs'[i] # hand' /\ \A t \in Threads : conn'[t] # jobs'[i]
    <3>1. \A i \in DOMAIN jobs' : jobs'[i] \in Conns
      BY <1>3
    <3>2. \A t \in Threads : conn[t] # hand
      BY <1>2 DEF HttpInv, OneOwner
    <3> QED BY <1>1, <1>2, <1>4, <3>1, <3>2 DEF HttpInv, OneOwner
  <2>5. \A t \in Threads : conn'[t] # 0 =>
           conn'[t] # hand' /\ \A u \in Threads : conn'[u] = conn'[t] => u = t
    BY <1>1 DEF HttpInv, OneOwner
  <2> QED BY <2>2, <2>3, <2>4, <2>5, Zenon DEF OneOwner
<1>7. NoJobForgotten'
  <2>1. Cardinality({t \in Threads : at[t] = "lock"}) \in Nat
    BY LockedThreads
  <2> QED BY <1>1, <1>2, <1>3, <2>1 DEF HttpInv, NoJobForgotten
<1>8. Holding' /\ Fresh' /\ Loop' /\ EndAnnounced'
  BY <1>1 DEF HttpInv, Holding, Fresh, Loop, EndAnnounced
<1>9. Ending'
  BY <1>1 DEF HttpInv, Ending
<1> QED BY <1>5, <1>6, <1>7, <1>8, <1>9 DEF HttpInv

\* The wake-up is paid: one thread less sleeps, one more is on its way.
LEMMA NotifyKeeps == ASSUME HttpInv, Notify PROVE HttpInv'
<1>1. /\ server = "notify" /\ server' = "accept"
      /\ UNCHANGED <<hand, jobs, shutdown, conn, left, req, backlog, open, room, net, sent, asked, told, ended>>
  BY DEF Notify, clientVars, endVars
<1>2. at \in [Threads -> {"lock", "wait", "exit"} \cup Busy] /\ jobs \in Seq(Conns)
  BY DEF HttpInv, TypeOK
<1>3. CASE \E t \in Threads : at[t] = "wait"
  <2>1. PICK t \in Threads : at[t] = "wait" /\ at' = [at EXCEPT ![t] = "lock"]
    BY <1>3 DEF Notify
  <2>2. TypeOK'
    BY <1>1, <1>2, <2>1 DEF HttpInv, TypeOK
  <2>3. Holding' /\ Ending' /\ Loop'
    BY <1>1, <1>2, <2>1 DEF HttpInv, Holding, Ending, Loop, Busy
  <2>4. NoJobForgotten'
    <3> DEFINE L == {u \in Threads : at[u] = "lock"}
    <3>1. L' = L \cup {t} /\ t \notin L /\ IsFiniteSet(L) /\ Cardinality(L) \in Nat
      BY <1>2, <2>1, LockedThreads
    <3>2. Cardinality(L') = Cardinality(L) + 1
      BY <3>1, FS_AddElement
    <3>3. Len(jobs) <= Cardinality(L) + 1
      BY <1>1, <1>3 DEF HttpInv, NoJobForgotten
    <3> QED BY <1>1, <1>2, <3>1, <3>2, <3>3 DEF NoJobForgotten
  <2>5. Fresh' /\ OneOwner' /\ EndAnnounced'
    BY <1>1 DEF HttpInv, Fresh, OneOwner, EndAnnounced
  <2> QED BY <2>2, <2>3, <2>4, <2>5 DEF HttpInv
<1>4. CASE ~\E t \in Threads : at[t] = "wait"
  <2>1. at' = at
    BY <1>4 DEF Notify
  <2>2. TypeOK'
    BY <1>1, <2>1 DEF HttpInv, TypeOK
  <2> QED BY <1>1, <1>4, <2>1, <2>2
          DEF HttpInv, Holding, Fresh, OneOwner, NoJobForgotten, Ending, Loop, EndAnnounced
<1> QED BY <1>3, <1>4

\* The steps of the acceptor that move no connection.
LEMMA ShutdownKeeps ==
    ASSUME HttpInv, Bind \/ AcceptFails \/ Shutdown \/ NotifyAll \/ Join PROVE HttpInv'
<1>1. /\ UNCHANGED <<hand, jobs, conn, left, req, open, room, sent, asked, told, ended>>
      /\ backlog' = backlog \/ backlog' = <<>>
      /\ net' \in [Conns -> {"new", "there", "gone"}]
      /\ \A c \in Conns : net'[c] = net[c] \/ net'[c] = "gone"
      /\ server # "enqueue" /\ server' # "enqueue" /\ server # "notify" /\ server' # "notify"
      /\ \A t \in Threads : at'[t] = at[t] \/ (at[t] = "wait" /\ at'[t] = "lock")
      /\ at' = at \/ \A t \in Threads : at'[t] # "wait"
  BY DEF Bind, AcceptFails, Shutdown, NotifyAll, Join, poolVars, clientVars, endVars, HttpInv, TypeOK
<1>2. TypeOK'
  <2>1. at' \in [Threads -> {"lock", "wait", "exit"} \cup Busy]
    BY DEF Bind, AcceptFails, Shutdown, NotifyAll, Join, poolVars, HttpInv, TypeOK
  <2>2. shutdown' \in BOOLEAN
    <3>1. shutdown' = shutdown \/ shutdown' = TRUE
      BY Zenon DEF Bind, AcceptFails, Shutdown, NotifyAll, Join, poolVars
    <3> QED BY <3>1 DEF HttpInv, TypeOK
  <2>4. backlog' \in Seq(Conns)
    <3>1. <<>> \in Seq(Conns)
      OBVIOUS
    <3> QED BY <1>1, <3>1, Zenon DEF HttpInv, TypeOK
  <2>3. server' \in {"bind", "accept", "enqueue", "notify", "stop", "notify_all", "join", "down"}
    BY DEF Bind, AcceptFails, Shutdown, NotifyAll, Join
  <2> QED BY <1>1, <2>1, <2>2, <2>3, <2>4 DEF HttpInv, TypeOK
<1>3. Holding'
  BY <1>1 DEF HttpInv, Holding, Busy
<1>4. Fresh' /\ OneOwner' /\ EndAnnounced'
  <2>1. open \subseteq Conns /\ \A i \in DOMAIN backlog : backlog[i] \in Conns
    BY DEF HttpInv, TypeOK
  <2>2. Fresh'
    BY <1>1, <2>1 DEF HttpInv, Fresh
  <2> QED BY <1>1, <2>2 DEF HttpInv, OneOwner, EndAnnounced
<1>5. Loop'
  BY <1>1 DEF HttpInv, Loop
<1>6. NoJobForgotten'
  <2>1. CASE at' = at
    BY <1>1, <2>1 DEF HttpInv, NoJobForgotten
  <2>2. CASE \A t \in Threads : at'[t] # "wait"
    BY <2>2 DEF NoJobForgotten
  <2> QED BY <1>1, <2>1, <2>2
<1>7. Ending'
  <2>1. CASE Bind \/ AcceptFails \/ Shutdown
    BY <1>1, <2>1 DEF Bind, AcceptFails, Shutdown, poolVars, HttpInv, Ending
  <2>2. CASE NotifyAll
    BY <1>1, <2>2 DEF NotifyAll, HttpInv, Ending
  <2>3. CASE Join
    BY <1>1, <2>3 DEF Join, poolVars, HttpInv, Ending
  <2> QED BY <2>1, <2>2, <2>3
<1> QED BY <1>2, <1>3, <1>4, <1>5, <1>6, <1>7 DEF HttpInv
-----------------------------------------------------------------------------
(* The threads of the pool. *)

\* What the steps of a thread need of the invariant.
LEMMA ThreadTyped ==
    ASSUME HttpInv
    PROVE  /\ at \in [Threads -> {"lock", "wait", "exit"} \cup Busy]
           /\ conn \in [Threads -> Conns \cup {0}] /\ left \in [Threads -> 0..KeepAliveMax]
           /\ req \in [Threads -> Whole \cup {None}] /\ jobs \in Seq(Conns)
           /\ sent \in [Conns -> Seq(AllKinds)] /\ told \in [Conns -> BOOLEAN]
           /\ ended \in [Conns -> {None, "limit", "over"}]
           /\ \A t \in Threads : at[t] \in Busy => conn[t] \in Conns
           /\ \A t, u \in Threads : conn[t] # 0 /\ conn[u] = conn[t] => u = t
           /\ KeepAliveMax \in Nat \ {0}
  BY ConnsNotZero, HttpAssumption DEF HttpInv, TypeOK, Holding, OneOwner

\* A job passes from the queue to its only owner.
LEMMA JobKeeps ==
    ASSUME HttpInv, NEW t \in Threads, GetJob(t), jobs # <<>> PROVE HttpInv'
<1> USE ConnsNotZero, ThreadTyped
<1> DEFINE c == Head(jobs)
<1>1. /\ at[t] = "lock" /\ conn' = [conn EXCEPT ![t] = c]
      /\ left' = [left EXCEPT ![t] = KeepAliveMax] /\ jobs' = Tail(jobs)
      /\ at' = [at EXCEPT ![t] = "poll"]
      /\ UNCHANGED <<server, hand, shutdown, req, backlog, open, room, net, sent, asked, told, ended>>
  BY DEF GetJob, clientVars, endVars
<1>2. /\ c \in Conns /\ c = jobs[1] /\ 1 \in DOMAIN jobs /\ jobs' \in Seq(Conns)
      /\ Len(jobs') = Len(jobs) - 1 /\ Len(jobs) \in Nat
      /\ \A i \in DOMAIN jobs' : i + 1 \in DOMAIN jobs /\ jobs'[i] = jobs[i + 1] /\ i \in Nat /\ i > 0
      /\ \A i \in DOMAIN jobs : i = 1 \/ (i - 1 \in DOMAIN jobs' /\ jobs[i] = jobs'[i - 1])
  BY <1>1
<1>3. conn[t] = 0
  BY <1>1 DEF HttpInv, Holding, Busy
<1>4. /\ c # hand /\ c \in open /\ \A u \in Threads : conn[u] # c
      /\ \A i \in DOMAIN jobs' : jobs'[i] # c
  <2>1. c # hand /\ c \in open /\ \A u \in Threads : conn[u] # c
    <3>1. jobs[1] # hand /\ \A u \in Threads : conn[u] # jobs[1]
      BY <1>2 DEF HttpInv, OneOwner
    <3>2. \E i \in DOMAIN jobs : jobs[i] = c
      BY <1>2
    <3>3. c \in open
      BY <1>2, <3>2 DEF HttpInv, OneOwner
    <3> QED BY <1>2, <3>1, <3>3
  <2>2. \A i \in DOMAIN jobs' : i + 1 # 1 /\ i + 1 \in DOMAIN jobs /\ jobs'[i] = jobs[i + 1]
    BY <1>2
  <2>3. \A i, j \in DOMAIN jobs : jobs[i] = jobs[j] => i = j
    BY DEF HttpInv, OneOwner
  <2>4. \A i \in DOMAIN jobs' : jobs'[i] # jobs[1]
    <3> SUFFICES ASSUME NEW i \in DOMAIN jobs', jobs'[i] = jobs[1] PROVE FALSE
      OBVIOUS
    <3>1. i + 1 \in DOMAIN jobs /\ 1 \in DOMAIN jobs /\ jobs[i + 1] = jobs[1] /\ i + 1 # 1
      BY <1>2, <2>2
    <3> QED BY <2>3, <3>1
  <2> QED BY <1>2, <2>1, <2>4
<1> HIDE DEF c
<1>5. TypeOK'
  <2>1. KeepAliveMax \in 0..KeepAliveMax
    OBVIOUS
  <2>2. left' \in [Threads -> 0..KeepAliveMax] /\ conn' \in [Threads -> Conns \cup {0}]
        /\ at' \in [Threads -> {"lock", "wait", "exit"} \cup Busy]
    BY <1>1, <1>2, <2>1 DEF Busy
  <2> QED BY <1>1, <1>2, <2>2 DEF HttpInv, TypeOK
<1>6. OneOwner'
  <2>1. \A d \in Conns : (\E i \in DOMAIN jobs : jobs[i] = d)
                            <=> d = c \/ \E i \in DOMAIN jobs' : jobs'[i] = d
    <3>1. ASSUME NEW d \in Conns, NEW i \in DOMAIN jobs, jobs[i] = d, d # c
          PROVE  \E j \in DOMAIN jobs' : jobs'[j] = d
      <4>1. i - 1 \in DOMAIN jobs' /\ jobs'[i - 1] = d
        BY <1>2, <3>1
      <4> QED BY <4>1
    <3>2. \A d \in Conns : d = c => \E i \in DOMAIN jobs : jobs[i] = d
      BY <1>2
    <3>3. ASSUME NEW d \in Conns, NEW i \in DOMAIN jobs', jobs'[i] = d
          PROVE  \E j \in DOMAIN jobs : jobs[j] = d
      <4>1. i + 1 \in DOMAIN jobs /\ jobs[i + 1] = d
        BY <1>2, <3>3
      <4> QED BY <4>1
    <3> QED BY <3>1, <3>2, <3>3
  <2>2. \A d \in Conns : (\E u \in Threads : conn'[u] = d)
                            <=> d = c \/ \E u \in Threads : conn[u] = d
    BY <1>1, <1>3
  <2>3. \A d \in Conns : d \in open' <=> \/ d = hand'
                                         \/ \E i \in DOMAIN jobs' : jobs'[i] = d
                                         \/ \E u \in Threads : conn'[u] = d
    BY <1>1, <2>1, <2>2 DEF HttpInv, OneOwner
  <2>4. \A i, j \in DOMAIN jobs' : jobs'[i] = jobs'[j] => i = j
    BY <1>2 DEF HttpInv, OneOwner
  <2>5. \A i \in DOMAIN jobs' : jobs'[i] # hand' /\ \A u \in Threads : conn'[u] # jobs'[i]
    BY <1>1, <1>2, <1>4 DEF HttpInv, OneOwner
  <2>6. \A v \in Threads : conn'[v] # 0 =>
           conn'[v] # hand' /\ \A u \in Threads : conn'[u] = conn'[v] => u = v
    BY <1>1, <1>3, <1>4 DEF HttpInv, OneOwner
  <2> QED BY <2>3, <2>4, <2>5, <2>6 DEF OneOwner
<1>7. NoJobForgotten'
  <2> DEFINE L == {u \in Threads : at[u] = "lock"}
  <2>1. L' = L \ {t} /\ t \in L /\ IsFiniteSet(L) /\ Cardinality(L) \in Nat
    BY <1>1, LockedThreads
  <2>2. Cardinality(L') = Cardinality(L) - 1
    <3> HIDE DEF L
    <3>1. Cardinality(L \ {t}) = Cardinality(L) - 1
      BY <2>1, FS_RemoveElement
    <3> QED BY <2>1, <3>1
  <2>3. ASSUME \E u \in Threads : at'[u] = "wait"
        PROVE  Len(jobs) <= Cardinality(L) + (IF server = "notify" THEN 1 ELSE 0)
    BY <1>1, <2>3 DEF HttpInv, NoJobForgotten
  <2> QED BY <1>1, <1>2, <2>1, <2>2, <2>3 DEF NoJobForgotten
<1>8. Holding'
  BY <1>1, <1>2 DEF HttpInv, Holding, Busy
<1>9. Fresh' /\ EndAnnounced'
  BY <1>1 DEF HttpInv, Fresh, EndAnnounced
<1>10. Ending'
  BY <1>1 DEF HttpInv, Ending
<1>11. Loop'
  <2>1. ended[c] = None /\ ~told[c]
    BY <1>2, <1>4 DEF HttpInv, Loop
  <2>2. \A d \in Conns : ended[d] # None \/ told[d] =>
           (d \in open => \E u \in Threads : conn'[u] = d)
    BY <1>1, <1>3 DEF HttpInv, Loop
  <2> QED BY <1>1, <1>2, <2>1, <2>2 DEF HttpInv, Loop
<1> QED BY <1>5, <1>6, <1>7, <1>8, <1>9, <1>10, <1>11 DEF HttpInv

\* A thread that finds the queue empty, or wakes up.
LEMMA IdleKeeps ==
    ASSUME HttpInv, NEW t \in Threads, (GetJob(t) /\ jobs = <<>>) \/ WakeSpuriously(t) PROVE HttpInv'
<1> USE ThreadTyped
<1>1. /\ UNCHANGED <<server, hand, jobs, shutdown, conn, left, req, backlog, open, room, net, sent, asked, told, ended>>
      /\ \/ at[t] = "lock" /\ jobs = <<>> /\ at' = [at EXCEPT ![t] = IF shutdown THEN "exit" ELSE "wait"]
         \/ at[t] = "wait" /\ at' = [at EXCEPT ![t] = "lock"]
  BY DEF GetJob, WakeSpuriously, clientVars, endVars
<1>2. TypeOK'
  BY <1>1 DEF HttpInv, TypeOK
<1>3. Holding' /\ Fresh' /\ OneOwner' /\ EndAnnounced'
  <2>1. Holding'
    BY <1>1 DEF HttpInv, Holding, Busy
  <2> QED BY <1>1, <2>1 DEF HttpInv, Fresh, OneOwner, EndAnnounced
<1>4. Loop'
  BY <1>1 DEF HttpInv, Loop
<1>5. Ending'
  BY <1>1 DEF HttpInv, Ending
<1>6. NoJobForgotten'
  <2> DEFINE L == {u \in Threads : at[u] = "lock"}
  <2>1. IsFiniteSet(L) /\ Cardinality(L) \in Nat /\ Cardinality(L') \in Nat
    BY LockedThreads
  <2>2. CASE jobs = <<>>
    BY <1>1, <2>1, <2>2 DEF NoJobForgotten
  <2>3. CASE at[t] = "wait" /\ at' = [at EXCEPT ![t] = "lock"]
    <3>1. L' = L \cup {t} /\ t \notin L
      BY <2>3
    <3>2. Cardinality(L') = Cardinality(L) + 1
      BY <2>1, <3>1, FS_AddElement
    <3>3. Len(jobs) <= Cardinality(L) + (IF server = "notify" THEN 1 ELSE 0) /\ Len(jobs) \in Nat
      BY <2>3 DEF HttpInv, NoJobForgotten
    <3> QED BY <1>1, <2>1, <3>2, <3>3 DEF NoJobForgotten
  <2> QED BY <1>1, <2>2, <2>3
<1> QED BY <1>2, <1>3, <1>4, <1>5, <1>6 DEF HttpInv

\* A step of the loop over the requests of a connection.
LEMMA LoopStepKeeps ==
    ASSUME HttpInv, NEW t \in Threads, at[t] \in {"poll", "answer"}, TypeOK',
           UNCHANGED <<server, hand, jobs, shutdown, conn, backlog, open, room, net>>,
           at'[t] \in Busy, \A u \in Threads : u # t => at'[u] = at[u] /\ left'[u] = left[u] /\ req'[u] = req[u],
           at'[t] = "answer" => req'[t] \in Whole,
           \A d \in Conns : d # conn[t] => ended'[d] = ended[d] /\ told'[d] = told[d],
           at'[t] # "close" => ended'[conn[t]] = None /\ ~told'[conn[t]] /\ left'[t] > 0,
           at'[t] = "close" => ended'[conn[t]] # None,
           ended'[conn[t]] = "limit" => told'[conn[t]]
    PROVE  HttpInv'
<1> USE ThreadTyped, ConnsNotZero
<1> DEFINE c == conn[t]
<1>1. c \in Conns /\ \A u \in Threads : u # t => conn[u] # c
  BY DEF Busy
<1>2. c \in open
  BY <1>1 DEF HttpInv, OneOwner
<1>3. Holding'
  BY <1>1 DEF HttpInv, Holding, Busy
<1>4. Fresh' /\ OneOwner'
  BY DEF HttpInv, Fresh, OneOwner
<1>5. NoJobForgotten'
  <2>1. {u \in Threads : at'[u] = "lock"} = {u \in Threads : at[u] = "lock"}
    BY DEF Busy
  <2>2. (\E u \in Threads : at'[u] = "wait") => \E u \in Threads : at[u] = "wait"
    BY DEF Busy
  <2> QED BY <2>1, <2>2 DEF HttpInv, NoJobForgotten
<1>6. Ending'
  <2>1. ~(server = "down" /\ shutdown)
    BY DEF HttpInv, Ending
  <2>2. \A u \in Threads : at'[u] = "exit" => at[u] = "exit"
    BY DEF Busy
  <2>3. (shutdown => server \in {"notify_all", "join", "down"})
        /\ (server \in {"notify_all", "join"} => shutdown)
        /\ \A u \in Threads : at[u] = "exit" => shutdown /\ jobs = <<>>
    BY DEF HttpInv, Ending
  <2> QED BY <2>1, <2>2, <2>3 DEF Ending
<1>7. Loop'
  <2>1. \A u \in Threads : at'[u] \in {"poll", "answer"} =>
           left'[u] > 0 /\ ended'[conn'[u]] = None /\ ~told'[conn'[u]]
    <3>1. ASSUME NEW u \in Threads, u # t, at'[u] \in {"poll", "answer"}
          PROVE  left'[u] > 0 /\ ended'[conn'[u]] = None /\ ~told'[conn'[u]]
      <4>1. conn[u] \in Conns /\ conn[u] # c
        BY <1>1, <3>1 DEF Busy
      <4> QED BY <3>1, <4>1 DEF HttpInv, Loop
    <3>2. at'[t] \in {"poll", "answer"} =>
             left'[t] > 0 /\ ended'[conn'[t]] = None /\ ~told'[conn'[t]]
      OBVIOUS
    <3> QED BY <3>1, <3>2
  <2>2. net[c] # "new" /\ \A i \in DOMAIN backlog : backlog[i] # c
    BY <1>1, <1>2 DEF HttpInv, Fresh
  <2>3. \A d \in Conns : ended'[d] # None \/ told'[d] =>
         /\ net[d] # "new"
         /\ \A i \in DOMAIN backlog : backlog[i] # d
         /\ d \in open => \E u \in Threads : conn[u] = d
    BY <1>1, <2>2 DEF HttpInv, Loop
  <2> QED BY <2>1, <2>3 DEF Loop
<1>8. EndAnnounced'
  <2>1. \A d \in Conns : d # c => (ended'[d] = "limit" => told'[d])
                                  /\ (told'[d] => ended'[d] # None)
    BY DEF HttpInv, EndAnnounced
  <2>2. told'[c] => ended'[c] # None
    BY DEF Busy
  <2> QED BY <1>1, <2>1, <2>2 DEF EndAnnounced
<1> QED BY <1>3, <1>4, <1>5, <1>6, <1>7, <1>8 DEF HttpInv

\* A timeout ends the loop of one connection.
LEMMA TimeoutKeeps == ASSUME HttpInv, NEW t \in Threads, Timeout(t) PROVE HttpInv'
<1> USE ThreadTyped
<1>1. /\ at[t] = "poll" /\ at' = [at EXCEPT ![t] = "close"]
      /\ ended' = [ended EXCEPT ![conn[t]] = "over"]
      /\ UNCHANGED <<server, hand, jobs, shutdown, conn, left, req, backlog, open, room, net, sent, asked, told>>
  BY DEF Timeout, EndLoop, clientVars
<1>2. conn[t] \in Conns
  BY <1>1 DEF Busy
<1>3. TypeOK'
  BY <1>1 DEF HttpInv, TypeOK, Busy
<1>4. at'[t] = "close" /\ ended'[conn[t]] = "over" /\ None # "over"
  BY <1>1, <1>2 DEF None
<1>5. \A d \in Conns : d # conn[t] => ended'[d] = ended[d]
  BY <1>1
<1>6. \A u \in Threads : u # t => at'[u] = at[u]
  BY <1>1
<1> QED BY <1>1, <1>3, <1>4, <1>5, <1>6, LoopStepKeeps DEF Busy

\* A request is read before anything was said about the end.
LEMMA ReadKeeps == ASSUME HttpInv, NEW t \in Threads, Read(t) PROVE HttpInv'
<1> USE ThreadTyped
<1> DEFINE c == conn[t]
<1>1. /\ at[t] = "poll"
      /\ UNCHANGED <<server, hand, jobs, shutdown, conn, left, backlog, open, room, net, asked, told>>
  BY DEF Read
<1>2. c \in Conns /\ left[t] > 0 /\ ended[c] = None /\ ~told[c]
  BY <1>1 DEF Busy, HttpInv, Loop
<1>3. CASE EndLoop(t, "over") /\ UNCHANGED <<req, sent>>
  <2>1. at' = [at EXCEPT ![t] = "close"] /\ ended' = [ended EXCEPT ![c] = "over"]
    BY <1>3 DEF EndLoop
  <2>2. TypeOK'
    BY <1>1, <1>3, <2>1 DEF HttpInv, TypeOK, Busy
  <2>3. at'[t] = "close" /\ ended'[c] = "over" /\ None # "over"
    BY <1>2, <2>1 DEF None
  <2>4. \A d \in Conns : d # c => ended'[d] = ended[d]
    BY <2>1
  <2>5. \A u \in Threads : u # t => at'[u] = at[u]
    BY <2>1
  <2> QED BY <1>1, <1>3, <2>1, <2>2, <2>3, <2>4, <2>5, LoopStepKeeps DEF Busy
<1>4. CASE ~(EndLoop(t, "over") /\ UNCHANGED <<req, sent>>)
  <2> DEFINE k == IF Head(sent[c]) \in Whole THEN Head(sent[c]) ELSE "bad"
  <2>1. /\ sent[c] # <<>>
        /\ req' = [req EXCEPT ![t] = k] /\ sent' = [sent EXCEPT ![c] = Tail(@)]
        /\ at' = [at EXCEPT ![t] = "answer"] /\ ended' = ended
    BY <1>4 DEF Read
  <2>2. k \in Whole /\ Tail(sent[c]) \in Seq(AllKinds)
    <3>1. sent[c] \in Seq(AllKinds)
      BY <1>2
    <3>2. Tail(sent[c]) \in Seq(AllKinds)
      BY <2>1, <3>1
    <3>3. k \in Whole
      BY DEF Whole
    <3> QED BY <3>2, <3>3
  <2> HIDE DEF k
  <2>3. req' \in [Threads -> Whole \cup {None}] /\ sent' \in [Conns -> Seq(AllKinds)]
    BY <1>2, <2>1, <2>2
  <2>4. TypeOK'
    BY <1>1, <2>1, <2>3 DEF HttpInv, TypeOK, Busy
  <2>5. at'[t] = "answer" /\ req'[t] \in Whole /\ ended'[c] = None /\ ~told'[c] /\ None # "limit"
    BY <1>1, <1>2, <2>1, <2>2 DEF None
  <2>6. \A u \in Threads : u # t => at'[u] = at[u] /\ req'[u] = req[u]
    BY <2>1
  <2> QED BY <1>1, <1>2, <2>1, <2>4, <2>5, <2>6, LoopStepKeeps DEF Busy
<1> QED BY <1>3, <1>4

\* The answer that ends the loop at the limit has announced it.
LEMMA AnswerKeeps == ASSUME HttpInv, NEW t \in Threads, Answer(t) PROVE HttpInv'
<1> USE ThreadTyped
<1> DEFINE c == conn[t]
           k == req[t]
<1>1. /\ at[t] = "answer" /\ req' = [req EXCEPT ![t] = None]
      /\ told' = [told EXCEPT ![c] = Announced(k, left[t])]
      /\ UNCHANGED <<server, hand, jobs, shutdown, conn, backlog, open, room, net, sent, asked>>
  BY DEF Answer, clientVars
<1>2. c \in Conns /\ left[t] \in 1..KeepAliveMax /\ ended[c] = None
  BY <1>1 DEF Busy, HttpInv, Loop
<1>3. Announced(k, left[t]) \in BOOLEAN
  BY DEF Announced
<1>4. /\ req' \in [Threads -> Whole \cup {None}] /\ told' \in [Conns -> BOOLEAN]
      /\ told'[c] = Announced(k, left[t])
      /\ \A d \in Conns : d # c => told'[d] = told[d]
      /\ \A u \in Threads : u # t => req'[u] = req[u]
  BY <1>1, <1>2, <1>3
<1>5. ASSUME NEW how \in {"over", "limit"}, EndLoop(t, how),
             left' \in [Threads -> 0..KeepAliveMax], \A u \in Threads : u # t => left'[u] = left[u],
             how = "limit" => left[t] = 1
      PROVE  HttpInv'
  <2>1. at' = [at EXCEPT ![t] = "close"] /\ ended' = [ended EXCEPT ![c] = how]
    BY <1>5 DEF EndLoop
  <2>2. TypeOK'
    BY <1>1, <1>4, <1>5, <2>1 DEF HttpInv, TypeOK, Busy
  <2>3. at'[t] = "close" /\ ended'[c] = how /\ how # None
    BY <1>2, <2>1 DEF None
  <2>4. ended'[c] = "limit" => told'[c]
    BY <1>4, <1>5, <2>3 DEF Announced
  <2>5. /\ \A d \in Conns : d # c => ended'[d] = ended[d] /\ told'[d] = told[d]
        /\ \A u \in Threads : u # t => at'[u] = at[u] /\ left'[u] = left[u] /\ req'[u] = req[u]
    BY <1>4, <1>5, <2>1
  <2>6. /\ at[t] \in {"poll", "answer"} /\ at'[t] \in Busy /\ at'[t] # "answer"
        /\ ended'[c] # None
        /\ UNCHANGED <<server, hand, jobs, shutdown, conn, backlog, open, room, net>>
    BY <1>1, <2>3 DEF Busy
  <2> HIDE DEF c, k
  <2> QED BY <2>2, <2>3, <2>4, <2>5, <2>6, LoopStepKeeps DEF c
<1>6. ASSUME ~Closes(k), left[t] # 1, left' = [left EXCEPT ![t] = @ - 1],
             at' = [at EXCEPT ![t] = "poll"], ended' = ended
      PROVE  HttpInv'
  <2>1. left'[t] > 0 /\ left' \in [Threads -> 0..KeepAliveMax]
        /\ \A u \in Threads : u # t => left'[u] = left[u]
    BY <1>2, <1>6
  <2>2. TypeOK'
    BY <1>1, <1>4, <1>6, <2>1 DEF HttpInv, TypeOK, Busy
  <2>3. ~told'[c]
    BY <1>4, <1>6 DEF Announced, Closes
  <2>4. at'[t] = "poll" /\ ended'[c] = None /\ None # "limit"
        /\ \A u \in Threads : u # t => at'[u] = at[u]
    BY <1>2, <1>6 DEF None
  <2> QED BY <1>1, <1>4, <1>6, <2>1, <2>2, <2>3, <2>4, LoopStepKeeps DEF Busy
<1>7. CASE EndLoop(t, "over") /\ left' = left
  BY <1>5, <1>7
<1>8. CASE EndLoop(t, "limit") /\ left[t] = 1 /\ left' = [left EXCEPT ![t] = @ - 1]
  <2>1. left' \in [Threads -> 0..KeepAliveMax] /\ \A u \in Threads : u # t => left'[u] = left[u]
    BY <1>8
  <2> QED BY <1>5, <1>8, <2>1
<1>9. \/ EndLoop(t, "over") /\ left' = left
      \/ EndLoop(t, "limit") /\ left[t] = 1 /\ left' = [left EXCEPT ![t] = @ - 1]
      \/ /\ ~Closes(k) /\ left[t] # 1 /\ left' = [left EXCEPT ![t] = @ - 1]
         /\ at' = [at EXCEPT ![t] = "poll"] /\ ended' = ended
  BY Zenon DEF Answer
<1>10. CASE /\ ~Closes(k) /\ left[t] # 1 /\ left' = [left EXCEPT ![t] = @ - 1]
            /\ at' = [at EXCEPT ![t] = "poll"] /\ ended' = ended
  BY <1>6, <1>10
<1> HIDE DEF c, k
<1> QED BY <1>7, <1>8, <1>9, <1>10, Zenon

\* A connection that is closed has no owner left.
LEMMA CloseKeeps == ASSUME HttpInv, NEW t \in Threads, Close(t) PROVE HttpInv'
<1> USE ThreadTyped, ConnsNotZero
<1> DEFINE c == conn[t]
<1>1. /\ at[t] = "close" /\ open' = open \ {c} /\ conn' = [conn EXCEPT ![t] = 0]
      /\ at' = [at EXCEPT ![t] = "lock"]
      /\ net' = [net EXCEPT ![c] = "gone"] /\ sent' = [sent EXCEPT ![c] = <<>>]
      /\ told' = [told EXCEPT ![c] = FALSE] /\ ended' = [ended EXCEPT ![c] = "over"]
      /\ left' = [left EXCEPT ![t] = 0]
      /\ UNCHANGED <<server, hand, jobs, shutdown, req, backlog, room, asked>>
  BY DEF Close
<1>2. c \in Conns /\ \A u \in Threads : u # t => conn[u] # c
  BY <1>1 DEF Busy
<1>3. c \in open /\ c # hand /\ \A i \in DOMAIN jobs : jobs[i] # c
  BY <1>2 DEF HttpInv, OneOwner
<1>4. TypeOK'
  <2>1. 0 \in 0..KeepAliveMax
    OBVIOUS
  <2>2. left' \in [Threads -> 0..KeepAliveMax] /\ net' \in [Conns -> {"new", "there", "gone"}]
    BY <1>1, <2>1 DEF HttpInv, TypeOK
  <2>3. sent' \in [Conns -> Seq(AllKinds)]
    <3>1. <<>> \in Seq(AllKinds)
      OBVIOUS
    <3> QED BY <1>1, <3>1
  <2>4. told' \in [Conns -> BOOLEAN] /\ ended' \in [Conns -> {None, "limit", "over"}]
    BY <1>1
  <2>5. at' \in [Threads -> {"lock", "wait", "exit"} \cup Busy] /\ conn' \in [Threads -> Conns \cup {0}]
    BY <1>1
  <2> QED BY <1>1, <2>2, <2>3, <2>4, <2>5 DEF HttpInv, TypeOK
<1>5. Holding'
  BY <1>1 DEF HttpInv, Holding, Busy
<1>6. Fresh' /\ EndAnnounced'
  <2>1. net \in [Conns -> {"new", "there", "gone"}] /\ \A i \in DOMAIN backlog : backlog[i] \in Conns
    BY DEF HttpInv, TypeOK
  <2>2. \A d \in Conns : net'[d] = net[d] \/ net'[d] = "gone"
    BY <1>1, <2>1
  <2>3. Fresh'
    BY <1>1, <2>1, <2>2 DEF HttpInv, Fresh, TypeOK
  <2>4. None # "over"
    BY DEF None
  <2>5. EndAnnounced'
    BY <1>1, <1>2, <2>4 DEF HttpInv, EndAnnounced
  <2> QED BY <2>3, <2>5
<1>7. OneOwner'
  <2>1. \A d \in Conns : (\E u \in Threads : conn'[u] = d)
                            <=> d # c /\ \E u \in Threads : conn[u] = d
    BY <1>1, <1>2
  <2>2. \A d \in Conns : d \in open' <=> \/ d = hand'
                                         \/ \E i \in DOMAIN jobs' : jobs'[i] = d
                                         \/ \E u \in Threads : conn'[u] = d
    BY <1>1, <1>3, <2>1 DEF HttpInv, OneOwner
  <2>3. \A i, j \in DOMAIN jobs' : jobs'[i] = jobs'[j] => i = j
    BY <1>1 DEF HttpInv, OneOwner
  <2>4. \A i \in DOMAIN jobs' : jobs'[i] # hand' /\ \A u \in Threads : conn'[u] # jobs'[i]
    <3>1. \A i \in DOMAIN jobs : jobs[i] \in Conns
      OBVIOUS
    <3> QED BY <1>1, <3>1 DEF HttpInv, OneOwner
  <2>5. \A v \in Threads : conn'[v] # 0 =>
           conn'[v] # hand' /\ \A u \in Threads : conn'[u] = conn'[v] => u = v
    BY <1>1 DEF HttpInv, OneOwner
  <2> QED BY <2>2, <2>3, <2>4, <2>5 DEF OneOwner
<1>8. NoJobForgotten'
  <2> DEFINE L == {u \in Threads : at[u] = "lock"}
  <2>1. L' = L \cup {t} /\ t \notin L /\ IsFiniteSet(L) /\ Cardinality(L) \in Nat
    BY <1>1, LockedThreads
  <2>2. Cardinality(L') = Cardinality(L) + 1
    BY <2>1, FS_AddElement
  <2>3. ASSUME \E u \in Threads : at'[u] = "wait"
        PROVE  Len(jobs) <= Cardinality(L) + (IF server = "notify" THEN 1 ELSE 0)
    BY <1>1, <2>3 DEF HttpInv, NoJobForgotten
  <2>4. Len(jobs) \in Nat
    OBVIOUS
  <2> QED BY <1>1, <2>1, <2>2, <2>3, <2>4 DEF NoJobForgotten
<1>9. Ending'
  <2>1. ~(server = "down" /\ shutdown)
    BY <1>1 DEF HttpInv, Ending
  <2> QED BY <1>1, <2>1 DEF HttpInv, Ending
<1>10. Loop'
  <2>1. \A d \in Conns : d \in open' /\ (\E u \in Threads : conn[u] = d) => \E u \in Threads : conn'[u] = d
    BY <1>1
  <2>2. \A d \in open' : d \in open
    BY <1>1
  <2>3. \A u \in Threads : at'[u] \in {"poll", "answer"} =>
           u # t /\ at[u] = at'[u] /\ conn'[u] = conn[u] /\ left'[u] = left[u] /\ conn[u] # c /\ conn[u] \in Conns
    BY <1>1, <1>2 DEF Busy
  <2>4. \A d \in Conns : d # c => net'[d] = net[d] /\ told'[d] = told[d] /\ ended'[d] = ended[d]
    BY <1>1
  <2>5. net'[c] # "new" /\ c \notin open' /\ \A i \in DOMAIN backlog' : backlog'[i] # c
    BY <1>1, <1>2, <1>3 DEF HttpInv, Fresh, TypeOK
  <2>6. \A u \in Threads : at'[u] \in {"poll", "answer"} =>
           left'[u] > 0 /\ ended'[conn'[u]] = None /\ ~told'[conn'[u]]
    BY <2>3, <2>4 DEF HttpInv, Loop
  <2>7. \A d \in Conns : ended'[d] # None \/ told'[d] =>
         /\ net'[d] # "new"
         /\ \A i \in DOMAIN backlog' : backlog'[i] # d
         /\ d \in open' => \E u \in Threads : conn'[u] = d
    BY <1>1, <2>1, <2>2, <2>4, <2>5 DEF HttpInv, Loop
  <2> QED BY <2>6, <2>7 DEF Loop
<1> QED BY <1>4, <1>5, <1>6, <1>7, <1>8, <1>9, <1>10 DEF HttpInv
-----------------------------------------------------------------------------
\* Every step keeps the invariant.
LEMMA HttpNext == HttpInv /\ [Next]_vars => HttpInv'
<1> SUFFICES ASSUME HttpInv, [Next]_vars PROVE HttpInv'
  OBVIOUS
<1>1. ASSUME NEW c \in Conns, Client(c) PROVE HttpInv'
  BY <1>1, ConnectKeeps, ClientKeeps DEF Client
<1>2. CASE Acceptor \/ AcceptFails
  BY <1>2, AcceptKeeps, EnqueueKeeps, NotifyKeeps, ShutdownKeeps DEF Acceptor
<1>3. ASSUME NEW t \in Threads, Thread(t) \/ WakeSpuriously(t) PROVE HttpInv'
  BY <1>3, JobKeeps, IdleKeeps, TimeoutKeeps, ReadKeeps, AnswerKeeps, CloseKeeps DEF Thread
<1>4. CASE UNCHANGED vars
  BY <1>4 DEF vars, poolVars, clientVars, endVars, HttpInv, TypeOK, Holding, Fresh, OneOwner,
              NoJobForgotten, Ending, Loop, EndAnnounced
<1> QED BY <1>1, <1>2, <1>3, <1>4 DEF Next

\* The invariant holds in every reachable state.
LEMMA HttpInvariant == Spec => []HttpInv
<1> QED BY HttpInit, HttpNext, PTL DEF Spec

\* The acceptor, the queue, the threads and the connections keep their types.
THEOREM HttpTypes == Spec => []TypeOK
<1>1. HttpInv => TypeOK
  BY DEF HttpInv
<1> QED BY <1>1, HttpInvariant, PTL

\* An open connection is always in exactly one place, so it is served by one
\* thread and closed once.
THEOREM ConnectionsHaveOneOwner == Spec => []OneOwner
<1>1. HttpInv => OneOwner
  BY DEF HttpInv
<1> QED BY <1>1, HttpInvariant, PTL

\* No thread sleeps while a job waits for which nobody is on the way.
THEOREM NoLostWakeup == Spec => []NoJobForgotten
<1>1. HttpInv => NoJobForgotten
  BY DEF HttpInv
<1> QED BY <1>1, HttpInvariant, PTL

\* Once listen() returns nothing is left of what it accepted.
THEOREM Drained == Spec => []DrainedWhenDown
<1>1. HttpInv => DrainedWhenDown
  <2> SUFFICES ASSUME HttpInv, server = "down", shutdown PROVE
        open = {} /\ jobs = <<>> /\ hand = 0 /\ \A t \in Threads : at[t] = "exit"
    BY DEF DrainedWhenDown
  <2>1. \A t \in Threads : at[t] = "exit" /\ conn[t] = 0
    BY DEF HttpInv, Ending, Holding, Busy
  <2>2. hand = 0
    BY DEF HttpInv, Holding
  <2>3. jobs = <<>>
    BY <2>1, HttpAssumption DEF HttpInv, Ending
  <2>4. open = {}
    BY <2>1, <2>2, <2>3, ConnsNotZero DEF HttpInv, OneOwner, TypeOK
  <2> QED BY <2>1, <2>2, <2>3, <2>4
<1> QED BY <1>1, HttpInvariant, PTL

\* The end of a connection at the limit, or at the wish of the client, is announced
\* by the answer before it and only by that one.
THEOREM EndsAreAnnounced == Spec => []EndAnnounced
<1>1. HttpInv => EndAnnounced
  BY DEF HttpInv
<1> QED BY <1>1, HttpInvariant, PTL
=============================================================================
