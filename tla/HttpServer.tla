----------------------------- MODULE HttpServer -----------------------------
(***************************************************************************)
(* The HTTP server that Monitoring::start_server runs in a thread of its    *)
(* own: the part of cpp-httplib it uses.  That thread, here the acceptor,   *)
(* accepts connections and hands them to the threads of a pool; a thread    *)
(* serves its connection, request after request, until the loop of          *)
(* process_server_socket_core ends, and closes it.  What is on a page is    *)
(* the matter of StatsPlugin, PageBuffer and IofsSystem.                    *)
(*                                                                         *)
(* The clients are the environment: they connect, send and leave as they    *)
(* like.  Each section of code under the mutex of the pool is one step.     *)
(* iofs never calls Server::stop().                                        *)
(***************************************************************************)
EXTENDS Naturals, Sequences, FiniteSets

CONSTANTS
    MaxConns,      \* bound on the connections
    Threads,       \* threads of the pool
    Kinds,         \* kinds of requests the clients send
    KeepAliveMax,  \* keep_alive_max_count_: requests per connection
    MaxFds,        \* bound on the descriptors the process has left for connections
    Backlog,       \* connections the kernel holds until they are accepted
    MaxRequests    \* bound on the requests of all clients

None == "none"

Conns == 1..MaxConns   \* numbered as they come

\* A request that is whole: one for a page, one with "Connection: close", one by
\* HTTP/1.0, one that is answered with an error.
Whole == {"page", "last", "old", "bad"}

\* Or one that stops within its lines, or one whose body the client goes on sending.
AllKinds == Whole \cup {"part", "body"}

ASSUME HttpAssumption ==
    /\ IsFiniteSet(Threads) /\ Threads # {}
    /\ MaxConns \in Nat
    /\ Kinds \subseteq AllKinds
    /\ KeepAliveMax \in Nat \ {0}
    /\ MaxFds \in Nat /\ Backlog \in Nat /\ MaxRequests \in Nat

VARIABLES
    server,    \* where the acceptor is
    hand,      \* the connection it has accepted and not yet queued, 0 if none
    jobs,      \* the queue of the pool
    shutdown,  \* the pool is to end when the queue is empty
    at,        \* at[t] is where thread t is
    conn,      \* conn[t] is the connection it serves, 0 if none
    left,      \* left[t] is the number of requests it will still answer on it
    req,       \* req[t] is the request it has read
    backlog,   \* connections not yet accepted
    open,      \* connections that have a descriptor of the process
    room,      \* the number of descriptors the process has left for them
    net,       \* net[c] says what the client of c has done
    sent,      \* sent[c] are the requests on c that were not read yet
    asked,     \* the number of requests so far
    told,      \* told[c] says whether the last answer on c announced the end of the
               \* connection, for another reason than an error
    ended      \* ended[c] is how the loop over the requests of c ended: at the limit,
               \* or because of the client; None while it has not ended

poolVars == <<jobs, shutdown, at, conn, left, req>>
clientVars == <<net, sent, asked>>
endVars == <<told, ended>>
vars == <<server, hand, poolVars, backlog, open, room, clientVars, endVars>>
-----------------------------------------------------------------------------
Init ==
    /\ server = "bind"
    /\ hand = 0
    /\ jobs = <<>>
    /\ shutdown = FALSE
    /\ at = [t \in Threads |-> "lock"]
    /\ conn = [t \in Threads |-> 0]
    /\ left = [t \in Threads |-> 0]
    /\ req = [t \in Threads |-> None]
    /\ backlog = <<>>
    /\ open = {}
    /\ room \in 0..MaxFds
    /\ net = [c \in Conns |-> "new"]
    /\ sent = [c \in Conns |-> <<>>]
    /\ asked = 0
    /\ told = [c \in Conns |-> FALSE]
    /\ ended = [c \in Conns |-> None]

Listening == server \in {"accept", "enqueue", "notify"}

(* The clients. *)
Connect(c) ==
    /\ net[c] = "new" /\ Listening
    /\ \A d \in Conns : d < c => net[d] # "new"
    /\ Len(backlog) < Backlog
    /\ net' = [net EXCEPT ![c] = "there"]
    /\ backlog' = Append(backlog, c)
    /\ UNCHANGED <<server, hand, poolVars, open, room, sent, asked, endVars>>

\* A malformed request counts once per line.  What comes after the end is lost.
Send(c) ==
    /\ net[c] = "there" /\ ended[c] = None
    /\ \A i \in DOMAIN sent[c] : sent[c][i] \in Whole
    /\ asked < MaxRequests
    /\ \E k \in Kinds : sent' = [sent EXCEPT ![c] = Append(@, k)]
    /\ asked' = asked + 1
    /\ UNCHANGED <<server, hand, poolVars, backlog, open, room, net, endVars>>

\* The client finishes its body, or pauses for so long that reading it times out.
Finish(c) ==
    /\ net[c] = "there" /\ ended[c] = None
    /\ sent[c] # <<>> /\ sent[c][Len(sent[c])] = "body"
    /\ \E k \in Whole \cap Kinds : sent' = [sent EXCEPT ![c][Len(sent[c])] = k]
    /\ UNCHANGED <<server, hand, poolVars, backlog, open, room, net, asked, endVars>>

Leave(c) ==
    /\ net[c] = "there" /\ ended[c] = None
    /\ net' = [net EXCEPT ![c] = "gone"]
    /\ UNCHANGED <<server, hand, poolVars, backlog, open, room, sent, asked, endVars>>
-----------------------------------------------------------------------------
(* The acceptor: bind_to_port() and listen_internal(). *)

\* The port may be taken: listen() returns false and start_server gives up.
Bind ==
    /\ server = "bind"
    /\ server' \in {"accept", "down"}
    /\ UNCHANGED <<hand, poolVars, backlog, open, room, clientVars, endVars>>

\* While there is no descriptor accept4() fails with EMFILE and is tried again.
Accept ==
    /\ server = "accept"
    /\ backlog # <<>>
    /\ Cardinality(open) < room
    /\ hand' = Head(backlog)
    /\ backlog' = Tail(backlog)
    /\ open' = open \cup {Head(backlog)}
    /\ server' = "enqueue"
    /\ UNCHANGED <<poolVars, room, clientVars, endVars>>

\* Any other error than EMFILE, EINTR and EAGAIN ends the loop and closes the
\* listening socket: the kernel drops the connections it held.
AcceptFails ==
    /\ server = "accept"
    /\ server' = "stop"
    /\ backlog' = <<>>
    /\ net' = [c \in Conns |-> IF \E i \in DOMAIN backlog : backlog[i] = c THEN "gone" ELSE net[c]]
    /\ UNCHANGED <<hand, poolVars, open, room, sent, asked, endVars>>

Enqueue ==
    /\ server = "enqueue"
    /\ jobs' = Append(jobs, hand)
    /\ hand' = 0
    /\ server' = "notify"
    /\ UNCHANGED <<shutdown, at, conn, left, req, backlog, open, room, clientVars, endVars>>

\* Mutant of Notify: only the first job of an empty queue is announced.
NotifyFirst ==
    /\ server = "notify"
    /\ IF Len(jobs) = 1 /\ \E t \in Threads : at[t] = "wait"
       THEN \E t \in Threads : at[t] = "wait" /\ at' = [at EXCEPT ![t] = "lock"]
       ELSE at' = at
    /\ server' = "accept"
    /\ UNCHANGED <<hand, jobs, shutdown, conn, left, req, backlog, open, room, clientVars, endVars>>

\* notify_one() comes after the mutex was released.
Notify ==
    /\ server = "notify"
    /\ IF \E t \in Threads : at[t] = "wait"
       THEN \E t \in Threads : at[t] = "wait" /\ at' = [at EXCEPT ![t] = "lock"]
       ELSE at' = at
    /\ server' = "accept"
    /\ UNCHANGED <<hand, jobs, shutdown, conn, left, req, backlog, open, room, clientVars, endVars>>

\* ThreadPool::shutdown(): the flag, the wake-up and the join.
Shutdown ==
    /\ server = "stop"
    /\ shutdown' = TRUE
    /\ server' = "notify_all"
    /\ UNCHANGED <<hand, jobs, at, conn, left, req, backlog, open, room, clientVars, endVars>>

\* Mutant of NotifyAll: one thread is woken.
NotifyAllOne ==
    /\ server = "notify_all"
    /\ IF \E t \in Threads : at[t] = "wait"
       THEN \E t \in Threads : at[t] = "wait" /\ at' = [at EXCEPT ![t] = "lock"]
       ELSE at' = at
    /\ server' = "join"
    /\ UNCHANGED <<hand, jobs, shutdown, conn, left, req, backlog, open, room, clientVars, endVars>>

NotifyAll ==
    /\ server = "notify_all"
    /\ at' = [t \in Threads |-> IF at[t] = "wait" THEN "lock" ELSE at[t]]
    /\ server' = "join"
    /\ UNCHANGED <<hand, jobs, shutdown, conn, left, req, backlog, open, room, clientVars, endVars>>

\* Mutant of Join: the first thread that ends is enough.
JoinFirst ==
    /\ server = "join"
    /\ \E t \in Threads : at[t] = "exit"
    /\ server' = "down"
    /\ UNCHANGED <<hand, poolVars, backlog, open, room, clientVars, endVars>>

Join ==
    /\ server = "join"
    /\ \A t \in Threads : at[t] = "exit"
    /\ server' = "down"
    /\ UNCHANGED <<hand, poolVars, backlog, open, room, clientVars, endVars>>
-----------------------------------------------------------------------------
(* A thread of the pool: ThreadPool::worker. *)

\* Mutant of GetJob: the job stays in the queue until it is done.
GetJobKeeps(t) ==
    /\ at[t] = "lock"
    /\ IF jobs # <<>>
       THEN /\ conn' = [conn EXCEPT ![t] = Head(jobs)]
            /\ left' = [left EXCEPT ![t] = KeepAliveMax]
            /\ at' = [at EXCEPT ![t] = "poll"]
       ELSE /\ at' = [at EXCEPT ![t] = IF shutdown THEN "exit" ELSE "wait"]
            /\ UNCHANGED <<conn, left>>
    /\ UNCHANGED <<server, hand, jobs, shutdown, req, backlog, open, room, clientVars, endVars>>

\* The predicate is tested and the queue popped in one section.
GetJob(t) ==
    /\ at[t] = "lock"
    /\ IF jobs # <<>>
       THEN /\ conn' = [conn EXCEPT ![t] = Head(jobs)]
            /\ left' = [left EXCEPT ![t] = KeepAliveMax]
            /\ jobs' = Tail(jobs)
            /\ at' = [at EXCEPT ![t] = "poll"]
       ELSE /\ at' = [at EXCEPT ![t] = IF shutdown THEN "exit" ELSE "wait"]
            /\ UNCHANGED <<conn, left, jobs>>
    /\ UNCHANGED <<server, hand, shutdown, req, backlog, open, room, clientVars, endVars>>

\* A condition variable may wake a thread for no reason.
WakeSpuriously(t) ==
    /\ at[t] = "wait"
    /\ at' = [at EXCEPT ![t] = "lock"]
    /\ UNCHANGED <<server, hand, jobs, shutdown, conn, left, req, backlog, open, room, clientVars, endVars>>

(* A connection: process_server_socket_core() and process_request(). *)

\* The loop over the requests ends.
EndLoop(t, how) ==
    /\ at' = [at EXCEPT ![t] = "close"]
    /\ ended' = [ended EXCEPT ![conn[t]] = how]

\* Mutant of Timeout: the thread waits as long as the client is there.
TimeoutNever(t) ==
    /\ at[t] = "poll"
    /\ net[conn[t]] = "gone"
    /\ EndLoop(t, "over")
    /\ UNCHANGED <<server, hand, jobs, shutdown, conn, left, req, backlog, open, room, clientVars, told>>

\* keep_alive(): nothing came in keep_alive_timeout_sec_.
Timeout(t) ==
    /\ at[t] = "poll"
    /\ sent[conn[t]] = <<>> /\ net[conn[t]] = "there"
    /\ EndLoop(t, "over")
    /\ UNCHANGED <<server, hand, jobs, shutdown, conn, left, req, backlog, open, room, clientVars, told>>

\* The client goes on sending the body of the request that is next on c.
Streaming(c) ==
    net[c] = "there" /\ sent[c] # <<>> /\ Head(sent[c]) = "body"

\* The socket is readable, at its end too.  getline() finds the end, a line that is
\* not finished in time, or a reset connection: no answer.  What else stops short, a
\* line at the end, the headers or a body, is an error to be answered.
Read(t) ==
    LET c == conn[t] IN
    /\ at[t] = "poll"
    /\ sent[c] # <<>> \/ net[c] = "gone"
    /\ ~Streaming(c)
    /\ \/ /\ sent[c] # <<>> => Head(sent[c]) = "part" \/ net[c] = "gone"
          /\ EndLoop(t, "over")
          /\ UNCHANGED <<req, sent>>
       \/ /\ sent[c] # <<>>
          /\ req' = [req EXCEPT ![t] = IF Head(sent[c]) \in Whole THEN Head(sent[c]) ELSE "bad"]
          /\ sent' = [sent EXCEPT ![c] = Tail(@)]
          /\ at' = [at EXCEPT ![t] = "answer"]
          /\ ended' = ended
    /\ UNCHANGED <<server, hand, jobs, shutdown, conn, left, backlog, open, room, net, asked, told>>

\* A client that wants no more: "Connection: close", or HTTP/1.0.
Closes(k) == k \in {"last", "old"}

\* Mutant of Announced: the limit is compared after the loop counted down.
AnnouncedLate(k, n) == n = 0 \/ k = "last"

\* write_response_core() writes "Connection: close" at the limit and to a client that
\* sent this header itself.  It does so with an error too (a malformed request, a
\* path without a handler), but the loop looks at the first two only.
Announced(k, n) == n = 1 \/ k = "last"

\* The handler of /metrics has run and the answer is written.  Writing the page fails
\* if the client is gone or takes too long; an error has no body that could.
Answer(t) ==
    LET c == conn[t]
        k == req[t]
    IN
    /\ at[t] = "answer"
    /\ told' = [told EXCEPT ![c] = Announced(k, left[t])]
    /\ \/ /\ k # "bad"
          /\ EndLoop(t, "over")
          /\ left' = left
       \/ /\ Closes(k)
          /\ EndLoop(t, "over")
          /\ left' = left
       \/ /\ ~Closes(k)
          /\ left' = [left EXCEPT ![t] = @ - 1]
          /\ IF left[t] = 1 THEN EndLoop(t, "limit")
             ELSE at' = [at EXCEPT ![t] = "poll"] /\ ended' = ended
    /\ req' = [req EXCEPT ![t] = None]
    /\ UNCHANGED <<server, hand, jobs, shutdown, conn, backlog, open, room, clientVars>>

\* process_and_close_socket() closes the socket, and the thread is free.  Nothing that
\* the client sent or was told matters any more.
Close(t) ==
    LET c == conn[t] IN
    /\ at[t] = "close"
    /\ open' = open \ {c}
    /\ conn' = [conn EXCEPT ![t] = 0]
    /\ at' = [at EXCEPT ![t] = "lock"]
    /\ net' = [net EXCEPT ![c] = "gone"]
    /\ sent' = [sent EXCEPT ![c] = <<>>]
    /\ told' = [told EXCEPT ![c] = FALSE]
    /\ ended' = [ended EXCEPT ![c] = "over"]
    /\ left' = [left EXCEPT ![t] = 0]
    /\ UNCHANGED <<server, hand, jobs, shutdown, req, backlog, room, asked>>
-----------------------------------------------------------------------------
Client(c) == Connect(c) \/ Send(c) \/ Finish(c) \/ Leave(c)
Acceptor == Bind \/ Accept \/ Enqueue \/ Notify \/ Shutdown \/ NotifyAll \/ Join
Thread(t) == GetJob(t) \/ Timeout(t) \/ Read(t) \/ Answer(t) \/ Close(t)

Next ==
    \/ \E c \in Conns : Client(c)
    \/ Acceptor \/ AcceptFails
    \/ \E t \in Threads : Thread(t) \/ WakeSpuriously(t)

Spec == Init /\ [][Next]_vars

\* The threads of the server are scheduled; nothing is asked of the clients.
FairSpec == Spec /\ WF_vars(Acceptor) /\ \A t \in Threads : WF_vars(Thread(t))
-----------------------------------------------------------------------------
Busy == {"poll", "answer", "close"}

TypeOK ==
    /\ server \in {"bind", "accept", "enqueue", "notify", "stop", "notify_all", "join", "down"}
    /\ hand \in Conns \cup {0}
    /\ jobs \in Seq(Conns)
    /\ shutdown \in BOOLEAN
    /\ at \in [Threads -> {"lock", "wait", "exit"} \cup Busy]
    /\ conn \in [Threads -> Conns \cup {0}]
    /\ left \in [Threads -> 0..KeepAliveMax]
    /\ req \in [Threads -> Whole \cup {None}]
    /\ backlog \in Seq(Conns)
    /\ open \subseteq Conns
    /\ room \in 0..MaxFds
    /\ net \in [Conns -> {"new", "there", "gone"}]
    /\ sent \in [Conns -> Seq(AllKinds)]
    /\ asked \in 0..MaxRequests
    /\ told \in [Conns -> BOOLEAN]
    /\ ended \in [Conns -> {None, "limit", "over"}]

\* An open connection has exactly one owner, who will close it: the acceptor, the
\* queue or one thread; a closed one has none.
OneOwner ==
    /\ \A c \in Conns :
         c \in open <=> \/ c = hand
                        \/ \E i \in DOMAIN jobs : jobs[i] = c
                        \/ \E t \in Threads : conn[t] = c
    /\ \A i, j \in DOMAIN jobs : jobs[i] = jobs[j] => i = j
    /\ \A i \in DOMAIN jobs : jobs[i] # hand /\ \A t \in Threads : conn[t] # jobs[i]
    /\ \A t \in Threads : conn[t] # 0 =>
         conn[t] # hand /\ \A u \in Threads : conn[u] = conn[t] => u = t

\* No wake-up is lost: while a thread sleeps, there is for every job in the queue
\* a thread on its way to it, or the acceptor about to wake one.
NoJobForgotten ==
    (\E t \in Threads : at[t] = "wait") =>
        Len(jobs) <= Cardinality({t \in Threads : at[t] = "lock"})
                        + (IF server = "notify" THEN 1 ELSE 0)

\* When listen() returns, every connection it ever accepted has been served to
\* its end and closed, and no thread of the pool is left.
DrainedWhenDown ==
    server = "down" /\ shutdown =>
        /\ open = {} /\ jobs = <<>> /\ hand = 0
        /\ \A t \in Threads : at[t] = "exit"

\* A client that keeps its connection is not cut off without warning at the limit,
\* and after an answer that announced the end for another reason than an error no
\* request is read any more.
EndAnnounced ==
    \A c \in Conns : /\ ended[c] = "limit" => told[c]
                     /\ told[c] => ended[c] # None

\* The client of its connection keeps t reading.
Held(t) == at[t] = "poll" /\ Streaming(conn[t])

Waiting == {backlog[i] : i \in DOMAIN backlog}

\* Every connection ends, also one that waits in the backlog for a descriptor or in
\* the queue for a thread.  Only a client that never ends the body of its request
\* keeps its own open, and others when such clients hold every thread or descriptor.
ConnectionsEnd ==
    \/ <>[](\A c \in open \cup Waiting : \E t \in Threads : Held(t) /\ conn[t] = c)
    \/ <>[](\A t \in Threads : Held(t))
    \/ <>[](Cardinality({t \in Threads : Held(t)}) >= room)

\* After an error of accept4() the pool ends and listen() returns, unless a client
\* that never ends a body holds a thread.
PoolEnds ==
    \/ <>[](server \notin {"stop", "notify_all", "join"})
    \/ <>[](\E t \in Threads : Held(t))
=============================================================================
