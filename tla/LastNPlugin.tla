---------------------------- MODULE LastNPlugin ----------------------------
(***************************************************************************)
(* One context of plugins/lastn.cc: a ring of N entries without locks.     *)
(* record() claims a sequence number with one atomic addition and then     *)
(* assigns the entry of its slot member by member; poll_metrics() loads the *)
(* head once and prints the slots of the window before it.                 *)
(*                                                                         *)
(* The value of a member is the sequence number of the record() call that  *)
(* stored it.  The assignments and the loads of the printing race, so each  *)
(* is a step of its own and those of an entry come in any order, the flag   *)
(* that tells that the optional has a value among them.                    *)
(***************************************************************************)
EXTENDS PluginApi, FiniteSets

CONSTANTS
    N,         \* LAST_N
    Workers,   \* threads that call record()
    Pollers,   \* threads that call poll_metrics()
    Ops,       \* the operations that occur
    ZeroCopy,  \* whether it is built with LAST_N_USE_ZERO_COPY
    Members,   \* the members of an Entry
    MaxCalls   \* bound on the number of recorded calls

ASSUME LastNAssumption ==
    /\ N \in Nat \ {0}
    /\ Ops \subseteq AllOps
    /\ ZeroCopy \in BOOLEAN
    /\ Members \subseteq {"is_write", "size_bytes", "duration_ns"}
    /\ MaxCalls \in Nat

Slots == 0..(N - 1)
Seqs == 0..(MaxCalls - 1)
None == MaxCalls   \* no sequence number: what a member holds uninitialized

\* The stores that an assignment to a slot is made of.
Stores == Members \cup {"engaged"}

VARIABLES
    head,    \* m_head
    ring,    \* m_ring[slot][member]
    engaged, \* the slots whose optional has a value
    claim,   \* claim[t] is the sequence number that t records, None if idle
    todo,    \* todo[t] is the set of stores t has still to make
    lapped,  \* history: a slot was claimed again before its entry was complete
    poll,    \* poll[p] is the state of p's poll_metrics()
    lines    \* lines[p] are the lines p has printed

vars == <<head, ring, engaged, claim, todo, lapped, poll, lines>>

\* "idle", or at the i-th slot of the window before the head that was loaded,
\* with the members loaded so far; quiet tells whether no call was under way
\* since.
Idle == [at |-> "idle", head |-> 0, i |-> 0, read |-> <<>>, quiet |-> FALSE]

Recorded ==
    {"read", "write"} \cup IF ZeroCopy THEN {"read_buf", "write_buf"} ELSE {}

Init ==
    /\ head = 0
    /\ ring = [k \in Slots |-> [f \in Members |-> None]]
    /\ engaged = {}
    /\ claim = [t \in Workers |-> None]
    /\ todo = [t \in Workers |-> {}]
    /\ lapped = FALSE
    /\ poll = [p \in Pollers |-> Idle]
    /\ lines = [p \in Pollers |-> <<>>]
-----------------------------------------------------------------------------
\* record() of an operation that is kept: the fetch_add.  Another one returns at
\* once and changes nothing.
Claim(t) ==
    /\ claim[t] = None
    /\ Ops \cap Recorded # {}
    /\ head < MaxCalls
    /\ head' = head + 1
    /\ claim' = [claim EXCEPT ![t] = head]
    /\ todo' = [todo EXCEPT ![t] = Stores]
    /\ lapped' = (lapped \/ \E u \in Workers :
                              claim[u] # None /\ claim[u] % N = head % N)
    /\ poll' = [p \in Pollers |-> [poll[p] EXCEPT !.quiet = FALSE]]
    /\ UNCHANGED <<ring, engaged, lines>>

\* Mutant of Assign: the slot is that of the head after the addition.
AssignAtHead(t, f) ==
    /\ f \in todo[t]
    /\ IF f = "engaged"
       THEN engaged' = engaged \cup {(claim[t] + 1) % N} /\ UNCHANGED ring
       ELSE /\ ring' = [ring EXCEPT ![(claim[t] + 1) % N][f] = claim[t]]
            /\ UNCHANGED engaged
    /\ todo' = [todo EXCEPT ![t] = @ \ {f}]
    /\ UNCHANGED <<head, claim, lapped, poll, lines>>

\* One store of the assignment to the slot.
Assign(t, f) ==
    /\ f \in todo[t]
    /\ IF f = "engaged"
       THEN engaged' = engaged \cup {claim[t] % N} /\ UNCHANGED ring
       ELSE ring' = [ring EXCEPT ![claim[t] % N][f] = claim[t]] /\ UNCHANGED engaged
    /\ todo' = [todo EXCEPT ![t] = @ \ {f}]
    /\ UNCHANGED <<head, claim, lapped, poll, lines>>

\* record() returns.
Finish(t) ==
    /\ claim[t] # None
    /\ todo[t] = {}
    /\ claim' = [claim EXCEPT ![t] = None]
    /\ UNCHANGED <<head, ring, engaged, todo, lapped, poll, lines>>

StartPoll(p) ==
    /\ poll[p].at = "idle"
    /\ poll' = [poll EXCEPT ![p] =
                  [at |-> "slot", head |-> head, i |-> 0, read |-> <<>>,
                   quiet |-> \A t \in Workers : claim[t] = None]]
    /\ lines' = [lines EXCEPT ![p] = <<>>]
    /\ UNCHANGED <<head, ring, engaged, claim, todo, lapped>>

Filled(h) == IF h < N THEN h ELSE N
\* Mutant of Start: the window is printed from the first slot.
StartAtZero(h) == 0
Start(h) == IF h >= N THEN h % N ELSE 0
Slot(p) == (Start(poll[p].head) + poll[p].i) % N
\* Mutant of Label: the place in the window, without the base.
LabelInWindow(p) == poll[p].i
Label(p) == poll[p].head - Filled(poll[p].head) + poll[p].i

\* The loop looks at the next slot: it passes over an empty one.
Look(p) ==
    /\ poll[p].at = "slot"
    /\ poll[p].i < Filled(poll[p].head)
    /\ poll' = IF Slot(p) \in engaged
               THEN [poll EXCEPT ![p].at = "print"]
               ELSE [poll EXCEPT ![p].i = @ + 1]
    /\ UNCHANGED <<head, ring, engaged, claim, todo, lapped, lines>>

\* One member is loaded for the line.
LoadMember(p, f) ==
    /\ poll[p].at = "print"
    /\ f \notin DOMAIN poll[p].read
    /\ poll' = [poll EXCEPT ![p].read =
                  [g \in DOMAIN @ \cup {f} |->
                      IF g = f THEN ring[Slot(p)][f] ELSE @[g]]]
    /\ UNCHANGED <<head, ring, engaged, claim, todo, lapped, lines>>

PrintLine(p) ==
    /\ poll[p].at = "print"
    /\ DOMAIN poll[p].read = Members
    /\ lines' = [lines EXCEPT ![p] =
                   Append(@, [i |-> Label(p), entry |-> poll[p].read])]
    /\ poll' = [poll EXCEPT ![p] =
                  [@ EXCEPT !.at = "slot", !.i = poll[p].i + 1, !.read = <<>>]]
    /\ UNCHANGED <<head, ring, engaged, claim, todo, lapped>>

EndPoll(p) ==
    /\ poll[p].at = "slot"
    /\ poll[p].i = Filled(poll[p].head)
    /\ poll' = [poll EXCEPT ![p].at = "idle"]
    /\ UNCHANGED <<head, ring, engaged, claim, todo, lapped, lines>>

Worker(t) == Claim(t) \/ Finish(t) \/ \E f \in Stores : Assign(t, f)
Poller(p) ==
    \/ StartPoll(p) \/ Look(p) \/ PrintLine(p) \/ EndPoll(p)
    \/ \E f \in Members : LoadMember(p, f)

Next == (\E t \in Workers : Worker(t)) \/ (\E p \in Pollers : Poller(p))

Spec == Init /\ [][Next]_vars
-----------------------------------------------------------------------------
TypeOK ==
    /\ head \in 0..MaxCalls
    /\ ring \in [Slots -> [Members -> Seqs \cup {None}]]
    /\ engaged \subseteq Slots
    /\ claim \in [Workers -> Seqs \cup {None}]
    /\ todo \in [Workers -> SUBSET Stores]
    /\ lapped \in BOOLEAN
    /\ \A p \in Pollers :
         /\ poll[p].at \in {"idle", "slot", "print"}
         /\ poll[p].i \in 0..N
         /\ Len(lines[p]) <= N

AtRest == \A t \in Workers : claim[t] = None

Whole(s) == [f \in Members |-> s]

\* The claims of record(): every slot holds one entry, that of the newest of the
\* calls that have the slot ("Records last N metrics", lastn.cc:10-13).
Newest(k) == CHOOSE s \in Seqs : s < head /\ s % N = k /\ s + N >= head
LastNAtRest ==
    AtRest => \A k \in Slots : k < head => ring[k] = Whole(Newest(k))

\* They hold as long as no call was still assigning its entry when the others
\* went once around the ring.
UnlappedExact == ~lapped => LastNAtRest

\* Each number of a line was stored in the line's own slot by a call that
\* claimed it.  When no call was overtaken it is at most one lap behind the
\* label of the line, and uninitialized only in the first lap: the flag of the
\* optional, read without synchronization, shows it too early.
LineHome ==
    \A p \in Pollers : \A j \in DOMAIN lines[p] : \A f \in Members :
        LET s == lines[p][j].entry[f]
            i == lines[p][j].i
        IN /\ s # None => s < head /\ s % N = i % N
           /\ ~lapped => IF s = None THEN i < N ELSE s + N >= i

\* A page printed while nothing is recorded is the last N entries, each under
\* its own number and in order.
QuietPageExact ==
    \A p \in Pollers :
        poll[p].at = "idle" /\ poll[p].quiet /\ ~lapped =>
            lines[p] = [j \in 1..Filled(poll[p].head) |->
                          LET s == poll[p].head - Filled(poll[p].head) + j - 1
                          IN [i |-> s, entry |-> Whole(s)]]
=============================================================================
