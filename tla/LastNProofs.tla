----------------------------- MODULE LastNProofs -----------------------------
(***************************************************************************)
(* The entries of LastNPlugin for any size of the ring and any number of     *)
(* workers and scrapes.                                                     *)
(***************************************************************************)
EXTENDS LastNPlugin, Integers, TLAPS

-----------------------------------------------------------------------------
(* Numbers and their slots. *)

\* A number has one quotient and one rest.
LEMMA ModUnique ==
    ASSUME NEW a \in Nat, NEW q \in Int, NEW r \in Slots, a = N * q + r
    PROVE  a % N = r
<1>1. a = N * (a \div N) + (a % N) /\ a % N \in 0..(N - 1) /\ a \div N \in Int
  BY LastNAssumption, Z3
<1> DEFINE d == q - (a \div N)
<1>2. N * d = (a % N) - r /\ d \in Int /\ r \in 0..(N - 1)
  BY LastNAssumption, <1>1 DEF Slots
<1> HIDE DEF d
<1>3. ~(d >= 1) /\ ~(d <= -1)
  <2>1. d >= 1 => N * d >= N
    BY LastNAssumption, <1>2
  <2>2. d <= -1 => N * d <= -N
    BY LastNAssumption, <1>2
  <2>3. QED
    BY LastNAssumption, <1>1, <1>2, <2>1, <2>2
<1>4. d = 0
  BY <1>2, <1>3
<1>5. QED
  BY LastNAssumption, <1>1, <1>2, <1>4

\* A number is its lap times N plus its slot; in the first lap it is its slot.
LEMMA ModFacts ==
    ASSUME NEW a \in Nat
    PROVE  /\ a % N \in Slots /\ a \div N \in Nat /\ a = N * (a \div N) + (a % N)
           /\ a < N => a % N = a
BY LastNAssumption, Z3 DEF Slots

\* A slot is no larger than its number.
LEMMA ModLess == ASSUME NEW a \in Nat PROVE a % N <= a
<1>1. a = N * (a \div N) + (a % N) /\ a \div N \in Nat /\ a % N \in Nat
  BY LastNAssumption, ModFacts DEF Slots
<1>2. N * (a \div N) >= 0
  BY LastNAssumption, <1>1
<1>3. QED
  BY <1>1, <1>2, LastNAssumption

\* Numbers of one slot are at least a lap apart.
LEMMA ModApart ==
    ASSUME NEW s \in Nat, NEW r \in Nat, s % N = r % N, s < r
    PROVE  s + N <= r
<1>1. /\ s = N * (s \div N) + (s % N) /\ r = N * (r \div N) + (r % N)
      /\ s % N \in Nat /\ r % N \in Nat /\ s \div N \in Nat /\ r \div N \in Nat
  BY ModFacts, LastNAssumption DEF Slots
<1> DEFINE d == (r \div N) - (s \div N)
<1>2. r - s = N * d /\ d \in Int
  BY LastNAssumption, <1>1
<1> HIDE DEF d
<1>3. d >= 1
  BY LastNAssumption, <1>2
<1>4. N * d >= N
  BY LastNAssumption, <1>2, <1>3
<1>5. QED
  BY LastNAssumption, <1>2, <1>4

\* What a slot is a number of more is the slot of the sum.
LEMMA ModAdd ==
    ASSUME NEW a \in Nat, NEW b \in Nat
    PROVE  ((a % N) + b) % N = (a + b) % N
<1>1. /\ a = N * (a \div N) + (a % N) /\ a % N \in Nat /\ a \div N \in Nat
  BY ModFacts, LastNAssumption DEF Slots
<1> DEFINE c == (a % N) + b
<1>2. c \in Nat /\ c = N * (c \div N) + (c % N) /\ c % N \in Slots /\ c \div N \in Nat
  BY ModFacts, <1>1
<1>3. a + b = N * ((a \div N) + (c \div N)) + (c % N)
  BY LastNAssumption, <1>1, <1>2 DEF Slots
<1> HIDE DEF c
<1>4. (a + b) % N = c % N
  BY <1>1, <1>2, <1>3, ModUnique
<1>5. QED
  BY <1>4 DEF c

\* Going back less than a lap from a number finds the slot that many places before.
LEMMA ModBack == ASSUME NEW a \in Nat, a >= N PROVE (a - N) % N = a % N /\ a - N \in Nat
<1>1. /\ a = N * (a \div N) + (a % N) /\ a % N \in Slots /\ a \div N \in Nat
  BY ModFacts, LastNAssumption
<1>2. a - N = N * ((a \div N) - 1) + (a % N) /\ a - N \in Nat
  BY LastNAssumption, <1>1 DEF Slots
<1>3. QED
  BY <1>1, <1>2, ModUnique

\* Every slot below the head has its number in the last lap.
LEMMA NewestExists ==
    ASSUME NEW k \in Slots, NEW h \in Nat, k < h
    PROVE  \E s \in Nat : s < h /\ s % N = k /\ s + N >= h
<1> DEFINE a == h - 1 - k
<1>1. a \in Nat /\ k \in Nat
  BY LastNAssumption DEF Slots
<1>2. /\ a = N * (a \div N) + (a % N) /\ a % N \in 0..(N - 1) /\ a \div N \in Nat
  BY <1>1, ModFacts DEF Slots
<1> DEFINE s == N * (a \div N) + k
<1>3. s \in Nat /\ s = a - (a % N) + k
  BY LastNAssumption, <1>1, <1>2
<1>4. s % N = k
  BY <1>2, <1>3, ModUnique
<1>5. s < h /\ s + N >= h
  BY LastNAssumption, <1>1, <1>2, <1>3
<1>6. QED
  BY <1>3, <1>4, <1>5

\* It has only one.
LEMMA NewestOnce ==
    ASSUME NEW h \in Nat, NEW s \in Nat, NEW r \in Nat, s % N = r % N,
           s < h, s + N >= h, r < h, r + N >= h
    PROVE  s = r
<1>1. s < r => s + N <= r
  BY ModApart
<1>2. r < s => r + N <= s
  BY ModApart
<1>3. QED
  BY LastNAssumption, <1>1, <1>2
-----------------------------------------------------------------------------
(* Types. *)

\* What a member can hold, and what a scrape has loaded of an entry: any part of it.
Values == Seqs \cup {None}
Loaded == UNION {[D -> Values] : D \in SUBSET Members}
\* The variables of a scrape, and a printed line.
Polls == [at : {"idle", "slot", "print"}, head : 0..MaxCalls, i : 0..N, read : Loaded,
          quiet : BOOLEAN]
Printed == [i : Nat, entry : [Members -> Values]]

\* A worker records a number of its own, below the head.
ClaimInv ==
    /\ claim \in [Workers -> Values]
    /\ todo \in [Workers -> SUBSET Stores]
    /\ \A t \in Workers : IF claim[t] = None THEN todo[t] = {} ELSE claim[t] < head
    /\ \A t, u \in Workers : t # u /\ claim[t] # None => claim[t] # claim[u]

\* A scrape is in its window, and printed no more lines than it passed slots.
PollInv ==
    /\ poll \in [Pollers -> Polls]
    /\ lines \in [Pollers -> Seq(Printed)]
    /\ \A p \in Pollers :
         /\ poll[p].head <= head
         /\ poll[p].at # "print" => poll[p].read = <<>>
         /\ poll[p].at # "idle" => poll[p].i <= Filled(poll[p].head) /\ Len(lines[p]) <= poll[p].i
         /\ poll[p].at = "print" => poll[p].i < Filled(poll[p].head)
         /\ Len(lines[p]) <= N

\* The context: its head, its ring, and which optionals are engaged.
RingType ==
    /\ head \in 0..MaxCalls
    /\ ring \in [Slots -> [Members -> Values]]
    /\ engaged \subseteq Slots
    /\ lapped \in BOOLEAN

\* The three parts of the type invariant.
TypeInv == RingType /\ ClaimInv /\ PollInv

\* They give TypeOK.
LEMMA TypeInvOK == TypeInv => TypeOK
<1>1. PollInv => \A p \in Pollers :
         /\ poll[p].at \in {"idle", "slot", "print"}
         /\ poll[p].i \in 0..N
         /\ Len(lines[p]) <= N
  BY DEF PollInv, Polls
<1>2. QED
  BY <1>1 DEF TypeInv, RingType, ClaimInv, TypeOK, Values

\* A scrape that has loaded nothing is well-typed.
LEMMA EmptyLoaded == <<>> \in Loaded /\ DOMAIN <<>> = {}
<1>1. <<>> = [x \in {} |-> None]
  OBVIOUS
<1>2. [x \in {} |-> None] \in [{} -> Values]
  OBVIOUS
<1>3. QED
  BY <1>1, <1>2 DEF Loaded

\* The types hold at the start.
LEMMA TypeInit == Init => TypeInv
<1> SUFFICES ASSUME Init PROVE TypeInv
  OBVIOUS
<1>1. Idle \in Polls /\ Idle.at = "idle" /\ Idle.read = <<>> /\ Idle.head = 0
  BY LastNAssumption, EmptyLoaded DEF Idle, Polls
<1>2. <<>> \in Seq(Printed) /\ Len(<<>>) = 0
  OBVIOUS
<1>3. PollInv
  BY <1>1, <1>2, LastNAssumption DEF Init, PollInv
<1>4. RingType
  <2>1. head \in 0..MaxCalls /\ engaged \subseteq Slots
    BY LastNAssumption DEF Init
  <2>2. ring \in [Slots -> [Members -> Values]]
    BY DEF Init, Values
  <2>3. lapped \in BOOLEAN
    BY Zenon DEF Init
  <2>4. QED
    BY <2>1, <2>2, <2>3 DEF RingType
<1>5. ClaimInv
  BY LastNAssumption DEF Init, ClaimInv, Values
<1>6. QED
  BY <1>3, <1>4, <1>5 DEF TypeInv

\* The window has as many slots as numbers were claimed, at most N.
LEMMA FilledType ==
    ASSUME NEW h \in Nat
    PROVE  Filled(h) \in 0..N /\ Filled(h) <= h /\ (Filled(h) = h \/ Filled(h) = N)
BY LastNAssumption DEF Filled

\* The steps of record().
LEMMA WorkerTypes == ASSUME TypeInv, NEW t \in Workers, Worker(t) PROVE TypeInv'
<1> USE LastNAssumption
<1>0. /\ head \in 0..MaxCalls /\ None = MaxCalls /\ claim \in [Workers -> Values]
      /\ todo \in [Workers -> SUBSET Stores]
      /\ poll \in [Pollers -> Polls]
  BY DEF TypeInv, RingType, ClaimInv, PollInv, None
<1>1. CASE Claim(t)
  <2>1. head \in Seqs /\ head' = head + 1 /\ head' \in 0..MaxCalls /\ head # None
    BY <1>0, <1>1 DEF Claim, Seqs
  <2>2. RingType'
    BY <1>1, <2>1 DEF Claim, TypeInv, RingType
  <2>3. ClaimInv'
    <3>1. /\ claim'[t] = head /\ todo'[t] = Stores
          /\ \A u \in Workers \ {t} : claim'[u] = claim[u] /\ todo'[u] = todo[u]
          /\ claim' \in [Workers -> Values] /\ todo' \in [Workers -> SUBSET Stores]
      BY <1>0, <1>1, <2>1 DEF Claim, Values
    <3>2. \A u \in Workers : claim[u] # head
      BY <1>0, <2>1 DEF TypeInv, ClaimInv, Values, Seqs
    <3>3. \A u \in Workers : claim[u] # None => claim[u] < head + 1
      BY <1>0 DEF TypeInv, ClaimInv, Values, Seqs
    <3>4. ASSUME NEW u \in Workers
          PROVE  IF claim'[u] = None THEN todo'[u] = {} ELSE claim'[u] < head'
      <4>1. CASE u = t
        BY <1>0, <2>1, <3>1, <4>1
      <4>2. CASE u # t
        BY <2>1, <3>1, <3>3, <4>2 DEF TypeInv, ClaimInv
      <4>3. QED
        BY <4>1, <4>2
    <3>5. ASSUME NEW u \in Workers, NEW v \in Workers, u # v, claim'[u] # None
          PROVE  claim'[u] # claim'[v]
      BY <3>1, <3>2, <3>5 DEF TypeInv, ClaimInv
    <3>6. QED
      BY <3>1, <3>4, <3>5 DEF ClaimInv, None
  <2>4. PollInv'
    <3>1. \A p \in Pollers : /\ poll'[p] \in Polls /\ poll'[p].at = poll[p].at
                             /\ poll'[p].head = poll[p].head /\ poll'[p].i = poll[p].i
                             /\ poll'[p].read = poll[p].read
      BY <1>0, <1>1 DEF Claim, Polls
    <3>2. poll' \in [Pollers -> Polls] /\ UNCHANGED lines
      BY <1>1, <3>1 DEF Claim
    <3>3. \A p \in Pollers : poll'[p].head <= head'
      BY <1>0, <2>1, <3>1 DEF TypeInv, PollInv, Polls
    <3>4. QED
      BY <3>1, <3>2, <3>3 DEF TypeInv, PollInv, Filled
  <2>5. QED
    BY <2>2, <2>3, <2>4 DEF TypeInv
<1>2. CASE \E f \in Stores : Assign(t, f)
  <2>1. PICK f \in Stores : Assign(t, f)
    BY <1>2
  <2>2. UNCHANGED <<head, claim, lapped, poll, lines>> /\ todo' = [todo EXCEPT ![t] = @ \ {f}]
    BY <2>1 DEF Assign
  <2>3. claim[t] \in Seqs /\ claim[t] \in Nat
    BY <1>0, <2>1 DEF TypeInv, ClaimInv, Assign, Values, Seqs
  <2>4. claim[t] % N \in Slots
    BY <2>3, ModFacts
  <2>5. RingType'
    <3>1. CASE f = "engaged"
      BY <2>1, <2>2, <2>4, <3>1 DEF Assign, TypeInv, RingType
    <3>2. CASE f # "engaged"
      <4>1. ring' = [ring EXCEPT ![claim[t] % N][f] = claim[t]] /\ engaged' = engaged /\ f \in Members
        BY <2>1, <3>2 DEF Assign, Stores
      <4>2. ring' \in [Slots -> [Members -> Values]]
        BY <2>3, <2>4, <4>1 DEF TypeInv, RingType, Values
      <4>3. QED
        BY <2>2, <4>1, <4>2 DEF TypeInv, RingType
    <3>3. QED
      BY <3>1, <3>2
  <2>6. ClaimInv'
    BY <1>0, <2>2, <2>3 DEF TypeInv, ClaimInv, None, Seqs
  <2>7. PollInv'
    BY <2>2 DEF TypeInv, PollInv
  <2>8. QED
    BY <2>5, <2>6, <2>7 DEF TypeInv
<1>3. CASE Finish(t)
  <2>1. ClaimInv'
    BY <1>0, <1>3 DEF Finish, TypeInv, ClaimInv, None, Values
  <2>2. QED
    BY <1>3, <2>1 DEF Finish, TypeInv, RingType, PollInv
<1>4. QED
  BY <1>1, <1>2, <1>3 DEF Worker

\* A step that changes one scrape and its lines only.
LEMMA OnePoll ==
    ASSUME TypeInv, NEW p \in Pollers, NEW q \in Polls, NEW l \in Seq(Printed),
           UNCHANGED <<head, ring, engaged, claim, todo, lapped>>,
           poll' = [poll EXCEPT ![p] = q], lines' = [lines EXCEPT ![p] = l],
           q.head <= head, q.at # "print" => q.read = <<>>,
           q.at # "idle" => q.i <= Filled(q.head) /\ Len(l) <= q.i,
           q.at = "print" => q.i < Filled(q.head),
           Len(l) <= N
    PROVE  TypeInv'
<1>1. /\ poll'[p] = q /\ lines'[p] = l
      /\ \A r \in Pollers \ {p} : poll'[r] = poll[r] /\ lines'[r] = lines[r]
      /\ poll' \in [Pollers -> Polls] /\ lines' \in [Pollers -> Seq(Printed)]
  BY DEF TypeInv, PollInv
<1>2. PollInv'
  <2>1. ASSUME NEW r \in Pollers
        PROVE  /\ poll'[r].head <= head
               /\ poll'[r].at # "print" => poll'[r].read = <<>>
               /\ poll'[r].at # "idle" => poll'[r].i <= Filled(poll'[r].head)
                                            /\ Len(lines'[r]) <= poll'[r].i
               /\ poll'[r].at = "print" => poll'[r].i < Filled(poll'[r].head)
               /\ Len(lines'[r]) <= N
    <3>1. CASE r = p
      BY <1>1, <3>1
    <3>2. CASE r # p
      BY <1>1, <3>2 DEF TypeInv, PollInv
    <3>3. QED
      BY <3>1, <3>2
  <2>2. QED
    BY <1>1, <2>1 DEF PollInv, Filled
<1>3. QED
  BY <1>2 DEF TypeInv, RingType, ClaimInv

\* The label of the next line is a number of the last N, and the slot is its own.
LEMMA Labels ==
    ASSUME TypeInv, NEW p \in Pollers, poll[p].at # "idle", poll[p].i < Filled(poll[p].head)
    PROVE  /\ Label(p) \in Nat /\ Label(p) < poll[p].head /\ Label(p) + N >= poll[p].head
           /\ Slot(p) = Label(p) % N /\ Slot(p) \in Slots
<1> DEFINE h == poll[p].head
           i == poll[p].i
<1>1. h \in Nat /\ i \in Nat
  BY LastNAssumption DEF TypeInv, PollInv, Polls
<1>2. /\ Label(p) = h - Filled(h) + i /\ i < Filled(h)
      /\ Slot(p) = (Start(h) + i) % N
  BY DEF Label, Slot
<1> HIDE DEF h, i
<1>3. CASE h < N
  <2>1. Label(p) = i /\ Slot(p) = i % N /\ i < h
    BY LastNAssumption, <1>1, <1>2, <1>3 DEF Filled, Start
  <2>2. QED
    BY LastNAssumption, <1>1, <1>3, <2>1, ModFacts DEF h
<1>4. CASE h >= N
  <2>1. Filled(h) = N /\ Start(h) = h % N /\ h - N \in Nat
    BY LastNAssumption, <1>1, <1>4 DEF Filled, Start
  <2>2. (h - N) % N = h % N
    BY <1>1, <1>4, ModBack
  <2>3. (((h - N) % N) + i) % N = ((h - N) + i) % N
    BY <1>1, <2>1, ModAdd
  <2>4. Label(p) = (h - N) + i /\ i < N
    BY <1>2, <2>1
  <2>5. Slot(p) = Label(p) % N
    BY <1>2, <2>1, <2>2, <2>3, <2>4
  <2>6. Label(p) \in Nat /\ Label(p) < h /\ Label(p) + N >= h
    BY LastNAssumption, <1>1, <2>1, <2>4
  <2>7. QED
    BY <2>5, <2>6, ModFacts DEF h
<1>5. QED
  BY LastNAssumption, <1>1, <1>3, <1>4

\* The steps of a scrape.
LEMMA PollerTypes == ASSUME TypeInv, NEW p \in Pollers, Poller(p) PROVE TypeInv'
<1> USE LastNAssumption
<1>0. /\ head \in 0..MaxCalls /\ poll \in [Pollers -> Polls] /\ lines \in [Pollers -> Seq(Printed)]
      /\ poll[p] \in Polls /\ lines[p] \in Seq(Printed)
      /\ poll[p].head \in Nat /\ poll[p].i \in 0..N /\ poll[p].head <= head /\ Len(lines[p]) \in Nat
      /\ Filled(poll[p].head) \in 0..N
  <2>1. poll \in [Pollers -> Polls] /\ lines \in [Pollers -> Seq(Printed)] /\ poll[p].head <= head
    BY DEF TypeInv, PollInv
  <2>2. poll[p].head \in 0..MaxCalls /\ poll[p].i \in 0..N
    BY <2>1 DEF Polls
  <2>3. Filled(poll[p].head) \in 0..N
    BY <2>2, FilledType
  <2>4. QED
    BY <2>1, <2>2, <2>3 DEF TypeInv, RingType
<1>1. CASE StartPoll(p)
  <2> DEFINE b == \A t \in Workers : claim[t] = None
             q == [at |-> "slot", head |-> head, i |-> 0, read |-> <<>>, quiet |-> b]
  <2>1. poll' = [poll EXCEPT ![p] = q] /\ lines' = [lines EXCEPT ![p] = <<>>]
        /\ UNCHANGED <<head, ring, engaged, claim, todo, lapped>>
    BY <1>1 DEF StartPoll
  <2>2. b \in BOOLEAN
    BY Zenon
  <2>3. Filled(head) \in 0..N
    BY <1>0, FilledType
  <2> HIDE DEF b
  <2>4. q \in Polls /\ q.at = "slot" /\ q.head = head /\ q.i = 0 /\ q.read = <<>>
    BY <1>0, <2>2, EmptyLoaded DEF Polls
  <2>5. <<>> \in Seq(Printed) /\ Len(<<>>) = 0
    OBVIOUS
  <2> HIDE DEF q
  <2>6. q.i <= Filled(q.head) /\ Len(<<>>) <= q.i /\ Len(<<>>) <= N /\ q.head <= head
    BY <1>0, <2>3, <2>4, <2>5
  <2>7. QED
    BY <1>0, <2>1, <2>4, <2>5, <2>6, OnePoll
<1>2. CASE Look(p)
  <2>1. /\ UNCHANGED <<head, ring, engaged, claim, todo, lapped, lines>>
        /\ poll[p].at = "slot" /\ poll[p].i < Filled(poll[p].head)
        /\ poll[p].read = <<>> /\ Len(lines[p]) <= poll[p].i
    BY <1>2 DEF Look, TypeInv, PollInv
  <2>2. lines' = [lines EXCEPT ![p] = lines[p]]
    BY <1>0, <2>1
  <2>3. CASE Slot(p) \in engaged
    <3> DEFINE q == [poll[p] EXCEPT !.at = "print"]
    <3>1. poll' = [poll EXCEPT ![p] = q]
      BY <1>0, <1>2, <2>3 DEF Look
    <3>2. q \in Polls /\ q.at = "print" /\ q.head = poll[p].head /\ q.i = poll[p].i
      BY <1>0 DEF Polls
    <3> HIDE DEF q
    <3>3. q.i <= Filled(q.head) /\ Len(lines[p]) <= q.i /\ Len(lines[p]) <= N /\ q.head <= head
      BY <1>0, <2>1, <3>2
    <3>4. QED
      BY <1>0, <2>1, <2>2, <3>1, <3>2, <3>3, OnePoll
  <2>4. CASE Slot(p) \notin engaged
    <3>0. PICK j \in 0..N : j = poll[p].i + 1
      BY <1>0, <2>1
    <3> DEFINE q == [poll[p] EXCEPT !.i = j]
    <3>1. poll' = [poll EXCEPT ![p] = q]
      BY <1>0, <1>2, <2>4, <3>0 DEF Look
    <3>2. /\ q \in Polls /\ q.at = "slot" /\ q.head = poll[p].head /\ q.i = poll[p].i + 1
          /\ q.read = <<>>
      BY <1>0, <2>1, <3>0 DEF Polls
    <3> HIDE DEF q
    <3>3. q.i <= Filled(q.head) /\ Len(lines[p]) <= q.i /\ Len(lines[p]) <= N /\ q.head <= head
      BY <1>0, <2>1, <3>2
    <3>4. QED
      BY <1>0, <2>1, <2>2, <3>1, <3>2, <3>3, OnePoll
  <2>5. QED
    BY <2>3, <2>4
<1>3. CASE \E f \in Members : LoadMember(p, f)
  <2>1. PICK f \in Members : LoadMember(p, f)
    BY <1>3
  <2> DEFINE l == [g \in DOMAIN poll[p].read \cup {f} |->
                     IF g = f THEN ring[Slot(p)][f] ELSE poll[p].read[g]]
             q == [poll[p] EXCEPT !.read = l]
  <2>2. /\ UNCHANGED <<head, ring, engaged, claim, todo, lapped, lines>>
        /\ poll[p].at = "print" /\ poll[p].i < Filled(poll[p].head) /\ Len(lines[p]) <= poll[p].i
    BY <2>1 DEF LoadMember, TypeInv, PollInv
  <2>3. l \in Loaded
    <3>1. ring[Slot(p)][f] \in Values
      BY <2>2, Labels DEF TypeInv, RingType
    <3>2. PICK D \in SUBSET Members : poll[p].read \in [D -> Values]
      BY <1>0 DEF Polls, Loaded
    <3>3. l \in [D \cup {f} -> Values]
      BY <3>1, <3>2
    <3>4. QED
      BY <3>2, <3>3 DEF Loaded
  <2>4. poll' = [poll EXCEPT ![p] = q]
    BY <1>0, <2>1 DEF LoadMember
  <2> HIDE DEF l
  <2>5. q \in Polls /\ q.at = "print" /\ q.head = poll[p].head /\ q.i = poll[p].i
    BY <1>0, <2>2, <2>3 DEF Polls
  <2>6. lines' = [lines EXCEPT ![p] = lines[p]]
    BY <1>0, <2>2
  <2> HIDE DEF q
  <2>7. /\ q.i < Filled(q.head) /\ q.i <= Filled(q.head) /\ q.head <= head
        /\ Len(lines[p]) <= q.i /\ Len(lines[p]) <= N
    BY <1>0, <2>2, <2>5
  <2>8. QED
    BY <1>0, <2>2, <2>4, <2>5, <2>6, <2>7, OnePoll
<1>4. CASE PrintLine(p)
  <2>0. PICK j \in 0..N : j = poll[p].i + 1
    BY <1>0, <1>4 DEF PrintLine, TypeInv, PollInv
  <2> DEFINE q == [poll[p] EXCEPT !.at = "slot", !.i = j, !.read = <<>>]
             e == [i |-> Label(p), entry |-> poll[p].read]
  <2>1. /\ UNCHANGED <<head, ring, engaged, claim, todo, lapped>>
        /\ poll[p].at = "print" /\ poll[p].i < Filled(poll[p].head) /\ Len(lines[p]) <= poll[p].i
        /\ DOMAIN poll[p].read = Members
    BY <1>4 DEF PrintLine, TypeInv, PollInv
  <2>2. poll' = [poll EXCEPT ![p] = q] /\ lines' = [lines EXCEPT ![p] = Append(lines[p], e)]
    <3>1. poll' = [poll EXCEPT ![p] = q]
      <4>1. poll' = [poll EXCEPT ![p] =
                       [poll[p] EXCEPT !.at = "slot", !.i = poll[p].i + 1, !.read = <<>>]]
        BY <1>0, <1>4 DEF PrintLine
      <4>2. QED
        BY <2>0, <4>1, Zenon
    <3>2. lines' = [lines EXCEPT ![p] = Append(lines[p], e)]
      BY <1>0, <1>4 DEF PrintLine
    <3>3. QED
      BY <3>1, <3>2
  <2>3. e \in Printed
    <3>1. PICK D \in SUBSET Members : poll[p].read \in [D -> Values]
      BY <1>0 DEF Polls, Loaded
    <3>2. poll[p].read \in [Members -> Values]
      BY <2>1, <3>1
    <3>3. Label(p) \in Nat
      BY <2>1, Labels
    <3>4. QED
      BY <3>2, <3>3 DEF Printed
  <2> HIDE DEF e
  <2>4. Append(lines[p], e) \in Seq(Printed) /\ Len(Append(lines[p], e)) = Len(lines[p]) + 1
    BY <1>0, <2>3
  <2>5. q \in Polls /\ q.at = "slot" /\ q.head = poll[p].head /\ q.i = poll[p].i + 1 /\ q.read = <<>>
    BY <1>0, <2>0, <2>1, EmptyLoaded DEF Polls
  <2> HIDE DEF q
  <2>6. /\ q.i <= Filled(q.head) /\ Len(Append(lines[p], e)) <= q.i
        /\ Len(Append(lines[p], e)) <= N /\ q.head <= head
    BY <1>0, <2>1, <2>4, <2>5
  <2>7. QED
    BY <1>0, <2>1, <2>2, <2>4, <2>5, <2>6, OnePoll
<1>5. CASE EndPoll(p)
  <2> DEFINE q == [poll[p] EXCEPT !.at = "idle"]
  <2>1. /\ UNCHANGED <<head, ring, engaged, claim, todo, lapped, lines>>
        /\ poll[p].at = "slot" /\ poll[p].read = <<>> /\ Len(lines[p]) <= N
    BY <1>5 DEF EndPoll, TypeInv, PollInv
  <2>2. poll' = [poll EXCEPT ![p] = q] /\ lines' = [lines EXCEPT ![p] = lines[p]]
    BY <1>0, <1>5, <2>1 DEF EndPoll
  <2>3. q \in Polls /\ q.at = "idle" /\ q.head = poll[p].head /\ q.read = <<>>
    BY <1>0, <2>1 DEF Polls
  <2> HIDE DEF q
  <2>4. QED
    BY <1>0, <2>1, <2>2, <2>3, OnePoll
<1>6. QED
  BY <1>1, <1>2, <1>3, <1>4, <1>5 DEF Poller

\* The types are kept by every step.
LEMMA TypeStep == TypeInv /\ [Next]_vars => TypeInv'
<1>1. ASSUME TypeInv, UNCHANGED vars PROVE TypeInv'
  BY <1>1 DEF vars, TypeInv, RingType, ClaimInv, PollInv
<1>2. QED
  BY <1>1, WorkerTypes, PollerTypes DEF Next

\* The ring, the claims and the scrapes are well-typed: no scrape prints more than N
\* lines or looks past its window (lastn.cc:75-130).
THEOREM LastNTypes == Spec => []TypeOK
<1>1. Spec => []TypeInv
  BY TypeInit, TypeStep, PTL DEF Spec
<1>2. QED
  BY <1>1, TypeInvOK, PTL
-----------------------------------------------------------------------------
(* The entries while no call is overtaken. *)

\* The call that records s has still to make its store f.
Pending(s, f) == \E t \in Workers : claim[t] = s /\ f \in todo[t]

\* The numbers of the last lap.
Last(s) == s \in Nat /\ s < head /\ s + N >= head

\* The calls under way are of the last lap; a member is the newest of its slot, or
\* the one before as long as its store is pending.
UnlappedInv ==
    ~lapped =>
        /\ \A t \in Workers : claim[t] # None => Last(claim[t])
        /\ \A s \in Nat : Last(s) =>
             /\ \A f \in Members :
                  ring[s % N][f] = IF ~Pending(s, f) THEN s ELSE IF s >= N THEN s - N ELSE None
             /\ s % N \in engaged \/ (s < N /\ Pending(s, "engaged"))
        /\ \A k \in Slots : k >= head => \A f \in Members : ring[k][f] = None

\* What a number is in the next state, as the steps below need it.
LEMMA UnlappedKept ==
    ASSUME TypeInv, UnlappedInv, UNCHANGED <<head, ring, engaged, lapped>>,
           \A t \in Workers : claim'[t] # None => claim'[t] = claim[t],
           \A s \in Nat, f \in Stores : Last(s) => (Pending(s, f) <=> Pending(s, f)')
    PROVE  UnlappedInv'
<1> SUFFICES ASSUME ~lapped PROVE UnlappedInv'
  BY DEF UnlappedInv
<1>1. \A s : Last(s)' <=> Last(s)
  BY DEF Last
<1>2. \A t \in Workers : claim'[t] # None => Last(claim'[t])
  BY DEF UnlappedInv
<1>3. ASSUME NEW s \in Nat, Last(s)
      PROVE  /\ \A f \in Members :
                  ring[s % N][f] = IF ~Pending(s, f)' THEN s ELSE IF s >= N THEN s - N ELSE None
             /\ s % N \in engaged \/ (s < N /\ Pending(s, "engaged")')
  BY <1>3 DEF UnlappedInv, Stores
<1>4. \A k \in Slots : k >= head => \A f \in Members : ring[k][f] = None
  BY DEF UnlappedInv
<1>5. QED
  BY <1>1, <1>2, <1>3, <1>4 DEF UnlappedInv, None

\* A claim that laps nobody makes a new last number of its slot, all of it pending.
LEMMA UnlappedClaim ==
    ASSUME TypeInv, UnlappedInv, NEW t \in Workers, Claim(t) PROVE UnlappedInv'
<1> USE LastNAssumption
<1> SUFFICES ASSUME ~lapped' PROVE UnlappedInv'
  BY DEF UnlappedInv
<1>0. /\ ~lapped /\ \A u \in Workers : claim[u] # None => claim[u] % N # head % N
      /\ claim[t] = None /\ UNCHANGED <<ring, engaged>>
      /\ head \in Nat /\ head < MaxCalls /\ head' = head + 1 /\ None = MaxCalls
      /\ claim' = [claim EXCEPT ![t] = head] /\ todo' = [todo EXCEPT ![t] = Stores]
      /\ claim \in [Workers -> Values] /\ todo \in [Workers -> SUBSET Stores]
  <2>1. ~lapped /\ \A u \in Workers : ~(claim[u] # None /\ claim[u] % N = head % N)
    BY Zenon DEF Claim
  <2>2. QED
    BY <2>1 DEF Claim, TypeInv, RingType, ClaimInv, None
<1>1. /\ claim'[t] = head /\ todo'[t] = Stores
      /\ \A u \in Workers \ {t} : claim'[u] = claim[u] /\ todo'[u] = todo[u]
  BY <1>0
<1>2. \A u \in Workers : claim[u] # head /\ (claim[u] # None => claim[u] \in Nat /\ claim[u] < head)
  BY <1>0 DEF TypeInv, ClaimInv, Values, Seqs
<1>3. head >= N => /\ head - N \in Nat /\ (head - N) % N = head % N /\ Last(head - N)
                   /\ \A f : ~Pending(head - N, f)
  <2>1. SUFFICES ASSUME head >= N
                 PROVE  /\ head - N \in Nat /\ (head - N) % N = head % N /\ Last(head - N)
                        /\ \A f : ~Pending(head - N, f)
    OBVIOUS
  <2>2. head - N \in Nat /\ (head - N) % N = head % N
    BY <1>0, <2>1, ModBack
  <2>3. Last(head - N)
    BY <1>0, <2>1, <2>2 DEF Last
  <2>4. head - N # None
    BY <1>0, <2>2
  <2>5. QED
    BY <1>0, <2>2, <2>3, <2>4 DEF Pending
<1>4. ASSUME NEW u \in Workers, claim'[u] # None
      PROVE  claim'[u] \in Nat /\ claim'[u] < head' /\ claim'[u] + N >= head'
  <2>1. CASE u = t
    BY <1>0, <1>1, <2>1
  <2>2. CASE u # t
    <3>1. claim'[u] = claim[u] /\ Last(claim[u])
      BY <1>0, <1>1, <1>4, <2>2 DEF UnlappedInv
    <3>2. claim[u] + N # head
      <4>1. SUFFICES ASSUME claim[u] + N = head PROVE FALSE
        OBVIOUS
      <4>2. head >= N /\ claim[u] = head - N
        BY <1>0, <3>1, <4>1 DEF Last
      <4>3. claim[u] % N = head % N
        BY <1>3, <4>2
      <4>4. QED
        BY <1>0, <1>1, <1>4, <2>2, <4>3
    <3>3. QED
      BY <1>0, <3>1, <3>2 DEF Last
  <2>3. QED
    BY <2>1, <2>2
<1>5. ASSUME NEW s \in Nat, Last(s)'
      PROVE  /\ \A f \in Members :
                  ring[s % N][f] = IF ~Pending(s, f)' THEN s ELSE IF s >= N THEN s - N ELSE None
             /\ s % N \in engaged \/ (s < N /\ Pending(s, "engaged")')
  <2>1. CASE s = head
    <3>1. \A f \in Stores : Pending(s, f)'
      BY <1>1, <2>1 DEF Pending
    <3>2. CASE head >= N
      <4>1. \A f \in Members : ring[s % N][f] = head - N
        BY <1>0, <1>3, <2>1, <3>2 DEF UnlappedInv
      <4>2. s % N \in engaged
        BY <1>0, <1>3, <2>1, <3>2 DEF UnlappedInv
      <4>3. QED
        BY <2>1, <3>1, <3>2, <4>1, <4>2 DEF Stores
    <3>3. CASE ~(head >= N)
      <4>1. s % N = head /\ head \in Slots /\ s < N
        BY <1>0, <2>1, <3>3, ModFacts DEF Slots
      <4>2. \A f \in Members : ring[s % N][f] = None
        BY <1>0, <4>1 DEF UnlappedInv
      <4>3. QED
        BY <2>1, <3>1, <3>3, <4>1, <4>2 DEF Stores
    <3>4. QED
      BY <3>2, <3>3
  <2>2. CASE s # head
    <3>1. Last(s)
      BY <1>0, <1>5, <2>2 DEF Last
    <3>2. s # None
      BY <1>0, <3>1 DEF Last
    <3>3. \A f : Pending(s, f)' <=> Pending(s, f)
      BY <1>0, <1>1, <2>2, <3>2 DEF Pending
    <3>4. QED
      BY <1>0, <3>1, <3>3 DEF UnlappedInv
  <2>3. QED
    BY <2>1, <2>2
<1>6. \A k \in Slots : k >= head' => \A f \in Members : ring[k][f] = None
  BY <1>0 DEF UnlappedInv, Slots
<1>7. QED
  BY <1>0, <1>4, <1>5, <1>6 DEF UnlappedInv, None, Last

\* A store of the last number of a slot is no longer pending, and is in the ring.
LEMMA UnlappedAssign ==
    ASSUME TypeInv, UnlappedInv, NEW t \in Workers, NEW f \in Stores, Assign(t, f)
    PROVE  UnlappedInv'
<1> USE LastNAssumption
<1> SUFFICES ASSUME ~lapped PROVE UnlappedInv'
  BY DEF UnlappedInv, Assign
<1>0. /\ UNCHANGED <<head, claim, lapped>> /\ todo' = [todo EXCEPT ![t] = todo[t] \ {f}]
      /\ f \in todo[t] /\ claim[t] # None /\ Last(claim[t])
      /\ claim \in [Workers -> Values] /\ todo \in [Workers -> SUBSET Stores]
      /\ ring \in [Slots -> [Members -> Values]] /\ head \in Nat
  BY DEF Assign, TypeInv, RingType, ClaimInv, UnlappedInv
<1> DEFINE c == claim[t]
<1>1. /\ c \in Nat /\ c < head /\ c % N \in Slots
      /\ \A u \in Workers \ {t} : claim[u] # c
  BY <1>0, ModFacts DEF Last, TypeInv, ClaimInv
<1>2. \A s, g : (s # c \/ g # f) => (Pending(s, g)' <=> Pending(s, g))
  BY <1>0 DEF Pending
<1>4. \A s \in Nat : Last(s) /\ s # c => s % N # c % N
  BY <1>0, <1>1, NewestOnce DEF Last
<1>5. CASE f = "engaged"
  <2>1. engaged' = engaged \cup {c % N} /\ ring' = ring
    BY <1>5 DEF Assign
  <2>2. \A s, g : g \in Members => (Pending(s, g)' <=> Pending(s, g))
    BY <1>2, <1>5, LastNAssumption
  <2>3. ASSUME NEW s \in Nat, Last(s)
        PROVE  s % N \in engaged' \/ (s < N /\ Pending(s, "engaged")')
    BY <1>2, <2>1, <2>3 DEF UnlappedInv
  <2>4. \A s : Last(s)' <=> Last(s)
    BY <1>0 DEF Last
  <2>5. QED
    BY <1>0, <2>1, <2>2, <2>3, <2>4 DEF UnlappedInv, None
<1>6. CASE f # "engaged"
  <2>1. ring' = [ring EXCEPT ![c % N][f] = c] /\ engaged' = engaged /\ f \in Members
    BY <1>6 DEF Assign, Stores
  <2>2. /\ ring'[c % N][f] = c
        /\ \A k \in Slots, g \in Members : (k # c % N \/ g # f) => ring'[k][g] = ring[k][g]
    BY <1>0, <1>1, <2>1
  <2>3. ASSUME NEW s \in Nat, Last(s)
        PROVE  /\ \A g \in Members :
                    ring'[s % N][g] = IF ~Pending(s, g)' THEN s ELSE IF s >= N THEN s - N ELSE None
               /\ s % N \in engaged' \/ (s < N /\ Pending(s, "engaged")')
    <3>1. s % N \in Slots
      BY ModFacts
    <3>2. ASSUME NEW g \in Members
          PROVE  ring'[s % N][g] = IF ~Pending(s, g)' THEN s ELSE IF s >= N THEN s - N ELSE None
      <4>1. CASE s = c /\ g = f
        <5>1. ~Pending(s, g)'
          BY <1>0, <1>1, <4>1 DEF Pending
        <5>2. QED
          BY <2>2, <4>1, <5>1
      <4>2. CASE s # c \/ g # f
        <5>1. ring'[s % N][g] = ring[s % N][g]
          BY <1>4, <2>2, <2>3, <3>1, <4>2
        <5>2. Pending(s, g)' <=> Pending(s, g)
          BY <1>2, <4>2
        <5>3. ring[s % N][g] = IF ~Pending(s, g) THEN s ELSE IF s >= N THEN s - N ELSE None
          BY <2>3 DEF UnlappedInv
        <5>4. QED
          BY <5>1, <5>2, <5>3
      <4>3. QED
        BY <4>1, <4>2
    <3>3. s % N \in engaged' \/ (s < N /\ Pending(s, "engaged")')
      BY <1>2, <1>6, <2>1, <2>3 DEF UnlappedInv
    <3>4. QED
      BY <3>2, <3>3
  <2>4. ASSUME NEW k \in Slots, k >= head, NEW g \in Members PROVE ring'[k][g] = None
    <3>1. k # c % N
      BY <1>0, <1>1, <2>4, ModFacts DEF Slots
    <3>2. QED
      BY <2>2, <2>4, <3>1 DEF UnlappedInv
  <2>5. \A s : Last(s)' <=> Last(s)
    BY <1>0 DEF Last
  <2>6. QED
    BY <1>0, <2>3, <2>4, <2>5 DEF UnlappedInv, None
<1>7. QED
  BY <1>5, <1>6

\* UnlappedInv is kept by every step.
LEMMA UnlappedStep == TypeInv /\ UnlappedInv /\ [Next]_vars => UnlappedInv'
<1> SUFFICES ASSUME TypeInv, UnlappedInv, [Next]_vars PROVE UnlappedInv'
  OBVIOUS
<1>1. ASSUME NEW t \in Workers, Worker(t) PROVE UnlappedInv'
  <2>1. CASE Finish(t)
    <3>1. /\ claim \in [Workers -> Values] /\ UNCHANGED <<head, ring, engaged, lapped, todo>>
          /\ claim' = [claim EXCEPT ![t] = None] /\ todo[t] = {}
      BY <2>1 DEF Finish, TypeInv, ClaimInv
    <3>2. \A u \in Workers : claim'[u] # None => claim'[u] = claim[u]
      BY <3>1
    <3>3. \A s \in Nat, f \in Stores : Last(s) => (Pending(s, f) <=> Pending(s, f)')
      <4>1. \A s : Last(s) => s # None
        BY LastNAssumption DEF Last, None, TypeInv, RingType
      <4>2. QED
        BY <3>1, <4>1 DEF Pending
    <3>4. QED
      BY <3>1, <3>2, <3>3, UnlappedKept
  <2>2. QED
    BY <1>1, <2>1, UnlappedClaim, UnlappedAssign DEF Worker
<1>2. ASSUME (\E p \in Pollers : Poller(p)) \/ UNCHANGED vars PROVE UnlappedInv'
  <2>1. UNCHANGED <<head, ring, engaged, claim, todo, lapped>>
    BY <1>2 DEF Poller, StartPoll, Look, PrintLine, EndPoll, LoadMember, vars
  <2>2. \A s, f : Pending(s, f)' <=> Pending(s, f)
    BY <2>1 DEF Pending
  <2>3. QED
    BY <2>1, <2>2, UnlappedKept
<1>3. QED
  BY <1>1, <1>2 DEF Next

\* The entries are the newest ones in every reachable state.
LEMMA UnlappedAlways == Spec => [](TypeInv /\ UnlappedInv)
<1>1. Init => TypeInv /\ UnlappedInv
  <2>1. ASSUME Init PROVE UnlappedInv
    <3>1. \A s : ~Last(s)
      BY <2>1 DEF Init, Last
    <3>2. \A t \in Workers : claim[t] = None
      BY <2>1 DEF Init
    <3>3. \A k \in Slots : \A f \in Members : ring[k][f] = None
      BY <2>1 DEF Init
    <3>4. QED
      BY <3>1, <3>2, <3>3 DEF UnlappedInv
  <2>2. QED
    BY <2>1, TypeInit
<1>2. TypeInv /\ UnlappedInv /\ [Next]_vars => (TypeInv /\ UnlappedInv)'
  BY TypeStep, UnlappedStep
<1>3. QED
  BY <1>1, <1>2, PTL DEF Spec

\* At rest every slot holds the newest of its calls, whole, if no call was overtaken
\* by another that went once around the ring (lastn.cc:45-72).
THEOREM EntriesAreNewest == Spec => []UnlappedExact
<1>1. TypeInv /\ UnlappedInv => UnlappedExact
  <2> SUFFICES ASSUME TypeInv, UnlappedInv, ~lapped, AtRest, NEW k \in Slots, k < head
               PROVE  ring[k] = Whole(Newest(k))
    BY DEF UnlappedExact, LastNAtRest
  <2>0. head \in Nat /\ head <= MaxCalls /\ k \in Nat
    BY LastNAssumption DEF TypeInv, RingType, Slots
  <2>1. \E s \in Nat : s < head /\ s % N = k /\ s + N >= head
    BY <2>0, NewestExists
  <2>2. \E s \in Seqs : s < head /\ s % N = k /\ s + N >= head
    BY <2>0, <2>1, LastNAssumption DEF Seqs
  <2>3. PICK n \in Seqs : n = Newest(k) /\ n < head /\ n % N = k /\ n + N >= head
    BY <2>2 DEF Newest
  <2>4. n \in Nat /\ Last(n)
    BY <2>3, LastNAssumption DEF Seqs, Last
  <2>5. n # None
    BY <2>0, <2>3, LastNAssumption DEF None, Seqs
  <2>6. \A f : ~Pending(n, f)
    BY <2>5 DEF AtRest, Pending
  <2>7. \A f \in Members : ring[k][f] = n
    BY <2>3, <2>4, <2>6 DEF UnlappedInv
  <2>8. ring[k] \in [Members -> Values]
    BY DEF TypeInv, RingType
  <2>9. QED
    BY <2>3, <2>7, <2>8 DEF Whole
<1>2. QED
  BY <1>1, UnlappedAlways, PTL
-----------------------------------------------------------------------------
(* The lines of a scrape. *)

\* A member v under the label i.
Good(v, i) ==
    /\ v # None => v < head /\ v % N = i % N
    /\ ~lapped => IF v = None THEN i < N ELSE v + N >= i

\* A member of an entry is a number that belongs in its slot.
RingHome ==
    \A k \in Slots : \A f \in Members : ring[k][f] # None => ring[k][f] < head /\ ring[k][f] % N = k

\* What a scrape has loaded and printed carries a number at most a lap from the label.
LineInv(p) ==
    /\ \A f \in DOMAIN poll[p].read : Good(poll[p].read[f], Label(p))
    /\ \A j \in DOMAIN lines[p] : \A f \in Members :
         Good(lines[p][j].entry[f], lines[p][j].i)

\* The lines l are the first m of the page of head h.
Exact(l, h, m) ==
    /\ Len(l) = m
    /\ \A j \in 1..m : /\ l[j].i = h - Filled(h) + j - 1
                       /\ \A f \in Members : l[j].entry[f] = h - Filled(h) + j - 1

\* While nothing is recorded, the lines printed so far are the first of the exact page.
QuietInv(p) ==
    poll[p].quiet =>
        /\ poll[p].head = head
        /\ \A t \in Workers : claim[t] = None
        /\ ~lapped =>
             /\ \A f \in DOMAIN poll[p].read : poll[p].read[f] = Label(p)
             /\ Exact(lines[p], poll[p].head,
                      IF poll[p].at = "idle" THEN Filled(poll[p].head) ELSE poll[p].i)

\* What holds of the ring and of every scrape.
ScrapeInv == RingHome /\ \A p \in Pollers : LineInv(p) /\ QuietInv(p)
\* All invariants together.
Base == TypeInv /\ UnlappedInv /\ ScrapeInv

\* Good stays good: the head only grows, and what was lapped stays so.
LEMMA GoodKept ==
    ASSUME TypeInv, head' \in Nat, head' >= head, lapped => lapped',
           NEW v \in Values, NEW i \in Nat, Good(v, i)
    PROVE  Good(v, i)'
<1>1. head \in Nat /\ v \in Nat /\ None' = None
  BY LastNAssumption DEF Values, Seqs, None, TypeInv, RingType
<1>2. QED
  BY <1>1 DEF Good

\* The values of the scrapes are values of the ring.
LEMMA ScrapeTypes ==
    ASSUME TypeInv, NEW p \in Pollers
    PROVE  /\ poll[p] \in Polls /\ lines[p] \in Seq(Printed)
           /\ poll[p].at = "print" \/ DOMAIN poll[p].read = {}
           /\ DOMAIN poll[p].read \subseteq Members
           /\ poll[p].read = [g \in DOMAIN poll[p].read |-> poll[p].read[g]]
           /\ \A f \in DOMAIN poll[p].read : poll[p].read[f] \in Values
           /\ \A j \in DOMAIN lines[p] : /\ lines[p][j].i \in Nat
                                         /\ \A f \in Members : lines[p][j].entry[f] \in Values
           /\ poll[p].at = "print" => Label(p) \in Nat
<1>1. poll[p] \in Polls /\ lines[p] \in Seq(Printed)
  BY DEF TypeInv, PollInv
<1>2. PICK D \in SUBSET Members : poll[p].read \in [D -> Values]
  BY <1>1 DEF Polls, Loaded
<1>3. poll[p].at = "print" \/ DOMAIN poll[p].read = {}
  BY EmptyLoaded, <1>1 DEF TypeInv, PollInv
<1>4. \A j \in DOMAIN lines[p] : lines[p][j] \in Printed
  BY <1>1
<1>5. poll[p].at = "print" => Label(p) \in Nat
  BY Labels DEF TypeInv, PollInv
<1>6. QED
  BY <1>1, <1>2, <1>3, <1>4, <1>5 DEF Printed

\* A step that leaves a scrape alone keeps its lines good.
LEMMA LinesKept ==
    ASSUME Base, head' \in Nat, head' >= head, lapped => lapped', NEW p \in Pollers,
           UNCHANGED lines, poll'[p].head = poll[p].head, poll'[p].i = poll[p].i,
           poll'[p].read = poll[p].read
    PROVE  LineInv(p)'
<1>1. Label(p)' = Label(p)
  BY DEF Label, Filled
<1>2. ASSUME NEW f \in DOMAIN poll[p].read PROVE Good(poll[p].read[f], Label(p))'
  <2>1. PICK v \in Values, i \in Nat : v = poll[p].read[f] /\ i = Label(p)
    BY <1>2, ScrapeTypes DEF Base
  <2>2. Good(v, i)
    BY <2>1 DEF Base, ScrapeInv, LineInv
  <2>3. Good(v, i)'
    BY <2>2, GoodKept DEF Base
  <2>4. poll'[p].read[f] = v /\ Label(p)' = i
    BY <1>1, <2>1
  <2>5. QED
    BY <2>3, <2>4 DEF Good
<1>3. ASSUME NEW j \in DOMAIN lines[p], NEW f \in Members
      PROVE  Good(lines[p][j].entry[f], lines[p][j].i)'
  <2>1. PICK v \in Values, i \in Nat : v = lines[p][j].entry[f] /\ i = lines[p][j].i
    BY ScrapeTypes DEF Base
  <2>2. Good(v, i)
    BY <2>1 DEF Base, ScrapeInv, LineInv
  <2>3. Good(v, i)'
    BY <2>2, GoodKept DEF Base
  <2>4. QED
    BY <2>1, <2>3 DEF Good
<1>4. QED
  BY <1>2, <1>3 DEF LineInv

\* What is loaded from a slot of the window is good for its label.
LEMMA LoadGood ==
    ASSUME Base, NEW p \in Pollers, poll[p].at = "print", NEW f \in Members
    PROVE  /\ ring[Slot(p)][f] \in Values
           /\ Good(ring[Slot(p)][f], Label(p))
           /\ poll[p].quiet /\ ~lapped => ring[Slot(p)][f] = Label(p)
<1> USE LastNAssumption
<1>1. /\ Label(p) \in Nat /\ Label(p) < poll[p].head /\ Label(p) + N >= poll[p].head
      /\ Slot(p) = Label(p) % N /\ Slot(p) \in Slots
  BY Labels DEF Base, TypeInv, PollInv
<1>2. /\ poll[p].head \in Nat /\ head \in Nat /\ poll[p].head <= head /\ head <= MaxCalls
      /\ None = MaxCalls
  BY DEF Base, TypeInv, RingType, PollInv, Polls, None
<1>3. ring[Slot(p)][f] \in Values /\ ring[Slot(p)][f] \in Nat
  BY <1>1 DEF Base, TypeInv, RingType, Values, Seqs, None
<1> DEFINE k == Slot(p)
           i == Label(p)
           v == ring[k][f]
<1>4. v # None => v < head /\ v % N = i % N
  BY <1>1 DEF Base, ScrapeInv, RingHome
<1>5. ASSUME ~lapped
      PROVE  IF v = None THEN i < N ELSE v + N >= i
  <2>1. k < head
    <3>1. k <= i
      BY <1>1, ModLess
    <3>2. QED
      BY <1>1, <1>2, <3>1 DEF Slots
  <2>2. PICK s \in Nat : s < head /\ s % N = k /\ s + N >= head
    BY <1>1, <1>2, <2>1, NewestExists
  <2>3. v = IF ~Pending(s, f) THEN s ELSE IF s >= N THEN s - N ELSE None
    BY <1>5, <2>2 DEF Base, UnlappedInv, Last
  <2>4. s >= i
    <3>1. s < i => s + N <= i
      BY <1>1, <2>2, ModApart
    <3>2. QED
      BY <1>1, <1>2, <2>2, <3>1
  <2>5. s # None /\ (s >= N => s - N # None)
    BY <1>2, <2>2
  <2>6. QED
    BY <1>1, <2>2, <2>3, <2>4, <2>5
<1>6. ASSUME poll[p].quiet, ~lapped PROVE v = i
  <2>1. poll[p].head = head /\ \A t \in Workers : claim[t] = None
    BY <1>6 DEF Base, ScrapeInv, QuietInv
  <2>2. Last(i) /\ i # None
    BY <1>1, <1>2, <2>1 DEF Last
  <2>3. ~Pending(i, f)
    BY <2>1, <2>2 DEF Pending
  <2>4. QED
    BY <1>1, <1>6, <2>2, <2>3 DEF Base, UnlappedInv
<1>7. QED
  BY <1>3, <1>4, <1>5, <1>6 DEF Good

\* A step of a worker keeps what holds of the scrapes.
LEMMA ScrapeWorker == ASSUME Base, NEW t \in Workers, Worker(t) PROVE ScrapeInv'
<1> USE LastNAssumption
<1>0. /\ head \in Nat /\ head' \in Nat /\ head' >= head
      /\ lapped => lapped'
      /\ UNCHANGED lines /\ claim \in [Workers -> Values]
      /\ ring \in [Slots -> [Members -> Values]]
  <2>1. head \in Nat /\ claim \in [Workers -> Values] /\ ring \in [Slots -> [Members -> Values]]
    BY DEF Base, TypeInv, RingType, ClaimInv
  <2>2. lapped => lapped'
    BY Zenon DEF Worker, Claim, Finish, Assign
  <2>3. head' = head \/ head' = head + 1
    BY DEF Worker, Claim, Finish, Assign
  <2>4. UNCHANGED lines
    BY DEF Worker, Claim, Finish, Assign
  <2>5. QED
    BY <2>1, <2>2, <2>3, <2>4
<1>1. RingHome'
  <2>1. CASE ring' = ring
    <3>1. \A k \in Slots, f \in Members : ring[k][f] \in Nat
      BY <1>0 DEF Values, Seqs, None
    <3>2. ASSUME NEW k \in Slots, NEW g \in Members, ring[k][g] # None
          PROVE  ring[k][g] < head' /\ ring[k][g] % N = k
      BY <1>0, <3>1, <3>2 DEF Base, ScrapeInv, RingHome
    <3>3. QED
      BY <2>1, <3>2 DEF RingHome, None
  <2>2. ASSUME NEW f \in Members, ring' = [ring EXCEPT ![claim[t] % N][f] = claim[t]],
               head' = head, claim[t] # None
        PROVE  RingHome'
    <3>1. claim[t] < head
      BY <2>2 DEF Base, TypeInv, ClaimInv
    <3>2. ASSUME NEW k \in Slots, NEW g \in Members, ring'[k][g] # None
          PROVE  ring'[k][g] < head /\ ring'[k][g] % N = k
      <4>1. CASE k = claim[t] % N /\ g = f
        <5>1. ring'[k][g] = claim[t]
          BY <1>0, <2>2, <4>1
        <5>2. QED
          BY <3>1, <4>1, <5>1
      <4>2. CASE ~(k = claim[t] % N /\ g = f)
        <5>1. ring'[k][g] = ring[k][g]
          BY <1>0, <2>2, <4>2
        <5>2. QED
          BY <3>2, <5>1 DEF Base, ScrapeInv, RingHome
      <4>3. QED
        BY <4>1, <4>2
    <3>3. QED
      BY <2>2, <3>2 DEF RingHome, None
  <2>3. ASSUME NEW f \in Stores, Assign(t, f) PROVE claim[t] # None /\ head' = head
    BY <2>3 DEF Assign, Base, TypeInv, ClaimInv
  <2>4. QED
    BY <2>1, <2>2, <2>3 DEF Worker, Claim, Finish, Assign, Stores
<1>2. ASSUME NEW p \in Pollers PROVE LineInv(p)' /\ QuietInv(p)'
  <2>1. CASE Claim(t)
    <3>1. /\ poll'[p].head = poll[p].head /\ poll'[p].i = poll[p].i /\ poll'[p].read = poll[p].read
          /\ poll'[p].quiet = FALSE
      <4>1. poll[p] \in Polls /\ poll'[p] = [poll[p] EXCEPT !.quiet = FALSE]
        BY <2>1, ScrapeTypes DEF Base, Claim
      <4>2. QED
        BY <4>1 DEF Polls
    <3>2. LineInv(p)'
      BY <1>0, <3>1, LinesKept
    <3>3. QuietInv(p)'
      BY <3>1, Zenon DEF QuietInv
    <3>4. QED
      BY <3>2, <3>3
  <2>2. CASE Finish(t) \/ \E f \in Stores : Assign(t, f)
    <3>1. UNCHANGED poll /\ claim[t] # None
      BY <2>2 DEF Finish, Assign, Base, TypeInv, ClaimInv
    <3>2. ~poll[p].quiet
      BY <3>1 DEF Base, ScrapeInv, QuietInv
    <3>3. LineInv(p)'
      BY <1>0, <3>1, LinesKept
    <3>4. QuietInv(p)'
      BY <3>1, <3>2, Zenon DEF QuietInv
    <3>5. QED
      BY <3>3, <3>4
  <2>3. QED
    BY <2>1, <2>2 DEF Worker
<1>3. QED
  BY <1>1, <1>2 DEF ScrapeInv

\* A step of one scrape: the others and the ring stay.
LEMMA OneScrape ==
    ASSUME Base, NEW p \in Pollers, NEW q, NEW l,
           UNCHANGED <<head, ring, engaged, claim, todo, lapped>>,
           poll' = [poll EXCEPT ![p] = q], lines' = [lines EXCEPT ![p] = l],
           LineInv(p)', QuietInv(p)'
    PROVE  ScrapeInv'
<1>1. \A r \in Pollers \ {p} : poll'[r] = poll[r] /\ lines'[r] = lines[r]
  BY DEF Base, TypeInv, PollInv
<1>2. RingHome'
  BY DEF Base, ScrapeInv, RingHome, None
<1>3. ASSUME NEW r \in Pollers, r # p PROVE LineInv(r)' /\ QuietInv(r)'
  <2>1. poll'[r] = poll[r] /\ lines'[r] = lines[r]
    BY <1>1, <1>3
  <2>2. LineInv(r) /\ QuietInv(r)
    BY DEF Base, ScrapeInv
  <2>3. Label(r)' = Label(r)
    BY <2>1 DEF Label, Filled
  <2>4. LineInv(r)'
    BY <2>1, <2>2, <2>3 DEF LineInv, Good, None
  <2>5. QuietInv(r)'
    BY <2>1, <2>2, <2>3 DEF QuietInv, Exact, Filled, None
  <2>6. QED
    BY <2>4, <2>5
<1>4. QED
  BY <1>2, <1>3 DEF ScrapeInv

\* A step of a scrape keeps it too.
LEMMA ScrapePoller == ASSUME Base, NEW p \in Pollers, Poller(p) PROVE ScrapeInv'
<1> USE LastNAssumption
<1>0. /\ UNCHANGED <<head, ring, engaged, claim, todo, lapped>>
      /\ poll \in [Pollers -> Polls] /\ lines \in [Pollers -> Seq(Printed)]
      /\ head \in Nat /\ poll[p] \in Polls /\ lines[p] \in Seq(Printed)
      /\ poll[p].head \in Nat /\ poll[p].i \in Nat
      /\ poll[p].at = "slot" => poll[p].read = <<>>
  <2>1. poll \in [Pollers -> Polls] /\ lines \in [Pollers -> Seq(Printed)] /\ head \in Nat
        /\ (poll[p].at = "slot" => poll[p].read = <<>>)
    BY DEF Base, TypeInv, RingType, PollInv
  <2>2. poll[p].head \in Nat /\ poll[p].i \in Nat
    BY <2>1 DEF Polls
  <2>3. UNCHANGED <<head, ring, engaged, claim, todo, lapped>>
    BY DEF Poller, StartPoll, Look, LoadMember, PrintLine, EndPoll
  <2>4. QED
    BY <2>1, <2>2, <2>3
<1>1. LineInv(p) /\ QuietInv(p)
  BY DEF Base, ScrapeInv
\* The lines stay, and what has been loaded is for the label.
<1>2. ASSUME NEW q \in Polls, poll' = [poll EXCEPT ![p] = q], UNCHANGED lines,
             q.head = poll[p].head, q.quiet = poll[p].quiet,
             \A f \in DOMAIN q.read :
                /\ q.read[f] \in Values /\ Good(q.read[f], Label(p)) /\ q.i = poll[p].i
                /\ poll[p].quiet /\ ~lapped => q.read[f] = Label(p),
             poll[p].quiet /\ ~lapped =>
                 Exact(lines[p], q.head, IF q.at = "idle" THEN Filled(q.head) ELSE q.i)
      PROVE  ScrapeInv'
  <2>1. poll'[p] = q /\ lines' = [lines EXCEPT ![p] = lines[p]]
    BY <1>0, <1>2
  <2>2. ASSUME NEW f \in DOMAIN q.read
        PROVE  Label(p)' = Label(p)
    BY <1>2, <2>1 DEF Label, Filled
  <2>3. LineInv(p)'
    <3>1. PICK i : i = Label(p)
      OBVIOUS
    <3>2. ASSUME NEW f \in DOMAIN q.read
          PROVE  Good(q.read[f], i)' /\ Label(p)' = i
      BY <1>0, <1>2, <2>2, <3>1, <3>2 DEF Good, None
    <3>3. (\A f \in DOMAIN poll[p].read : Good(poll[p].read[f], Label(p)))'
      BY <2>1, <3>2 DEF Good, None
    <3>4. (\A j \in DOMAIN lines[p] : \A f \in Members :
             Good(lines[p][j].entry[f], lines[p][j].i))'
      BY <1>0, <1>1, <1>2 DEF LineInv, Good, None
    <3>5. QED
      BY <3>3, <3>4 DEF LineInv
  <2>4. QuietInv(p)'
    <3>1. poll[p].quiet => head = q.head /\ \A t \in Workers : claim[t] = None
      BY <1>1, <1>2 DEF QuietInv
    <3>2. poll[p].quiet /\ ~lapped => \A f \in DOMAIN q.read : q.read[f] = Label(p)'
      BY <1>2, <2>2
    <3>3. QED
      BY <1>0, <1>2, <2>1, <3>1, <3>2 DEF QuietInv, Exact, Filled, None
  <2>5. QED
    BY <1>0, <1>2, <2>1, <2>3, <2>4, OneScrape
<1>3. CASE StartPoll(p)
  <2> DEFINE b == \A t \in Workers : claim[t] = None
             q == [at |-> "slot", head |-> head, i |-> 0, read |-> <<>>, quiet |-> b]
  <2>1. poll' = [poll EXCEPT ![p] = q] /\ lines' = [lines EXCEPT ![p] = <<>>]
    BY <1>3 DEF StartPoll
  <2>2. /\ poll'[p].at = "slot" /\ poll'[p].head = head /\ poll'[p].i = 0 /\ poll'[p].read = <<>>
        /\ poll'[p].quiet => \A t \in Workers : claim[t] = None
        /\ lines'[p] = <<>>
    BY <1>0, <2>1
  <2>3. LineInv(p)'
    BY <2>2, EmptyLoaded DEF LineInv
  <2>4. QuietInv(p)'
    BY <1>0, <2>2, EmptyLoaded DEF QuietInv, Exact, None
  <2>5. QED
    BY <1>0, <2>1, <2>3, <2>4, OneScrape
<1>4. CASE Look(p)
  <2>1. poll[p].at = "slot" /\ poll[p].i < Filled(poll[p].head) /\ UNCHANGED lines
        /\ DOMAIN poll[p].read = {}
    BY <1>0, <1>4, EmptyLoaded DEF Look
  <2>2. poll[p].quiet /\ ~lapped => Exact(lines[p], poll[p].head, poll[p].i)
    BY <1>1, <2>1 DEF QuietInv
  <2>3. CASE Slot(p) \in engaged
    <3> DEFINE q == [poll[p] EXCEPT !.at = "print"]
    <3>1. poll' = [poll EXCEPT ![p] = q]
      BY <1>0, <1>4, <2>3 DEF Look
    <3>2. /\ q \in Polls /\ q.at = "print" /\ q.head = poll[p].head /\ q.i = poll[p].i
          /\ q.quiet = poll[p].quiet /\ q.read = poll[p].read
      BY <1>0 DEF Polls
    <3> HIDE DEF q
    <3>3. QED
      BY <1>2, <2>1, <2>2, <3>1, <3>2
  <2>4. CASE Slot(p) \notin engaged
    <3>0. PICK j \in 0..N : j = poll[p].i + 1
      BY <1>0, <2>1, FilledType
    <3> DEFINE q == [poll[p] EXCEPT !.i = j]
    <3>1. poll' = [poll EXCEPT ![p] = q]
      BY <1>0, <1>4, <2>4, <3>0 DEF Look
    <3>2. /\ q \in Polls /\ q.head = poll[p].head /\ q.quiet = poll[p].quiet /\ q.read = poll[p].read
      BY <1>0 DEF Polls
    <3> HIDE DEF q
    <3>3. ~(poll[p].quiet /\ ~lapped)
      <4>1. SUFFICES ASSUME poll[p].quiet, ~lapped PROVE FALSE
        OBVIOUS
      <4>2. /\ Label(p) \in Nat /\ Label(p) < poll[p].head /\ Label(p) + N >= poll[p].head
            /\ Slot(p) = Label(p) % N
        BY <2>1, Labels DEF Base
      <4>3. poll[p].head = head /\ \A t \in Workers : claim[t] = None
        BY <1>1, <4>1 DEF QuietInv
      <4>4. Last(Label(p)) /\ Label(p) # None
        BY <4>2, <4>3 DEF Last, None, Base, TypeInv, RingType
      <4>5. ~Pending(Label(p), "engaged")
        BY <4>3, <4>4 DEF Pending
      <4>6. QED
        BY <2>4, <4>1, <4>2, <4>4, <4>5 DEF Base, UnlappedInv
    <3>4. QED
      BY <1>2, <2>1, <3>1, <3>2, <3>3
  <2>5. QED
    BY <2>3, <2>4
<1>5. CASE \E f \in Members : LoadMember(p, f)
  <2>1. PICK f \in Members : LoadMember(p, f)
    BY <1>5
  <2> DEFINE l == [g \in DOMAIN poll[p].read \cup {f} |->
                     IF g = f THEN ring[Slot(p)][f] ELSE poll[p].read[g]]
             q == [poll[p] EXCEPT !.read = l]
  <2>2. /\ UNCHANGED lines /\ poll[p].at = "print"
        /\ poll' = [poll EXCEPT ![p] = q]
    BY <1>0, <2>1 DEF LoadMember
  <2>3. PICK D \in SUBSET Members : poll[p].read \in [D -> Values]
    BY <1>0 DEF Polls, Loaded
  <2>4. /\ ring[Slot(p)][f] \in Values /\ Good(ring[Slot(p)][f], Label(p))
        /\ (poll[p].quiet /\ ~lapped => ring[Slot(p)][f] = Label(p))
    BY <2>2, LoadGood
  <2>5. l \in Loaded /\ DOMAIN l = D \cup {f}
    <3>1. l \in [D \cup {f} -> Values]
      BY <2>3, <2>4
    <3>2. QED
      BY <3>1 DEF Loaded
  <2>6. \A g \in DOMAIN l :
           /\ l[g] \in Values /\ Good(l[g], Label(p))
           /\ poll[p].quiet /\ ~lapped => l[g] = Label(p)
    <3>1. SUFFICES ASSUME NEW g \in D \cup {f}
                   PROVE  /\ l[g] \in Values /\ Good(l[g], Label(p))
                          /\ poll[p].quiet /\ ~lapped => l[g] = Label(p)
      BY <2>5
    <3>2. CASE g = f
      <4>1. l[g] = ring[Slot(p)][f]
        BY <2>3, <3>2
      <4>2. QED
        BY <2>4, <4>1
    <3>3. CASE g # f
      <4>1. g \in D /\ l[g] = poll[p].read[g]
        BY <2>3, <3>1, <3>3
      <4>2. QED
        BY <1>1, <2>3, <4>1 DEF LineInv, QuietInv
    <3>4. QED
      BY <3>2, <3>3
  <2> HIDE DEF l
  <2>7. /\ q \in Polls /\ q.at = "print" /\ q.head = poll[p].head /\ q.i = poll[p].i
        /\ q.quiet = poll[p].quiet /\ q.read = l
    BY <1>0, <2>2, <2>5 DEF Polls
  <2> HIDE DEF q
  <2>8. poll[p].quiet /\ ~lapped => Exact(lines[p], poll[p].head, poll[p].i)
    BY <1>1, <2>2 DEF QuietInv
  <2>9. QED
    BY <1>2, <2>2, <2>6, <2>7, <2>8
<1>6. CASE PrintLine(p)
  <2> DEFINE e == [i |-> Label(p), entry |-> poll[p].read]
             q == [poll[p] EXCEPT !.at = "slot", !.i = poll[p].i + 1, !.read = <<>>]
             n == Len(lines[p])
  <2>1. /\ poll[p].at = "print" /\ DOMAIN poll[p].read = Members
        /\ poll' = [poll EXCEPT ![p] = q]
        /\ lines' = [lines EXCEPT ![p] = Append(lines[p], e)]
    <3>1. poll' = [poll EXCEPT ![p] = q]
      BY <1>0, <1>6 DEF PrintLine
    <3>2. lines' = [lines EXCEPT ![p] = Append(lines[p], e)]
      BY <1>0, <1>6 DEF PrintLine
    <3>3. QED
      BY <1>6, <3>1, <3>2 DEF PrintLine
  <2>2. Label(p) \in Nat /\ Label(p) = poll[p].head - Filled(poll[p].head) + poll[p].i
    BY <2>1, ScrapeTypes DEF Label, Base
  <2>3. e.i = Label(p) /\ e.entry = poll[p].read
    OBVIOUS
  <2> HIDE DEF e
  <2>4. /\ n \in Nat /\ Len(lines'[p]) = n + 1 /\ DOMAIN lines'[p] = 1..(n + 1)
        /\ DOMAIN lines[p] = 1..n
        /\ \A j \in 1..n : lines'[p][j] = lines[p][j]
        /\ lines'[p][n + 1] = e
    <3>1. lines'[p] = Append(lines[p], e)
      BY <1>0, <2>1
    <3>2. QED
      BY <1>0, <3>1
  <2> HIDE DEF n
  <2>5. /\ poll'[p].at = "slot" /\ poll'[p].head = poll[p].head /\ poll'[p].i = poll[p].i + 1
        /\ poll'[p].read = <<>> /\ poll'[p].quiet = poll[p].quiet
    <3>1. poll'[p] = q
      BY <1>0, <2>1
    <3>2. QED
      BY <1>0, <3>1 DEF Polls
  <2> HIDE DEF q
  <2>6. LineInv(p)'
    <3>1. ASSUME NEW j \in 1..(n + 1), NEW f \in Members
          PROVE  Good(lines'[p][j].entry[f], lines'[p][j].i)
      <4>1. CASE j = n + 1
        BY <1>1, <2>1, <2>3, <2>4, <4>1 DEF LineInv
      <4>2. CASE j # n + 1
        <5>1. j \in 1..n
          BY <2>4, <3>1, <4>2
        <5>2. QED
          BY <1>1, <2>4, <5>1 DEF LineInv
      <4>3. QED
        BY <4>1, <4>2
    <3>2. \A j \in DOMAIN lines'[p] : \A f \in Members :
             Good(lines'[p][j].entry[f], lines'[p][j].i)
      BY <2>4, <3>1
    <3>3. QED
      BY <1>0, <2>5, <3>2, EmptyLoaded DEF LineInv, Good, None
  <2>7. QuietInv(p)'
    <3>1. poll[p].quiet => poll[p].head = head /\ \A t \in Workers : claim[t] = None
      BY <1>1 DEF QuietInv
    <3>2. ASSUME poll[p].quiet, ~lapped
          PROVE  Exact(lines'[p], poll[p].head, poll[p].i + 1)
      <4>1. /\ Exact(lines[p], poll[p].head, poll[p].i)
            /\ \A f \in Members : poll[p].read[f] = Label(p)
        BY <1>1, <2>1, <3>2 DEF QuietInv
      <4>2. n = poll[p].i
        BY <4>1 DEF Exact, n
      <4>3. ASSUME NEW j \in 1..(n + 1)
            PROVE  LET x == poll[p].head - Filled(poll[p].head) + j - 1
                   IN lines'[p][j].i = x /\ \A f \in Members : lines'[p][j].entry[f] = x
        <5>1. CASE j = n + 1
          <6>1. poll[p].head - Filled(poll[p].head) + j - 1 = Label(p)
            <7>1. Filled(poll[p].head) \in Nat
              BY <1>0, FilledType
            <7>2. QED
              BY <1>0, <2>2, <4>2, <5>1, <7>1
          <6>2. QED
            BY <2>3, <2>4, <4>1, <5>1, <6>1
        <5>2. CASE j # n + 1
          <6>1. j \in 1..n
            BY <2>4, <4>3, <5>2
          <6>2. QED
            BY <2>4, <4>1, <4>2, <6>1 DEF Exact
        <5>3. QED
          BY <5>1, <5>2
      <4>4. QED
        BY <2>4, <4>2, <4>3 DEF Exact
    <3>3. QED
      BY <1>0, <2>5, <3>1, <3>2, EmptyLoaded DEF QuietInv, Exact, Filled, None
  <2>8. QED
    BY <1>0, <2>1, <2>6, <2>7, OneScrape
<1>7. CASE EndPoll(p)
  <2> DEFINE q == [poll[p] EXCEPT !.at = "idle"]
  <2>1. /\ UNCHANGED lines /\ poll[p].at = "slot" /\ poll[p].i = Filled(poll[p].head)
        /\ DOMAIN poll[p].read = {}
    BY <1>0, <1>7, EmptyLoaded DEF EndPoll
  <2>2. poll' = [poll EXCEPT ![p] = q]
    BY <1>0, <1>7 DEF EndPoll
  <2>3. /\ q \in Polls /\ q.at = "idle" /\ q.head = poll[p].head /\ q.i = poll[p].i
        /\ q.quiet = poll[p].quiet /\ q.read = poll[p].read
    BY <1>0 DEF Polls
  <2> HIDE DEF q
  <2>4. poll[p].quiet /\ ~lapped => Exact(lines[p], poll[p].head, Filled(poll[p].head))
    BY <1>1, <2>1 DEF QuietInv
  <2>5. QED
    BY <1>2, <2>1, <2>2, <2>3, <2>4
<1>8. QED
  BY <1>3, <1>4, <1>5, <1>6, <1>7 DEF Poller

\* All invariants hold in every reachable state.
LEMMA ScrapeAlways == Spec => []Base
<1>1. Init => Base
  <2>1. ASSUME Init PROVE Base
    <3>1. TypeInv /\ UnlappedInv
      <4>1. \A s : ~Last(s)
        BY <2>1 DEF Init, Last
      <4>2. UnlappedInv
        BY <2>1, <4>1 DEF Init, UnlappedInv
      <4>3. QED
        BY <2>1, <4>2, TypeInit
    <3>2. RingHome
      BY <2>1 DEF Init, RingHome
    <3>3. ASSUME NEW p \in Pollers PROVE LineInv(p) /\ QuietInv(p)
      <4>1. poll[p] = Idle /\ lines[p] = <<>>
        BY <2>1 DEF Init
      <4>2. poll[p].read = <<>> /\ ~poll[p].quiet
        BY <4>1 DEF Idle
      <4>3. LineInv(p)
        BY <4>1, <4>2, EmptyLoaded DEF LineInv
      <4>4. QuietInv(p)
        BY <4>2, Zenon DEF QuietInv
      <4>5. QED
        BY <4>3, <4>4
    <3>4. QED
      BY <3>1, <3>2, <3>3 DEF Base, ScrapeInv
  <2>2. QED
    BY <2>1
<1>2. Base /\ [Next]_vars => Base'
  <2>1. SUFFICES ASSUME Base, [Next]_vars PROVE ScrapeInv'
    BY TypeStep, UnlappedStep DEF Base
  <2>2. CASE UNCHANGED vars
    <3>1. \A p \in Pollers : Label(p)' = Label(p)
      BY <2>2 DEF vars, Label, Filled
    <3>2. UNCHANGED <<head, ring, claim, lapped, poll, lines>>
      BY <2>2 DEF vars
    <3>3. RingHome' /\ \A p \in Pollers : LineInv(p)'
      BY <2>1, <3>1, <3>2 DEF Base, ScrapeInv, RingHome, LineInv, Good, None
    <3>4. \A p \in Pollers : QuietInv(p)'
      BY <2>1, <3>1, <3>2 DEF Base, ScrapeInv, QuietInv, Exact, Filled, None
    <3>5. QED
      BY <3>3, <3>4 DEF ScrapeInv
  <2>3. QED
    BY <2>1, <2>2, ScrapeWorker, ScrapePoller DEF Next
<1>3. QED
  BY <1>1, <1>2, PTL DEF Spec

\* Each number of a line comes from the line's own slot, at most one lap late if no
\* call was overtaken (lastn.cc:102-128).
THEOREM LinesAreHome == Spec => []LineHome
<1>1. Base => LineHome
  <2>1. SUFFICES ASSUME Base, NEW p \in Pollers, NEW j \in DOMAIN lines[p], NEW f \in Members
                 PROVE  LET s == lines[p][j].entry[f]
                            i == lines[p][j].i
                        IN /\ s # None => s < head /\ s % N = i % N
                           /\ ~lapped => IF s = None THEN i < N ELSE s + N >= i
    BY DEF LineHome
  <2>2. Good(lines[p][j].entry[f], lines[p][j].i)
    BY <2>1 DEF Base, ScrapeInv, LineInv
  <2>3. QED
    BY <2>2 DEF Good
<1>2. QED
  BY <1>1, ScrapeAlways, PTL

\* A page printed while nothing is recorded is the last N entries in order, each whole
\* and under its own number (lastn.cc:75-130).
THEOREM QuietPagesAreExact == Spec => []QuietPageExact
<1>1. Base => QuietPageExact
  <2>1. SUFFICES ASSUME Base, NEW p \in Pollers, poll[p].at = "idle", poll[p].quiet, ~lapped
                 PROVE  lines[p] = [j \in 1..Filled(poll[p].head) |->
                                      LET s == poll[p].head - Filled(poll[p].head) + j - 1
                                      IN [i |-> s, entry |-> Whole(s)]]
    BY DEF QuietPageExact
  <2> DEFINE m == Filled(poll[p].head)
             x(j) == poll[p].head - m + j - 1
  <2>2. Exact(lines[p], poll[p].head, m)
    BY <2>1 DEF Base, ScrapeInv, QuietInv
  <2>3. lines[p] \in [1..m -> Printed]
    <3>1. lines[p] \in Seq(Printed)
      BY <2>1 DEF Base, TypeInv, PollInv
    <3>2. lines[p] \in [1..Len(lines[p]) -> Printed]
      BY <3>1
    <3>3. QED
      BY <2>2, <3>2 DEF Exact
  <2>4. ASSUME NEW j \in 1..m PROVE lines[p][j] = [i |-> x(j), entry |-> Whole(x(j))]
    <3>1. lines[p][j] \in Printed
      BY <2>3
    <3>2. lines[p][j].i = x(j) /\ \A f \in Members : lines[p][j].entry[f] = x(j)
      BY <2>2 DEF Exact
    <3>3. lines[p][j].entry = Whole(x(j))
      BY <3>1, <3>2 DEF Printed, Whole
    <3>4. QED
      BY <3>1, <3>2, <3>3 DEF Printed
  <2> HIDE DEF m
  <2>5. lines[p] = [j \in 1..m |-> [i |-> x(j), entry |-> Whole(x(j))]]
    BY <2>3, <2>4
  <2>6. QED
    BY <2>5 DEF m
<1>2. QED
  BY <1>1, ScrapeAlways, PTL
=============================================================================
