------------------------- MODULE StatsPluginProofs -------------------------
(***************************************************************************)
(* Theorems about StatsPlugin for every number of workers, HTTP threads,   *)
(* operations, bounds and calls.  The argument goes from the shape of the  *)
(* cells, over the ownership of calls by workers, to the exactness of the  *)
(* counters, and from there to what a page may show.                       *)
(***************************************************************************)
EXTENDS StatsPlugin, FiniteSetTheorems, WellFoundedInduction, TLAPS

(* Sums over finite sets.  SumFunctionOnSet is defined by recursion on the set;
   what follows relates it to a cardinality, which the library's theorems are about. *)

\* Induction on the subsets of a finite set, with the claim given as the set of those
\* that satisfy it: a smallest subset that does not is neither empty nor larger.
LEMMA SubsetInduction ==
    ASSUME NEW S, IsFiniteSet(S), NEW Good, {} \in Good,
           \A s \in SUBSET S : s # {} /\ (\A x \in s : s \ {x} \in Good) => s \in Good
    PROVE  \A s \in SUBSET S : s \in Good
<1> SUFFICES ASSUME \E s \in SUBSET S : s \notin Good PROVE FALSE
  OBVIOUS
<1> DEFINE Bad == {s \in SUBSET S : s \notin Good}
           Sizes == {n \in Nat : \E s \in Bad : Cardinality(s) = n}
           R == OpToRel(<, Nat)
<1>1. \A s \in SUBSET S : IsFiniteSet(s) /\ Cardinality(s) \in Nat
  BY FS_Subset, FS_CardinalityType
<1>2. Sizes # {} /\ Sizes \subseteq Nat
  BY <1>1
<1>3. PICK n \in Sizes : \A k \in Sizes : ~(k < n)
  <2> HIDE DEF Sizes, R
  <2>1. IsWellFoundedOn(R, Nat)
    BY NatLessThanWellFounded DEF R
  <2>2. PICK n \in Sizes : \A k \in Sizes : ~(<<k, n>> \in R)
    BY <1>2, <2>1, WFMin
  <2>3. \A k \in Sizes : ~(k < n)
    BY <1>2, <2>2 DEF R, OpToRel
  <2>4. QED
    BY <2>3
<1>4. PICK s \in Bad : Cardinality(s) = n
  OBVIOUS
<1>5. PICK x \in s : s \ {x} \notin Good
  BY <1>4
<1>6. Cardinality(s \ {x}) = n - 1 /\ n \in Nat
  BY <1>1, <1>4, <1>5, FS_RemoveElement
<1>7. s \ {x} \in Bad /\ Cardinality(s \ {x}) \in Nat
  BY <1>1, <1>5
<1>8. n - 1 \in Sizes
  BY <1>6, <1>7
<1>9. QED
  BY <1>3, <1>6, <1>8

\* As many elements for each x as f[x] says: to sum is to count them.
Copies(f, S) == {p \in S \X Nat : p[2] \in 1..f[p[1]]}

\* The copies of one more element come to its value.
LEMMA CopiesAdd ==
    ASSUME NEW f, NEW S, NEW x, x \notin S, f[x] \in Nat, IsFiniteSet(Copies(f, S))
    PROVE  /\ IsFiniteSet(Copies(f, S \cup {x}))
           /\ Cardinality(Copies(f, S \cup {x})) = Cardinality(Copies(f, S)) + f[x]
<1> DEFINE A == Copies(f, S)
           I == 1..f[x]
           X == {x}
           B == X \X I
<1>1. IsFiniteSet(X) /\ Cardinality(X) = 1
  BY FS_Singleton
<1>2. IsFiniteSet(I) /\ Cardinality(I) = f[x]
  BY FS_Interval
<1>3. Copies(f, S \cup {x}) = A \cup B
  <2>1. B \subseteq Copies(f, S \cup {x})
    BY DEF Copies
  <2>2. A \subseteq Copies(f, S \cup {x})
    BY DEF Copies
  <2>3. Copies(f, S \cup {x}) \subseteq A \cup B
    <3> SUFFICES ASSUME NEW p \in Copies(f, S \cup {x}) PROVE p \in A \cup B
      OBVIOUS
    <3>1. p \in (S \cup {x}) \X Nat /\ p[2] \in 1..f[p[1]]
      BY DEF Copies
    <3>2. CASE p[1] = x
      BY <3>1, <3>2
    <3>3. CASE p[1] # x
      BY <3>1, <3>3 DEF Copies
    <3>4. QED
      BY <3>2, <3>3
  <2>4. QED
    BY <2>1, <2>2, <2>3
<1>4. A \cap B = {}
  BY DEF Copies
<1>5. IsFiniteSet(B) /\ Cardinality(B) = 1 * f[x]
  <2> HIDE DEF X, I
  <2>1. QED
    BY <1>1, <1>2, FS_Product
<1> HIDE DEF A, B
<1>6. IsFiniteSet(A) /\ Cardinality(A) \in Nat
  BY FS_CardinalityType DEF A
<1>7. /\ IsFiniteSet(A \cup B)
      /\ Cardinality(A \cup B) = Cardinality(A) + Cardinality(B) - Cardinality(A \cap B)
  BY <1>5, <1>6, FS_Union
<1>8. Cardinality(A \cap B) = 0
  BY <1>4, FS_EmptySet
<1>9. Cardinality(A \cup B) = Cardinality(A) + f[x]
  BY <1>5, <1>6, <1>7, <1>8
<1>10. QED
  BY <1>3, <1>7, <1>9 DEF A

\* There are finitely many of a finite set.
LEMMA CopiesFinite ==
    ASSUME NEW S, IsFiniteSet(S), NEW f, \A x \in S : f[x] \in Nat
    PROVE  \A s \in SUBSET S : IsFiniteSet(Copies(f, s))
<1> DEFINE Good == {s \in SUBSET S : IsFiniteSet(Copies(f, s))}
<1>1. {} \in Good
  <2>1. Copies(f, {}) = {}
    BY DEF Copies
  <2>2. QED
    BY <2>1, FS_EmptySet
<1>2. ASSUME NEW s \in SUBSET S, s # {}, \A x \in s : s \ {x} \in Good PROVE s \in Good
  <2>1. PICK x \in s : TRUE
    BY <1>2
  <2>2. IsFiniteSet(Copies(f, s \ {x})) /\ (s \ {x}) \cup {x} = s /\ f[x] \in Nat
    BY <1>2
  <2>3. IsFiniteSet(Copies(f, (s \ {x}) \cup {x}))
    BY <2>2, CopiesAdd
  <2>4. QED
    BY <2>2, <2>3
<1>3. \A s \in SUBSET S : s \in Good
  <2> HIDE DEF Good
  <2>1. QED
    BY <1>1, <1>2, SubsetInduction
<1>4. QED
  BY <1>3

\* The sum over a finite set is the number of copies.
LEMMA SumIsCount ==
    ASSUME NEW S, IsFiniteSet(S), NEW f, \A x \in S : f[x] \in Nat
    PROVE  SumFunctionOnSet(f, S) = Cardinality(Copies(f, S))
<1> DEFINE pick(s) == CHOOSE x \in s : TRUE
           Step(g) == [s \in SUBSET S |-> IF s = {} THEN 0 ELSE f[pick(s)] + g[s \ {pick(s)}]]
           count == [s \in SUBSET S |-> Cardinality(Copies(f, s))]
           iter == CHOOSE g : g = Step(g)
<1>1. SumFunctionOnSet(f, S) = iter[S]
  BY DEF SumFunctionOnSet, FoldFunctionOnSet, MapThenFoldSet
<1>2. \A s \in SUBSET S : s # {} => pick(s) \in s
  OBVIOUS
<1>3. Cardinality(Copies(f, {})) = 0
  <2>1. Copies(f, {}) = {}
    BY DEF Copies
  <2>2. QED
    BY <2>1, FS_EmptySet
<1>4. ASSUME NEW s \in SUBSET S, s # {}
      PROVE  /\ s \ {pick(s)} \in SUBSET S
             /\ Cardinality(Copies(f, s)) = f[pick(s)] + Cardinality(Copies(f, s \ {pick(s)}))
  <2> DEFINE x == pick(s)
  <2>1. x \in s
    BY <1>2, <1>4
  <2> HIDE DEF x, pick
  <2>2. IsFiniteSet(Copies(f, s \ {x})) /\ f[x] \in Nat /\ (s \ {x}) \cup {x} = s
    BY <2>1, CopiesFinite
  <2>3. Cardinality(Copies(f, (s \ {x}) \cup {x})) = Cardinality(Copies(f, s \ {x})) + f[x]
    BY <2>2, CopiesAdd
  <2>4. Cardinality(Copies(f, s \ {x})) \in Nat
    BY <2>2, FS_CardinalityType
  <2>5. s \ {x} \in SUBSET S
    OBVIOUS
  <2>6. Copies(f, (s \ {x}) \cup {x}) = Copies(f, s)
    BY <2>2, Zenon
  <2>7. Cardinality(Copies(f, s)) = f[x] + Cardinality(Copies(f, s \ {x}))
    <3> DEFINE C(r) == Cardinality(Copies(f, r))
    <3>1. /\ C((s \ {x}) \cup {x}) = C(s)
          /\ C((s \ {x}) \cup {x}) = C(s \ {x}) + f[x]
          /\ C(s \ {x}) \in Nat
          /\ f[x] \in Nat
      BY <2>2, <2>3, <2>4, <2>6, Zenon
    <3> HIDE DEF C
    <3>2. C(s) = f[x] + C(s \ {x})
      BY <3>1
    <3>3. QED
      BY <3>2 DEF C
  <2>8. QED
    BY <2>5, <2>7 DEF x
<1> HIDE DEF pick
<1>5. count = Step(count)
  <2>1. ASSUME NEW s \in SUBSET S
        PROVE  count[s] = IF s = {} THEN 0 ELSE f[pick(s)] + count[s \ {pick(s)}]
    <3>1. CASE s = {}
      BY <1>3, <3>1
    <3>2. CASE s # {}
      <4> DEFINE r == s \ {pick(s)}
      <4>1. count[r] = Cardinality(Copies(f, r))
        <5>1. r \in SUBSET S
          BY <1>4, <3>2
        <5> HIDE DEF r
        <5>2. QED
          BY <5>1
      <4>2. count[s] = Cardinality(Copies(f, s))
        OBVIOUS
      <4> HIDE DEF count
      <4>3. QED
        BY <1>4, <3>2, <4>1, <4>2
    <3>3. QED
      BY <3>1, <3>2
  <2>2. count = [s \in SUBSET S |-> count[s]]
    OBVIOUS
  <2> HIDE DEF count
  <2>3. QED
    BY <2>1, <2>2
<1>6. iter = Step(iter)
  <2> HIDE DEF Step, count
  <2>1. QED
    BY <1>5
<1> DEFINE Good == {s \in SUBSET S : iter[s] = Cardinality(Copies(f, s))}
<1>7. \A s \in SUBSET S : iter[s] = IF s = {} THEN 0 ELSE f[pick(s)] + iter[s \ {pick(s)}]
  <2> HIDE DEF iter
  <2>1. QED
    BY <1>6
<1> HIDE DEF iter
<1>8. {} \in Good
  BY <1>3, <1>7
<1>9. ASSUME NEW s \in SUBSET S, s # {}, \A x \in s : s \ {x} \in Good PROVE s \in Good
  <2>1. pick(s) \in s
    BY <1>9, <1>2 DEF pick
  <2>2. iter[s \ {pick(s)}] = Cardinality(Copies(f, s \ {pick(s)}))
    BY <1>9, <2>1
  <2>3. QED
    BY <1>4, <1>7, <1>9, <2>2
<1>10. \A s \in SUBSET S : s \in Good
  <2> HIDE DEF Good
  <2>1. QED
    BY <1>8, <1>9, SubsetInduction
<1>11. QED
  BY <1>1, <1>10

\* A sum of naturals is one, and that of no elements is zero.
LEMMA SumNat ==
    ASSUME NEW S, IsFiniteSet(S), NEW f, \A x \in S : f[x] \in Nat
    PROVE  SumFunctionOnSet(f, S) \in Nat /\ SumFunctionOnSet(f, {}) = 0
<1>1. IsFiniteSet(Copies(f, S))
  BY CopiesFinite
<1>2. SumFunctionOnSet(f, {}) = Cardinality(Copies(f, {}))
  BY FS_EmptySet, SumIsCount
<1>3. Copies(f, {}) = {}
  BY DEF Copies
<1>4. SumFunctionOnSet(f, {}) = 0
  BY <1>2, <1>3, FS_EmptySet
<1>5. SumFunctionOnSet(f, S) = Cardinality(Copies(f, S))
  BY SumIsCount
<1>6. Cardinality(Copies(f, S)) \in Nat
  BY <1>1, FS_CardinalityType
<1>7. QED
  BY <1>4, <1>5, <1>6

\* One more element adds its value.
LEMMA SumAdd ==
    ASSUME NEW S, IsFiniteSet(S), NEW f, NEW y, y \notin S,
           \A x \in S \cup {y} : f[x] \in Nat
    PROVE  SumFunctionOnSet(f, S \cup {y}) = SumFunctionOnSet(f, S) + f[y]
<1>1. IsFiniteSet(Copies(f, S)) /\ f[y] \in Nat /\ \A x \in S : f[x] \in Nat
  BY CopiesFinite
<1>2. IsFiniteSet(S \cup {y})
  BY FS_AddElement
<1>3. SumFunctionOnSet(f, S \cup {y}) = Cardinality(Copies(f, S \cup {y}))
  BY <1>2, SumIsCount
<1>4. SumFunctionOnSet(f, S) = Cardinality(Copies(f, S))
  BY <1>1, SumIsCount
<1>5. Cardinality(Copies(f, S \cup {y})) = Cardinality(Copies(f, S)) + f[y]
  BY <1>1, CopiesAdd
<1>6. QED
  BY <1>3, <1>4, <1>5

\* A sum depends on the values of its elements only, and more elements never
\* come to less.
LEMMA SumMonotone ==
    ASSUME NEW S, IsFiniteSet(S), NEW T \in SUBSET S, NEW f, NEW g,
           \A x \in S : g[x] \in Nat, \A x \in T : f[x] = g[x]
    PROVE  SumFunctionOnSet(f, T) <= SumFunctionOnSet(g, S)
<1>1. IsFiniteSet(T) /\ \A x \in T : f[x] \in Nat
  BY FS_Subset
<1>2. IsFiniteSet(Copies(g, S)) /\ Copies(f, T) \subseteq Copies(g, S)
  <2>1. Copies(f, T) \subseteq Copies(g, S)
    BY DEF Copies
  <2>2. QED
    BY <2>1, CopiesFinite
<1>3. Cardinality(Copies(f, T)) <= Cardinality(Copies(g, S))
  BY <1>2, FS_Subset
<1>4. QED
  BY <1>1, <1>3, SumIsCount

\* Equal values have equal sums.
LEMMA SumCong ==
    ASSUME NEW S, IsFiniteSet(S), NEW f, NEW g,
           \A x \in S : g[x] \in Nat /\ f[x] = g[x]
    PROVE  SumFunctionOnSet(f, S) = SumFunctionOnSet(g, S)
<1>1. Copies(f, S) = Copies(g, S)
  BY DEF Copies
<1>2. \A x \in S : f[x] \in Nat
  OBVIOUS
<1>3. QED
  BY <1>1, <1>2, SumIsCount

\* To add one for each element is to count them.
LEMMA SumOfOnes ==
    ASSUME NEW S, IsFiniteSet(S), NEW f, \A x \in S : f[x] = 1
    PROVE  SumFunctionOnSet(f, S) = Cardinality(S)
<1>1. \A x \in S : f[x] \in Nat
  OBVIOUS
<1>2. Copies(f, S) = S \X {1}
  BY DEF Copies
<1>3. IsFiniteSet({1}) /\ Cardinality({1}) = 1
  BY FS_Singleton
<1>4. Cardinality(S) \in Nat
  BY FS_CardinalityType
<1>5. Cardinality(S \X {1}) = Cardinality(S) * 1
  BY <1>3, FS_Product
<1>6. Cardinality(S) * 1 = Cardinality(S)
  BY <1>4
<1>7. QED
  BY <1>1, <1>2, <1>5, <1>6, SumIsCount
-----------------------------------------------------------------------------
(* Cells. *)

\* The last bucket is +Inf; each of the others has a bound.
LEMMA BoundsFacts ==
    /\ Len(Bounds) \in Nat
    /\ InfBucket \in Nat
    /\ InfBucket \in Buckets
    /\ \A b \in Buckets : b # InfBucket => b \in 1..Len(Bounds) /\ Bounds[b] \in Nat
BY StatsAssumption DEF InfBucket, Buckets

\* Cells are told apart by their first component.
LEMMA CellKinds ==
    /\ \A c \in UnitCells : c[1] \in {"ops", "bucket", "count"}
    /\ \A c \in AmountCells : c[1] \in {"dur", "sum"}
BY DEF UnitCells, AmountCells, OpsTotal, DurationNs, HistBucket, HistCount, HistSum

\* A call only touches counters that exist.
LEMMA TouchedCells ==
    ASSUME NEW call \in Call
    PROVE  Touched(call) \subseteq Cells
<1>1. call.op \in Ops /\ call.bucket \in Buckets
  BY DEF Call
<1>2. ASSUME NEW d \in Dirs, NEW b \in call.bucket..InfBucket
      PROVE  b \in Buckets
  BY <1>1, BoundsFacts DEF Buckets
<1>3. QED
  BY <1>1, <1>2 DEF Touched, Cells, UnitCells, AmountCells

\* Nothing negative is ever added.
LEMMA AmountNat ==
    ASSUME NEW call \in Call, NEW c
    PROVE  Amount(c, call) \in Nat
BY StatsAssumption DEF Amount, Call

\* The counters of calls grow one by one.
LEMMA AmountUnit ==
    ASSUME NEW call, NEW c \in UnitCells
    PROVE  Amount(c, call) = 1
BY CellKinds DEF Amount

\* A page shows counters that exist.
LEMMA PollCellsAreCells == PollCells \subseteq Cells
BY DEF PollCells
-----------------------------------------------------------------------------
(* Types, and the ownership of calls. *)

\* The types with the calls they are about.
TypeInv == TypeOK /\ OwnCall

\* The counters start at zero, with no call under way.
LEMMA TypeInvInit == Init => TypeInv
BY DEF Init, TypeInv, TypeOK, OwnCall

\* A worker that begins a call owns it alone.
LEMMA BeginRecordType ==
    ASSUME TypeInv, NEW t \in Workers, BeginRecord(t)
    PROVE  TypeInv'
<1> USE DEF TypeInv
<1>1. PICK call \in Call : /\ calls' = Append(calls, call)
                           /\ todo' = [todo EXCEPT ![t] = Touched(call)]
  BY DEF BeginRecord
<1>4. /\ calls' \in Seq(Call)
      /\ Len(calls') = Len(calls) + 1
      /\ calls'[Len(calls) + 1] = call
      /\ \A i \in 1..Len(calls) : calls'[i] = calls[i]
  BY <1>1 DEF TypeOK
<1>5. Len(calls) \in Nat
  BY DEF TypeOK
<1>6. cur' = [cur EXCEPT ![t] = Len(calls) + 1]
  BY DEF BeginRecord
<1>7. Touched(call) \subseteq Cells
  BY TouchedCells
<1>8. TypeOK'
  <2>1. cur' \in [Workers -> 0..Len(calls')]
    BY <1>4, <1>5, <1>6 DEF TypeOK
  <2>2. todo' \in [Workers -> SUBSET Cells]
    BY <1>1, <1>7 DEF TypeOK
  <2>3. before' \in [Pollers -> SUBSET (1..Len(calls'))]
    BY <1>4, <1>5 DEF TypeOK, BeginRecord, pollerVars
  <2>4. QED
    BY <1>4, <2>1, <2>2, <2>3 DEF TypeOK, BeginRecord, pollerVars
<1>9. OwnCall'
  <2>1. ASSUME NEW u \in Workers, NEW v \in Workers, u # v, cur'[u] = cur'[v]
        PROVE  cur'[u] = 0
    BY <2>1, <1>5, <1>6 DEF TypeOK, OwnCall
  <2>2. ASSUME NEW u \in Workers
        PROVE  IF cur'[u] = 0 THEN todo'[u] = {}
               ELSE todo'[u] \subseteq Touched(calls'[cur'[u]])
    <3>1. CASE u = t
      BY <3>1, <1>1, <1>4, <1>5, <1>6 DEF TypeOK
    <3>2. CASE u # t
      BY <3>2, <1>1, <1>4, <1>6 DEF TypeOK, OwnCall
    <3>3. QED BY <3>1, <3>2
  <2>3. QED BY <2>1, <2>2 DEF OwnCall
<1>10. QED BY <1>8, <1>9

\* A worker adds to counters of its own call only.
LEMMA FetchAddType ==
    ASSUME TypeInv, NEW t \in Workers, NEW c \in Cells, FetchAdd(t, c)
    PROVE  TypeInv'
<1> USE DEF TypeInv
<1>1. c \in todo[t] /\ cur[t] # 0
  BY DEF FetchAdd, MayAccess, OwnCall
<1>2. calls[cur[t]] \in Call
  BY <1>1 DEF TypeOK
<1>3. Amount(c, calls[cur[t]]) \in Nat
  BY <1>2, AmountNat
<1>4. m' \in [Cells -> Nat]
  BY <1>3 DEF TypeOK, FetchAdd
<1>5. todo' = [todo EXCEPT ![t] = @ \ {c}]
  BY DEF FetchAdd
<1>6. TypeOK'
  BY <1>4, <1>5 DEF TypeOK, FetchAdd, pollerVars
<1>7. OwnCall'
  BY <1>1, <1>5 DEF OwnCall, FetchAdd, TypeOK
<1>8. QED BY <1>6, <1>7

\* Every step preserves types and ownership.
LEMMA TypeInvStep == TypeInv /\ [Next]_vars => TypeInv'
<1> SUFFICES ASSUME TypeInv, [Next]_vars PROVE TypeInv'
  OBVIOUS
<1>1. ASSUME NEW t \in Workers, EndRecord(t) PROVE TypeInv'
  BY <1>1 DEF TypeInv, TypeOK, OwnCall, EndRecord, pollerVars
<1>2. ASSUME NEW p \in Pollers, StartPoll(p) PROVE TypeInv'
  BY <1>2 DEF TypeInv, TypeOK, OwnCall, StartPoll, workerVars, Returned
<1>3. ASSUME NEW p \in Pollers, NEW c \in Cells, Load(p, c) PROVE TypeInv'
  BY <1>3 DEF TypeInv, TypeOK, OwnCall, Load, workerVars
<1>4. ASSUME NEW p \in Pollers, Serve(p) PROVE TypeInv'
  BY <1>4 DEF TypeInv, TypeOK, OwnCall, Serve, workerVars
<1>5. CASE UNCHANGED vars
  BY <1>5 DEF TypeInv, TypeOK, OwnCall, vars
<1>6. QED
  BY <1>1, <1>2, <1>3, <1>4, <1>5, BeginRecordType, FetchAddType
     DEF Next, Worker, Poller

\* The state of the plugin is always well-typed: counters never leave the
\* naturals, indices never leave the arrays (stats.cc:280-286).
THEOREM TypeCorrect == Spec => []TypeOK
<1>1. TypeInv => TypeOK
  BY DEF TypeInv
<1>2. QED
  BY <1>1, TypeInvInit, TypeInvStep, PTL DEF Spec
-----------------------------------------------------------------------------
(* The counters are exact. *)

\* Calls are numbered, so sets of them can be counted.
LEMMA CallSetsFinite ==
    ASSUME TypeOK
    PROVE  /\ IsFiniteSet(DOMAIN calls)
           /\ \A c : IsFiniteSet(Added(c)) /\ Added(c) \subseteq DOMAIN calls
<1>1. DOMAIN calls = 1..Len(calls) /\ Len(calls) \in Nat
  BY DEF TypeOK
<1>2. IsFiniteSet(DOMAIN calls)
  BY <1>1, FS_Interval
<1>3. ASSUME NEW c PROVE Added(c) \in SUBSET DOMAIN calls
  BY DEF Added
<1>4. QED
  BY <1>2, <1>3, FS_Subset

\* Every call adds a natural number to every counter, and one to a counter of calls.
LEMMA CallAmounts ==
    ASSUME TypeOK, NEW c
    PROVE  \A i \in DOMAIN calls : /\ Amount(c, calls[i]) \in Nat
                                   /\ c \in UnitCells => Amount(c, calls[i]) = 1
<1>1. \A i \in DOMAIN calls : calls[i] \in Call
  BY DEF TypeOK
<1>2. QED
  BY <1>1, AmountNat, AmountUnit

\* What a set of calls adds is a natural number, that of a larger set is not smaller,
\* and to a counter of calls it is their number.
LEMMA TotalFacts ==
    ASSUME TypeOK, NEW c, NEW S \in SUBSET DOMAIN calls
    PROVE  /\ Total(c, S) \in Nat
           /\ \A T \in SUBSET S : Total(c, T) <= Total(c, S)
           /\ c \in UnitCells => Total(c, S) = Cardinality(S)
<1> DEFINE f == [i \in DOMAIN calls |-> Amount(c, calls[i])]
<1>1. \A i \in S : f[i] \in Nat /\ (c \in UnitCells => f[i] = 1)
  BY CallAmounts
<1>2. IsFiniteSet(S)
  BY CallSetsFinite, FS_Subset
<1> HIDE DEF f
<1>3. SumFunctionOnSet(f, S) \in Nat
  BY <1>1, <1>2, SumNat
<1>4. ASSUME NEW T \in SUBSET S PROVE SumFunctionOnSet(f, T) <= SumFunctionOnSet(f, S)
  BY <1>1, <1>2, SumMonotone
<1>5. ASSUME c \in UnitCells PROVE SumFunctionOnSet(f, S) = Cardinality(S)
  BY <1>1, <1>2, <1>5, SumOfOnes
<1>6. QED
  BY <1>3, <1>4, <1>5 DEF Total, f

\* Later calls change nothing of what earlier ones added.
LEMMA TotalKept ==
    ASSUME TypeOK, NEW c, NEW S \in SUBSET DOMAIN calls,
           \A i \in DOMAIN calls : i \in DOMAIN calls' /\ calls'[i] = calls[i]
    PROVE  SumFunctionOnSet([i \in DOMAIN calls' |-> Amount(c, calls'[i])], S) = Total(c, S)
<1> DEFINE f == [i \in DOMAIN calls |-> Amount(c, calls[i])]
           g == [i \in DOMAIN calls' |-> Amount(c, calls'[i])]
<1>1. \A i \in S : f[i] \in Nat /\ g[i] = f[i]
  BY CallAmounts
<1>2. IsFiniteSet(S)
  BY CallSetsFinite, FS_Subset
<1> HIDE DEF f, g
<1>3. SumFunctionOnSet(g, S) = SumFunctionOnSet(f, S)
  BY <1>1, <1>2, SumCong
<1>4. QED
  BY <1>3 DEF Total, f, g

\* The inductive invariant of the counters.
ExactInv == TypeInv /\ CountExact

\* A call that has just begun has added to nothing.
LEMMA BeginRecordExact ==
    ASSUME ExactInv, NEW t \in Workers, BeginRecord(t)
    PROVE  CountExact'
<1> USE DEF ExactInv, TypeInv
<1>1. PICK call \in Call : /\ calls' = Append(calls, call)
                           /\ todo' = [todo EXCEPT ![t] = Touched(call)]
  BY DEF BeginRecord
<1>2. /\ Len(calls) \in Nat
      /\ DOMAIN calls = 1..Len(calls)
      /\ DOMAIN calls' = 1..(Len(calls) + 1)
      /\ calls'[Len(calls) + 1] = call
      /\ \A i \in 1..Len(calls) : calls'[i] = calls[i]
  BY <1>1 DEF TypeOK
<1>3. cur' = [cur EXCEPT ![t] = Len(calls) + 1] /\ m' = m /\ cur[t] = 0
  BY DEF BeginRecord
<1>4. ASSUME NEW c \in Cells PROVE Added(c)' = Added(c)
  <2>1. ASSUME NEW i \in Added(c) PROVE i \in Added(c)'
    <3>1. i \in 1..Len(calls) /\ c \in Touched(calls'[i])
      BY <2>1, <1>2 DEF Added
    <3>2. ASSUME NEW u \in Workers, cur'[u] = i PROVE c \notin todo'[u]
      BY <3>1, <3>2, <2>1, <1>1, <1>2, <1>3 DEF Added, TypeOK
    <3>3. QED BY <3>1, <3>2, <1>2 DEF Added
  <2>2. ASSUME NEW i \in Added(c)' PROVE i \in Added(c)
    <3>1. i # Len(calls) + 1
      BY <2>2, <1>1, <1>2, <1>3 DEF Added, TypeOK
    <3>2. i \in 1..Len(calls) /\ c \in Touched(calls[i])
      BY <2>2, <3>1, <1>2 DEF Added
    <3>3. ASSUME NEW u \in Workers, cur[u] = i PROVE c \notin todo[u]
      <4>1. u # t
        BY <3>2, <3>3, <1>2, <1>3
      <4>2. cur'[u] = i /\ todo'[u] = todo[u]
        BY <4>1, <3>3, <1>1, <1>3 DEF TypeOK
      <4>3. QED
        BY <4>2, <2>2 DEF Added
    <3>4. QED BY <3>2, <3>3, <1>2 DEF Added
  <2>3. QED BY <2>1, <2>2
<1>5. ASSUME NEW c \in Cells PROVE Total(c, Added(c))' = Total(c, Added(c))
  <2>1. SumFunctionOnSet([i \in DOMAIN calls' |-> Amount(c, calls'[i])], Added(c))
          = Total(c, Added(c))
    BY <1>2, CallSetsFinite, TotalKept
  <2>2. QED
    BY <2>1, <1>4 DEF Total
<1>6. QED
  BY <1>3, <1>5 DEF CountExact

\* A fetch_add adds to its counter what its call then counts for there.
LEMMA FetchAddExact ==
    ASSUME ExactInv, NEW t \in Workers, NEW c \in Cells, FetchAdd(t, c)
    PROVE  CountExact'
<1> USE DEF ExactInv, TypeInv
<1>1. /\ c \in todo[t]
      /\ cur[t] \in DOMAIN calls
      /\ c \in Touched(calls[cur[t]])
  <2>1. c \in todo[t]
    BY DEF FetchAdd, MayAccess
  <2>2. cur[t] # 0 /\ todo[t] \subseteq Touched(calls[cur[t]])
    BY <2>1 DEF OwnCall
  <2>3. QED
    BY <2>1, <2>2 DEF TypeOK
<1>2. /\ calls' = calls /\ cur' = cur
      /\ todo' = [todo EXCEPT ![t] = @ \ {c}]
      /\ m' = [m EXCEPT ![c] = @ + Amount(c, calls[cur[t]])]
  BY DEF FetchAdd
<1>3. ASSUME NEW d \in Cells, d # c
      PROVE  m'[d] = Total(d, Added(d))'
  <2>1. Added(d)' = Added(d)
    BY <1>2, <1>3 DEF Added, TypeOK
  <2>2. m'[d] = m[d]
    BY <1>2, <1>3 DEF TypeOK
  <2>3. Total(d, Added(d))' = Total(d, Added(d))
    BY <2>1, <1>2 DEF Total
  <2>4. QED BY <2>2, <2>3 DEF CountExact
<1>4. m'[c] = Total(c, Added(c))'
  <2> DEFINE f == [i \in DOMAIN calls |-> Amount(c, calls[i])]
  <2>1. Added(c)' = Added(c) \cup {cur[t]}
    BY <1>1, <1>2 DEF Added, TypeOK, OwnCall
  <2>2. cur[t] \notin Added(c)
    BY <1>1 DEF Added
  <2>3. IsFiniteSet(Added(c))
    BY CallSetsFinite
  <2>4. \A i \in Added(c) \cup {cur[t]} : f[i] \in Nat
    BY <1>1, CallAmounts, CallSetsFinite
  <2>5. f[cur[t]] = Amount(c, calls[cur[t]])
    BY <1>1
  <2>6. Total(c, Added(c)) = SumFunctionOnSet(f, Added(c))
    BY DEF Total
  <2>7. Total(c, Added(c))' = SumFunctionOnSet(f, Added(c) \cup {cur[t]})
    BY <2>1, <1>2 DEF Total
  <2> HIDE DEF f
  <2>8. SumFunctionOnSet(f, Added(c) \cup {cur[t]})
          = SumFunctionOnSet(f, Added(c)) + f[cur[t]]
    BY <2>2, <2>3, <2>4, SumAdd
  <2>9. m'[c] = m[c] + Amount(c, calls[cur[t]])
    BY <1>2 DEF TypeOK
  <2>10. QED BY <2>5, <2>6, <2>7, <2>8, <2>9 DEF CountExact
<1>5. QED
  BY <1>3, <1>4 DEF CountExact

\* A call that returns has made all its additions.
LEMMA EndRecordExact ==
    ASSUME ExactInv, NEW t \in Workers, EndRecord(t)
    PROVE  CountExact'
<1>1. ASSUME NEW c \in Cells PROVE Added(c)' = Added(c)
  BY DEF ExactInv, TypeInv, TypeOK, OwnCall, EndRecord, Added
<1>2. calls' = calls /\ m' = m
  BY DEF EndRecord
<1>3. QED
  BY <1>1, <1>2 DEF ExactInv, CountExact, Total

\* No call, no count.
LEMMA ExactInvInit == Init => ExactInv
<1> SUFFICES ASSUME Init PROVE CountExact
  BY TypeInvInit DEF ExactInv
<1>1. ASSUME NEW c \in Cells PROVE m[c] = Total(c, Added(c))
  <2>1. Added(c) = {} /\ m[c] = 0
    BY DEF Init, Added
  <2>2. Total(c, {}) = 0
    BY FS_EmptySet, SumNat DEF Total
  <2>3. QED
    BY <2>1, <2>2
<1>2. QED
  BY <1>1 DEF CountExact

\* Every step keeps the counters exact.
LEMMA ExactInvStep == ExactInv /\ [Next]_vars => ExactInv'
<1> SUFFICES ASSUME ExactInv, [Next]_vars PROVE CountExact'
  BY TypeInvStep DEF ExactInv
<1>1. ASSUME UNCHANGED <<m, calls, cur, todo>> PROVE CountExact'
  BY <1>1 DEF ExactInv, CountExact, Total, Added
<1>2. ASSUME NEW p \in Pollers, Poller(p) PROVE CountExact'
  BY <1>1, <1>2 DEF Poller, StartPoll, Load, Serve, workerVars
<1>3. CASE UNCHANGED vars
  BY <1>1, <1>3 DEF vars
<1>4. QED
  BY <1>2, <1>3, BeginRecordExact, FetchAddExact, EndRecordExact DEF Next, Worker

\* A counter of calls is the number of those that have added to it.
LEMMA UnitCount ==
    ASSUME ExactInv, NEW c \in UnitCells
    PROVE  m[c] = Cardinality(Added(c))
<1>1. Added(c) \in SUBSET DOMAIN calls
  BY DEF Added
<1>2. Total(c, Added(c)) = Cardinality(Added(c))
  BY <1>1, TotalFacts DEF ExactInv, TypeInv
<1>3. QED
  BY <1>2 DEF ExactInv, CountExact, Cells

\* No fetch_add of record() is ever lost or made twice, for any number of
\* workers and in any order of their accesses (stats.cc:330-346).
THEOREM CountsAreExact == Spec => []CountExact
<1>1. ExactInv => CountExact
  BY DEF ExactInv
<1>2. QED
  BY <1>1, ExactInvInit, ExactInvStep, PTL DEF Spec
-----------------------------------------------------------------------------
(* At rest the histogram is the documented one. *)

\* The buckets a call touches are those from its own upward.
LEMMA TouchedHistogram ==
    ASSUME NEW call \in Call, NEW d \in Dirs
    PROVE  /\ \A b \in Buckets :
                HistBucket(d, b) \in Touched(call) <=>
                    call.op \in MovesData(d) /\ call.bucket <= b
           /\ HistCount(d) \in Touched(call) <=> call.op \in MovesData(d)
           /\ HistSum(d) \in Touched(call) <=> call.op \in MovesData(d)
<1>1. call.bucket \in Buckets
  BY DEF Call
<1>2. ASSUME NEW b \in Buckets
      PROVE  b \in call.bucket..InfBucket <=> call.bucket <= b
  BY <1>1, BoundsFacts DEF Buckets
<1>3. QED
  BY <1>2 DEF Touched, OpsTotal, DurationNs, HistBucket, HistCount, HistSum

\* The operation counters a call touches are those of its own operation.
LEMMA TouchedOps ==
    ASSUME NEW call \in Call, NEW op \in EnabledOps
    PROVE  /\ OpsTotal(op) \in Touched(call) <=> call.op = op
           /\ DurationNs(op) \in Touched(call) <=> call.op = op
BY DEF Touched, OpsTotal, DurationNs, HistBucket, HistCount, HistSum

\* bucket_for is monotone: the buckets from the one it returns upward are those
\* whose bound holds the byte count.
LEMMA BucketForCorrect ==
    ASSUME NEW units \in Units, NEW first \in BucketFor(units), NEW b \in Buckets
    PROVE  first <= b <=> (b # InfBucket => units <= Bounds[b])
<1>1. /\ first \in Buckets /\ units \in Nat
      /\ first # InfBucket => units <= Bounds[first]
      /\ \A a \in 1..(first - 1) : units > Bounds[a]
  BY StatsAssumption DEF BucketFor
<1>2. /\ InfBucket \in Nat /\ Buckets = 1..InfBucket
      /\ \A a \in Buckets : a # InfBucket => a \in DOMAIN Bounds /\ Bounds[a] \in Nat
  BY BoundsFacts, StatsAssumption DEF Buckets
<1>3. ASSUME first <= b, b # InfBucket PROVE units <= Bounds[b]
  <2>1. CASE first = b
    BY <2>1, <1>1, <1>3
  <2>2. CASE first < b
    <3>1. first # InfBucket
      BY <2>2, <1>1, <1>2
    <3>2. Bounds[first] < Bounds[b]
      BY <2>2, <3>1, <1>1, <1>2, <1>3, StatsAssumption
    <3>3. QED BY <3>1, <3>2, <1>1, <1>2, <1>3
  <2>3. QED BY <2>1, <2>2, <1>1, <1>2, <1>3
<1>4. ASSUME b < first PROVE b # InfBucket /\ ~(units <= Bounds[b])
  BY <1>1, <1>2, <1>4
<1>5. QED BY <1>1, <1>2, <1>3, <1>4

\* The bucket of a call is one its size belongs to.
RightBucket == \A i \in DOMAIN calls : calls[i].bucket \in BucketFor(calls[i].units)

\* Each recorded call keeps the bucket that its byte count belongs to.
LEMMA RightBucketStep ==
    TypeInv /\ RightBucket /\ [Next]_vars => RightBucket'
<1> SUFFICES ASSUME TypeInv, RightBucket, [Next]_vars PROVE RightBucket'
  OBVIOUS
<1>1. ASSUME NEW t \in Workers, BeginRecord(t) PROVE RightBucket'
  <2>1. PICK call \in Call : /\ call.bucket \in BucketFor(call.units)
                             /\ calls' = Append(calls, call)
    BY <1>1 DEF BeginRecord
  <2>2. /\ Len(calls) \in Nat
        /\ DOMAIN calls' = 1..(Len(calls) + 1)
        /\ calls'[Len(calls) + 1] = call
        /\ \A i \in 1..Len(calls) : i \in DOMAIN calls /\ calls'[i] = calls[i]
    BY <2>1 DEF TypeInv, TypeOK
  <2>3. ASSUME NEW i \in DOMAIN calls', i # Len(calls) + 1 PROVE i \in 1..Len(calls)
    BY <2>2, <2>3
  <2>4. QED BY <2>1, <2>2, <2>3 DEF RightBucket
<1>2. ASSUME UNCHANGED calls PROVE RightBucket'
  BY <1>2 DEF RightBucket
<1>3. QED
  BY <1>1, <1>2 DEF Next, Worker, Poller, FetchAdd, EndRecord, StartPoll, Load,
                    Serve, workerVars, vars

\* Exact counters agree, at rest, with the definition free of buckets.
LEMMA ExactImpliesQuiescent ==
    ASSUME ExactInv, RightBucket
    PROVE  QuiescentCounts
<1> SUFFICES ASSUME \A t \in Workers : cur[t] = 0
             PROVE  /\ \A d \in Dirs :
                         /\ \A b \in Buckets :
                              m[HistBucket(d, b)] = Cardinality(Observations(d, b))
                         /\ m[HistCount(d)] = Cardinality(Observations(d, InfBucket))
                    /\ \A op \in EnabledOps :
                         m[OpsTotal(op)] = Cardinality({i \in DOMAIN calls : calls[i].op = op})
  BY DEF QuiescentCounts
<1>1. \A i \in DOMAIN calls : calls[i] \in Call /\ i # 0
  BY DEF ExactInv, TypeInv, TypeOK
<1>2. ASSUME NEW c
      PROVE  Added(c) = {i \in DOMAIN calls : c \in Touched(calls[i])}
  BY <1>1 DEF Added
<1>3. ASSUME NEW d \in Dirs, NEW b \in Buckets
      PROVE  m[HistBucket(d, b)] = Cardinality(Observations(d, b))
  <2>1. ASSUME NEW i \in DOMAIN calls
        PROVE  HistBucket(d, b) \in Touched(calls[i]) <=>
                   /\ calls[i].op \in MovesData(d)
                   /\ b # InfBucket => calls[i].units <= Bounds[b]
    <3>1. calls[i].units \in Units /\ calls[i].bucket \in BucketFor(calls[i].units)
      BY <1>1 DEF Call, RightBucket
    <3>2. calls[i].bucket <= b <=> (b # InfBucket => calls[i].units <= Bounds[b])
      BY <3>1, BucketForCorrect
    <3>3. QED BY <1>1, <3>2, TouchedHistogram
  <2>2. Added(HistBucket(d, b)) = Observations(d, b)
    BY <2>1, <1>2 DEF Observations
  <2>3. HistBucket(d, b) \in UnitCells
    BY DEF UnitCells
  <2>4. QED BY <2>2, <2>3, UnitCount
<1>4. ASSUME NEW d \in Dirs
      PROVE  m[HistCount(d)] = Cardinality(Observations(d, InfBucket))
  <2>1. Added(HistCount(d)) = Observations(d, InfBucket)
    BY <1>1, <1>2, TouchedHistogram DEF Observations
  <2>2. HistCount(d) \in UnitCells
    BY DEF UnitCells
  <2>3. QED BY <2>1, <2>2, UnitCount
<1>5. ASSUME NEW op \in EnabledOps
      PROVE  m[OpsTotal(op)] = Cardinality({i \in DOMAIN calls : calls[i].op = op})
  <2>1. Added(OpsTotal(op)) = {i \in DOMAIN calls : calls[i].op = op}
    BY <1>1, <1>2, TouchedOps
  <2>2. OpsTotal(op) \in UnitCells
    BY StatsAssumption DEF UnitCells
  <2>3. QED BY <2>1, <2>2, UnitCount
<1>6. QED BY <1>3, <1>4, <1>5

\* Whenever no record() is under way, every bucket is the number of recorded
\* calls at or below its bound, the count is that of all of them, and each
\* operation's counter that of its calls (stats.cc:339-345).
THEOREM HistogramAtRest == Spec => []QuiescentCounts
<1>1. Init => RightBucket
  BY DEF Init, RightBucket
<1>2. ExactInv /\ RightBucket => QuiescentCounts
  BY ExactImpliesQuiescent
<1>3. ExactInv => TypeInv
  BY DEF ExactInv
<1>4. QED
  BY <1>1, <1>2, <1>3, ExactInvInit, ExactInvStep, RightBucketStep, PTL DEF Spec

\* Exact counters are, at rest, the sums of what was recorded.
LEMMA ExactImpliesSums ==
    ASSUME ExactInv
    PROVE  QuiescentSums
<1> SUFFICES ASSUME \A t \in Workers : cur[t] = 0
             PROVE  /\ \A d \in Dirs :
                         m[HistSum(d)] =
                             SumFunctionOnSet([i \in DOMAIN calls |-> calls[i].units],
                                              Observations(d, InfBucket))
                    /\ \A op \in EnabledOps :
                         m[DurationNs(op)] =
                             SumFunctionOnSet([i \in DOMAIN calls |-> calls[i].dur],
                                              {i \in DOMAIN calls : calls[i].op = op})
  BY DEF QuiescentSums
<1>1. \A i \in DOMAIN calls : calls[i] \in Call /\ i # 0
  BY DEF ExactInv, TypeInv, TypeOK
<1>2. ASSUME NEW c
      PROVE  Added(c) = {i \in DOMAIN calls : c \in Touched(calls[i])}
  BY <1>1 DEF Added
<1>3. ASSUME NEW d \in Dirs
      PROVE  m[HistSum(d)] = SumFunctionOnSet([i \in DOMAIN calls |-> calls[i].units],
                                              Observations(d, InfBucket))
  <2>1. Added(HistSum(d)) = Observations(d, InfBucket)
    BY <1>1, <1>2, TouchedHistogram DEF Observations
  <2>2. HistSum(d) \in Cells
    BY DEF Cells, AmountCells
  <2>3. \A i \in DOMAIN calls : Amount(HistSum(d), calls[i]) = calls[i].units
    BY DEF Amount, HistSum
  <2>4. [i \in DOMAIN calls |-> Amount(HistSum(d), calls[i])]
          = [i \in DOMAIN calls |-> calls[i].units]
    BY <2>3
  <2>5. QED BY <2>1, <2>2, <2>4 DEF ExactInv, CountExact, Total
<1>4. ASSUME NEW op \in EnabledOps
      PROVE  m[DurationNs(op)] = SumFunctionOnSet([i \in DOMAIN calls |-> calls[i].dur],
                                                  {i \in DOMAIN calls : calls[i].op = op})
  <2>1. Added(DurationNs(op)) = {i \in DOMAIN calls : calls[i].op = op}
    BY <1>1, <1>2, TouchedOps
  <2>2. DurationNs(op) \in Cells
    BY StatsAssumption DEF Cells, AmountCells
  <2>3. \A i \in DOMAIN calls : Amount(DurationNs(op), calls[i]) = calls[i].dur
    BY DEF Amount, DurationNs
  <2>4. [i \in DOMAIN calls |-> Amount(DurationNs(op), calls[i])]
          = [i \in DOMAIN calls |-> calls[i].dur]
    BY <2>3
  <2>5. QED BY <2>1, <2>2, <2>4 DEF ExactInv, CountExact, Total
<1>5. QED BY <1>3, <1>4

\* Whenever no record() is under way, the sum of a direction is that of the bytes its
\* calls moved, and the duration of an operation that of its calls
\* (stats.cc:332, 345).
THEOREM SumsAtRest == Spec => []QuiescentSums
<1>1. ExactInv => QuiescentSums
  BY ExactImpliesSums
<1>2. QED
  BY <1>1, ExactInvInit, ExactInvStep, PTL DEF Spec
-----------------------------------------------------------------------------
(* What a scrape may show: it rests on the exactness of the counters and on their
   growth. *)

\* No step makes a counter smaller.
LEMMA CountersGrow ==
    ASSUME TypeInv, [Next]_vars
    PROVE  \A c \in Cells : m[c] <= m'[c]
<1>1. ASSUME NEW t \in Workers, NEW c \in Cells, FetchAdd(t, c)
      PROVE  \A d \in Cells : m[d] <= m'[d]
  <2>1. cur[t] # 0 /\ c \in todo[t]
    BY <1>1 DEF FetchAdd, MayAccess, TypeInv, OwnCall
  <2>2. Amount(c, calls[cur[t]]) \in Nat
    BY <2>1, AmountNat DEF TypeInv, TypeOK
  <2>3. QED
    BY <1>1, <2>2 DEF FetchAdd, TypeInv, TypeOK
<1>2. ASSUME UNCHANGED m PROVE \A d \in Cells : m[d] <= m'[d]
  BY <1>2 DEF TypeInv, TypeOK
<1>3. QED
  BY <1>1, <1>2 DEF Next, Worker, Poller, BeginRecord, EndRecord, StartPoll, Load,
                    Serve, workerVars, vars
-----------------------------------------------------------------------------
(* Calls that have returned stay returned and are counted. *)

\* The calls a scrape must show have returned.
BeforeReturned == \A p \in Pollers : before[p] \subseteq Returned

\* A call that had returned when a scrape began is never resumed.
LEMMA BeforeReturnedStep ==
    TypeInv /\ BeforeReturned /\ [Next]_vars => BeforeReturned'
<1> SUFFICES ASSUME TypeInv, BeforeReturned, [Next]_vars PROVE BeforeReturned'
  OBVIOUS
<1>1. ASSUME NEW t \in Workers, BeginRecord(t) PROVE BeforeReturned'
  <2>1. PICK call \in Call : calls' = Append(calls, call)
    BY <1>1 DEF BeginRecord
  <2>2. /\ Len(calls) \in Nat
        /\ DOMAIN calls = 1..Len(calls)
        /\ DOMAIN calls' = 1..(Len(calls) + 1)
    BY <2>1 DEF TypeInv, TypeOK
  <2>3. cur' = [cur EXCEPT ![t] = Len(calls) + 1] /\ before' = before
    BY <1>1 DEF BeginRecord, pollerVars
  <2>4. ASSUME NEW i \in Returned PROVE i \in Returned'
    BY <2>2, <2>3 DEF Returned, TypeInv, TypeOK
  <2>5. QED BY <2>3, <2>4 DEF BeforeReturned
<1>2. ASSUME NEW t \in Workers, EndRecord(t) PROVE BeforeReturned'
  <2>1. /\ calls' = calls /\ before' = before
        /\ cur' = [cur EXCEPT ![t] = 0]
    BY <1>2 DEF EndRecord, pollerVars
  <2>2. ASSUME NEW i \in Returned PROVE i \in Returned'
    BY <2>1 DEF Returned, TypeInv, TypeOK
  <2>3. QED BY <2>1, <2>2 DEF BeforeReturned
<1>3. ASSUME NEW p \in Pollers, StartPoll(p) PROVE BeforeReturned'
  BY <1>3 DEF StartPoll, BeforeReturned, Returned, workerVars, TypeInv, TypeOK
<1>4. ASSUME UNCHANGED <<calls, cur, before>> PROVE BeforeReturned'
  BY <1>4 DEF BeforeReturned, Returned
<1>5. QED
  BY <1>1, <1>2, <1>3, <1>4 DEF Next, Worker, Poller, FetchAdd, Load, Serve,
                                workerVars, pollerVars, vars

\* A counter holds at least what the calls that have returned added to it.
LEMMA ReturnedCounted ==
    ASSUME ExactInv, BeforeReturned, NEW p \in Pollers, NEW c \in Cells
    PROVE  Total(c, Touching(before[p], c)) <= m[c]
<1>1. Touching(before[p], c) \in SUBSET Added(c)
  BY DEF Touching, BeforeReturned, Returned, Added
<1>2. Added(c) \in SUBSET DOMAIN calls
  BY DEF Added
<1>3. QED
  BY <1>1, <1>2, TotalFacts DEF ExactInv, TypeInv, CountExact

\* A counter holds at most what the calls that have begun add to it.
LEMMA CountedBegun ==
    ASSUME ExactInv, NEW c \in Cells
    PROVE  /\ Total(c, Touching(DOMAIN calls, c)) \in Nat
           /\ m[c] <= Total(c, Touching(DOMAIN calls, c))
<1>1. Added(c) \in SUBSET Touching(DOMAIN calls, c)
  BY DEF Touching, Added
<1>2. Touching(DOMAIN calls, c) \in SUBSET DOMAIN calls
  BY DEF Touching
<1>3. QED
  BY <1>1, <1>2, TotalFacts DEF ExactInv, TypeInv, CountExact
-----------------------------------------------------------------------------
(* The numbers on a page. *)

\* A page, what was served, and the counters never go down in this order.
PageInv ==
    \A p \in Pollers, c \in Cells :
        /\ floor[p][c] <= shown[c] /\ shown[c] <= m[c] /\ page[p][c] <= m[c]
        /\ c \in PollCells \ unread[p] =>
             /\ floor[p][c] <= page[p][c]
             /\ Total(c, Touching(before[p], c)) <= page[p][c]

\* The inductive invariant of the pages.
ScrapeInv == ExactInv /\ BeforeReturned /\ PageInv

\* A step of a worker leaves every page as good as it was.
LEMMA WorkerStepPage ==
    ASSUME ScrapeInv, [Next]_vars, UNCHANGED pollerVars
    PROVE  PageInv'
<1>1. \A c \in Cells : m[c] <= m'[c] /\ m[c] \in Nat /\ m'[c] \in Nat
  BY CountersGrow, TypeInvStep DEF ScrapeInv, ExactInv, TypeInv, TypeOK
<1>2. \A i \in DOMAIN calls : i \in DOMAIN calls' /\ calls'[i] = calls[i]
  <2>1. ASSUME NEW call \in Call, calls' = Append(calls, call)
        PROVE  \A i \in DOMAIN calls : i \in DOMAIN calls' /\ calls'[i] = calls[i]
    BY <2>1 DEF ScrapeInv, ExactInv, TypeInv, TypeOK
  <2>2. QED
    BY <2>1 DEF Next, Worker, Poller, BeginRecord, FetchAdd, EndRecord, StartPoll,
                Load, Serve, workerVars, vars
<1>3. ASSUME NEW p \in Pollers, NEW c \in Cells
      PROVE  Total(c, Touching(before[p], c))' = Total(c, Touching(before[p], c))
  <2>1. before[p] \subseteq DOMAIN calls
    BY DEF ScrapeInv, BeforeReturned, Returned
  <2>2. Touching(before[p], c)' = Touching(before[p], c)
    BY <2>1, <1>2 DEF Touching, pollerVars
  <2>3. Touching(before[p], c) \in SUBSET DOMAIN calls
    BY <2>1 DEF Touching
  <2>4. SumFunctionOnSet([i \in DOMAIN calls' |-> Amount(c, calls'[i])],
                         Touching(before[p], c)) = Total(c, Touching(before[p], c))
    BY <1>2, <2>3, TotalKept DEF ScrapeInv, ExactInv, TypeInv
  <2>5. QED
    BY <2>2, <2>4 DEF Total
<1>4. /\ shown \in [Cells -> Nat]
      /\ \A p \in Pollers : page[p] \in [Cells -> Nat] /\ floor[p] \in [Cells -> Nat]
  BY DEF ScrapeInv, ExactInv, TypeInv, TypeOK
<1>5. QED
  BY <1>1, <1>3, <1>4 DEF ScrapeInv, PageInv, pollerVars

\* A number just loaded is between its limits.
LEMMA LoadPage ==
    ASSUME ScrapeInv, NEW p \in Pollers, NEW c \in Cells, Load(p, c)
    PROVE  PageInv'
<1> DEFINE Lower(q, d) == Total(d, Touching(before[q], d))
<1>1. /\ page' = [page EXCEPT ![p][c] = m[c]]
      /\ unread' = [unread EXCEPT ![p] = @ \ {c}]
      /\ UNCHANGED <<before, shown, floor, m, calls, cur, todo>>
  BY DEF Load, workerVars
<1>2. /\ m \in [Cells -> Nat] /\ shown \in [Cells -> Nat]
      /\ page \in [Pollers -> [Cells -> Nat]]
      /\ unread \in [Pollers -> SUBSET PollCells]
      /\ \A q \in Pollers : floor[q] \in [Cells -> Nat]
  BY DEF ScrapeInv, ExactInv, TypeInv, TypeOK
<1>3. \A q \in Pollers, d \in Cells : Lower(q, d)' = Lower(q, d) /\ Lower(q, d) <= m[d]
  BY <1>1, ReturnedCounted DEF ScrapeInv, Touching, Total
<1> HIDE DEF Lower
<1>4. ASSUME NEW q \in Pollers, NEW d \in Cells
      PROVE  /\ floor'[q][d] <= shown'[d] /\ shown'[d] <= m'[d] /\ page'[q][d] <= m'[d]
             /\ d \in PollCells \ unread'[q] =>
                  /\ floor'[q][d] <= page'[q][d]
                  /\ Lower(q, d)' <= page'[q][d]
  <2>1. CASE q = p /\ d = c
    BY <2>1, <1>1, <1>2, <1>3 DEF ScrapeInv, PageInv
  <2>2. CASE q # p \/ d # c
    <3>1. page'[q][d] = page[q][d] /\ (d \in unread'[q] <=> d \in unread[q])
      BY <2>2, <1>1, <1>2
    <3>2. d \in PollCells \ unread[q] => Lower(q, d) <= page[q][d]
      BY DEF ScrapeInv, PageInv, Lower
    <3>3. QED BY <3>1, <3>2, <1>1, <1>3 DEF ScrapeInv, PageInv
  <2>3. QED BY <2>1, <2>2
<1>5. QED
  BY <1>4 DEF PageInv, Lower

\* What is served becomes the floor of later scrapes only.
LEMMA ServePage ==
    ASSUME ScrapeInv, NEW p \in Pollers, Serve(p)
    PROVE  PageInv'
<1>1. /\ m \in [Cells -> Nat] /\ shown \in [Cells -> Nat]
      /\ \A q \in Pollers : page[q] \in [Cells -> Nat] /\ floor[q] \in [Cells -> Nat]
  BY DEF ScrapeInv, ExactInv, TypeInv, TypeOK
<1>2. \A c \in Cells : /\ shown[c] <= shown'[c] /\ shown'[c] <= m[c]
                       /\ shown'[c] \in Nat
  BY <1>1 DEF Serve, ScrapeInv, PageInv
<1>3. UNCHANGED <<unread, page, before, floor, m, calls, cur, todo>>
  BY DEF Serve, workerVars
<1> DEFINE Lower(q, d) == Total(d, Touching(before[q], d))
<1>4. \A q \in Pollers, d \in Cells : Lower(q, d)' = Lower(q, d)
  BY <1>3 DEF Total, Touching
<1> HIDE DEF Lower
<1>5. ASSUME NEW q \in Pollers, NEW d \in Cells
      PROVE  /\ floor'[q][d] <= shown'[d] /\ shown'[d] <= m'[d] /\ page'[q][d] <= m'[d]
             /\ d \in PollCells \ unread'[q] =>
                  /\ floor'[q][d] <= page'[q][d]
                  /\ Lower(q, d)' <= page'[q][d]
  <2>1. /\ floor[q][d] <= shown[d] /\ page[q][d] <= m[d]
        /\ d \in PollCells \ unread[q] =>
             floor[q][d] <= page[q][d] /\ Lower(q, d) <= page[q][d]
    BY DEF ScrapeInv, PageInv, Lower
  <2>2. QED
    BY <2>1, <1>1, <1>2, <1>3, <1>4
<1>6. QED
  BY <1>5 DEF PageInv, Lower

\* A page not yet begun claims nothing.
LEMMA StartPollPage ==
    ASSUME ScrapeInv, NEW p \in Pollers, StartPoll(p)
    PROVE  PageInv'
<1>1. /\ unread' = [unread EXCEPT ![p] = PollCells]
      /\ page' = [page EXCEPT ![p] = [c \in Cells |-> 0]]
      /\ before' = [before EXCEPT ![p] = Returned]
      /\ floor' = [floor EXCEPT ![p] = shown]
      /\ UNCHANGED <<shown, m, calls, cur, todo>>
  BY DEF StartPoll, workerVars
<1>2. /\ m \in [Cells -> Nat] /\ shown \in [Cells -> Nat]
      /\ page \in [Pollers -> [Cells -> Nat]]
      /\ floor \in [Pollers -> [Cells -> Nat]]
      /\ unread \in [Pollers -> SUBSET PollCells]
      /\ before \in [Pollers -> SUBSET (1..Len(calls))]
  BY DEF ScrapeInv, ExactInv, TypeInv, TypeOK
<1>3. ASSUME NEW q \in Pollers, NEW c \in Cells
      PROVE  /\ floor'[q][c] <= shown'[c] /\ shown'[c] <= m'[c] /\ page'[q][c] <= m'[c]
             /\ c \in PollCells \ unread'[q] =>
                  /\ floor'[q][c] <= page'[q][c]
                  /\ Total(c, Touching(before[q], c))' <= page'[q][c]
  <2>1. CASE q = p
    BY <2>1, <1>1, <1>2 DEF ScrapeInv, PageInv
  <2>2. CASE q # p
    <3>1. /\ unread'[q] = unread[q] /\ page'[q] = page[q]
          /\ before'[q] = before[q] /\ floor'[q] = floor[q]
      BY <2>2, <1>1, <1>2
    <3>2. Total(c, Touching(before[q], c))' = Total(c, Touching(before[q], c))
      BY <3>1, <1>1 DEF Touching, Total
    <3>3. QED BY <3>1, <3>2, <1>1 DEF ScrapeInv, PageInv
  <2>3. QED BY <2>1, <2>2
<1>4. QED
  BY <1>3 DEF PageInv

\* No scrape has begun.
LEMMA ScrapeInvInit == Init => ScrapeInv
<1> SUFFICES ASSUME Init PROVE BeforeReturned /\ PageInv
  BY ExactInvInit DEF ScrapeInv
<1>1. BeforeReturned
  BY DEF Init, BeforeReturned
<1>2. \A p \in Pollers : \A c : Touching(before[p], c) = {}
  BY DEF Init, Touching
<1>3. ASSUME NEW p \in Pollers, NEW c \in Cells
      PROVE  /\ floor[p][c] = 0 /\ shown[c] = 0 /\ m[c] = 0 /\ page[p][c] = 0
             /\ Total(c, Touching(before[p], c)) = 0
  BY <1>2, FS_EmptySet, SumNat DEF Init, Total
<1>4. PageInv
  BY <1>3 DEF PageInv
<1>5. QED
  BY <1>1, <1>4

\* Every step preserves the invariant of pages.
LEMMA ScrapeInvStep == ScrapeInv /\ [Next]_vars => ScrapeInv'
<1> SUFFICES ASSUME ScrapeInv, [Next]_vars PROVE PageInv'
  BY ExactInvStep, BeforeReturnedStep DEF ScrapeInv, ExactInv
<1>1. ASSUME NEW t \in Workers, Worker(t) PROVE UNCHANGED pollerVars
  BY <1>1 DEF Worker, BeginRecord, FetchAdd, EndRecord, pollerVars
<1>2. ASSUME UNCHANGED vars PROVE UNCHANGED pollerVars
  BY <1>2 DEF vars, pollerVars
<1>3. QED
  BY <1>1, <1>2, WorkerStepPage, LoadPage, ServePage, StartPollPage DEF Next, Poller

\* The invariant of pages gives the two properties.
LEMMA ScrapeInvImplies == ScrapeInv => ScrapeEnvelope /\ ScrapeMonotone
<1> SUFFICES ASSUME ScrapeInv PROVE ScrapeEnvelope /\ ScrapeMonotone
  OBVIOUS
<1>1. ASSUME NEW p \in Pollers, NEW c \in PollCells \ unread[p]
      PROVE  /\ Total(c, Touching(before[p], c)) <= page[p][c]
             /\ page[p][c] <= Total(c, Touching(DOMAIN calls, c))
  <2>1. c \in Cells /\ page[p][c] \in Nat /\ m[c] \in Nat
    BY PollCellsAreCells DEF ScrapeInv, ExactInv, TypeInv, TypeOK
  <2>2. page[p][c] <= m[c] /\ Total(c, Touching(before[p], c)) <= page[p][c]
    BY <2>1 DEF ScrapeInv, PageInv
  <2>3. QED
    BY <2>1, <2>2, CountedBegun DEF ScrapeInv
<1>2. ScrapeEnvelope
  BY <1>1 DEF ScrapeEnvelope
<1>3. ScrapeMonotone
  BY PollCellsAreCells DEF ScrapeMonotone, ScrapeInv, PageInv
<1>4. QED BY <1>2, <1>3

\* Every number served holds what each call that had returned when its scrape began
\* added to it, and nothing of a call that has not begun (stats.cc:349-405 against 324-347).
THEOREM ScrapeIsCurrent == Spec => []ScrapeEnvelope
<1>1. ScrapeInv => ScrapeEnvelope
  BY ScrapeInvImplies
<1>2. QED
  BY <1>1, ScrapeInvInit, ScrapeInvStep, PTL DEF Spec

\* No scrape shows less than one that was served before it began, from whichever
\* thread: the counters Prometheus sees never go back.
THEOREM ScrapesNeverGoBack == Spec => []ScrapeMonotone
<1>1. ScrapeInv => ScrapeMonotone
  BY ScrapeInvImplies
<1>2. QED
  BY <1>1, ScrapeInvInit, ScrapeInvStep, PTL DEF Spec
-----------------------------------------------------------------------------
(* Two successive lines of a page. *)

\* Of two successive lines the second is added to, and loaded, later.
LEMMA SuccessiveFacts ==
    ASSUME NEW cd \in Successive
    PROVE  /\ cd[1] \in PollCells \cap UnitCells
           /\ cd[2] \in PollCells \cap UnitCells
           /\ cd[1] # cd[2]
           /\ Before(cd[1], cd[2])
           /\ \A call \in Call : cd[1] \in Touched(call) => cd[2] \in Touched(call)
<1>1. CASE \E d \in Dirs, b \in 1..Len(Bounds) :
             cd = <<HistBucket(d, b), HistBucket(d, b + 1)>>
  <2>1. PICK d \in Dirs, b \in 1..Len(Bounds) :
          cd = <<HistBucket(d, b), HistBucket(d, b + 1)>>
    BY <1>1
  <2>2. b \in Buckets /\ b + 1 \in Buckets /\ b \in Nat
    BY BoundsFacts DEF Buckets, InfBucket
  <2>3. Before(cd[1], cd[2]) /\ cd[1] # cd[2]
    BY <2>1, <2>2 DEF Before, Section, Line, HistBucket
  <2>4. ASSUME NEW call \in Call, cd[1] \in Touched(call) PROVE cd[2] \in Touched(call)
    <3>1. call.bucket \in Nat
      BY BoundsFacts DEF Call, Buckets
    <3>2. QED
      BY <2>1, <2>2, <2>4, <3>1, TouchedHistogram
  <2>5. HistBucket(d, b) \in UnitCells /\ HistBucket(d, b + 1) \in UnitCells
    BY <2>2 DEF UnitCells
  <2>6. QED
    BY <2>1, <2>3, <2>4, <2>5 DEF PollCells, Cells, HistBucket
<1>2. CASE \E d \in Dirs : cd = <<HistBucket(d, InfBucket), HistCount(d)>>
  <2>1. PICK d \in Dirs : cd = <<HistBucket(d, InfBucket), HistCount(d)>>
    BY <1>2
  <2>2. Before(cd[1], cd[2]) /\ cd[1] # cd[2]
    BY <2>1, BoundsFacts DEF Before, Section, Line, HistBucket, HistCount
  <2>3. ASSUME NEW call \in Call, cd[1] \in Touched(call) PROVE cd[2] \in Touched(call)
    BY <2>1, <2>3, BoundsFacts, TouchedHistogram
  <2>4. HistBucket(d, InfBucket) \in UnitCells /\ HistCount(d) \in UnitCells
    BY BoundsFacts DEF UnitCells
  <2>5. QED
    BY <2>1, <2>2, <2>3, <2>4 DEF PollCells, Cells, HistBucket, HistCount
<1>3. QED
  BY <1>1, <1>2 DEF Successive

\* A counter is ahead of its successor by at most one call per worker.
LEMMA CounterSkew ==
    ASSUME ExactInv, NEW cd \in Successive
    PROVE  m[cd[1]] <= m[cd[2]] + Cardinality(Workers)
<1> DEFINE Current == {cur[t] : t \in Workers}
<1> DEFINE A == Added(cd[1])
<1> DEFINE B == Added(cd[2])
<1>1. A \subseteq B \cup Current
  <2>1. ASSUME NEW i \in A, i \notin Current PROVE i \in B
    <3>1. i \in DOMAIN calls /\ calls[i] \in Call /\ cd[1] \in Touched(calls[i])
      BY DEF Added, ExactInv, TypeInv, TypeOK
    <3>2. cd[2] \in Touched(calls[i])
      BY <3>1, SuccessiveFacts
    <3>3. QED BY <2>1, <3>1, <3>2 DEF Added
  <2>2. QED BY <2>1
<1>2. IsFiniteSet(Current) /\ Cardinality(Current) <= Cardinality(Workers)
  <2>1. IsFiniteSet(Workers)
    BY StatsAssumption
  <2>2. [t \in Workers |-> cur[t]] \in Surjection(Workers, Current)
    BY DEF Surjection
  <2>3. QED
    BY <2>1, <2>2, FS_Surjection
<1>3. IsFiniteSet(A) /\ IsFiniteSet(B)
  BY CallSetsFinite DEF ExactInv, TypeInv
<1>4. IsFiniteSet(B \cup Current) /\ Cardinality(A) <= Cardinality(B \cup Current)
  BY <1>1, <1>2, <1>3, FS_Union, FS_Subset
<1>5. /\ Cardinality(B \cup Current) =
            Cardinality(B) + Cardinality(Current) - Cardinality(B \cap Current)
      /\ Cardinality(B) \in Nat /\ Cardinality(Current) \in Nat
      /\ Cardinality(B \cap Current) \in Nat /\ Cardinality(A) \in Nat
      /\ Cardinality(Workers) \in Nat
  BY <1>2, <1>3, <1>4, StatsAssumption, FS_Union, FS_Intersection, FS_CardinalityType
<1>6. m[cd[1]] = Cardinality(A) /\ m[cd[2]] = Cardinality(B)
  BY SuccessiveFacts, UnitCount
<1> HIDE DEF A, B, Current
<1>7. QED
  BY <1>2, <1>4, <1>5, <1>6

\* Of two successive lines the first is loaded first, and until the second is
\* loaded too the first is ahead of its counter by at most the calls under way.
SkewInv ==
    \A p \in Pollers, cd \in Successive :
        IF cd[1] \in unread[p] THEN cd[2] \in unread[p]
        ELSE page[p][cd[1]] <= (IF cd[2] \in unread[p] THEN m[cd[2]] ELSE page[p][cd[2]])
                                   + Cardinality(Workers)

\* A load keeps the skew: what the first line showed, the second has by then.
LEMMA LoadSkew ==
    ASSUME ProgramOrder, ExactInv, SkewInv, NEW p \in Pollers, NEW c \in Cells, Load(p, c)
    PROVE  SkewInv'
<1>1. /\ page' = [page EXCEPT ![p][c] = m[c]]
      /\ unread' = [unread EXCEPT ![p] = @ \ {c}]
      /\ m' = m /\ c \in unread[p] /\ \A d \in unread[p] : ~Before(d, c)
  BY DEF Load, workerVars, MayAccess
<1>2. /\ page \in [Pollers -> [Cells -> Nat]]
      /\ unread \in [Pollers -> SUBSET PollCells]
  BY DEF ExactInv, TypeInv, TypeOK
<1>3. SUFFICES ASSUME NEW q \in Pollers, NEW cd \in Successive
               PROVE  IF cd[1] \in unread'[q] THEN cd[2] \in unread'[q]
                      ELSE page'[q][cd[1]] <=
                             (IF cd[2] \in unread'[q] THEN m[cd[2]] ELSE page'[q][cd[2]])
                                 + Cardinality(Workers)
  BY <1>1 DEF SkewInv
<1>4. /\ cd[1] \in Cells /\ cd[2] \in Cells /\ cd[1] # cd[2] /\ Before(cd[1], cd[2])
      /\ m[cd[1]] <= m[cd[2]] + Cardinality(Workers)
  BY SuccessiveFacts, CounterSkew, PollCellsAreCells
<1>5. CASE q = p /\ cd[1] = c
  <2>1. cd[2] \in unread[p]
    BY <1>1, <1>5 DEF SkewInv
  <2>2. page'[q][cd[1]] = m[cd[1]] /\ cd[2] \in unread'[q] /\ cd[1] \notin unread'[q]
    BY <2>1, <1>1, <1>2, <1>4, <1>5
  <2>3. QED BY <2>2, <1>4
<1>6. CASE q = p /\ cd[2] = c
  <2>1. cd[1] \notin unread[p]
    BY <1>1, <1>4, <1>6
  <2>2. /\ page'[q][cd[1]] = page[p][cd[1]] /\ page'[q][cd[2]] = m[cd[2]]
        /\ cd[1] \notin unread'[q] /\ cd[2] \notin unread'[q]
    BY <2>1, <1>1, <1>2, <1>4, <1>6
  <2>3. page[p][cd[1]] <= m[cd[2]] + Cardinality(Workers)
    BY <2>1, <1>1, <1>6 DEF SkewInv
  <2>4. QED BY <2>2, <2>3
<1>7. CASE q # p \/ (cd[1] # c /\ cd[2] # c)
  <2>1. /\ page'[q][cd[1]] = page[q][cd[1]] /\ page'[q][cd[2]] = page[q][cd[2]]
        /\ cd[1] \in unread'[q] <=> cd[1] \in unread[q]
        /\ cd[2] \in unread'[q] <=> cd[2] \in unread[q]
    BY <1>1, <1>2, <1>4, <1>7
  <2>2. QED BY <2>1 DEF SkewInv
<1>8. QED BY <1>5, <1>6, <1>7

\* A new page has no line to compare.
LEMMA StartPollSkew ==
    ASSUME ExactInv, SkewInv, NEW p \in Pollers, StartPoll(p)
    PROVE  SkewInv'
<1>1. /\ page' = [page EXCEPT ![p] = [c \in Cells |-> 0]]
      /\ unread' = [unread EXCEPT ![p] = PollCells] /\ m' = m
  BY DEF StartPoll, workerVars
<1>2. /\ page \in [Pollers -> [Cells -> Nat]]
      /\ unread \in [Pollers -> SUBSET PollCells]
  BY DEF ExactInv, TypeInv, TypeOK
<1>3. ASSUME NEW q \in Pollers, NEW cd \in Successive
      PROVE  IF cd[1] \in unread'[q] THEN cd[2] \in unread'[q]
             ELSE page'[q][cd[1]] <=
                    (IF cd[2] \in unread'[q] THEN m[cd[2]] ELSE page'[q][cd[2]])
                        + Cardinality(Workers)
  <2>1. CASE q = p
    BY <2>1, <1>1, <1>2, SuccessiveFacts
  <2>2. CASE q # p
    BY <2>2, <1>1, <1>2 DEF SkewInv
  <2>3. QED BY <2>1, <2>2
<1>4. QED BY <1>1, <1>3 DEF SkewInv

\* No page, no skew.
LEMMA SkewInvInit == Init => SkewInv
<1> SUFFICES ASSUME Init, NEW p \in Pollers, NEW cd \in Successive
             PROVE  page[p][cd[1]] <= page[p][cd[2]] + Cardinality(Workers)
                    /\ cd[1] \notin unread[p] /\ cd[2] \notin unread[p]
  BY DEF SkewInv
<1>1. cd[1] \in Cells /\ cd[2] \in Cells
  BY SuccessiveFacts, PollCellsAreCells
<1>2. Cardinality(Workers) \in Nat
  BY StatsAssumption, FS_CardinalityType
<1>3. QED
  BY <1>1, <1>2 DEF Init

\* Every step preserves the invariant of skew.
LEMMA SkewInvStep == ProgramOrder /\ ExactInv /\ SkewInv /\ [Next]_vars => SkewInv'
<1> SUFFICES ASSUME ProgramOrder, ExactInv, SkewInv, [Next]_vars PROVE SkewInv'
  OBVIOUS
<1>1. ASSUME UNCHANGED <<unread, page>> PROVE SkewInv'
  <2>1. ASSUME NEW p \in Pollers, NEW cd \in Successive
        PROVE  IF cd[1] \in unread[p] THEN cd[2] \in unread[p]
               ELSE page[p][cd[1]] <=
                      (IF cd[2] \in unread[p] THEN m'[cd[2]] ELSE page[p][cd[2]])
                          + Cardinality(Workers)
    <3>1. cd[1] \in Cells /\ cd[2] \in Cells
      BY SuccessiveFacts, PollCellsAreCells
    <3>2. m[cd[2]] <= m'[cd[2]] /\ m[cd[2]] \in Nat /\ m'[cd[2]] \in Nat
      BY <3>1, CountersGrow, TypeInvStep DEF ExactInv, TypeInv, TypeOK
    <3>3. Cardinality(Workers) \in Nat
      BY StatsAssumption, FS_CardinalityType
    <3>4. page[p][cd[1]] \in Nat /\ page[p][cd[2]] \in Nat
      BY <3>1 DEF ExactInv, TypeInv, TypeOK
    <3>5. QED BY <3>2, <3>3, <3>4 DEF SkewInv
  <2>2. QED BY <1>1, <2>1 DEF SkewInv
<1>2. QED
  BY <1>1, LoadSkew, StartPollSkew
     DEF Next, Worker, Poller, BeginRecord, FetchAdd, EndRecord, Serve, pollerVars, vars

\* When accesses are made in program order a page is off by at most one call
\* per worker, however long the scrape takes (stats.cc:341-345, 382-402).
THEOREM SkewIsBounded ==
    ASSUME ProgramOrder
    PROVE  Spec => []SkewBounded
<1>1. SkewInv => SkewBounded
  <2> SUFFICES ASSUME SkewInv, NEW cd \in Successive, NEW p \in Pollers, unread[p] = {}
               PROVE  page[p][cd[1]] <= page[p][cd[2]] + Cardinality(Workers)
    BY DEF SkewBounded, Skew
  <2>1. QED BY DEF SkewInv
<1>2. ExactInv /\ SkewInv /\ [Next]_vars => SkewInv'
  BY SkewInvStep
<1>3. QED
  BY <1>1, <1>2, ExactInvInit, ExactInvStep, SkewInvInit, PTL DEF Spec
-----------------------------------------------------------------------------
(* The plugin implements the atomic counters of OpCounter.  The refinement mapping has *)
(* a name for each of its parts.                                                        *)

WantedMap == [t \in Workers |-> CountedAt(t)]
CountedMap == [t \in Workers |-> CountedAt(t) \ todo[t]]
TotalMap == [c \in CallCounts |-> m[c]]
UnseenMap == [p \in Pollers |-> unread[p] \cap CallCounts]
NumberMap == [p \in Pollers |-> [c \in CallCounts |-> page[p][c]]]
mapped == <<WantedMap, CountedMap, TotalMap, polling, UnseenMap, NumberMap>>

\* What the invariant says where the mapping looks.
LEMMA MapTypes ==
    ASSUME TypeInv
    PROVE  /\ CallCounts \subseteq Cells /\ CallCounts \subseteq UnitCells
           /\ m \in [Cells -> Nat]
           /\ cur \in [Workers -> Nat]
           /\ todo \in [Workers -> SUBSET Cells]
           /\ unread \in [Pollers -> SUBSET PollCells]
           /\ page \in [Pollers -> [Cells -> Nat]]
           /\ \A t \in Workers : cur[t] # 0 => cur[t] \in DOMAIN calls /\ calls[cur[t]] \in Call
           /\ \A t \in Workers : todo[t] \cap CallCounts \subseteq CountedAt(t)
<1>1. CallCounts \subseteq Cells /\ CallCounts \subseteq UnitCells
  BY DEF CallCounts, Cells
<1>2. Len(calls) \in Nat /\ DOMAIN calls = 1..Len(calls) /\ cur \in [Workers -> 0..Len(calls)]
  BY DEF TypeInv, TypeOK
<1>3. cur \in [Workers -> Nat]
  BY <1>2
<1>4. \A t \in Workers : cur[t] # 0 => cur[t] \in DOMAIN calls /\ calls[cur[t]] \in Call
  BY <1>2 DEF TypeInv, TypeOK
<1>5. \A t \in Workers : todo[t] \cap CallCounts \subseteq CountedAt(t)
  BY DEF TypeInv, OwnCall, CountedAt
<1>6. QED
  BY <1>1, <1>3, <1>4, <1>5 DEF TypeInv, TypeOK

\* As long as a worker stays in its call it belongs to the same counters.
LEMMA CountedAtKept ==
    ASSUME TypeInv, NEW t \in Workers, cur'[t] = cur[t],
           \A i \in DOMAIN calls : calls'[i] = calls[i]
    PROVE  CountedAt(t)' = CountedAt(t)
BY MapTypes DEF CountedAt

\* Nothing of the workers moves while a scrape does.
LEMMA PollerKeepsMap ==
    ASSUME TypeInv, UNCHANGED workerVars
    PROVE  WantedMap' = WantedMap /\ CountedMap' = CountedMap /\ TotalMap' = TotalMap
BY DEF workerVars, WantedMap, CountedMap, TotalMap, CountedAt

\* A worker that enters record() asks for its counters,
LEMMA BeginRecordMaps ==
    ASSUME TypeInv, NEW t \in Workers, BeginRecord(t)
    PROVE  Promise!Ask(t)
<1>1. PICK call \in Call : /\ calls' = Append(calls, call)
                           /\ todo' = [todo EXCEPT ![t] = Touched(call)]
  BY DEF BeginRecord
<1>2. /\ cur[t] = 0
      /\ cur' = [cur EXCEPT ![t] = Len(calls) + 1]
      /\ UNCHANGED <<m, polling, unread, page>>
  BY DEF BeginRecord, pollerVars
<1>3. /\ Len(calls) \in Nat
      /\ calls'[Len(calls) + 1] = call
      /\ \A i \in DOMAIN calls : calls'[i] = calls[i]
  BY <1>1 DEF TypeInv, TypeOK
<1>4. cur \in [Workers -> Nat] /\ todo \in [Workers -> SUBSET Cells]
  BY MapTypes
<1> DEFINE S == Touched(call) \cap CallCounts
<1>5. CountedAt(t) = {} /\ CountedAt(t)' = S
  BY <1>2, <1>3, <1>4 DEF CountedAt
<1>6. ASSUME NEW u \in Workers, u # t
      PROVE  CountedAt(u)' = CountedAt(u) /\ todo'[u] = todo[u]
  BY <1>1, <1>2, <1>3, <1>4, <1>6, CountedAtKept
<1>7. WantedMap[t] = {} /\ WantedMap' = [WantedMap EXCEPT ![t] = S]
  BY <1>5, <1>6 DEF WantedMap
<1>8. CountedMap' = CountedMap
  <2>1. todo'[t] = Touched(call)
    BY <1>1, <1>4
  <2>2. \A u \in Workers : CountedAt(u)' \ todo'[u] = CountedAt(u) \ todo[u]
    BY <2>1, <1>5, <1>6
  <2>3. QED
    BY <2>2 DEF CountedMap
<1>9. S \in SUBSET CallCounts
  OBVIOUS
<1> HIDE DEF S
<1>10. QED
  BY <1>2, <1>7, <1>8, <1>9
     DEF Promise!Ask, WantedMap, CountedMap, TotalMap, UnseenMap, NumberMap

\* a fetch_add counts its call once more, or is that of a sum and not seen,
LEMMA FetchAddMaps ==
    ASSUME TypeInv, NEW t \in Workers, NEW c \in Cells, FetchAdd(t, c)
    PROVE  IF c \in CallCounts THEN Promise!Count(t, c) ELSE UNCHANGED mapped
<1>1. /\ c \in todo[t]
      /\ m' = [m EXCEPT ![c] = @ + Amount(c, calls[cur[t]])]
      /\ todo' = [todo EXCEPT ![t] = @ \ {c}]
      /\ UNCHANGED <<calls, cur, polling, unread, page>>
  BY DEF FetchAdd, MayAccess, pollerVars
<1>2. \A u \in Workers : CountedAt(u)' = CountedAt(u)
  BY <1>1 DEF CountedAt
<1>3. WantedMap' = WantedMap
  BY <1>2 DEF WantedMap
<1>4. /\ todo \in [Workers -> SUBSET Cells] /\ m \in [Cells -> Nat]
      /\ CallCounts \subseteq UnitCells /\ CallCounts \subseteq Cells
      /\ todo[t] \cap CallCounts \subseteq CountedAt(t)
  BY MapTypes
<1>5. CASE c \in CallCounts
  <2>1. c \in WantedMap[t] \ CountedMap[t]
    BY <1>1, <1>4, <1>5 DEF WantedMap, CountedMap
  <2>2. CountedMap' = [CountedMap EXCEPT ![t] = @ \cup {c}]
    <3>1. CountedAt(t)' \ todo'[t] = (CountedAt(t) \ todo[t]) \cup {c}
      BY <1>1, <1>2, <1>4, <1>5
    <3>2. \A u \in Workers : u # t => CountedAt(u)' \ todo'[u] = CountedAt(u) \ todo[u]
      BY <1>1, <1>2, <1>4
    <3>3. QED
      BY <3>1, <3>2 DEF CountedMap
  <2>3. TotalMap' = [TotalMap EXCEPT ![c] = @ + 1]
    <3>1. Amount(c, calls[cur[t]]) = 1
      BY <1>4, <1>5, AmountUnit
    <3>2. QED
      BY <3>1, <1>1, <1>4, <1>5 DEF TotalMap
  <2>4. QED
    BY <1>1, <1>3, <1>5, <2>1, <2>2, <2>3
       DEF Promise!Count, WantedMap, CountedMap, TotalMap, UnseenMap, NumberMap
<1>6. CASE c \notin CallCounts
  <2>1. CountedMap' = CountedMap
    <3>1. \A u \in Workers : CountedAt(u) \subseteq CallCounts
      BY DEF CountedAt
    <3>2. \A u \in Workers : CountedAt(u)' \ todo'[u] = CountedAt(u) \ todo[u]
      BY <1>1, <1>2, <1>4, <1>6, <3>1
    <3>3. QED
      BY <3>2 DEF CountedMap
  <2>2. TotalMap' = TotalMap
    BY <1>1, <1>4, <1>6 DEF TotalMap
  <2>3. QED
    BY <1>1, <1>3, <1>6, <2>1, <2>2 DEF mapped, UnseenMap, NumberMap
<1>7. QED
  BY <1>5, <1>6

\* and record() returns when its call is counted everywhere.
LEMMA EndRecordMaps ==
    ASSUME TypeInv, NEW t \in Workers, EndRecord(t)
    PROVE  Promise!Answer(t)
<1>1. /\ cur[t] # 0 /\ todo[t] = {}
      /\ cur' = [cur EXCEPT ![t] = 0]
      /\ UNCHANGED <<m, calls, todo, polling, unread, page>>
  BY DEF EndRecord, pollerVars
<1>2. cur \in [Workers -> Nat]
  BY MapTypes
<1>3. CountedAt(t)' = {}
  BY <1>1, <1>2 DEF CountedAt
<1>4. ASSUME NEW u \in Workers, u # t PROVE CountedAt(u)' = CountedAt(u)
  BY <1>1, <1>2, <1>4 DEF CountedAt
<1>5. CountedMap[t] = WantedMap[t]
  BY <1>1 DEF CountedMap, WantedMap
<1>6. WantedMap' = [WantedMap EXCEPT ![t] = {}]
  BY <1>3, <1>4 DEF WantedMap
<1>7. CountedMap' = [CountedMap EXCEPT ![t] = {}]
  BY <1>1, <1>3, <1>4 DEF CountedMap
<1>8. QED
  BY <1>1, <1>5, <1>6, <1>7
     DEF Promise!Answer, WantedMap, CountedMap, TotalMap, UnseenMap, NumberMap

\* A scrape is a page, but for the loads of sums.
LEMMA StartPollMaps ==
    ASSUME TypeInv, NEW p \in Pollers, StartPoll(p)
    PROVE  Promise!AskPage(p)
<1>1. /\ p \notin polling /\ polling' = polling \cup {p}
      /\ unread' = [unread EXCEPT ![p] = PollCells]
      /\ page' = [page EXCEPT ![p] = [c \in Cells |-> 0]]
      /\ UNCHANGED workerVars
  BY DEF StartPoll
<1>2. /\ unread \in [Pollers -> SUBSET PollCells]
      /\ page \in [Pollers -> [Cells -> Nat]] /\ CallCounts \subseteq Cells
  BY MapTypes
<1>3. UnseenMap' = [UnseenMap EXCEPT ![p] = CallCounts]
  BY <1>1, <1>2 DEF UnseenMap, CallCounts
<1>4. NumberMap' = [NumberMap EXCEPT ![p] = [c \in CallCounts |-> 0]]
  BY <1>1, <1>2 DEF NumberMap
<1>5. QED
  BY <1>1, <1>3, <1>4, PollerKeepsMap
     DEF Promise!AskPage, WantedMap, CountedMap, TotalMap, UnseenMap, NumberMap

\* One load is one reading.
LEMMA LoadMaps ==
    ASSUME TypeInv, NEW p \in Pollers, NEW c \in Cells, Load(p, c)
    PROVE  IF c \in CallCounts THEN Promise!Read(p, c) ELSE UNCHANGED mapped
<1>1. /\ c \in unread[p]
      /\ unread' = [unread EXCEPT ![p] = @ \ {c}]
      /\ page' = [page EXCEPT ![p][c] = m[c]]
      /\ UNCHANGED polling /\ UNCHANGED workerVars
  BY DEF Load, MayAccess
<1>2. /\ unread \in [Pollers -> SUBSET PollCells]
      /\ page \in [Pollers -> [Cells -> Nat]] /\ CallCounts \subseteq Cells
  BY MapTypes
<1>3. CASE c \in CallCounts
  <2>1. c \in UnseenMap[p] /\ UnseenMap' = [UnseenMap EXCEPT ![p] = @ \ {c}]
    <3>1. unread'[p] \cap CallCounts = (unread[p] \cap CallCounts) \ {c}
      BY <1>1, <1>2
    <3>2. \A q \in Pollers : q # p => unread'[q] = unread[q]
      BY <1>1, <1>2
    <3>3. QED
      BY <1>1, <1>3, <3>1, <3>2 DEF UnseenMap
  <2>2. NumberMap' = [NumberMap EXCEPT ![p][c] = TotalMap[c]]
    BY <1>1, <1>2, <1>3 DEF NumberMap, TotalMap
  <2>3. QED
    BY <1>1, <1>3, <2>1, <2>2, PollerKeepsMap
       DEF Promise!Read, WantedMap, CountedMap, TotalMap, UnseenMap, NumberMap
<1>4. CASE c \notin CallCounts
  <2>1. UnseenMap' = UnseenMap
    <3>1. \A q \in Pollers : unread'[q] \cap CallCounts = unread[q] \cap CallCounts
      BY <1>1, <1>2, <1>4
    <3>2. QED
      BY <3>1 DEF UnseenMap
  <2>2. NumberMap' = NumberMap
    BY <1>1, <1>2, <1>4 DEF NumberMap
  <2>3. QED
    BY <1>1, <1>4, <2>1, <2>2, PollerKeepsMap DEF mapped
<1>5. QED
  BY <1>3, <1>4

\* A page is served when every number of it has been read.
LEMMA ServeMaps ==
    ASSUME TypeInv, NEW p \in Pollers, Serve(p)
    PROVE  Promise!Show(p)
<1>1. /\ p \in polling /\ polling' = polling \ {p} /\ unread[p] = {}
      /\ UNCHANGED <<unread, page>> /\ UNCHANGED workerVars
  BY DEF Serve
<1>2. UnseenMap[p] = {} /\ UnseenMap' = UnseenMap /\ NumberMap' = NumberMap
  BY <1>1 DEF UnseenMap, NumberMap
<1>3. QED
  BY <1>1, <1>2, PollerKeepsMap
     DEF Promise!Show, WantedMap, CountedMap, TotalMap, UnseenMap, NumberMap

\* Every step is a step of the counters or none.
LEMMA PromiseStep == TypeInv /\ [Next]_vars => [Promise!Next]_(Promise!vars)
<1> SUFFICES ASSUME TypeInv, [Next]_vars PROVE [Promise!Next]_(Promise!vars)
  OBVIOUS
<1>1. UNCHANGED mapped => UNCHANGED Promise!vars
  BY DEF mapped, WantedMap, CountedMap, TotalMap, UnseenMap, NumberMap, Promise!vars
<1>2. ASSUME NEW t \in Workers, Worker(t) PROVE Promise!Next \/ UNCHANGED mapped
  <2>1. CASE BeginRecord(t)
    BY <2>1, BeginRecordMaps DEF Promise!Next
  <2>2. ASSUME NEW c \in Cells, FetchAdd(t, c) PROVE Promise!Next \/ UNCHANGED mapped
    BY <2>2, FetchAddMaps DEF Promise!Next
  <2>3. CASE EndRecord(t)
    BY <2>3, EndRecordMaps DEF Promise!Next
  <2>4. QED
    BY <1>2, <2>1, <2>2, <2>3 DEF Worker
<1>3. ASSUME NEW p \in Pollers, Poller(p) PROVE Promise!Next \/ UNCHANGED mapped
  <2>1. CASE StartPoll(p)
    BY <2>1, StartPollMaps DEF Promise!Next
  <2>2. ASSUME NEW c \in Cells, Load(p, c) PROVE Promise!Next \/ UNCHANGED mapped
    BY <2>2, LoadMaps DEF Promise!Next
  <2>3. CASE Serve(p)
    BY <2>3, ServeMaps DEF Promise!Next
  <2>4. QED
    BY <1>3, <2>1, <2>2, <2>3 DEF Poller
<1>4. ASSUME UNCHANGED vars PROVE UNCHANGED mapped
  BY <1>4 DEF vars, mapped, WantedMap, CountedMap, TotalMap, UnseenMap, NumberMap, CountedAt
<1>5. Promise!Next \/ UNCHANGED mapped
  BY <1>2, <1>3, <1>4 DEF Next
<1>6. QED
  BY <1>1, <1>5

\* No call, no count: the start is theirs.
LEMMA PromiseInit == Init => Promise!Init
<1> SUFFICES ASSUME Init PROVE Promise!Init
  OBVIOUS
<1>1. CallCounts \subseteq Cells
  BY DEF CallCounts, Cells
<1>2. \A t \in Workers : CountedAt(t) = {}
  BY DEF Init, CountedAt
<1>3. QED
  BY <1>1, <1>2 DEF Init, Promise!Init

\* The plugin implements atomic counters of calls, with any number of recording
\* and serving threads, in any order of the accesses of a call (stats.cc:330-405).
THEOREM ImplementsCounters == Spec => AtomicCounters
<1>1. QED
  BY TypeInvInit, TypeInvStep, PromiseInit, PromiseStep, PTL
     DEF Spec, AtomicCounters, Promise!Spec
=============================================================================
