-------------------------- MODULE PluginHostProofs --------------------------
(***************************************************************************)
(* Theorems about PluginHost for every command line and every number of    *)
(* threads.  LifeInv says what has become of each element of m_plugins, by *)
(* its place in the vector; CallInv where each thread stands in its loop   *)
(* and what it is bound to.                                                *)
(***************************************************************************)
EXTENDS PluginHost, FiniteSetTheorems, TLAPS

\* The elements that hold the library.
Holders(l) == {k \in (unwound + 1)..size : Paths[k] = l}

\* What has become of the context of the k-th plugin.
Fate(k) ==
    IF k > size THEN "none"
    ELSE IF k <= unwound \/ (k = unwound + 1 /\ stage = 2) THEN "destroyed"
    ELSE "live"

\* The variables of the vector and of its elements.
LifeTypes ==
    /\ proc \in {"loading", "mounted", "exiting", "exited"}
    /\ capacity \in {0, Len(Paths)}
    /\ size \in 0..Len(Paths) /\ unwound \in 0..size /\ stage \in 1..2
    /\ mapped \in [Libs -> Nat]
    /\ context \in [Instances -> {"none", "live", "destroyed"}]
    /\ destroys \in [Instances -> Nat]

\* An element's context is what its place says, and a library is mapped once for each
\* element that still holds it.
LifeInv ==
    /\ LifeTypes
    /\ size > 0 => capacity = Len(Paths)
    /\ proc \in {"loading", "mounted"} => unwound = 0 /\ stage = 1
    /\ unwound = size => stage = 1
    /\ proc = "exited" => unwound = size
    /\ \A k \in Instances : context[k] = Fate(k)
    /\ DestroyedOnce
    /\ \A l \in Libs : mapped[l] = Cardinality(Holders(l))

\* The variables of the threads.
CallTypes ==
    /\ g \in [Threads -> [Libs -> Instances \cup {Null}]]
    /\ at \in [Threads -> [loop : {"idle", "record", "names", "metrics"},
                           k : 0..size, pc : {"bind", "call", "unbind"}, proxies : 0..2]]

\* Where each thread is, and that it is bound only between the two ends of a proxy.
CallInv ==
    /\ CallTypes
    /\ \A t \in Threads :
         /\ at[t] # Idle => at[t].loop # "idle" /\ at[t].k \in 1..size
         /\ at[t].pc = "bind" => at[t].proxies = 0 \/ (at[t].proxies = 1 /\ at[t].loop = "names")
         /\ at[t].pc # "bind" => at[t].proxies \in 1..2
         /\ at[t].pc = "call" => g[t][Paths[at[t].k]] = at[t].k
         /\ \A l \in Libs : g[t][l] # Null =>
              l = Paths[at[t].k] /\ g[t][l] = at[t].k /\ at[t].proxies > 0
    /\ \A t \in Workers : at[t] # Idle => proc = "mounted"

\* The inductive invariant of the host.
HostInv == LifeInv /\ CallInv
-----------------------------------------------------------------------------
\* The places of the command line.
LEMMA PathFacts ==
    /\ Len(Paths) \in Nat
    /\ Instances = 1..Len(Paths)
    /\ \A k \in Instances : Paths[k] \in Libs
BY PluginHostAssumption DEF Instances

\* Any set of places is finite.
LEMMA HoldersFinite ==
    ASSUME NEW a \in Nat, NEW b \in Nat, NEW l
    PROVE  IsFiniteSet({k \in (a + 1)..b : Paths[k] = l})
<1>1. IsFiniteSet((a + 1)..b)
  BY FS_Interval
<1>2. QED
  BY <1>1, FS_Subset

\* A thread that has nothing to do is bound to nothing.
LEMMA IdleFacts ==
    /\ Idle.pc = "bind" /\ Idle.k = 0 /\ Idle.proxies = 0 /\ Idle.loop = "idle"
    /\ \A n \in Nat : Idle \in [loop : {"idle", "record", "names", "metrics"},
                                k : 0..n, pc : {"bind", "call", "unbind"}, proxies : 0..2]
BY DEF Idle, Before
-----------------------------------------------------------------------------
(* The life of the plugins. *)

\* Nothing is loaded at first.
LEMMA LifeInit == Init => LifeInv
<1> SUFFICES ASSUME Init PROVE LifeInv
  OBVIOUS
<1>1. LifeTypes
  <2>1. size = 0 /\ unwound = 0 /\ stage = 1 /\ capacity = 0 /\ Len(Paths) \in Nat
    BY PathFacts DEF Init
  <2>2. mapped \in [Libs -> Nat] /\ destroys \in [Instances -> Nat]
    BY DEF Init
  <2>3. context \in [Instances -> {"none", "live", "destroyed"}] /\ proc = "loading"
    BY DEF Init
  <2>4. QED
    BY <2>1, <2>2, <2>3 DEF LifeTypes
<1>2. \A l \in Libs : mapped[l] = Cardinality(Holders(l))
  <2>0. size = 0 /\ unwound = 0
    BY DEF Init
  <2>1. \A l \in Libs : Holders(l) = {}
    BY <2>0 DEF Holders
  <2>2. Cardinality({}) = 0
    BY FS_EmptySet
  <2>3. \A l \in Libs : mapped[l] = 0
    BY DEF Init
  <2>4. QED
    BY <2>1, <2>2, <2>3
<1>3. \A k \in Instances : context[k] = Fate(k)
  BY PathFacts DEF Init, Fate
<1>4. DestroyedOnce
  BY DEF Init, DestroyedOnce
<1>5. QED
  BY <1>1, <1>2, <1>3, <1>4 DEF Init, LifeInv

\* The reserved vector never moves its elements.
LEMMA NeverMoved ==
    ASSUME LifeInv, LoadNext
    PROVE  Moved = {}
<1>1. Len(Paths) \in Nat /\ size \in 0..Len(Paths) /\ size < Len(Paths)
  BY PathFacts DEF LoadNext, LifeInv, LifeTypes
<1>2. capacity = Len(Paths)
  BY <1>1 DEF LoadNext, Reserved, LifeInv, LifeTypes
<1>3. QED
  BY <1>1, <1>2 DEF Moved

\* Reserving changes the capacity alone.
LEMMA ReserveLife == ASSUME LifeInv, Reserve PROVE LifeInv'
<1>1. LifeTypes'
  BY DEF LifeInv, LifeTypes, Reserve, Reserved, exitVars
<1>2. QED
  BY <1>1 DEF LifeInv, Reserve, Reserved, exitVars, DestroyedOnce, Fate, Holders

\* The next plugin is loaded, or the process ends.
LEMMA LoadLife == ASSUME LifeInv, LoadNext PROVE LifeInv'
<1> DEFINE k == size + 1
           l == Paths[k]
<1>1. /\ size \in Nat /\ k \in Instances /\ l \in Libs
      /\ unwound = 0 /\ stage = 1 /\ UNCHANGED <<unwound, stage>>
      /\ proc = "loading" /\ size < Len(Paths) /\ Len(Paths) \in Nat
  BY PathFacts DEF LoadNext, LifeInv, LifeTypes, exitVars
<1>2. CASE LoadFails(l) /\ UNCHANGED <<capacity, size, context, destroys>>
  <2>1. LifeTypes'
    BY <1>1, <1>2 DEF LifeInv, LifeTypes, LoadFails
  <2>2. QED
    BY <1>1, <1>2, <2>1 DEF LifeInv, LoadFails, DestroyedOnce, Fate, Holders
<1>3. CASE quality[l] = "good" /\ ~LoadFails(l)
  <2>0. Moved = {}
    BY NeverMoved
  <2>1. /\ mapped' = [mapped EXCEPT ![l] = @ + 1]
        /\ context' = [j \in Instances |-> IF j = k THEN "live" ELSE context[j]]
        /\ destroys' = [j \in Instances |-> destroys[j]]
        /\ size' = k /\ proc' = proc
    BY <1>3, <2>0 DEF LoadNext, LoadFails
  <2>2. capacity' = capacity /\ capacity = Len(Paths)
    <3>1. capacity = Len(Paths)
      BY <1>1 DEF LoadNext, Reserved, LifeInv, LifeTypes
    <3>2. QED
      BY <1>1, <1>3, <3>1 DEF LoadNext, LoadFails
  <2>3. LifeTypes'
    BY <1>1, <2>1, <2>2 DEF LifeInv, LifeTypes
  <2>4. \A j \in Instances : context'[j] = Fate(j)'
    BY <1>1, <2>1, PathFacts DEF LifeInv, Fate
  <2>5. DestroyedOnce'
    <3>1. context[k] = "none"
      BY <1>1 DEF LifeInv, Fate
    <3>2. QED
      BY <2>1, <3>1 DEF LifeInv, DestroyedOnce
  <2>6. ASSUME NEW m \in Libs
        PROVE  mapped'[m] = Cardinality(Holders(m)')
    <3>0. unwound \in Nat /\ size \in Nat
      BY <1>1
    <3>1. IsFiniteSet(Holders(m))
      BY <3>0, HoldersFinite DEF Holders
    <3>2. CASE m = l
      <4>1. Holders(m)' = Holders(m) \cup {k} /\ k \notin Holders(m)
        BY <1>1, <2>1, <3>2 DEF Holders
      <4>2. Cardinality(Holders(m)') = Cardinality(Holders(m)) + 1
        BY <3>1, <4>1, FS_AddElement
      <4>3. QED
        BY <1>1, <2>1, <3>2, <4>2 DEF LifeInv, LifeTypes
    <3>3. CASE m # l
      <4>1. Holders(m)' = Holders(m)
        BY <1>1, <2>1, <3>3 DEF Holders
      <4>2. QED
        BY <1>1, <2>1, <3>3, <4>1 DEF LifeInv, LifeTypes
    <3>4. QED
      BY <3>2, <3>3
  <2>7. QED
    BY <1>1, <2>1, <2>2, <2>3, <2>4, <2>5, <2>6 DEF LifeInv
<1>4. QED
  BY <1>2, <1>3 DEF LoadNext, LoadFails

\* An element is destroyed: first its context, then its hold of the library.
LEMMA UnwindLife == ASSUME LifeInv, Unwind PROVE LifeInv'
<1> DEFINE k == unwound + 1
           l == Paths[k]
<1>1. /\ unwound \in Nat /\ size \in Nat /\ k \in 1..size /\ k \in Instances
      /\ l \in Libs /\ proc = "exiting" /\ proc' = proc
      /\ UNCHANGED <<capacity, size>> /\ stage \in 1..2 /\ size <= Len(Paths)
  BY PathFacts DEF Unwind, LifeInv, LifeTypes
<1>2. CASE stage = 1
  <2>1. /\ context' = [context EXCEPT ![k] = "destroyed"]
        /\ destroys' = [destroys EXCEPT ![k] = @ + 1]
        /\ UNCHANGED <<mapped, unwound>> /\ stage' = 2
    BY <1>2 DEF Unwind, Destructor
  <2>2. LifeTypes'
    BY <1>1, <2>1 DEF LifeInv, LifeTypes
  <2>3. context[k] = "live"
    BY <1>1, <1>2 DEF LifeInv, Fate
  <2>4. \A j \in Instances : context'[j] = Fate(j)'
    BY <1>1, <1>2, <2>1, PathFacts DEF LifeInv, LifeTypes, Fate
  <2>5. DestroyedOnce'
    BY <1>1, <2>1, <2>3 DEF LifeInv, LifeTypes, DestroyedOnce
  <2>6. \A m \in Libs : Holders(m)' = Holders(m)
    BY <1>1, <2>1 DEF Holders
  <2>7. QED
    BY <1>1, <2>1, <2>2, <2>4, <2>5, <2>6 DEF LifeInv
<1>3. CASE stage = 2
  <2>1. /\ mapped' = [mapped EXCEPT ![l] = @ - 1]
        /\ UNCHANGED <<context, destroys>> /\ stage' = 1 /\ unwound' = k
    BY <1>3 DEF Unwind, Destructor
  <2>2. ASSUME NEW m \in Libs
        PROVE  /\ mapped'[m] = Cardinality(Holders(m)')
               /\ mapped'[m] \in Nat
    <3>1. IsFiniteSet(Holders(m)) /\ Cardinality(Holders(m)) \in Nat
      BY <1>1, HoldersFinite, FS_CardinalityType DEF Holders
    <3>2. IsFiniteSet(Holders(m)') /\ Cardinality(Holders(m)') \in Nat
      <4>1. Holders(m)' \subseteq Holders(m)
        BY <1>1, <2>1 DEF Holders
      <4>2. QED
        BY <3>1, <4>1, FS_Subset, FS_CardinalityType
    <3>3. CASE m = l
      <4>1. Holders(m)' = Holders(m) \ {k} /\ k \in Holders(m)
        BY <1>1, <2>1, <3>3 DEF Holders
      <4>2. Cardinality(Holders(m)') = Cardinality(Holders(m)) - 1
        BY <3>1, <4>1, FS_RemoveElement
      <4>3. QED
        BY <1>1, <2>1, <3>2, <3>3, <4>2 DEF LifeInv, LifeTypes
    <3>4. CASE m # l
      <4>1. Holders(m)' = Holders(m)
        BY <1>1, <2>1, <3>4 DEF Holders
      <4>2. QED
        BY <1>1, <2>1, <3>1, <3>4, <4>1 DEF LifeInv, LifeTypes
    <3>5. QED
      BY <3>3, <3>4
  <2>3. LifeTypes'
    BY <1>1, <2>1, <2>2 DEF LifeInv, LifeTypes
  <2>4. \A j \in Instances : context'[j] = Fate(j)'
    BY <1>1, <1>3, <2>1, PathFacts DEF LifeInv, LifeTypes, Fate
  <2>5. DestroyedOnce'
    BY <2>1 DEF LifeInv, DestroyedOnce
  <2>6. QED
    BY <1>1, <2>1, <2>2, <2>3, <2>4, <2>5 DEF LifeInv
<1>4. QED
  BY <1>1, <1>2, <1>3

\* The other steps only move the process on.
LEMMA ProcLife ==
    ASSUME LifeInv, UNCHANGED <<loadVars, exitVars>>,
           \/ UNCHANGED proc
           \/ proc \in {"loading", "mounted"} /\ proc' \in {"mounted", "exiting"}
           \/ proc = "exiting" /\ unwound = size /\ proc' = "exited"
    PROVE  LifeInv'
<1>1. LifeTypes'
  BY DEF LifeInv, LifeTypes, loadVars, exitVars
<1>2. QED
  BY <1>1 DEF LifeInv, loadVars, exitVars, DestroyedOnce, Fate, Holders
-----------------------------------------------------------------------------
(* The threads. *)

\* What CallInv says of one thread.
ThreadInv(t) ==
    /\ at[t] # Idle => at[t].loop # "idle" /\ at[t].k \in 1..size
    /\ at[t].pc = "bind" => at[t].proxies = 0 \/ (at[t].proxies = 1 /\ at[t].loop = "names")
    /\ at[t].pc # "bind" => at[t].proxies \in 1..2
    /\ at[t].pc = "call" => g[t][Paths[at[t].k]] = at[t].k
    /\ \A l \in Libs : g[t][l] # Null =>
         l = Paths[at[t].k] /\ g[t][l] = at[t].k /\ at[t].proxies > 0

\* The set of the places a thread can be at.
Place == [loop : {"idle", "record", "names", "metrics"},
          k : 0..size, pc : {"bind", "call", "unbind"}, proxies : 0..2]

\* CallInv is a statement about each thread by itself.
LEMMA CallInvByThread ==
    CallInv <=> /\ CallTypes
                /\ \A t \in Threads : ThreadInv(t)
                /\ \A t \in Workers : at[t] # Idle => proc = "mounted"
BY DEF CallInv, ThreadInv

\* No thread is in a loop at first.
LEMMA CallInit == Init => CallInv
<1> SUFFICES ASSUME Init PROVE CallInv
  OBVIOUS
<1>1. size = 0 /\ at = [t \in Threads |-> Idle] /\ g = [t \in Threads |-> [l \in Libs |-> Null]]
  BY DEF Init
<1>2. CallTypes
  BY <1>1, IdleFacts DEF CallTypes, Null
<1>3. \A t \in Threads : at[t] = Idle /\ \A l \in Libs : g[t][l] = Null
  BY <1>1
<1>4. QED
  BY <1>2, <1>3, IdleFacts DEF CallInv, Threads

\* A step of one thread leaves the others where they are.
LEMMA OneThread ==
    ASSUME CallInv, NEW t \in Threads, NEW place \in Place, NEW bound,
           bound \in [Libs -> Instances \cup {Null}],
           at' = [at EXCEPT ![t] = place], g' = [g EXCEPT ![t] = bound],
           UNCHANGED <<size, proc>>,
           ThreadInv(t)',
           t \in Workers /\ place # Idle => proc = "mounted"
    PROVE  CallInv'
<1>1. CallTypes'
  BY DEF CallInv, CallTypes, Place
<1>2. ASSUME NEW u \in Threads PROVE ThreadInv(u)'
  <2>1. CASE u = t
    BY <2>1
  <2>2. CASE u # t
    <3>1. at'[u] = at[u] /\ g'[u] = g[u]
      BY <2>2 DEF CallInv, CallTypes
    <3>2. ThreadInv(u)
      BY CallInvByThread
    <3>3. QED
      BY <3>1, <3>2 DEF ThreadInv
  <2>3. QED
    BY <2>1, <2>2
<1>3. ASSUME NEW u \in Workers, at'[u] # Idle PROVE proc' = "mounted"
  <2>1. u \in Threads
    BY DEF Threads
  <2>2. CASE u = t
    BY <1>3, <2>1, <2>2 DEF CallInv, CallTypes
  <2>3. CASE u # t
    BY <1>3, <2>1, <2>3 DEF CallInv, CallTypes
  <2>4. QED
    BY <2>2, <2>3
<1>4. QED
  BY <1>1, <1>2, <1>3 DEF CallInv, ThreadInv

\* A thread that begins is at the first plugin and bound to none.
LEMMA BeginCall ==
    ASSUME LifeInv, CallInv, NEW t \in Threads, NEW loop \in {"record", "names"},
           at[t] = Idle, size > 0,
           at' = [at EXCEPT ![t] = Before(loop, 1)],
           UNCHANGED <<g, size, proc>>,
           t \in Workers => proc = "mounted"
    PROVE  CallInv'
<1> DEFINE place == Before(loop, 1)
<1>1. place \in Place /\ place.pc = "bind" /\ place.proxies = 0 /\ place.k = 1 /\ place.loop = loop
  <2>1. size \in Nat /\ 1 \in 0..size
    BY DEF LifeInv, LifeTypes
  <2>2. QED
    BY <2>1 DEF Place, Before
<1>2. g[t] \in [Libs -> Instances \cup {Null}] /\ g' = [g EXCEPT ![t] = g[t]]
  BY DEF CallInv, CallTypes
<1>3. \A l \in Libs : g[t][l] = Null
  BY IdleFacts DEF CallInv
<1>4. ThreadInv(t)'
  <2>1. at'[t] = place /\ g'[t] = g[t]
    BY DEF CallInv, CallTypes
  <2>2. 1 \in 1..size'
    BY DEF LifeInv, LifeTypes
  <2>3. QED
    BY <1>1, <1>3, <2>1, <2>2 DEF ThreadInv
<1>5. QED
  BY <1>1, <1>2, <1>4, OneThread

\* What is known of a thread in a loop.
LEMMA BusyFacts ==
    ASSUME LifeInv, CallInv, NEW t \in Threads, at[t] # Idle
    PROVE  /\ at[t] \in Place /\ g[t] \in [Libs -> Instances \cup {Null}]
           /\ ThreadInv(t)
           /\ at[t].k \in 1..size /\ at[t].k \in Instances /\ Paths[at[t].k] \in Libs
           /\ at[t].k # Null
           /\ t \in Workers => proc = "mounted"
<1>1. at[t] \in Place /\ g[t] \in [Libs -> Instances \cup {Null}]
  BY DEF CallInv, CallTypes, Place
<1>2. ThreadInv(t)
  BY CallInvByThread
<1>3. at[t].k \in 1..size /\ size \in 0..Len(Paths)
  BY <1>2 DEF ThreadInv, LifeInv, LifeTypes
<1>4. at[t].k \in Instances
  BY <1>3, PathFacts
<1>5. QED
  BY <1>1, <1>2, <1>3, <1>4, PathFacts DEF CallInv, Null

\* Binding.
LEMMA BindCall == ASSUME LifeInv, CallInv, NEW t \in Threads, Bind(t) PROVE CallInv'
<1> DEFINE k == at[t].k
           place == [at[t] EXCEPT !.pc = "call", !.proxies = at[t].proxies + 1]
           bound == [g[t] EXCEPT ![Paths[k]] = k]
<1>1. at[t] # Idle /\ at[t].pc = "bind" /\ UNCHANGED <<size, proc>>
  BY DEF Bind, ctrlVars, loadVars
<1>2. /\ at[t] \in Place /\ g[t] \in [Libs -> Instances \cup {Null}] /\ ThreadInv(t)
      /\ k \in 1..size /\ k \in Instances /\ Paths[k] \in Libs /\ k # Null
      /\ t \in Workers => proc = "mounted"
  BY <1>1, BusyFacts
<1>3. at[t].proxies \in 0..1
  BY <1>1, <1>2 DEF ThreadInv
<1>4. /\ place \in Place /\ place.k = k /\ place.pc = "call" /\ place.loop = at[t].loop
      /\ place.proxies = at[t].proxies + 1
  <2>1. at[t].proxies + 1 \in 0..2
    BY <1>3
  <2>2. at[t] \in Place
    BY <1>2
  <2>3. QED
    BY <2>1, <2>2 DEF Place
<1>5. bound \in [Libs -> Instances \cup {Null}] /\ bound[Paths[k]] = k
  BY <1>2
<1>6. at' = [at EXCEPT ![t] = place] /\ g' = [g EXCEPT ![t] = bound]
  BY DEF Bind, Step, CallInv, CallTypes
<1>7. at'[t] = place /\ g'[t] = bound
  BY <1>6 DEF CallInv, CallTypes
<1>8. ThreadInv(t)'
  <2>1. \A l \in Libs : bound[l] # Null => l = Paths[k] /\ bound[l] = k
    BY <1>2, <1>5 DEF ThreadInv
  <2>2. at[t].loop # "idle"
    BY <1>1, <1>2 DEF ThreadInv
  <2>3. QED
    BY <1>1, <1>2, <1>3, <1>4, <1>5, <1>7, <2>1, <2>2 DEF ThreadInv
<1>9. QED
  BY <1>1, <1>2, <1>4, <1>5, <1>6, <1>8, OneThread

\* The call through the proxy.
LEMMA CallCall == ASSUME LifeInv, CallInv, NEW t \in Threads, Call(t) PROVE CallInv'
<1> DEFINE pc == IF at[t].proxies < Proxies(at[t].loop) THEN "bind" ELSE "unbind"
           place == [at[t] EXCEPT !.pc = pc, !.proxies = at[t].proxies]
<1>1. at[t] # Idle /\ at[t].pc = "call" /\ UNCHANGED <<g, size, proc>>
  BY IdleFacts DEF Call, ctrlVars, loadVars
<1>2. /\ at[t] \in Place /\ g[t] \in [Libs -> Instances \cup {Null}] /\ ThreadInv(t)
      /\ at[t].k \in 1..size
      /\ t \in Workers => proc = "mounted"
  BY <1>1, BusyFacts
<1>3. at[t].proxies \in 1..2 /\ at[t].loop # "idle"
  BY <1>1, <1>2 DEF ThreadInv
<1>4. /\ place \in Place /\ place.k = at[t].k /\ place.pc = pc /\ place.loop = at[t].loop
      /\ place.proxies = at[t].proxies
  BY <1>2 DEF Place
<1>5. at' = [at EXCEPT ![t] = place] /\ g' = [g EXCEPT ![t] = g[t]]
  BY <1>1, <1>2, <1>4 DEF Call, Step, CallInv, CallTypes, Place
<1>6. at'[t] = place /\ g'[t] = g[t]
  BY <1>5 DEF CallInv, CallTypes
<1>7. pc = "bind" => at[t].proxies = 1 /\ at[t].loop = "names"
  BY <1>3 DEF Proxies
<1>8. ThreadInv(t)'
  BY <1>1, <1>2, <1>3, <1>4, <1>6, <1>7 DEF ThreadInv
<1>9. QED
  BY <1>1, <1>2, <1>4, <1>5, <1>8, OneThread

\* A thread that is done with a plugin is before the next one, or done.
LEMMA AfterFacts ==
    ASSUME LifeInv, CallInv, NEW t \in Threads, at[t] # Idle
    PROVE  /\ After(t) \in Place
           /\ After(t).pc = "bind" /\ After(t).proxies = 0
           /\ After(t) # Idle => After(t).loop # "idle" /\ After(t).k \in 1..size
<1>1. /\ at[t] \in Place /\ at[t].k \in 1..size /\ at[t].loop # "idle"
  BY BusyFacts DEF ThreadInv
<1>2. size \in Nat
  BY PathFacts DEF LifeInv, LifeTypes
<1>3. CASE at[t].k < size
  <2>1. After(t) = Before(at[t].loop, at[t].k + 1)
    BY <1>3 DEF After
  <2>2. at[t].k + 1 \in 1..size /\ at[t].k + 1 \in 0..size
    BY <1>1, <1>2, <1>3
  <2>3. After(t) \in Place
    BY <1>1, <2>1, <2>2 DEF Place, Before
  <2>4. /\ After(t).pc = "bind" /\ After(t).proxies = 0
        /\ After(t).k = at[t].k + 1 /\ After(t).loop = at[t].loop
    BY <2>1 DEF Before
  <2>5. QED
    BY <1>1, <2>2, <2>3, <2>4
<1>4. CASE ~(at[t].k < size) /\ at[t].loop = "names"
  <2>1. After(t) = Before("metrics", 1)
    BY <1>4 DEF After
  <2>2. 1 \in 1..size /\ 1 \in 0..size
    BY <1>1, <1>2
  <2>3. QED
    BY <2>1, <2>2 DEF Before, Place
<1>5. CASE ~(at[t].k < size) /\ at[t].loop # "names"
  <2>1. After(t) = Idle
    BY <1>5 DEF After
  <2>2. QED
    BY <1>2, <2>1, IdleFacts DEF Place
<1>6. QED
  BY <1>3, <1>4, <1>5

\* Unbinding.
LEMMA UnbindCall == ASSUME LifeInv, CallInv, NEW t \in Threads, Unbind(t) PROVE CallInv'
<1> DEFINE k == at[t].k
           place == Leave(t)
           bound == [g[t] EXCEPT ![Paths[k]] = Null]
<1>1. at[t] # Idle /\ at[t].pc = "unbind" /\ UNCHANGED <<size, proc>>
  BY IdleFacts DEF Unbind, ctrlVars, loadVars
<1>2. /\ at[t] \in Place /\ g[t] \in [Libs -> Instances \cup {Null}] /\ ThreadInv(t)
      /\ k \in 1..size /\ Paths[k] \in Libs
      /\ t \in Workers => proc = "mounted"
  BY <1>1, BusyFacts
<1>3. at[t].proxies \in 1..2 /\ at[t].loop # "idle"
  BY <1>1, <1>2 DEF ThreadInv
<1>4. bound \in [Libs -> Instances \cup {Null}] /\ \A l \in Libs : bound[l] = Null
  BY <1>2 DEF ThreadInv
<1>5. at' = [at EXCEPT ![t] = place] /\ g' = [g EXCEPT ![t] = bound]
  BY DEF Unbind, CallInv, CallTypes
<1>6. CASE at[t].proxies > 1
  <2>1. at[t].proxies - 1 \in 0..2 /\ at[t].proxies - 1 \in 1..2
    BY <1>3, <1>6
  <2>2. /\ place \in Place /\ place.k = k /\ place.pc = "unbind"
        /\ place.proxies \in 1..2 /\ place.loop # "idle"
    BY <1>1, <1>2, <1>3, <1>6, <2>1 DEF Place, Leave
  <2>3. at'[t] = place /\ g'[t] = bound
    BY <1>5 DEF CallInv, CallTypes
  <2>4. ThreadInv(t)'
    BY <1>1, <1>2, <1>4, <2>2, <2>3 DEF ThreadInv
  <2>5. QED
    BY <1>1, <1>2, <1>4, <1>5, <2>2, <2>4, OneThread
<1>7. CASE ~(at[t].proxies > 1)
  <2>1. place = After(t)
    BY <1>7 DEF Leave
  <2>2. at'[t] = After(t) /\ g'[t] = bound
    BY <1>5, <2>1 DEF CallInv, CallTypes
  <2>3. ThreadInv(t)'
    BY <1>1, <1>4, <2>2, AfterFacts DEF ThreadInv
  <2>4. QED
    BY <1>1, <1>2, <1>4, <1>5, <2>1, <2>3, AfterFacts, OneThread
<1>8. QED
  BY <1>6, <1>7

\* Passing over a plugin without metrics.
LEMMA SkipCall == ASSUME LifeInv, CallInv, NEW t \in Threads, SkipMetrics(t) PROVE CallInv'
<1>1. /\ at[t] # Idle /\ at[t].pc = "bind" /\ at[t].loop = "metrics"
      /\ UNCHANGED <<g, size, proc>>
  BY IdleFacts DEF SkipMetrics, ctrlVars, loadVars
<1>2. /\ g[t] \in [Libs -> Instances \cup {Null}] /\ ThreadInv(t)
      /\ t \in Workers => proc = "mounted"
  BY <1>1, BusyFacts
<1>3. \A l \in Libs : g[t][l] = Null
  BY <1>1, <1>2 DEF ThreadInv
<1>4. at' = [at EXCEPT ![t] = After(t)] /\ g' = [g EXCEPT ![t] = g[t]]
  BY <1>1 DEF SkipMetrics, CallInv, CallTypes
<1>5. at'[t] = After(t) /\ g'[t] = g[t]
  BY <1>4 DEF CallInv, CallTypes
<1>6. ThreadInv(t)'
  BY <1>1, <1>3, <1>5, AfterFacts DEF ThreadInv
<1>7. QED
  BY <1>1, <1>2, <1>4, <1>6, AfterFacts, OneThread

\* The steps of main leave the threads alone; the vector only grows.
LEMMA MainCall ==
    ASSUME LifeInv, CallInv, UNCHANGED <<g, at>>, size' \in Nat, size <= size',
           \/ UNCHANGED proc
           \/ proc \in {"loading", "exiting"}
           \/ \A t \in Workers : at[t] = Idle
    PROVE  CallInv'
<1>1. CallTypes'
  <2>1. 0..size \subseteq 0..size'
    BY PathFacts DEF LifeInv, LifeTypes
  <2>2. QED
    BY <2>1 DEF CallInv, CallTypes
<1>2. \A t \in Threads : at[t] # Idle => at[t].k \in 1..size'
  BY PathFacts DEF CallInv, LifeInv, LifeTypes
<1>3. \A t \in Workers : at'[t] # Idle => proc' = "mounted"
  BY DEF CallInv
<1>4. QED
  BY <1>1, <1>2, <1>3 DEF CallInv
-----------------------------------------------------------------------------
(* Every step keeps the invariant. *)

\* The whole invariant at the start.
LEMMA HostInit == Init => HostInv
BY LifeInit, CallInit DEF HostInv

\* The steps of main.
LEMMA MainStep ==
    ASSUME HostInv, Reserve \/ LoadNext \/ Mount \/ Unmount \/ Unwind \/ Exit
    PROVE  HostInv'
<1> USE DEF HostInv
<1>1. size \in Nat
  BY PathFacts DEF LifeInv, LifeTypes
<1>2. CASE Reserve
  <2>1. UNCHANGED <<g, at, size, proc>>
    BY <1>2 DEF Reserve, callVars
  <2>2. QED
    BY <1>1, <1>2, <2>1, ReserveLife, MainCall
<1>3. CASE LoadNext
  <2>1. UNCHANGED <<g, at>> /\ proc = "loading" /\ size' \in {size, size + 1}
    BY <1>3 DEF LoadNext, callVars
  <2>2. size' \in Nat /\ size <= size'
    BY <1>1, <2>1
  <2>3. QED
    BY <1>3, <2>1, <2>2, LoadLife, MainCall
<1>4. CASE Mount
  <2>1. /\ UNCHANGED <<g, at, size>> /\ UNCHANGED <<loadVars, exitVars>>
        /\ proc = "loading" /\ proc' \in {"mounted", "exiting"}
    BY <1>4 DEF Mount, callVars, loadVars
  <2>2. QED
    BY <1>1, <2>1, ProcLife, MainCall
<1>5. CASE Unmount
  <2>1. /\ UNCHANGED <<g, at, size>> /\ UNCHANGED <<loadVars, exitVars>>
        /\ proc = "mounted" /\ proc' = "exiting" /\ \A t \in Workers : at[t] = Idle
    BY <1>5 DEF Unmount, callVars, loadVars
  <2>2. QED
    BY <1>1, <2>1, ProcLife, MainCall
<1>6. CASE Unwind
  <2>1. UNCHANGED <<g, at, size, proc>>
    BY <1>6 DEF Unwind, callVars
  <2>2. QED
    BY <1>1, <1>6, <2>1, UnwindLife, MainCall
<1>7. CASE Exit
  <2>1. /\ UNCHANGED <<g, at, size>> /\ UNCHANGED <<loadVars, exitVars>>
        /\ proc = "exiting" /\ unwound = size /\ proc' = "exited"
    BY <1>7 DEF Exit, callVars, loadVars
  <2>2. QED
    BY <1>1, <2>1, ProcLife, MainCall
<1>8. QED
  BY <1>2, <1>3, <1>4, <1>5, <1>6, <1>7

\* The steps of a thread.
LEMMA ThreadStep ==
    ASSUME HostInv, NEW t \in Threads, Thread(t)
    PROVE  HostInv'
<1> USE DEF HostInv
<1>1. UNCHANGED <<loadVars, exitVars>> /\ UNCHANGED proc /\ UNCHANGED size
  BY DEF Thread, BeginRecord, BeginScrape, Bind, Call, Unbind, SkipMetrics, ctrlVars, loadVars
<1>2. LifeInv'
  BY <1>1, ProcLife
<1>3. CASE BeginRecord(t)
  <2>1. /\ at[t] = Idle /\ size > 0 /\ UNCHANGED g /\ proc = "mounted"
        /\ at' = [at EXCEPT ![t] = Before("record", 1)]
    BY <1>3 DEF BeginRecord
  <2>2. QED
    BY <1>1, <1>2, <2>1, BeginCall
<1>4. CASE BeginScrape(t)
  <2>1. /\ at[t] = Idle /\ size > 0 /\ UNCHANGED g /\ t \in Pollers
        /\ at' = [at EXCEPT ![t] = Before("names", 1)]
    BY <1>4 DEF BeginScrape
  <2>2. t \notin Workers
    BY <2>1, PluginHostAssumption
  <2>3. QED
    BY <1>1, <1>2, <2>1, <2>2, BeginCall
<1>5. CASE Bind(t) \/ Call(t) \/ Unbind(t) \/ SkipMetrics(t)
  BY <1>2, <1>5, BindCall, CallCall, UnbindCall, SkipCall
<1>6. QED
  BY <1>3, <1>4, <1>5 DEF Thread

\* HostInv is inductive.
LEMMA HostInvAlways == Spec => []HostInv
<1>1. HostInv /\ [Next]_vars => HostInv'
  <2> SUFFICES ASSUME HostInv, [Next]_vars PROVE HostInv'
    OBVIOUS
  <2>1. CASE Next
    BY <2>1, MainStep, ThreadStep DEF Next
  <2>2. CASE UNCHANGED vars
    <3>1. /\ UNCHANGED <<loadVars, exitVars>> /\ UNCHANGED proc
          /\ UNCHANGED size /\ UNCHANGED <<g, at>>
      BY <2>2 DEF vars, loadVars, exitVars
    <3>2. size \in Nat
      BY PathFacts DEF HostInv, LifeInv, LifeTypes
    <3>3. QED
      BY <3>1, <3>2, ProcLife, MainCall DEF HostInv
  <2>3. QED
    BY <2>1, <2>2
<1>2. QED
  BY <1>1, HostInit, PTL DEF Spec
-----------------------------------------------------------------------------
(* What follows. *)

\* A context exists as long as its element has not been destroyed, and so does
\* the element's share of the library.
LEMMA LiveHolds ==
    ASSUME LifeInv, NEW k \in Instances, context[k] = "live"
    PROVE  mapped[Paths[k]] > 0
<1>1. /\ k \in (unwound + 1)..size /\ unwound \in Nat /\ size \in Nat
      /\ Paths[k] \in Libs
  <2>1. /\ unwound \in Nat /\ size \in Nat /\ k \in Nat /\ Paths[k] \in Libs
    BY PathFacts DEF LifeInv, LifeTypes
  <2>2. Fate(k) = "live"
    BY DEF LifeInv
  <2>3. k <= size /\ ~(k <= unwound)
    BY <2>1, <2>2 DEF Fate
  <2>4. QED
    BY <2>1, <2>3
<1>2. k \in Holders(Paths[k])
  BY <1>1 DEF Holders
<1>3. IsFiniteSet(Holders(Paths[k]))
  BY <1>1, HoldersFinite DEF Holders
<1>4. Cardinality(Holders(Paths[k])) \in Nat /\ Cardinality(Holders(Paths[k])) # 0
  BY <1>2, <1>3, FS_CardinalityType, FS_EmptySet
<1>5. QED
  BY <1>1, <1>4 DEF LifeInv

\* The code of a library stays mapped as long as one of its contexts lives:
\* ~PluginInstance destroys the context before m_lib is released, and a library
\* that was named twice stays until its last element goes.
THEOREM LibrariesOutliveContexts == Spec => []ContextNeedsLibrary
<1>1. HostInv => ContextNeedsLibrary
  BY LiveHolds DEF HostInv, ContextNeedsLibrary
<1>2. QED
  BY <1>1, HostInvAlways, PTL

\* No context is destroyed twice: the vector is reserved, so that no element is
\* ever moved from.
THEOREM NeverDestroyedTwice == Spec => []DestroyedOnce
<1>1. HostInv => DestroyedOnce
  BY DEF HostInv, LifeInv
<1>2. QED
  BY <1>1, HostInvAlways, PTL

\* record() and, until main returns, a scrape only use contexts that are alive and
\* code that is mapped.
THEOREM CallsAreSafe == Spec => []CallInUse
<1>1. HostInv => CallInUse
  <2> SUFFICES ASSUME HostInv, NEW t \in Threads, Covered(t), at[t] # Idle
               PROVE  context[at[t].k] = "live" /\ mapped[Paths[at[t].k]] > 0
    BY DEF CallInUse
  <2>1. at[t].k \in 1..size /\ at[t].k \in Instances /\ (t \in Workers => proc = "mounted")
    BY BusyFacts DEF HostInv
  <2>2. proc = "mounted"
    BY <2>1 DEF Covered
  <2>3. unwound = 0 /\ stage = 1 /\ size \in Nat
    BY <2>2, PathFacts DEF HostInv, LifeInv, LifeTypes
  <2>4. Fate(at[t].k) = "live"
    BY <2>1, <2>3 DEF Fate
  <2>5. context[at[t].k] = "live"
    BY <2>1, <2>4 DEF HostInv, LifeInv
  <2>6. QED
    BY <2>1, <2>5, LiveHolds DEF HostInv
<1>2. QED
  BY <1>1, HostInvAlways, PTL

\* A call runs on the context it is meant for: the binding is per thread, and a
\* thread is in one loop at a time.
THEOREM CallsReachTheirOwn == Spec => []BoundToOwn
<1>1. HostInv => BoundToOwn
  BY DEF HostInv, CallInv, BoundToOwn
<1>2. QED
  BY <1>1, HostInvAlways, PTL

\* A thread that is done with a plugin does not stay bound to it.
THEOREM NoStaleBinding == Spec => []BoundOnlyInside
<1>1. HostInv => BoundOnlyInside
  BY DEF HostInv, CallInv, BoundOnlyInside
<1>2. QED
  BY <1>1, HostInvAlways, PTL

\* At the end nothing is left mapped or alive, however far the loading had come.
THEOREM NothingIsLeft == Spec => []AllReleased
<1>1. HostInv => AllReleased
  <2> SUFFICES ASSUME HostInv, proc = "exited" PROVE AllReleased
    BY DEF AllReleased
  <2>1. unwound = size /\ size \in Nat
    BY PathFacts DEF HostInv, LifeInv, LifeTypes
  <2>2. \A l \in Libs : Holders(l) = {}
    BY <2>1 DEF Holders
  <2>3. Cardinality({}) = 0
    BY FS_EmptySet
  <2>4. \A l \in Libs : mapped[l] = 0
    BY <2>2, <2>3 DEF HostInv, LifeInv
  <2>5. \A k \in Instances : context[k] # "live"
    BY <2>1, PathFacts DEF HostInv, LifeInv, Fate
  <2>6. QED
    BY <2>4, <2>5 DEF AllReleased
<1>2. QED
  BY <1>1, HostInvAlways, PTL
-----------------------------------------------------------------------------
(* Type correctness. *)

\* The types of the variables that HostInv leaves out.
RestTypes ==
    /\ quality \in [Libs -> {"good", "missing", "invalid"}]
    /\ server \in BOOLEAN
    /\ served \in [Instances -> Nat]
    /\ calls \in Nat /\ scrapes \in Nat

\* A call counts for the context it runs on.
LEMMA ServedStep ==
    ASSUME HostInv, RestTypes, NEW t \in Threads, Call(t)
    PROVE  RestTypes'
<1>1. at[t] # Idle
  BY IdleFacts DEF Call
<1>2. g[t][Paths[at[t].k]] \in Instances \cup {Null}
  BY <1>1, BusyFacts DEF HostInv
<1>3. served' \in [Instances -> Nat]
  BY <1>2 DEF Call, RestTypes
<1>4. QED
  BY <1>3 DEF Call, ctrlVars, RestTypes

\* Every step keeps these types.
LEMMA RestStep ==
    ASSUME HostInv, RestTypes, [Next]_vars
    PROVE  RestTypes'
<1>1. CASE Reserve \/ LoadNext \/ Unmount \/ Unwind \/ Exit \/ UNCHANGED vars
  BY <1>1 DEF RestTypes, Reserve, LoadNext, Unmount, Unwind, Exit, vars, callVars
<1>2. CASE Mount
  BY <1>2 DEF RestTypes, Mount, callVars
<1>3. ASSUME NEW t \in Threads, Thread(t) PROVE RestTypes'
  <2>1. CASE BeginRecord(t) \/ BeginScrape(t)
    BY <2>1 DEF RestTypes, BeginRecord, BeginScrape
  <2>2. CASE Bind(t) \/ Unbind(t) \/ SkipMetrics(t)
    BY <2>2 DEF RestTypes, Bind, Unbind, SkipMetrics, ctrlVars
  <2>3. CASE Call(t)
    BY <2>3, ServedStep
  <2>4. QED
    BY <1>3, <2>1, <2>2, <2>3 DEF Thread
<1>4. QED
  BY <1>1, <1>2, <1>3 DEF Next

\* The state of the host is well-typed, for any command line.
THEOREM TypesAreKept == Spec => []TypeOK
<1>1. Init => RestTypes
  <2> SUFFICES ASSUME Init PROVE RestTypes
    OBVIOUS
  <2>1. calls = 0 /\ scrapes = 0 /\ served = [k \in Instances |-> 0]
    BY DEF Init
  <2>2. server = FALSE /\ quality \in [Libs -> {"good", "missing", "invalid"}]
    BY DEF Init
  <2>3. QED
    BY <2>1, <2>2 DEF RestTypes
<1>2. HostInv /\ RestTypes /\ [Next]_vars => RestTypes'
  BY RestStep
<1>3. HostInv /\ RestTypes => TypeOK
  <2> SUFFICES ASSUME HostInv, RestTypes PROVE TypeOK
    OBVIOUS
  <2>1. capacity \in Nat
    BY PathFacts DEF HostInv, LifeInv, LifeTypes
  <2>2. {destroys, served} \subseteq [Instances -> Nat]
    BY DEF HostInv, LifeInv, LifeTypes, RestTypes
  <2>3. QED
    BY <2>1, <2>2 DEF HostInv, LifeInv, LifeTypes, CallInv, CallTypes, RestTypes, TypeOK
<1>4. QED
  BY <1>1, <1>2, <1>3, HostInvAlways, PTL DEF Spec
-----------------------------------------------------------------------------
(* The fan-out of record().  A plugin has seen every call but those of the   *)
(* threads that have not come past it.                                       *)

\* The threads that are in record() and have not called plugin k yet.
Waits(a, k) == a.loop = "record" /\ (a.k < k \/ (a.k = k /\ a.pc # "unbind"))
Missing(k) == {t \in Threads : Waits(at[t], k)}

\* What a plugin has seen and what it will see are all calls.
FanInv ==
    /\ proc = "mounted" => size = Len(Paths)
    /\ \A t \in Threads : at[t].loop = "record" => t \in Workers
    /\ \A k \in Instances :
         IsFiniteSet(Missing(k)) /\ calls = served[k] + Cardinality(Missing(k))

\* The invariant that the steps rest on.
FanBase == HostInv /\ RestTypes /\ FanInv

\* A step of a thread that changes nothing for the plugins.
LEMMA FanKept ==
    ASSUME FanBase, NEW t \in Threads, NEW place, at' = [at EXCEPT ![t] = place],
           \A k \in Instances : Waits(place, k) <=> Waits(at[t], k),
           place.loop = "record" => t \in Workers,
           UNCHANGED <<proc, size, calls, served>>
    PROVE  FanInv'
<1>1. at \in [Threads -> Place]
  BY DEF FanBase, HostInv, CallInv, CallTypes, Place
<1>2. at'[t] = place /\ \A u \in Threads \ {t} : at'[u] = at[u]
  BY <1>1
<1>3. ASSUME NEW k \in Instances PROVE Missing(k)' = Missing(k)
  <2>1. \A u \in Threads : Waits(at'[u], k) <=> Waits(at[u], k)
    BY <1>2
  <2>2. QED
    BY <2>1 DEF Missing
<1>4. QED
  BY <1>2, <1>3 DEF FanBase, FanInv

\* A new call is missing everywhere.
LEMMA FanBegin == ASSUME FanBase, NEW t \in Threads, BeginRecord(t) PROVE FanInv'
<1>1. at \in [Threads -> Place] /\ at[t] = Idle /\ t \in Workers
  BY DEF FanBase, HostInv, CallInv, CallTypes, Place, BeginRecord
<1>2. /\ at'[t] = Before("record", 1) /\ \A u \in Threads \ {t} : at'[u] = at[u]
      /\ calls' = calls + 1 /\ UNCHANGED <<served, proc, size>>
  BY <1>1 DEF BeginRecord, loadVars
<1>3. ASSUME NEW k \in Instances
      PROVE  IsFiniteSet(Missing(k)') /\ calls' = served'[k] + Cardinality(Missing(k)')
  <2>1. ~Waits(at[t], k) /\ Waits(at'[t], k)
    <3>1. k \in Nat /\ k >= 1
      BY PathFacts
    <3>2. QED
      BY <1>1, <1>2, <3>1, IdleFacts DEF Waits, Before
  <2>2. Missing(k)' = Missing(k) \cup {t} /\ t \notin Missing(k)
    <3>1. \A u \in Threads : Waits(at'[u], k) <=> Waits(at[u], k) \/ u = t
      BY <1>2, <2>1
    <3>2. QED
      BY <2>1, <3>1 DEF Missing
  <2>3. /\ IsFiniteSet(Missing(k)) /\ calls = served[k] + Cardinality(Missing(k))
        /\ served[k] \in Nat
    BY DEF FanBase, FanInv, RestTypes
  <2>4. /\ IsFiniteSet(Missing(k)') /\ Cardinality(Missing(k)') = Cardinality(Missing(k)) + 1
        /\ Cardinality(Missing(k)) \in Nat
    BY <2>2, <2>3, FS_AddElement, FS_CardinalityType
  <2>5. QED
    BY <1>2, <2>3, <2>4
<1>4. \A u \in Threads : at'[u].loop = "record" => u \in Workers
  BY <1>1, <1>2 DEF FanBase, FanInv
<1>5. QED
  BY <1>2, <1>3, <1>4 DEF FanBase, FanInv

\* A call that reaches its plugin is missing there no more.
LEMMA FanCall ==
    ASSUME FanBase, NEW t \in Threads, Call(t), at[t].loop = "record" PROVE FanInv'
<1> DEFINE n == at[t].k
<1>1. /\ at \in [Threads -> Place] /\ at[t].pc = "call" /\ at[t] # Idle
      /\ n \in 1..size /\ n \in Instances /\ at[t].proxies \in 1..2
  <2>1. at[t].pc = "call" /\ at[t] # Idle
    BY IdleFacts DEF Call
  <2>2. at[t].k \in 1..size /\ at[t].k \in Instances /\ at[t].proxies \in 1..2
    BY <2>1, BusyFacts DEF FanBase, HostInv, CallInv
  <2>3. QED
    BY <2>1, <2>2 DEF FanBase, HostInv, CallInv, CallTypes, Place
<1>2. g[t][Paths[n]] = n /\ n # Null
  BY <1>1, PathFacts DEF FanBase, HostInv, CallInv, Null
<1>3. /\ at' = [at EXCEPT ![t].pc = "unbind", ![t].proxies = at[t].proxies]
      /\ served' = [served EXCEPT ![n] = @ + 1] /\ UNCHANGED <<calls, proc, size>>
  <2>1. ~(at[t].proxies < Proxies(at[t].loop))
    BY <1>1 DEF Proxies
  <2>2. QED
    BY <1>2, <2>1 DEF Call, Step, ctrlVars, loadVars
<1>4. /\ at'[t].loop = "record" /\ at'[t].k = n /\ at'[t].pc = "unbind"
      /\ \A u \in Threads \ {t} : at'[u] = at[u]
  BY <1>1, <1>3 DEF Place
<1>5. ASSUME NEW k \in Instances
      PROVE  IsFiniteSet(Missing(k)') /\ calls' = served'[k] + Cardinality(Missing(k)')
  <2>0. n \in Nat /\ k \in Nat
    BY <1>1, PathFacts
  <2>1. /\ IsFiniteSet(Missing(k)) /\ calls = served[k] + Cardinality(Missing(k))
        /\ served \in [Instances -> Nat] /\ Cardinality(Missing(k)) \in Nat
    BY FS_CardinalityType DEF FanBase, FanInv, RestTypes
  <2>2. CASE k = n
    <3>1. Waits(at[t], k) /\ ~Waits(at'[t], k)
      BY <1>1, <1>4, <2>0, <2>2 DEF Waits
    <3>2. Missing(k)' = Missing(k) \ {t} /\ t \in Missing(k)
      <4>1. \A u \in Threads : Waits(at'[u], k) <=> Waits(at[u], k) /\ u # t
        BY <1>4, <3>1
      <4>2. QED
        BY <3>1, <4>1 DEF Missing
    <3>3. IsFiniteSet(Missing(k)') /\ Cardinality(Missing(k)') = Cardinality(Missing(k)) - 1
      BY <2>1, <3>2, FS_RemoveElement
    <3>4. served'[k] = served[k] + 1 /\ served[k] \in Nat
      BY <1>3, <2>1, <2>2
    <3>5. QED
      BY <1>3, <2>1, <3>3, <3>4
  <2>3. CASE k # n
    <3>1. Waits(at'[t], k) <=> Waits(at[t], k)
      BY <1>1, <1>4, <2>0, <2>3 DEF Waits
    <3>2. \A u \in Threads : Waits(at'[u], k) <=> Waits(at[u], k)
      BY <1>4, <3>1
    <3>3. Missing(k)' = Missing(k)
      BY <3>2 DEF Missing
    <3>4. QED
      BY <1>3, <2>1, <2>3, <3>3
  <2>4. QED
    BY <2>2, <2>3
<1>6. \A u \in Threads : at'[u].loop = "record" => u \in Workers
  BY <1>4 DEF FanBase, FanInv
<1>7. QED
  BY <1>3, <1>5, <1>6 DEF FanBase, FanInv

\* A thread that leaves a plugin is before the next, or has come past the last.
LEMMA FanLeave == ASSUME FanBase, NEW t \in Threads, Unbind(t) PROVE FanInv'
<1>1. /\ at' = [at EXCEPT ![t] = Leave(t)] /\ at[t].pc = "unbind" /\ at[t] # Idle
      /\ at[t] \in Place /\ UNCHANGED <<proc, size, calls, served>>
  BY IdleFacts DEF Unbind, ctrlVars, loadVars, FanBase, HostInv, CallInv, CallTypes, Place
<1>2. at[t].k \in 1..size /\ size \in Nat /\ Len(Paths) \in Nat
  <2>1. LifeInv /\ CallInv
    BY DEF FanBase, HostInv
  <2>2. at[t].k \in 1..size
    BY <1>1, <2>1, BusyFacts
  <2>3. QED
    BY <2>1, <2>2, PathFacts DEF LifeInv, LifeTypes
<1>3. at[t].loop = "record" => t \in Workers /\ size = Len(Paths)
  BY <1>1 DEF FanBase, HostInv, CallInv, FanInv
<1>4. /\ Leave(t).loop = "record" => at[t].loop = "record"
      /\ \A k \in Instances : Waits(Leave(t), k) <=> Waits(at[t], k)
  <2>1. CASE at[t].proxies > 1
    <3>1. /\ Leave(t).loop = at[t].loop /\ Leave(t).k = at[t].k /\ Leave(t).pc = at[t].pc
      BY <1>1, <2>1 DEF Leave, Place
    <3>2. QED
      BY <3>1 DEF Waits
  <2>2. CASE ~(at[t].proxies > 1) /\ at[t].k < size
    <3>1. Leave(t) = Before(at[t].loop, at[t].k + 1)
      BY <2>2 DEF Leave, After
    <3>2. \A k \in Instances : k \in Nat
      BY PathFacts
    <3>3. QED
      BY <1>1, <1>2, <3>1, <3>2 DEF Waits, Before
  <2>3. CASE ~(at[t].proxies > 1) /\ ~(at[t].k < size)
    <3>1. Leave(t).loop \in {"metrics", "idle"}
      BY <2>3, IdleFacts DEF Leave, After, Before
    <3>2. \A k \in Instances : ~Waits(Leave(t), k)
      BY <3>1 DEF Waits
    <3>3. \A k \in Instances : ~Waits(at[t], k)
      <4>1. at[t].loop = "record" => \A k \in Instances : k \in Nat /\ k <= at[t].k
        BY <1>2, <1>3, <2>3, PathFacts
      <4>2. QED
        BY <1>1, <1>2, <4>1 DEF Waits
    <3>4. QED
      BY <3>1, <3>2, <3>3
  <2>4. QED
    BY <2>1, <2>2, <2>3
<1>5. QED
  BY <1>1, <1>3, <1>4, FanKept

\* Every step of a thread keeps the count.
LEMMA FanThread == ASSUME FanBase, NEW t \in Threads, Thread(t) PROVE FanInv'
<1>1. at[t] \in Place /\ at \in [Threads -> Place]
  BY DEF FanBase, HostInv, CallInv, CallTypes, Place
<1>2. CASE BeginScrape(t)
  <2>1. /\ at' = [at EXCEPT ![t] = Before("names", 1)] /\ at[t] = Idle
        /\ UNCHANGED <<proc, size, calls, served>>
    BY <1>2 DEF BeginScrape, loadVars
  <2>2. \A k \in Instances : ~Waits(Before("names", 1), k) /\ ~Waits(at[t], k)
    BY <2>1, IdleFacts DEF Waits, Before
  <2>3. Before("names", 1).loop # "record"
    BY DEF Before
  <2>4. QED
    BY <2>1, <2>2, <2>3, FanKept
<1>3. CASE Bind(t)
  <2>1. at[t].pc = "bind" /\ UNCHANGED <<proc, size, calls, served>>
    BY <1>3 DEF Bind, ctrlVars, loadVars
  <2>2. PICK place : /\ at' = [at EXCEPT ![t] = place] /\ place.loop = at[t].loop
                     /\ place.k = at[t].k /\ place.pc = "call"
    <3> DEFINE next == [at[t] EXCEPT !.pc = "call", !.proxies = at[t].proxies + 1]
    <3>1. at' = [at EXCEPT ![t] = next]
      BY <1>3 DEF Bind, Step
    <3>2. next.loop = at[t].loop /\ next.k = at[t].k /\ next.pc = "call"
      BY <1>1 DEF Place
    <3>3. QED
      BY <3>1, <3>2
  <2>3. \A k \in Instances : Waits(place, k) <=> Waits(at[t], k)
    BY <2>1, <2>2 DEF Waits
  <2>4. place.loop = "record" => t \in Workers
    BY <2>2 DEF FanBase, FanInv
  <2>5. QED
    BY <2>1, <2>2, <2>3, <2>4, FanKept
<1>4. CASE Call(t) /\ at[t].loop # "record"
  <2>1. UNCHANGED <<proc, size, calls, served>>
    BY <1>4 DEF Call, ctrlVars, loadVars
  <2>2. PICK place : at' = [at EXCEPT ![t] = place] /\ place.loop = at[t].loop
    <3> DEFINE pc == IF at[t].proxies < Proxies(at[t].loop) THEN "bind" ELSE "unbind"
               next == [at[t] EXCEPT !.pc = pc, !.proxies = at[t].proxies]
    <3>1. at' = [at EXCEPT ![t] = next]
      BY <1>4 DEF Call, Step
    <3>2. next.loop = at[t].loop
      BY <1>1 DEF Place
    <3>3. QED
      BY <3>1, <3>2
  <2>3. \A k \in Instances : Waits(place, k) <=> Waits(at[t], k)
    BY <1>4, <2>2 DEF Waits
  <2>4. QED
    BY <1>4, <2>1, <2>2, <2>3, FanKept
<1>5. CASE SkipMetrics(t)
  <2>1. /\ at' = [at EXCEPT ![t] = After(t)] /\ at[t].loop = "metrics"
        /\ UNCHANGED <<proc, size, calls, served>>
    BY <1>5 DEF SkipMetrics, ctrlVars, loadVars
  <2>2. After(t).loop \in {"metrics", "idle"}
    BY <2>1, IdleFacts DEF After, Before
  <2>3. \A k \in Instances : Waits(After(t), k) <=> Waits(at[t], k)
    BY <2>1, <2>2 DEF Waits
  <2>4. QED
    BY <2>1, <2>2, <2>3, FanKept
<1>6. QED
  BY <1>2, <1>3, <1>4, <1>5, FanBegin, FanCall, FanLeave DEF Thread

\* So does every step of main.
LEMMA FanStep == ASSUME FanBase, [Next]_vars PROVE FanInv'
<1>1. CASE Reserve \/ LoadNext \/ Mount \/ Unmount \/ Unwind \/ Exit \/ UNCHANGED vars
  <2>1. UNCHANGED <<at, calls, served>>
    BY <1>1 DEF Reserve, LoadNext, Mount, Unmount, Unwind, Exit, vars, callVars
  <2>2. proc' = "mounted" => size' = Len(Paths)
    BY <1>1 DEF FanBase, FanInv, Reserve, LoadNext, LoadFails, Mount, Unmount, Unwind, Exit, vars,
                loadVars
  <2>3. \A k \in Instances : Missing(k)' = Missing(k)
    BY <2>1 DEF Missing
  <2>4. QED
    BY <2>1, <2>2, <2>3 DEF FanBase, FanInv
<1>2. QED
  BY <1>1, FanThread DEF Next

\* Every plugin sees every operation once, the earlier ones first (monitoring.cc:28-34).
THEOREM EveryPluginSeesAll == Spec => []FanOut
<1>1. Init => RestTypes /\ FanInv
  <2> SUFFICES ASSUME Init PROVE RestTypes /\ FanInv
    OBVIOUS
  <2>1. calls = 0 /\ scrapes = 0 /\ served = [k \in Instances |-> 0] /\ proc = "loading"
    BY DEF Init
  <2>2. server = FALSE /\ quality \in [Libs -> {"good", "missing", "invalid"}]
    BY DEF Init
  <2>3. \A t \in Threads : at[t].loop = "idle"
    BY IdleFacts DEF Init
  <2>4. \A k \in Instances : Missing(k) = {}
    BY <2>3 DEF Missing, Waits
  <2>5. RestTypes
    BY <2>1, <2>2 DEF RestTypes
  <2>6. \A k \in Instances : IsFiniteSet(Missing(k)) /\ calls = served[k] + Cardinality(Missing(k))
    BY <2>1, <2>4, FS_EmptySet
  <2>7. QED
    BY <2>1, <2>3, <2>5, <2>6 DEF FanInv
<1>2. FanBase /\ [Next]_vars => (RestTypes /\ FanInv)'
  BY RestStep, FanStep DEF FanBase
<1>3. FanBase => FanOut
  <2> SUFFICES ASSUME FanBase PROVE FanOut
    OBVIOUS
  <2>1. 1..size \subseteq Instances
    BY PathFacts DEF FanBase, HostInv, LifeInv, LifeTypes
  <2>2. ASSUME NEW k \in 1..size
        PROVE  /\ IsFiniteSet(Missing(k)) /\ Cardinality(Missing(k)) \in Nat /\ served[k] \in Nat
               /\ calls = served[k] + Cardinality(Missing(k))
    BY <2>1, FS_CardinalityType DEF FanBase, FanInv, RestTypes
  <2>3. ASSUME NEW j \in 1..size, NEW k \in 1..size, j < k PROVE served[j] >= served[k]
    <3>1. Missing(j) \subseteq Missing(k)
      <4>1. \A t \in Threads : at[t].k \in 0..size
        BY DEF FanBase, HostInv, CallInv, CallTypes
      <4>2. \A t \in Threads : Waits(at[t], j) => Waits(at[t], k)
        BY <2>3, <4>1 DEF Waits
      <4>3. QED
        BY <4>2 DEF Missing
    <3>2. Cardinality(Missing(j)) <= Cardinality(Missing(k))
      BY <2>2, <3>1, FS_Subset
    <3>3. QED
      BY <2>2, <3>2
  <2>4. ASSUME \A t \in Workers : at[t] = Idle, NEW k \in 1..size PROVE served[k] = calls
    <3>1. Missing(k) = {}
      BY <2>4, IdleFacts DEF Missing, Waits, FanBase, FanInv
    <3>2. QED
      BY <2>2, <3>1, FS_EmptySet
  <2>5. QED
    BY <2>3, <2>4 DEF FanOut
<1>4. FanBase <=> HostInv /\ RestTypes /\ FanInv
  BY DEF FanBase
<1>5. QED
  BY <1>1, <1>2, <1>3, <1>4, HostInvAlways, PTL DEF Spec
=============================================================================
