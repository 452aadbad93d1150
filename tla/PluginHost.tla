----------------------------- MODULE PluginHost -----------------------------
(***************************************************************************)
(* The life of the plugins: Monitoring::load_plugins and the PluginInstance *)
(* objects of its vector, the calls of worker and HTTP threads through the *)
(* proxy that binds a context to the calling thread, and the end of the    *)
(* process, which destroys the singleton.  The HTTP threads are detached    *)
(* and may go on until the process is gone.                                *)
(*                                                                         *)
(* The k-th path of the command line makes the k-th element of m_plugins    *)
(* and, if its init succeeds, the context k.  A library that is named twice *)
(* is mapped once: its instances share its thread-local g_instance.         *)
(***************************************************************************)
EXTENDS Naturals, Sequences

CONSTANTS
    Libs,      \* the plugin libraries
    Paths,     \* the libraries named on the command line, in order
    Workers,   \* threads of the FUSE loop
    Pollers,   \* threads of the HTTP server
    MaxCalls   \* bound on the number of records and scrapes

ASSUME PluginHostAssumption ==
    /\ Paths \in Seq(Libs)
    /\ Workers \cap Pollers = {}
    /\ MaxCalls \in Nat

Threads == Workers \cup Pollers
Instances == DOMAIN Paths
Null == 0   \* no context

VARIABLES
    quality,   \* quality[l] is "good", or what is wrong with the library
    proc,      \* "loading", "mounted", "exiting" or "exited"
    server,    \* whether the HTTP threads have been started
    capacity,  \* of m_plugins
    size,      \* the number of its elements
    mapped,    \* mapped[l] is the reference count of the library
    context,   \* context[k]: "none", "live" or "destroyed"
    destroys,  \* history: destroys[k] is how often destroy was called for it
    unwound,   \* the number of elements destroyed when the process ends,
    stage,     \* and what has been done of the destructor of the next one
    g,         \* g[t][l] is g_instance of the library in that thread
    at,        \* at[t] is where the thread is in its loop over the plugins
    calls,     \* history: the number of records begun,
    served,    \* and served[k] that of the calls of record that reached context k
    scrapes    \* history: the number of scrapes begun

vars == <<quality, proc, server, capacity, size, mapped, context, destroys, unwound, stage,
          g, at, calls, served, scrapes>>
loadVars == <<capacity, size, mapped, context, destroys>>
exitVars == <<unwound, stage>>
callVars == <<g, at, calls, served, scrapes>>

\* A thread before the k-th element in a loop over m_plugins.  pc is its next step
\* in the full expression that uses the element, proxies those alive.
Before(loop, k) == [loop |-> loop, k |-> k, pc |-> "bind", proxies |-> 0]
Idle == Before("idle", 0)

\* The line about a plugin asks for its name and its version in one expression.
Proxies(loop) == IF loop = "names" THEN 2 ELSE 1

Init ==
    /\ quality \in [Libs -> {"good", "missing", "invalid"}]
    /\ proc = "loading"
    /\ server = FALSE
    /\ capacity = 0
    /\ size = 0
    /\ mapped = [l \in Libs |-> 0]
    /\ context = [k \in Instances |-> "none"]
    /\ destroys = [k \in Instances |-> 0]
    /\ unwound = 0
    /\ stage = 1
    /\ g = [t \in Threads |-> [l \in Libs |-> Null]]
    /\ at = [t \in Threads |-> Idle]
    /\ calls = 0
    /\ served = [k \in Instances |-> 0]
    /\ scrapes = 0
-----------------------------------------------------------------------------
\* Mutant of Reserved: nothing is reserved.
ReservedNone == 0

Reserved == Len(Paths)

\* m_plugins.reserve
Reserve ==
    /\ proc = "loading"
    /\ capacity = 0 /\ Reserved > 0
    /\ capacity' = Reserved
    /\ UNCHANGED <<quality, proc, server, size, mapped, context, destroys, exitVars, callVars>>

\* A vector that is full moves its elements to a larger block.  The defaulted
\* move leaves m_api and m_ctx in the old ones, so that their destructors
\* destroy every context.
Moved == IF size = capacity THEN 1..size ELSE {}

\* Mutant of LoadFails: the handle is not owned yet when validation fails.
LoadFailsOpen(l) ==
    /\ quality[l] # "good"
    /\ mapped' = [mapped EXCEPT ![l] = @ + (IF quality[l] = "invalid" THEN 1 ELSE 0)]
    /\ proc' = "exiting"

\* The constructor throws and main returns.  If dlopen was successful m_lib closes
\* the library again.
LoadFails(l) ==
    /\ quality[l] # "good"
    /\ UNCHANGED mapped
    /\ proc' = "exiting"

\* m_plugins.emplace_back(path)
LoadNext ==
    LET k == size + 1
        l == Paths[k]
    IN /\ proc = "loading"
       /\ capacity = 0 => Reserved = 0
       /\ size < Len(Paths)
       /\ \/ LoadFails(l) /\ UNCHANGED <<capacity, size, context, destroys>>
          \/ /\ quality[l] = "good"
             /\ mapped' = [mapped EXCEPT ![l] = @ + 1]
             /\ context' = [j \in Instances |-> IF j = k THEN "live"
                                                ELSE IF j \in Moved THEN "destroyed"
                                                ELSE context[j]]
             /\ destroys' = [j \in Instances |-> IF j \in Moved THEN destroys[j] + 1
                                                 ELSE destroys[j]]
             /\ capacity' = IF size < capacity THEN capacity
                            ELSE IF size = 0 THEN 1 ELSE 2 * size
             /\ size' = k
             /\ UNCHANGED proc
       /\ UNCHANGED <<quality, server, exitVars, callVars>>

\* All are loaded and main goes on to fuse_main, which may fail to mount; if it
\* does not, init starts the server.
Mount ==
    /\ proc = "loading"
    /\ size = Len(Paths)
    /\ proc' \in {"mounted", "exiting"}
    /\ server' = (proc' = "mounted")
    /\ UNCHANGED <<quality, loadVars, exitVars, callVars>>

\* fuse_main returns when its workers have ended; the server thread is detached.
Unmount ==
    /\ proc = "mounted"
    /\ \A t \in Workers : at[t] = Idle
    /\ proc' = "exiting"
    /\ UNCHANGED <<quality, server, loadVars, exitVars, callVars>>
-----------------------------------------------------------------------------
\* Monitoring::record is entered.
BeginRecord(t) ==
    /\ t \in Workers
    /\ proc = "mounted" /\ at[t] = Idle /\ calls < MaxCalls
    /\ size > 0
    /\ at' = [at EXCEPT ![t] = Before("record", 1)]
    /\ calls' = calls + 1
    /\ UNCHANGED <<quality, proc, server, loadVars, exitVars, g, served, scrapes>>

\* Monitoring::generate_prometheus_output is entered.
BeginScrape(t) ==
    /\ t \in Pollers
    /\ server /\ proc # "exited" /\ at[t] = Idle /\ scrapes < MaxCalls
    /\ size > 0
    /\ at' = [at EXCEPT ![t] = Before("names", 1)]
    /\ scrapes' = scrapes + 1
    /\ UNCHANGED <<quality, proc, server, loadVars, exitVars, g, calls, served>>

Step(t, pc, proxies) == at' = [at EXCEPT ![t].pc = pc, ![t].proxies = proxies]
ctrlVars == <<quality, proc, server, loadVars, exitVars, calls, scrapes>>

\* Mutant of Bind: g_instance is not thread-local.
BindShared(t) ==
    LET k == at[t].k
    IN /\ at[t] # Idle /\ at[t].pc = "bind"
       /\ g' = [u \in Threads |-> [g[u] EXCEPT ![Paths[k]] = k]]
       /\ Step(t, "call", at[t].proxies + 1)
       /\ UNCHANGED <<ctrlVars, served>>

\* The constructor of the proxy.
Bind(t) ==
    LET k == at[t].k
    IN /\ at[t] # Idle /\ at[t].pc = "bind"
       /\ g' = [g EXCEPT ![t][Paths[k]] = k]
       /\ Step(t, "call", at[t].proxies + 1)
       /\ UNCHANGED <<ctrlVars, served>>

\* The call through it.  A second one binds before the first is destroyed.
Call(t) ==
    LET bound == g[t][Paths[at[t].k]]
    IN /\ at[t].pc = "call"
       /\ Step(t, IF at[t].proxies < Proxies(at[t].loop) THEN "bind" ELSE "unbind",
               at[t].proxies)
       /\ served' = IF at[t].loop = "record" /\ bound # Null
                    THEN [served EXCEPT ![bound] = @ + 1] ELSE served
       /\ UNCHANGED <<ctrlVars, g>>

\* Mutant of After: the loop ends before the last plugin.
AfterSkipsLast(t) ==
    IF at[t].k + 1 < size THEN Before(at[t].loop, at[t].k + 1)
    ELSE IF at[t].loop = "names" THEN Before("metrics", 1)
    ELSE Idle

\* Where a thread is when it is done with a plugin.
After(t) ==
    IF at[t].k < size THEN Before(at[t].loop, at[t].k + 1)
    ELSE IF at[t].loop = "names" THEN Before("metrics", 1)
    ELSE Idle

\* A proxy is gone.
Leave(t) ==
    IF at[t].proxies > 1 THEN [at[t] EXCEPT !.proxies = @ - 1] ELSE After(t)

\* The destructor of the proxy, which binds nothing.
Unbind(t) ==
    /\ at[t].pc = "unbind"
    /\ g' = [g EXCEPT ![t][Paths[at[t].k]] = Null]
    /\ at' = [at EXCEPT ![t] = Leave(t)]
    /\ UNCHANGED <<ctrlVars, served>>

\* A plugin without poll_prometheus_metrics is passed over.
SkipMetrics(t) ==
    /\ at[t].loop = "metrics" /\ at[t].pc = "bind"
    /\ at' = [at EXCEPT ![t] = After(t)]
    /\ UNCHANGED <<ctrlVars, g, served>>
-----------------------------------------------------------------------------
\* Mutant of Destructor: m_lib is released first.
DestructorLibFirst == <<"m_lib", "body">>

\* The body of ~PluginInstance runs, then the members are destroyed.
Destructor == <<"body", "m_lib">>

\* The next step of the destruction of m_plugins, from its first element.
Unwind ==
    LET k == unwound + 1
    IN /\ proc = "exiting"
       /\ unwound < size
       /\ \/ /\ Destructor[stage] = "body"
             /\ context' = [context EXCEPT ![k] = "destroyed"]
             /\ destroys' = [destroys EXCEPT ![k] = @ + 1]
             /\ UNCHANGED mapped
          \/ /\ Destructor[stage] = "m_lib"
             /\ mapped' = [mapped EXCEPT ![Paths[k]] = @ - 1]
             /\ UNCHANGED <<context, destroys>>
       /\ IF stage = 1 THEN stage' = 2 /\ UNCHANGED unwound
                       ELSE stage' = 1 /\ unwound' = k
       /\ UNCHANGED <<quality, proc, server, capacity, size, callVars>>

\* The process is gone, with the threads that are left.
Exit ==
    /\ proc = "exiting"
    /\ unwound = size
    /\ proc' = "exited"
    /\ UNCHANGED <<quality, server, loadVars, exitVars, callVars>>

Thread(t) ==
    \/ BeginRecord(t) \/ BeginScrape(t)
    \/ /\ proc # "exited"
       /\ Bind(t) \/ Call(t) \/ Unbind(t) \/ SkipMetrics(t)

Next ==
    \/ Reserve \/ LoadNext \/ Mount \/ Unmount \/ Unwind \/ Exit
    \/ \E t \in Threads : Thread(t)

Spec == Init /\ [][Next]_vars
-----------------------------------------------------------------------------
TypeOK ==
    /\ quality \in [Libs -> {"good", "missing", "invalid"}]
    /\ proc \in {"loading", "mounted", "exiting", "exited"}
    /\ server \in BOOLEAN
    /\ capacity \in Nat
    /\ size \in 0..Len(Paths) /\ unwound \in 0..size /\ stage \in 1..2
    /\ mapped \in [Libs -> Nat]
    /\ context \in [Instances -> {"none", "live", "destroyed"}]
    /\ {destroys, served} \subseteq [Instances -> Nat]
    /\ g \in [Threads -> [Libs -> Instances \cup {Null}]]
    /\ at \in [Threads -> [loop : {"idle", "record", "names", "metrics"},
                           k : 0..size, pc : {"bind", "call", "unbind"}, proxies : 0..2]]
    /\ calls \in Nat /\ scrapes \in Nat

\* The threads of which the code makes sure that the plugins outlive them: those
\* of the FUSE loop, and those of the HTTP server until main returns.
Covered(t) == t \in Workers \/ proc = "mounted"

\* A call that such a thread makes finds its context alive and its code mapped.
CallInUse ==
    \A t \in Threads : Covered(t) /\ at[t] # Idle =>
        context[at[t].k] = "live" /\ mapped[Paths[at[t].k]] > 0

\* A call runs on the context of the plugin that it is meant for, whatever other
\* threads do with the same library at the same time.
BoundToOwn ==
    \A t \in Threads : at[t].pc = "call" => g[t][Paths[at[t].k]] = at[t].k

\* No thread stays bound to a context that it has finished with.
BoundOnlyInside ==
    \A t \in Threads, l \in Libs : g[t][l] # Null => at[t].k = g[t][l]

\* Every plugin sees every operation: none misses one that a later one sees, and
\* when no operation is under way all have seen all, each once.
FanOut ==
    /\ \A j, k \in 1..size : j < k => served[j] >= served[k]
    /\ (\A t \in Workers : at[t] = Idle) => \A k \in 1..size : served[k] = calls

\* No context is destroyed twice, and none without having been made.
DestroyedOnce ==
    \A k \in Instances : destroys[k] = (IF context[k] = "destroyed" THEN 1 ELSE 0)

\* The code of a library stays mapped as long as it has a context.
ContextNeedsLibrary ==
    \A k \in Instances : context[k] = "live" => mapped[Paths[k]] > 0

\* Nothing is left at the end, also when a plugin in the middle of the command
\* line could not be loaded or the mount failed.
AllReleased ==
    proc = "exited" =>
        /\ \A l \in Libs : mapped[l] = 0
        /\ \A k \in Instances : context[k] # "live"
=============================================================================
