------------------------------ MODULE PageBuffer ------------------------------
(***************************************************************************)
(* The bytes of a page: generate_prometheus_output() hands one buffer, the  *)
(* thread's own and kept between scrapes, to the plugins in turn.  Each     *)
(* prints into it with snprintf, which cuts what does not fit and returns   *)
(* the length it would have had, and returns a size from which the caller   *)
(* decides whether the buffer holds a section of the page.                  *)
(*                                                                         *)
(* The text of a plugin is the bytes <<k, 1>>, <<k, 2>>, ... of the lines   *)
(* that could be formatted; lengths of lines are arbitrary.  A size_t wraps *)
(* at MaxSize.  text, failed and extent are history variables.              *)
(***************************************************************************)
EXTENDS Integers, Sequences

CONSTANTS
    Plugins,    \* the kinds of the plugins, in the order of m_plugins
    BufSize,    \* PLUGIN_BUFFER_BYTES
    MaxSize,    \* the largest size_t
    MaxLine,    \* bound on the length of a line
    MaxLines    \* bound on the lines of a section (LAST_N for the LastN plugin)

ASSUME PageBufferAssumption ==
    /\ Plugins \in Seq({"stats", "lastn", "sample"})
    /\ BufSize \in Nat \ {0}
    /\ MaxLine \in Nat \ {0}
    /\ MaxLines \in Nat
    /\ MaxSize \in Nat
    /\ BufSize + MaxLine <= MaxSize
    /\ MaxLine <= BufSize   \* the header of a LastN page fits: 113 bytes of 4 MiB

VARIABLES
    k,        \* the plugin that is polled, Len(Plugins) + 1 after the last
    stage,    \* "enter", "lines" (in its loop) or "returned"
    lines,    \* the lines it has come past
    offset,   \* its local variable
    result,   \* what it returned
    buf,      \* the buffer of the thread
    page,     \* the sections appended to the page so far
    text,     \* history: text[k] is the length of what k formatted
    failed,   \* history: the plugins for which snprintf has failed
    extent    \* history: the number of bytes from buf that were ever written

vars == <<k, stage, lines, offset, result, buf, page, text, failed, extent>>
-----------------------------------------------------------------------------
Kind == Plugins[k]
Lengths == 1..MaxLine
Bytes == (DOMAIN Plugins) \X Nat

\* A terminating NUL, or a byte of an earlier page.
Other == <<0, 0>>

\* buf_size - offset, in size_t.
Room == IF offset <= BufSize THEN BufSize - offset
        ELSE MaxSize + 1 + BufSize - offset

\* The bytes snprintf(buf + offset, room, ...) keeps of a text of length n.
Kept(n, room) == IF n < room THEN n ELSE room - 1

\* snprintf(buf + offset, Room, ...) of n bytes: what fits of them, and a NUL.
Snprintf(n) ==
    /\ text' = [text EXCEPT ![k] = @ + n]
    /\ IF Room = 0
       THEN UNCHANGED <<buf, extent>>
       ELSE /\ buf' = [i \in 1..BufSize |->
                         IF i \in (offset + 1)..(offset + Kept(n, Room))
                         THEN <<k, text[k] + i - offset>>
                         ELSE IF i = offset + Kept(n, Room) + 1 THEN Other ELSE buf[i]]
            /\ extent' = IF offset + Kept(n, Room) + 1 > extent
                         THEN offset + Kept(n, Room) + 1 ELSE extent

PrintFails ==
    /\ failed' = failed \cup {k}
    /\ UNCHANGED <<buf, text, extent>>

Return(n) == stage' = "returned" /\ result' = n

Init ==
    /\ k = 1
    /\ stage = "enter"
    /\ lines = 0
    /\ offset = 0
    /\ result = 0
    /\ buf = [i \in 1..BufSize |-> Other]
    /\ page = <<>>
    /\ text = [i \in DOMAIN Plugins |-> 0]
    /\ failed = {}
    /\ extent = 0

\* poll_prometheus_metrics() of the next plugin is called.
Enter ==
    /\ stage = "enter"
    /\ k <= Len(Plugins)
    /\ stage' = "lines"
    /\ lines' = 0
    /\ offset' = 0
    /\ UNCHANGED <<k, result, buf, page, text, failed, extent>>

\* Mutant of Emit: the end of the buffer is not looked at.
EmitUnchecked(n) ==
    /\ stage = "lines" /\ Kind = "stats" /\ lines < MaxLines
    /\ lines' = lines + 1
    /\ Snprintf(n)
    /\ offset' = offset + n
    /\ UNCHANGED <<k, stage, result, page, failed>>

\* emit() of StatsPlugin: the lines behind one that was cut are not printed.
Emit(n) ==
    /\ stage = "lines" /\ Kind = "stats" /\ lines < MaxLines
    /\ lines' = lines + 1
    /\ IF offset >= BufSize
       THEN /\ text' = [text EXCEPT ![k] = @ + n]
            /\ UNCHANGED <<offset, buf, extent>>
       ELSE /\ Snprintf(n)
            /\ offset' = offset + n
    /\ UNCHANGED <<k, stage, result, page, failed>>

\* A line that cannot be formatted is left out, the next is printed.
EmitFails ==
    /\ stage = "lines" /\ Kind = "stats" /\ lines < MaxLines
    /\ offset < BufSize
    /\ lines' = lines + 1
    /\ PrintFails
    /\ UNCHANGED <<k, stage, offset, result, page>>

\* Mutant of Line: the end of the buffer is not looked at.
LineOverrun(n) ==
    /\ stage = "lines" /\ Kind = "lastn" /\ lines <= MaxLines
    /\ lines' = lines + 1
    /\ Snprintf(n)
    /\ offset' = offset + n
    /\ UNCHANGED <<k, stage, result, page, failed>>

\* One snprintf of LastNPlugin.  After an entry, but not after the header, it
\* looks whether the buffer is full; then the page is given up.
Line(n) ==
    /\ stage = "lines" /\ Kind = "lastn" /\ lines <= MaxLines
    /\ lines' = lines + 1
    /\ Snprintf(n)
    /\ offset' = offset + n
    /\ IF lines > 0 /\ offset + n >= BufSize
       THEN Return(BufSize)
       ELSE UNCHANGED <<stage, result>>
    /\ UNCHANGED <<k, page, failed>>

\* A line that cannot be formatted is the end of its page.
LineFails ==
    /\ stage = "lines" /\ Kind = "lastn" /\ lines <= MaxLines
    /\ PrintFails
    /\ Return(0)
    /\ UNCHANGED <<k, lines, offset, page>>

\* poll_metrics() of StatsPlugin or of LastNPlugin comes to its end.
LoopEnds ==
    /\ stage = "lines"
    /\ Kind \in {"stats", "lastn"}
    /\ lines > 0
    /\ Return(offset)
    /\ UNCHANGED <<k, lines, offset, buf, page, text, failed, extent>>

\* poll_metrics() of SamplePlugin prints its section at once.
PrintSample(n) ==
    /\ stage = "lines" /\ Kind = "sample"
    /\ Snprintf(n)
    /\ Return(n)
    /\ UNCHANGED <<k, lines, offset, page, failed>>
SampleFails ==
    /\ stage = "lines" /\ Kind = "sample"
    /\ PrintFails
    /\ Return(0)
    /\ UNCHANGED <<k, lines, offset, page>>

\* Mutants of Fits: a buffer that is exactly full counts as a section; an empty
\* or a short one does not.
FitsFull(n) == n > 0 /\ n <= BufSize
FitsShort(n) == n > 1 /\ n < BufSize
Fits(n) == n > 0 /\ n < BufSize

\* generate_prometheus_output() appends what was written, if it can tell that it
\* is whole, and goes on to the next plugin.
Section(n) == [plugin |-> k, bytes |-> [i \in 1..n |-> buf[i]]]
TakeSection ==
    /\ stage = "returned"
    /\ page' = IF Fits(result) THEN Append(page, Section(result)) ELSE page
    /\ k' = k + 1
    /\ stage' = "enter"
    /\ UNCHANGED <<lines, offset, result, buf, text, failed, extent>>

Next ==
    \/ Enter \/ LoopEnds \/ TakeSection
    \/ \E n \in Lengths : Emit(n) \/ Line(n) \/ PrintSample(n)
    \/ EmitFails \/ LineFails \/ SampleFails

Spec == Init /\ [][Next]_vars
-----------------------------------------------------------------------------
TypeOK ==
    /\ k \in 1..(Len(Plugins) + 1)
    /\ stage \in {"enter", "lines", "returned"}
    /\ stage # "enter" => k \in DOMAIN Plugins
    /\ lines \in 0..(MaxLines + 1)
    /\ offset \in Nat
    /\ result \in Nat
    /\ buf \in [1..BufSize -> Bytes \cup {Other}]
    /\ page \in Seq([plugin : DOMAIN Plugins, bytes : Seq(Bytes \cup {Other})])
    /\ text \in [DOMAIN Plugins -> Nat]
    /\ failed \subseteq DOMAIN Plugins
    /\ extent \in Nat

\* No plugin writes behind the buffer, although the room that is left for a
\* line is computed by a subtraction that would wrap.
InBounds == extent <= BufSize

\* A section of the page is the text of its plugin from the first to the last
\* byte: not cut (monitoring.cc:73), no NUL, nothing of an earlier plugin or page.
SectionsWhole ==
    \A i \in DOMAIN page :
        page[i].bytes = [j \in 1..text[page[i].plugin] |-> <<page[i].plugin, j>>]

\* A plugin whose text leaves room for a NUL is on the page, once and in order
\* of the plugins; others are not on it.
Shown(p) == p \notin failed /\ text[p] < BufSize
Sections == [i \in DOMAIN page |-> page[i].plugin]
NoneLost ==
    /\ \A i, j \in DOMAIN page : i < j => Sections[i] < Sections[j]
    /\ \A p \in DOMAIN Plugins : p < k /\ Shown(p) => \E i \in DOMAIN page : Sections[i] = p
    /\ \A i \in DOMAIN page : text[Sections[i]] < BufSize
=============================================================================
