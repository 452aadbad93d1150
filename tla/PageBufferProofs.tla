--------------------------- MODULE PageBufferProofs ---------------------------
(***************************************************************************)
(* For every size of the buffer, every length of the lines and every list  *)
(* of plugins: no write passes the end of the buffer, and what is on a page *)
(* is the whole text of its plugins.                                       *)
(***************************************************************************)
EXTENDS PageBuffer, SequenceTheorems, TLAPS

\* The first n bytes of the buffer are the first n of the text of plugin k.
Holds(n) == \A i \in 1..n : buf[i] = <<k, i>>

\* The loop of a plugin: as long as there is room, everything formatted is in the
\* buffer; a LastN page that is full is given up at once.
Printing ==
    stage = "lines" =>
        /\ k \notin failed /\ lines > 0 => text[k] > 0
        /\ lines = 0 => offset = 0 /\ text[k] = 0
        /\ offset < BufSize => offset = text[k] /\ Holds(offset)
        /\ offset >= BufSize => text[k] >= BufSize
        /\ Kind = "lastn" => offset <= BufSize
        /\ Kind = "lastn" /\ lines > 1 => offset < BufSize
        /\ Kind = "lastn" => k \notin failed
        /\ Kind = "sample" => lines = 0 /\ k \notin failed

\* What a plugin returned tells whether its section is whole.
Answered ==
    stage = "returned" =>
        /\ Fits(result) => result = text[k] /\ Holds(result)
        /\ k \notin failed /\ text[k] < BufSize => Fits(result)

\* Plugins are polled in order and each starts with no text.
InOrder ==
    /\ \A i \in DOMAIN page : page[i].plugin < k
    /\ \A p \in DOMAIN Plugins :
         p > k \/ (p = k /\ stage = "enter") => text[p] = 0 /\ p \notin failed

\* The inductive invariant of a scrape.
PageInv ==
    /\ TypeOK /\ InBounds /\ SectionsWhole /\ NoneLost
    /\ Printing /\ Answered /\ InOrder
-----------------------------------------------------------------------------
\* A line that is printed where the buffer has room, or is exactly full, stays
\* inside, and extends the text in the buffer when its NUL has room too.
LEMMA PrintStaysInside ==
    ASSUME TypeOK, InBounds, k \in DOMAIN Plugins, offset <= BufSize,
           NEW n \in Lengths, Snprintf(n)
    PROVE  /\ text' = [text EXCEPT ![k] = @ + n]
           /\ text' \in [DOMAIN Plugins -> Nat]
           /\ buf' \in [1..BufSize -> Bytes \cup {Other}]
           /\ extent' \in Nat
           /\ extent' <= BufSize
           /\ offset = text[k] /\ Holds(offset) /\ offset + n < BufSize =>
                  \A i \in 1..(offset + n) : buf'[i] = <<k, i>>
<1> USE PageBufferAssumption
<1>1. /\ offset \in Nat /\ extent \in Nat /\ n \in Nat \ {0} /\ BufSize \in Nat
      /\ text \in [DOMAIN Plugins -> Nat] /\ buf \in [1..BufSize -> Bytes \cup {Other}]
      /\ text[k] \in Nat
  BY DEF TypeOK, Lengths
<1>2. Room = BufSize - offset /\ Room \in Nat
  BY <1>1 DEF Room
<1>3. text' = [text EXCEPT ![k] = @ + n] /\ text' \in [DOMAIN Plugins -> Nat]
  BY <1>1 DEF Snprintf
<1>4. CASE Room = 0
  <2>1. buf' = buf /\ extent' = extent
    BY <1>4 DEF Snprintf
  <2>2. ~(offset + n < BufSize)
    BY <1>1, <1>2, <1>4
  <2> QED BY <1>1, <1>3, <2>1, <2>2 DEF InBounds
<1>5. CASE Room # 0
  <2> DEFINE kept == Kept(n, Room)
  <2>1. kept \in 0..(Room - 1) /\ kept <= n /\ (n < Room => kept = n)
    BY <1>1, <1>2, <1>5 DEF Kept
  <2>2. buf' = [i \in 1..BufSize |->
                  IF i \in (offset + 1)..(offset + kept) THEN <<k, text[k] + i - offset>>
                  ELSE IF i = offset + kept + 1 THEN Other ELSE buf[i]]
    BY <1>5 DEF Snprintf
  <2>3. extent' = IF offset + kept + 1 > extent THEN offset + kept + 1 ELSE extent
    BY <1>5 DEF Snprintf
  <2> HIDE DEF kept
  <2>4. extent' \in Nat /\ extent' <= BufSize
    <3>1. offset + kept + 1 \in Nat /\ offset + kept + 1 <= BufSize
      BY <1>1, <1>2, <2>1
    <3> QED BY <1>1, <2>3, <3>1 DEF InBounds
  <2>5. ASSUME NEW i \in 1..BufSize
        PROVE  buf'[i] \in Bytes \cup {Other}
    <3>1. CASE i \in (offset + 1)..(offset + kept)
      <4>1. buf'[i] = <<k, text[k] + i - offset>>
        BY <2>2, <3>1
      <4>2. text[k] + i - offset \in Nat
        BY <1>1, <2>1, <3>1
      <4> QED BY <4>1, <4>2 DEF Bytes
    <3>2. CASE i \notin (offset + 1)..(offset + kept)
      <4>1. buf'[i] = Other \/ buf'[i] = buf[i]
        BY <2>2, <3>2
      <4> QED BY <4>1, <1>1
    <3> QED BY <3>1, <3>2
  <2>6. buf' \in [1..BufSize -> Bytes \cup {Other}]
    <3>1. buf' = [i \in 1..BufSize |-> buf'[i]]
      BY <2>2
    <3> QED BY <2>5, <3>1
  <2>7. ASSUME offset = text[k], Holds(offset), offset + n < BufSize,
               NEW i \in 1..(offset + n)
        PROVE  buf'[i] = <<k, i>>
    <3>1. kept = n
      BY <1>1, <1>2, <2>1, <2>7
    <3>2. i \in 1..BufSize
      BY <1>1, <2>7
    <3>3. CASE i > offset
      <4>1. i \in (offset + 1)..(offset + kept)
        BY <1>1, <3>1, <3>3
      <4>2. buf'[i] = <<k, text[k] + i - offset>>
        BY <2>2, <3>2, <4>1
      <4>3. text[k] + i - offset = i
        BY <1>1, <2>7, <3>2
      <4> QED BY <4>2, <4>3
    <3>4. CASE i <= offset
      <4>1. i \notin (offset + 1)..(offset + kept) /\ i # offset + kept + 1
        BY <1>1, <3>1, <3>2, <3>4
      <4>2. buf'[i] = buf[i]
        BY <2>2, <3>2, <4>1
      <4>3. i \in 1..offset
        BY <1>1, <3>2, <3>4
      <4> QED BY <4>2, <4>3, <2>7 DEF Holds
    <3> QED BY <1>1, <3>2, <3>3, <3>4
  <2> QED BY <1>3, <2>4, <2>6, <2>7
<1> QED BY <1>4, <1>5

\* What is on the page already does not change while the next plugin prints.
LEMMA PageKept ==
    ASSUME TypeOK, SectionsWhole, NoneLost, InOrder, k \in DOMAIN Plugins,
           page' = page, k' = k, stage' # "enter",
           \A p \in DOMAIN Plugins : p # k => text'[p] = text[p] /\ (p \in failed' <=> p \in failed)
    PROVE  SectionsWhole' /\ NoneLost' /\ InOrder'
<1> USE PageBufferAssumption
<1>1. ASSUME NEW i \in DOMAIN page
      PROVE  page[i].plugin \in DOMAIN Plugins /\ page[i].plugin < k
  <2> DEFINE Item == [plugin : DOMAIN Plugins, bytes : Seq(Bytes \cup {Other})]
  <2>1. page \in Seq(Item)
    BY DEF TypeOK
  <2> HIDE DEF Item
  <2>2. page[i] \in Item
    BY <2>1
  <2> QED BY <2>2 DEF Item, InOrder
<1>2. DOMAIN Plugins \subseteq Nat /\ k \in Nat
  BY DEF TypeOK
<1>3. \A i \in DOMAIN page : page[i].plugin # k /\ text'[page[i].plugin] = text[page[i].plugin]
  BY <1>1, <1>2
<1>4. SectionsWhole'
  BY <1>3 DEF SectionsWhole
<1>5. NoneLost'
  <2>1. \A p \in DOMAIN Plugins : p < k => (Shown(p))' = Shown(p)
    BY <1>2 DEF Shown
  <2>2. Sections' = Sections
    BY DEF Sections
  <2>3. \A i \in DOMAIN page : Sections[i] = page[i].plugin
    BY DEF Sections
  <2>4. \A i, j \in DOMAIN page' : i < j => Sections'[i] < Sections'[j]
    BY <2>2 DEF NoneLost
  <2>5. \A p \in DOMAIN Plugins : p < k' /\ (Shown(p))' => \E i \in DOMAIN page' : Sections'[i] = p
    BY <2>1, <2>2 DEF NoneLost
  <2>6. \A i \in DOMAIN page' : text'[Sections'[i]] < BufSize
    BY <2>2, <2>3, <1>3 DEF NoneLost
  <2> QED BY <2>4, <2>5, <2>6 DEF NoneLost
<1>6. InOrder'
  BY <1>2 DEF InOrder
<1> QED BY <1>4, <1>5, <1>6

\* One line, printed by any of the three plugins.
LEMMA LinePrinted ==
    ASSUME PageInv, stage = "lines", NEW n \in Lengths, Snprintf(n), offset <= BufSize,
           page' = page, k' = k, stage' # "enter", failed' = failed
    PROVE  /\ SectionsWhole' /\ NoneLost' /\ InOrder'
           /\ InBounds'
           /\ text' \in [DOMAIN Plugins -> Nat] /\ text'[k] = text[k] + n
           /\ buf' \in [1..BufSize -> Bytes \cup {Other}]
           /\ extent' \in Nat
           /\ offset < BufSize /\ offset + n < BufSize =>
                  \A i \in 1..(offset + n) : buf'[i] = <<k, i>>
<1>1. k \in DOMAIN Plugins /\ text \in [DOMAIN Plugins -> Nat]
  BY DEF PageInv, TypeOK
<1>2. /\ text' = [text EXCEPT ![k] = @ + n]
      /\ text' \in [DOMAIN Plugins -> Nat]
      /\ buf' \in [1..BufSize -> Bytes \cup {Other}]
      /\ extent' \in Nat
      /\ extent' <= BufSize
      /\ offset = text[k] /\ Holds(offset) /\ offset + n < BufSize =>
             \A i \in 1..(offset + n) : buf'[i] = <<k, i>>
  BY <1>1, PrintStaysInside DEF PageInv
<1>3. offset < BufSize => offset = text[k] /\ Holds(offset)
  BY DEF PageInv, Printing
<1>4. \A p \in DOMAIN Plugins : p # k => text'[p] = text[p] /\ (p \in failed' <=> p \in failed)
  BY <1>1, <1>2
<1>5. SectionsWhole' /\ NoneLost' /\ InOrder'
  BY <1>1, <1>4, PageKept DEF PageInv
<1>6. text'[k] = text[k] + n
  BY <1>1, <1>2
<1> QED BY <1>2, <1>3, <1>5, <1>6 DEF InBounds

\* A line that could not be formatted.
LEMMA LineFailed ==
    ASSUME PageInv, stage = "lines", PrintFails, page' = page, k' = k, stage' # "enter"
    PROVE  /\ SectionsWhole' /\ NoneLost' /\ InOrder' /\ InBounds'
           /\ failed' \subseteq DOMAIN Plugins /\ k \in failed'
<1>1. k \in DOMAIN Plugins /\ failed \subseteq DOMAIN Plugins
  BY DEF PageInv, TypeOK
<1>2. /\ failed' = failed \cup {k} /\ buf' = buf /\ text' = text /\ extent' = extent
  BY DEF PrintFails
<1>3. SectionsWhole' /\ NoneLost' /\ InOrder'
  BY <1>1, <1>2, PageKept DEF PageInv
<1> QED BY <1>1, <1>2, <1>3 DEF InBounds, PageInv

\* It holds before the first plugin,
LEMMA PageInvInit == Init => PageInv
<1> SUFFICES ASSUME Init PROVE PageInv
  OBVIOUS
<1> USE PageBufferAssumption DEF Init
<1>1. TypeOK
  BY DEF TypeOK, Bytes
<1>2. InBounds /\ SectionsWhole /\ Printing /\ Answered
  BY DEF InBounds, SectionsWhole, Printing, Answered
<1>3. NoneLost /\ InOrder
  BY DEF NoneLost, InOrder, Sections
<1> QED BY <1>1, <1>2, <1>3 DEF PageInv

\* The steps of a plugin that prints line by line.
LEMMA EmitKeeps == ASSUME PageInv, NEW n \in Lengths, Emit(n) PROVE PageInv'
<1> USE PageBufferAssumption
<1>1. /\ stage = "lines" /\ stage' = "lines" /\ Kind = "stats" /\ Kind' = "stats"
      /\ lines' = lines + 1 /\ k' = k /\ result' = result /\ page' = page /\ failed' = failed
      /\ lines < MaxLines
  BY DEF Emit, Kind
<1>2. /\ k \in DOMAIN Plugins /\ offset \in Nat /\ lines \in Nat /\ n \in Nat \ {0}
      /\ text \in [DOMAIN Plugins -> Nat] /\ text[k] \in Nat
  BY <1>1 DEF PageInv, TypeOK, Lengths
<1>3. Answered'
  BY <1>1 DEF Answered
<1>4. CASE offset >= BufSize
  <2>1. /\ text' = [text EXCEPT ![k] = @ + n]
        /\ offset' = offset /\ buf' = buf /\ extent' = extent
    BY <1>4 DEF Emit
  <2>2. \A p \in DOMAIN Plugins : p # k => text'[p] = text[p] /\ (p \in failed' <=> p \in failed)
    BY <1>1, <1>2, <2>1
  <2>3. SectionsWhole' /\ NoneLost' /\ InOrder'
    BY <1>1, <1>2, <2>2, PageKept DEF PageInv
  <2>4. TypeOK'
    BY <1>1, <1>2, <2>1 DEF PageInv, TypeOK
  <2>5. text'[k] = text[k] + n /\ text[k] >= BufSize
    BY <1>1, <1>2, <1>4, <2>1 DEF PageInv, Printing
  <2>6. Printing'
    BY <1>1, <1>2, <1>4, <2>1, <2>5 DEF Printing
  <2> QED BY <1>3, <2>1, <2>3, <2>4, <2>6 DEF PageInv, InBounds
<1>5. CASE offset < BufSize
  <2>1. Snprintf(n) /\ offset' = offset + n
    BY <1>2, <1>5 DEF Emit
  <2>2. /\ SectionsWhole' /\ NoneLost' /\ InOrder'
        /\ InBounds'
        /\ text' \in [DOMAIN Plugins -> Nat] /\ text'[k] = text[k] + n
        /\ buf' \in [1..BufSize -> Bytes \cup {Other}]
        /\ extent' \in Nat
        /\ offset < BufSize /\ offset + n < BufSize =>
               \A i \in 1..(offset + n) : buf'[i] = <<k, i>>
    BY <1>1, <1>2, <1>5, <2>1, LinePrinted
  <2>3. TypeOK'
    BY <1>1, <1>2, <2>1, <2>2 DEF PageInv, TypeOK
  <2>4. offset = text[k]
    BY <1>1, <1>5 DEF PageInv, Printing
  <2>5. Printing'
    BY <1>1, <1>2, <1>5, <2>1, <2>2, <2>4 DEF Printing, Holds
  <2> QED BY <1>3, <2>2, <2>3, <2>5 DEF PageInv
<1> QED BY <1>2, <1>4, <1>5

\* after a line of LastN,
LEMMA LineKeeps == ASSUME PageInv, NEW n \in Lengths, Line(n) PROVE PageInv'
<1> USE PageBufferAssumption
<1>1. /\ stage = "lines" /\ Kind = "lastn" /\ Kind' = "lastn"
      /\ lines' = lines + 1 /\ k' = k /\ page' = page /\ failed' = failed
      /\ lines <= MaxLines /\ Snprintf(n) /\ offset' = offset + n
  BY DEF Line, Kind
<1>2. /\ k \in DOMAIN Plugins /\ offset \in Nat /\ lines \in Nat /\ n \in 1..MaxLine
      /\ text \in [DOMAIN Plugins -> Nat] /\ text[k] \in Nat /\ result \in Nat
  BY <1>1 DEF PageInv, TypeOK, Lengths
<1>3. /\ offset <= BufSize
      /\ lines = 0 => offset = 0 /\ text[k] = 0
      /\ lines > 1 => offset < BufSize
      /\ k \notin failed
      /\ offset < BufSize => offset = text[k]
      /\ offset >= BufSize => text[k] >= BufSize
  BY <1>1 DEF PageInv, Printing
<1>4. \/ lines > 0 /\ offset + n >= BufSize /\ stage' = "returned" /\ result' = BufSize
      \/ ~(lines > 0 /\ offset + n >= BufSize) /\ stage' = "lines" /\ result' = result
  BY <1>1 DEF Line, Return
<1>5. /\ SectionsWhole' /\ NoneLost' /\ InOrder'
      /\ InBounds'
      /\ text' \in [DOMAIN Plugins -> Nat] /\ text'[k] = text[k] + n
      /\ buf' \in [1..BufSize -> Bytes \cup {Other}]
      /\ extent' \in Nat
      /\ offset < BufSize /\ offset + n < BufSize =>
             \A i \in 1..(offset + n) : buf'[i] = <<k, i>>
  <2>1. stage' # "enter"
    BY <1>4
  <2> QED BY <1>1, <1>3, <2>1, LinePrinted
<1>6. TypeOK'
  BY <1>1, <1>2, <1>4, <1>5 DEF PageInv, TypeOK
<1>7. text'[k] >= offset + n
  BY <1>2, <1>3, <1>5
<1>8. Printing'
  <2> SUFFICES ASSUME stage' = "lines" PROVE Printing'
    BY DEF Printing
  <2>1. lines = 0 \/ offset + n < BufSize
    BY <1>2, <1>4
  <2>2. offset + n <= BufSize
    BY <1>2, <1>3, <2>1
  <2>3. offset < BufSize
    BY <1>2, <2>2
  <2> QED BY <1>1, <1>2, <1>3, <1>5, <1>7, <2>1, <2>2, <2>3 DEF Printing, Holds
<1>9. Answered'
  <2> SUFFICES ASSUME stage' = "returned" PROVE Answered'
    BY DEF Answered
  <2>1. result' = BufSize /\ offset + n >= BufSize
    BY <1>4
  <2>2. text'[k] >= BufSize
    BY <1>2, <1>5, <1>7, <2>1
  <2> QED BY <1>1, <1>2, <1>5, <2>1, <2>2 DEF Answered, Fits
<1> QED BY <1>5, <1>6, <1>8, <1>9 DEF PageInv

\* after the text of the sample plugin,
LEMMA PrintSampleKeeps == ASSUME PageInv, NEW n \in Lengths, PrintSample(n) PROVE PageInv'
<1> USE PageBufferAssumption
<1>1. /\ stage = "lines" /\ stage' = "returned" /\ Kind = "sample"
      /\ result' = n /\ lines' = lines /\ offset' = offset
      /\ k' = k /\ page' = page /\ failed' = failed /\ Snprintf(n)
  BY DEF PrintSample, Return
<1>2. /\ k \in DOMAIN Plugins /\ n \in Nat \ {0} /\ text[k] \in Nat
  BY <1>1 DEF PageInv, TypeOK, Lengths
<1>3. offset = 0 /\ text[k] = 0
  BY <1>1 DEF PageInv, Printing
<1>4. /\ SectionsWhole' /\ NoneLost' /\ InOrder'
      /\ InBounds'
      /\ text' \in [DOMAIN Plugins -> Nat] /\ text'[k] = text[k] + n
      /\ buf' \in [1..BufSize -> Bytes \cup {Other}]
      /\ extent' \in Nat
      /\ offset < BufSize /\ offset + n < BufSize =>
             \A i \in 1..(offset + n) : buf'[i] = <<k, i>>
  BY <1>1, <1>3, LinePrinted
<1>5. TypeOK'
  BY <1>1, <1>2, <1>4 DEF PageInv, TypeOK
<1>6. Printing'
  BY <1>1 DEF Printing
<1>7. Answered'
  BY <1>1, <1>2, <1>3, <1>4 DEF Answered, Fits, Holds
<1> QED BY <1>4, <1>5, <1>6, <1>7 DEF PageInv

\* when snprintf fails,
LEMMA FailuresKeep == ASSUME PageInv, EmitFails \/ LineFails \/ SampleFails PROVE PageInv'
<1> USE PageBufferAssumption
<1>1. /\ stage = "lines" /\ k' = k /\ page' = page /\ offset' = offset /\ PrintFails
      /\ stage' \in {"lines", "returned"}
  BY DEF EmitFails, LineFails, SampleFails, Return
<1>2. k \in DOMAIN Plugins /\ lines \in Nat /\ offset \in Nat
  BY <1>1 DEF PageInv, TypeOK
<1>3. /\ SectionsWhole' /\ NoneLost' /\ InOrder' /\ InBounds'
      /\ failed' \subseteq DOMAIN Plugins /\ k \in failed'
  <2>1. stage' # "enter"
    BY <1>1
  <2> QED BY <1>1, <2>1, LineFailed
<1>4. buf' = buf /\ text' = text /\ extent' = extent
  BY <1>1 DEF PrintFails
<1>5. CASE EmitFails
  <2>1. /\ stage' = "lines" /\ Kind = "stats" /\ Kind' = "stats" /\ result' = result
        /\ lines' = lines + 1 /\ lines < MaxLines /\ offset < BufSize
    BY <1>5 DEF EmitFails, Kind
  <2>2. TypeOK'
    BY <1>1, <1>2, <1>3, <1>4, <2>1 DEF PageInv, TypeOK
  <2>3. Printing'
    BY <1>1, <1>2, <1>3, <1>4, <2>1 DEF PageInv, Printing, Holds
  <2>4. Answered'
    BY <2>1 DEF Answered
  <2> QED BY <1>3, <2>2, <2>3, <2>4 DEF PageInv
<1>6. CASE LineFails \/ SampleFails
  <2>1. stage' = "returned" /\ result' = 0 /\ lines' = lines
    BY <1>6 DEF LineFails, SampleFails, Return
  <2>2. TypeOK'
    BY <1>1, <1>2, <1>3, <1>4, <2>1 DEF PageInv, TypeOK
  <2>3. Printing' /\ Answered'
    BY <1>1, <1>3, <2>1 DEF Printing, Answered, Fits
  <2> QED BY <1>3, <2>2, <2>3 DEF PageInv
<1> QED BY <1>5, <1>6

\* when the next plugin begins,
LEMMA EnterKeeps == ASSUME PageInv, Enter PROVE PageInv'
<1> USE PageBufferAssumption
<1>1. /\ stage = "enter" /\ k \in DOMAIN Plugins /\ stage' = "lines" /\ lines' = 0 /\ offset' = 0
      /\ k' = k /\ result' = result /\ buf' = buf /\ page' = page
      /\ text' = text /\ failed' = failed /\ extent' = extent
  BY DEF Enter, PageInv, TypeOK
<1>2. TypeOK'
  BY <1>1 DEF PageInv, TypeOK
<1>3. SectionsWhole' /\ NoneLost' /\ InOrder'
  <2>1. stage' # "enter"
    BY <1>1
  <2> QED BY <1>1, <2>1, PageKept DEF PageInv
<1>4. text[k] = 0 /\ k \notin failed
  BY <1>1 DEF PageInv, InOrder
<1>5. Printing' /\ Answered'
  BY <1>1, <1>4 DEF Printing, Answered, Holds
<1> QED BY <1>1, <1>2, <1>3, <1>5 DEF PageInv, InBounds

\* when one returns,
LEMMA LoopEndsKeeps == ASSUME PageInv, LoopEnds PROVE PageInv'
<1> USE PageBufferAssumption
<1>1. /\ stage = "lines" /\ lines > 0 /\ stage' = "returned" /\ result' = offset
      /\ k' = k /\ lines' = lines /\ offset' = offset /\ buf' = buf /\ page' = page
      /\ text' = text /\ failed' = failed /\ extent' = extent
  BY DEF LoopEnds, Return
<1>2. k \in DOMAIN Plugins /\ offset \in Nat /\ text[k] \in Nat
  BY <1>1 DEF PageInv, TypeOK
<1>3. TypeOK'
  BY <1>1, <1>2 DEF PageInv, TypeOK
<1>4. SectionsWhole' /\ NoneLost' /\ InOrder'
  <2>1. stage' # "enter"
    BY <1>1
  <2> QED BY <1>1, <1>2, <2>1, PageKept DEF PageInv
<1>5. Answered'
  <2>1. /\ offset < BufSize => offset = text[k] /\ Holds(offset)
        /\ offset >= BufSize => text[k] >= BufSize
        /\ k \notin failed => text[k] > 0
    BY <1>1 DEF PageInv, Printing
  <2> QED BY <1>1, <1>2, <2>1 DEF Answered, Fits, Holds
<1> QED BY <1>1, <1>3, <1>4, <1>5 DEF PageInv, InBounds, Printing

\* The step that decides about a section.
LEMMA TakeSectionKeeps == ASSUME PageInv, TakeSection PROVE PageInv'
<1> USE PageBufferAssumption
<1> DEFINE Item == [plugin : DOMAIN Plugins, bytes : Seq(Bytes \cup {Other})]
<1>1. /\ stage = "returned" /\ stage' = "enter" /\ k' = k + 1
      /\ page' = IF Fits(result) THEN Append(page, Section(result)) ELSE page
      /\ lines' = lines /\ offset' = offset /\ result' = result /\ buf' = buf
      /\ text' = text /\ failed' = failed /\ extent' = extent
  BY DEF TakeSection
<1>2. /\ k \in DOMAIN Plugins /\ k \in Nat /\ k' \in 1..(Len(Plugins) + 1) /\ result \in Nat
      /\ page \in Seq(Item) /\ text[k] \in Nat /\ buf \in [1..BufSize -> Bytes \cup {Other}]
      /\ DOMAIN Plugins = 1..Len(Plugins) /\ Len(Plugins) \in Nat
  BY <1>1 DEF PageInv, TypeOK
<1> HIDE DEF Item
<1>3. /\ Fits(result) => result = text[k] /\ Holds(result)
      /\ k \notin failed /\ text[k] < BufSize => Fits(result)
  BY <1>1 DEF PageInv, Answered
<1>4. InOrder'
  <2>1. \A p \in DOMAIN Plugins : p > k' \/ p = k' => text'[p] = 0 /\ p \notin failed'
    BY <1>1, <1>2 DEF PageInv, InOrder
  <2>2. \A i \in DOMAIN page : page[i].plugin < k + 1
    <3> SUFFICES ASSUME NEW i \in DOMAIN page PROVE page[i].plugin < k + 1
      OBVIOUS
    <3>1. page[i] \in Item
      BY <1>2
    <3>2. page[i].plugin \in Nat /\ page[i].plugin < k
      BY <1>2, <3>1 DEF Item, PageInv, InOrder
    <3> QED BY <1>2, <3>2
  <2>3. \A i \in DOMAIN page' : page'[i].plugin < k'
    <3>1. CASE Fits(result)
      <4>1. page' = Append(page, Section(result)) /\ Section(result).plugin = k
        BY <1>1, <3>1 DEF Section
      <4> QED BY <1>1, <1>2, <2>2, <4>1
    <3>2. CASE ~Fits(result)
      BY <1>1, <2>2, <3>2
    <3> QED BY <3>1, <3>2
  <2> QED BY <1>1, <1>2, <2>1, <2>3 DEF InOrder
<1>5. CASE ~Fits(result)
  <2>1. page' = page
    BY <1>1, <1>5
  <2>2. TypeOK'
    BY <1>1, <1>2, <2>1 DEF PageInv, TypeOK
  <2>3. SectionsWhole'
    BY <1>1, <2>1 DEF PageInv, SectionsWhole
  <2>4. NoneLost'
    BY <1>1, <1>2, <1>3, <1>5, <2>1 DEF PageInv, NoneLost, Sections, Shown
  <2> QED BY <1>1, <1>4, <2>2, <2>3, <2>4 DEF PageInv, InBounds, Printing, Answered
<1>6. CASE Fits(result)
  <2> DEFINE sec == Section(result)
  <2>1. page' = Append(page, sec)
    BY <1>1, <1>6
  <2>2. result = text[k] /\ result < BufSize /\ result > 0 /\ Holds(result)
    BY <1>3, <1>6 DEF Fits
  <2>3. sec.plugin = k /\ sec.bytes = [i \in 1..result |-> buf[i]]
    BY DEF Section
  <2>4. sec.bytes = [j \in 1..text[k] |-> <<k, j>>]
    BY <2>2, <2>3 DEF Holds
  <2>5. sec \in Item
    <3>1. \A i \in 1..result : buf[i] \in Bytes \cup {Other}
      BY <1>2, <2>2
    <3>2. [i \in 1..result |-> buf[i]] \in Seq(Bytes \cup {Other})
      BY <1>2, <3>1, IsASeq
    <3> QED BY <1>2, <3>2 DEF Item, Section
  <2> HIDE DEF sec
  <2>6. page' \in Seq(Item) /\ Len(page') = Len(page) + 1
    BY <1>2, <2>1, <2>5
  <2>7. \A i \in DOMAIN page' : (i \in DOMAIN page /\ page'[i] = page[i]) \/ (i = Len(page) + 1 /\ page'[i] = sec)
    BY <1>2, <2>1, <2>5
  <2>8. Len(page) + 1 \in DOMAIN page' /\ page'[Len(page) + 1] = sec
        /\ \A i \in DOMAIN page : i \in DOMAIN page' /\ page'[i] = page[i]
    BY <1>2, <2>1, <2>5
  <2>9. TypeOK'
    BY <1>1, <1>2, <2>6 DEF PageInv, TypeOK, Item
  <2>10. SectionsWhole'
    <3> SUFFICES ASSUME NEW i \in DOMAIN page'
                 PROVE  page'[i].bytes = [j \in 1..text[page'[i].plugin] |-> <<page'[i].plugin, j>>]
      BY <1>1 DEF SectionsWhole
    <3>1. CASE i \in DOMAIN page /\ page'[i] = page[i]
      BY <3>1 DEF PageInv, SectionsWhole
    <3>2. CASE page'[i] = sec
      BY <2>3, <2>4, <3>2
    <3> QED BY <2>7, <3>1, <3>2
  <2>11. NoneLost'
    <3>1. \A i \in DOMAIN page : page[i].plugin \in Nat /\ page[i].plugin < k
      <4> SUFFICES ASSUME NEW i \in DOMAIN page PROVE page[i].plugin \in Nat /\ page[i].plugin < k
        OBVIOUS
      <4>1. page[i] \in Item
        BY <1>2
      <4> QED BY <1>2, <4>1 DEF Item, PageInv, InOrder
    <3>2. \A i \in DOMAIN page' : Sections'[i] = page'[i].plugin
      BY DEF Sections
    <3>3. \A i \in DOMAIN page : Sections[i] = page[i].plugin
      BY DEF Sections
    <3>4. \A i, j \in DOMAIN page' : i < j => Sections'[i] < Sections'[j]
      <4> SUFFICES ASSUME NEW i \in DOMAIN page', NEW j \in DOMAIN page', i < j
                   PROVE page'[i].plugin < page'[j].plugin
        BY <3>2
      <4>1. i \in DOMAIN page /\ page'[i] = page[i]
        BY <1>2, <2>6, <2>7
      <4>2. CASE j \in DOMAIN page /\ page'[j] = page[j]
        BY <3>3, <4>1, <4>2 DEF PageInv, NoneLost
      <4>3. CASE page'[j] = sec
        BY <2>3, <3>1, <4>1, <4>3
      <4> QED BY <2>7, <4>2, <4>3
    <3>5. \A p \in DOMAIN Plugins : p < k' /\ (Shown(p))' => \E i \in DOMAIN page' : Sections'[i] = p
      <4> SUFFICES ASSUME NEW p \in DOMAIN Plugins, p < k', (Shown(p))'
                   PROVE  \E i \in DOMAIN page' : page'[i].plugin = p
        BY <3>2
      <4>1. CASE p = k
        BY <2>3, <2>8, <4>1
      <4>2. CASE p < k
        <5>1. Shown(p)
          BY <1>1 DEF Shown
        <5>2. PICK i \in DOMAIN page : page[i].plugin = p
          BY <3>3, <4>2, <5>1 DEF PageInv, NoneLost
        <5> QED BY <2>8, <5>2
      <4> QED BY <1>1, <1>2, <4>1, <4>2
    <3>6. \A i \in DOMAIN page' : text'[Sections'[i]] < BufSize
      BY <1>1, <2>2, <2>3, <2>7, <3>2, <3>3 DEF PageInv, NoneLost
    <3> QED BY <3>4, <3>5, <3>6 DEF NoneLost
  <2> QED BY <1>1, <1>4, <2>9, <2>10, <2>11 DEF PageInv, InBounds, Printing, Answered
<1> QED BY <1>5, <1>6

\* and so in every step.
LEMMA PageInvNext == PageInv /\ [Next]_vars => PageInv'
<1> SUFFICES ASSUME PageInv, [Next]_vars PROVE PageInv'
  OBVIOUS
<1>1. CASE UNCHANGED vars
  BY <1>1 DEF vars, PageInv, TypeOK, InBounds, SectionsWhole, NoneLost, Sections, Shown,
              Printing, Answered, InOrder, Holds, Kind, Fits
<1>2. CASE Next
  BY <1>2, EnterKeeps, LoopEndsKeeps, TakeSectionKeeps, EmitKeeps, LineKeeps,
     PrintSampleKeeps, FailuresKeep DEF Next
<1> QED BY <1>1, <1>2

\* Every variable keeps its type: in particular the buffer holds bytes of the
\* plugins, or none of theirs.
THEOREM PageTypes == Spec => []TypeOK
<1> QED BY PageInvInit, PageInvNext, PTL DEF Spec, PageInv

\* No snprintf of emit() or of the LastN plugin writes behind the buffer.
THEOREM NoOverrun == Spec => []InBounds
<1> QED BY PageInvInit, PageInvNext, PTL DEF Spec, PageInv

\* What generate_prometheus_output() appends is the whole text of the plugin.
THEOREM NoCutSection == Spec => []SectionsWhole
<1> QED BY PageInvInit, PageInvNext, PTL DEF Spec, PageInv

\* The plugins whose text fits are on the page in their order, and no others.
THEOREM AllThatFitIsShown == Spec => []NoneLost
<1> QED BY PageInvInit, PageInvNext, PTL DEF Spec, PageInv
=============================================================================
