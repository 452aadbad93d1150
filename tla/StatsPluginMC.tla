--------------------------- MODULE StatsPluginMC ---------------------------
(***************************************************************************)
(* Values for the constants of StatsPlugin, and what bounds its one run.   *)
(* Two bounds stand for the six of stats.cc: what matters is a byte count  *)
(* at, between and above them.                                             *)
(***************************************************************************)
EXTENDS StatsPlugin, TLC

TwoBounds == <<2, 4>>

TwoCalls == Len(calls) <= 2
Alike == \A i \in DOMAIN calls : calls[i].op = "read" /\ calls[i].units = 3
FirstPage == \A c \in Cells : shown[c] = 0

\* Two calls with any arguments and no scrape; scrapes without end of two calls that
\* are alike; and a third such call while the first page is printed.
WithinBounds ==
    \/ TwoCalls /\ FirstPage /\ polling = {}
    \/ Alike /\ (TwoCalls \/ FirstPage)

Symmetry == Permutations(Workers) \cup Permutations(Pollers)
=============================================================================
