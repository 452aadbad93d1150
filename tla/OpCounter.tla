------------------------------ MODULE OpCounter ------------------------------
(***************************************************************************)
(* What the file system promises about the numbers of its pages: they are   *)
(* atomic counters of operations.  An operation of the application is       *)
(* counted once in every counter it belongs to, each time in one step       *)
(* between its request and its answer, and a page shows what each counter   *)
(* was in one step between the request for the page and the page.           *)
(***************************************************************************)
EXTENDS Naturals

CONSTANTS
    Clients,   \* those who use the mount
    Pollers,   \* those who ask for pages
    Counters   \* the numbers of a page

VARIABLES
    wanted,    \* wanted[c] is the set of counters the operation of c belongs to,
               \* empty while c waits for none
    counted,   \* those it has been counted in
    total,     \* the counters
    asking,    \* those who wait for a page
    unseen,    \* unseen[p] is the set of counters the page has still to show
    number     \* number[p] holds what the page shows

vars == <<wanted, counted, total, asking, unseen, number>>

Init ==
    /\ wanted = [c \in Clients |-> {}]
    /\ counted = [c \in Clients |-> {}]
    /\ total = [k \in Counters |-> 0]
    /\ asking = {}
    /\ unseen = [p \in Pollers |-> {}]
    /\ number = [p \in Pollers |-> [k \in Counters |-> 0]]

Ask(c) ==
    /\ wanted[c] = {}
    /\ \E S \in SUBSET Counters : wanted' = [wanted EXCEPT ![c] = S]
    /\ UNCHANGED <<counted, total, asking, unseen, number>>

Count(c, k) ==
    /\ k \in wanted[c] \ counted[c]
    /\ counted' = [counted EXCEPT ![c] = @ \cup {k}]
    /\ total' = [total EXCEPT ![k] = @ + 1]
    /\ UNCHANGED <<wanted, asking, unseen, number>>

Answer(c) ==
    /\ counted[c] = wanted[c]
    /\ wanted' = [wanted EXCEPT ![c] = {}]
    /\ counted' = [counted EXCEPT ![c] = {}]
    /\ UNCHANGED <<total, asking, unseen, number>>

AskPage(p) ==
    /\ p \notin asking
    /\ asking' = asking \cup {p}
    /\ unseen' = [unseen EXCEPT ![p] = Counters]
    /\ number' = [number EXCEPT ![p] = [k \in Counters |-> 0]]
    /\ UNCHANGED <<wanted, counted, total>>

Read(p, k) ==
    /\ k \in unseen[p]
    /\ unseen' = [unseen EXCEPT ![p] = @ \ {k}]
    /\ number' = [number EXCEPT ![p][k] = total[k]]
    /\ UNCHANGED <<wanted, counted, total, asking>>

Show(p) ==
    /\ p \in asking
    /\ unseen[p] = {}
    /\ asking' = asking \ {p}
    /\ UNCHANGED <<wanted, counted, total, unseen, number>>

Next ==
    \/ \E c \in Clients : Ask(c) \/ (\E k \in Counters : Count(c, k)) \/ Answer(c)
    \/ \E p \in Pollers : AskPage(p) \/ (\E k \in Counters : Read(p, k)) \/ Show(p)

Spec == Init /\ [][Next]_vars
=============================================================================
