---------------------------- MODULE LossyChannel ----------------------------
(***************************************************************************)
(* What either direction of the proxy promises of the messages that enter  *)
(* it, which are numbered: it may lose any of them, but delivers none      *)
(* twice, none that has not entered, and no two out of order.  Proxy       *)
(* implements this twice; System puts it between two networks, and the     *)
(* way from one of them to the far end of the other is such a channel too. *)
(***************************************************************************)
EXTENDS Naturals, Sequences

VARIABLES
    entered,    \* how many messages have entered
    inside,     \* the numbers of those that may still come out
    delivered   \* those that have, in order

Init ==
    /\ entered = 0
    /\ inside = {}
    /\ delivered = <<>>

Newest == {n \in inside : \A m \in inside : m <= n}

\* The next message: it is lost at once, joins the others, or takes the place of the last.
Enter ==
    /\ entered' = entered + 1
    /\ inside' \in {inside, inside \cup {entered'}, (inside \ Newest) \cup {entered'}}
    /\ UNCHANGED delivered

\* Messages are lost: one, or all at once, or any.
Lose ==
    /\ UNCHANGED <<entered, delivered>>
    /\ inside' \in SUBSET inside

\* The oldest message comes out.
Deliver(n) ==
    /\ delivered' = Append(delivered, n)
    /\ n \in inside /\ \A m \in inside : n <= m
    /\ inside' = inside \ {n}
    /\ UNCHANGED entered

Next == Enter \/ Lose \/ \E n \in inside : Deliver(n)

Spec == Init /\ [][Next]_<<entered, inside, delivered>>
=============================================================================
