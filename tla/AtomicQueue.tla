---------------------------- MODULE AtomicQueue ----------------------------
(***************************************************************************)
(* What the threads of the proxy rely on when they share a handle queue:   *)
(* an entry is stored, or refused for good, in one step, and taken in one  *)
(* step, oldest first.  HandleQueue.tla implements it; the steps of        *)
(* Proxy.tla on ddsq, mqttq and rmsgq are these.                           *)
(***************************************************************************)
EXTENDS Fifo

CONSTANT Entry

VARIABLES
    q,         \* the queue
    stored,    \* history: the entries it has accepted, in order
    taken      \* history: the entries it has given out, in order

Init ==
    /\ q = NewQueue
    /\ stored = <<>>
    /\ taken = <<>>

Store(x) ==
    /\ Accepts(q)
    /\ q' = Push(q, x)
    /\ stored' = Append(stored, x)
    /\ UNCHANGED taken

Take ==
    /\ q.items # <<>>
    /\ q' = Pop(q)
    /\ taken' = Append(taken, Head(q.items))
    /\ UNCHANGED stored

Next == (\E x \in Entry : Store(x)) \/ Take

Spec == Init /\ [][Next]_<<q, stored, taken>>
=============================================================================
