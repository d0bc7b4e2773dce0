-------------------------------- MODULE Fifo --------------------------------
(***************************************************************************)
(* An nftp_vec (src/vector.c) as the proxy uses it: entries are appended   *)
(* at the tail and popped at the head, and nothing else.  A queue is a     *)
(* record of the stored entries and of the slot the next entry goes to,    *)
(* tail = low + len.  A pop moves low up by one and len down by one, so    *)
(* it leaves tail alone; no operation of the proxy ever lowers it.         *)
(* HandleQueue.tla shows that the array, its indices and its mutexes       *)
(* implement these operations atomically.                                  *)
(***************************************************************************)
EXTENDS Naturals, Sequences

CONSTANT Cap        \* NFTP_SIZE: the number of slots nftp_vec_alloc allocates

ASSUME CapAssumption == Cap \in Nat \ {0}

First == Cap \div 4                              \* low of a new vector

NewQueue == [items |-> <<>>, tail |-> First]

\* Fault: one slot more.
AcceptsOneMore(q) == q.tail <= Cap + 1

\* The test of nftp_vec_push at the tail: overflow iff low + len > cap.
Accepts(q) == q.tail <= Cap

\* Fault: an entry is appended at the wrong end.
PushAtHead(q, x) ==
    IF Accepts(q) THEN [items |-> <<x>> \o q.items, tail |-> q.tail + 1]
                  ELSE q

\* nftp_vec_append; on overflow the vector is unchanged and the entry is
\* not stored (no caller in the proxy looks at the result).
Push(q, x) ==
    IF Accepts(q) THEN [items |-> Append(q.items, x), tail |-> q.tail + 1]
                  ELSE q

\* nftp_vec_pop at the head of a vector that is not empty.
Pop(q) == [q EXCEPT !.items = Tail(@)]

\* How many entries a queue accepts from its allocation to the end of the
\* process: the slots First .. Cap.
Lifetime == Cap + 1 - First

QueueOf(S) == [items : Seq(S), tail : First .. Cap + 1]
=============================================================================
