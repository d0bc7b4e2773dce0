------------------------------- MODULE Deque -------------------------------
(***************************************************************************)
(* What vector.h offers: a sequence of entries that grows and shrinks at   *)
(* both ends and at a position.  A call is refused, and then changes       *)
(* nothing, or does exactly what it is for.  res is the last call with     *)
(* what it returned.  Vector.tla implements this.                          *)
(***************************************************************************)
EXTENDS Integers, SequencesExt

CONSTANTS Entries, Positions, Sources

VARIABLES items, res

\* The record of a call: x and pos are its arguments, out what *entryp or
\* *idxp is set to.  None stands for an argument or a result a call lacks.
None == 0
Call(op, x, pos, ret, out) ==
    [op |-> op, x |-> x, pos |-> pos, ret |-> ret, out |-> out]

Init == items = <<>> /\ res = Call("alloc", None, None, "OK", None)

Refused(op, x, pos) ==
    /\ \E e \in {"OVERFLOW", "EMPTY", "FLAG"} : res' = Call(op, x, pos, e, None)
    /\ UNCHANGED items

Done(op, x, pos, out, new) ==
    /\ res' = Call(op, x, pos, "OK", out)
    /\ items' = new

\* The first Len(items) positions hold an entry.
Holds(pos) == pos \in 0 .. Len(items) - 1

\* Adding may be refused at any time: how much room there is at an end
\* depends on what has been taken from the other.
Add(x) ==
    \/ Done("push_tail", x, None, None, Append(items, x))
    \/ Done("push_head", x, None, None, <<x>> \o items)
    \/ \E op \in {"push_tail", "push_head", "push_flag"} : Refused(op, x, None)

\* An insertion where there is no entry is one at the end.
Insert(x, pos) ==
    \/ Done("insert", x, pos, None,
            InsertAt(items, IF Holds(pos) THEN pos + 1 ELSE Len(items) + 1, x))
    \/ Refused("insert", x, pos)

\* Taking is refused when there is nothing to take.
PopOne ==
    \/ items # <<>> /\ Done("pop_head", None, None, Head(items), Tail(items))
    \/ items # <<>> /\ Done("pop_tail", None, None, Last(items), Front(items))
    \/ items = <<>> /\ \E op \in {"pop_head", "pop_tail"} : Refused(op, None, None)
    \/ Refused("pop_flag", None, None)

Delete(pos) ==
    IF Holds(pos) THEN Done("delete", None, pos, items[pos + 1], RemoveAt(items, pos + 1))
                  ELSE Refused("delete", None, pos)

Get(pos) ==
    IF Holds(pos) THEN Done("get", None, pos, items[pos + 1], items)
                  ELSE Refused("get", None, pos)

\* The first place of x.
GetIdx(x) ==
    IF Contains(items, x) THEN Done("getidx", x, None, SelectInSeq(items, LAMBDA e : e = x) - 1, items)
                          ELSE Refused("getidx", x, None)

Cat(s) ==
    \/ Done("cat", None, Len(s), None, items \o s)
    \/ Refused("cat", None, Len(s))

Next ==
    \/ PopOne
    \/ \E x \in Entries : Add(x) \/ GetIdx(x)
    \/ \E pos \in Positions : Delete(pos) \/ Get(pos)
    \/ \E x \in Entries, pos \in Positions : Insert(x, pos)
    \/ \E s \in Sources : Cat(s)

Spec == Init /\ [][Next]_<<items, res>>
=============================================================================
