------------------------------- MODULE Vector -------------------------------
(***************************************************************************)
(* nftp_vec (src/vector.c), every operation of vector.h called by one      *)
(* thread; HandleQueue.tla has several.  The proxy itself only appends and *)
(* pops at the head.                                                       *)
(***************************************************************************)
EXTENDS Integers, SequencesExt

CONSTANTS
    Cap,          \* NFTP_SIZE
    W,            \* size_t counts modulo W
    Entries,      \* the pointers callers store
    Positions,    \* the ints callers give as positions
    Sources       \* the contents of vectors that callers concatenate

ASSUME VectorAssumption ==
    /\ Cap \in Nat \ {0}
    /\ W \in Nat /\ W > 4 * Cap
    /\ Entries \subseteq Nat \ {0}
    /\ Positions \subseteq -Cap .. 2 * Cap
    /\ Sources \subseteq Seq(Entries)
    /\ \A s \in Sources : Len(s) <= Cap + 1   \* they fit in a vector

VARIABLES
    low, len,   \* of struct _vec
    vec,        \* its array, and at Cap the word after it
    res         \* the last call, as in Deque

fields == <<low, len, vec>>
vars   == <<fields, res>>

Null == 0
SizeT(i) == i % W               \* an int converted to size_t, and the
                                \* result of size_t arithmetic

\* The slots in use
Items == [i \in 1..len |-> vec[low + i - 1]]

D == INSTANCE Deque WITH items <- Items

\* nftp_vec_alloc
Init ==
    /\ low = Cap \div 4 /\ len = 0
    /\ vec = [i \in 0..Cap |-> Null]
    /\ res = D!Call("alloc", D!None, D!None, "OK", D!None)

Return(op, x, pos, ret, out) == res' = D!Call(op, x, pos, ret, out)

Fails(op, x, pos, ret) == Return(op, x, pos, ret, D!None) /\ UNCHANGED fields

\* vec with its words from .. to-1 replaced.
Overwrite(from, to, word(_)) ==
    [i \in DOMAIN vec |-> IF i \in from .. to - 1 THEN word(i) ELSE vec[i]]
-----------------------------------------------------------------------------
\* Fault: one slot more.
PushTailMore(op, x, pos) ==
    IF SizeT(low + len) > Cap + 1
    THEN Fails(op, x, pos, "OVERFLOW")
    ELSE /\ vec' = [vec EXCEPT ![low + len] = x]
         /\ len' = len + 1
         /\ UNCHANGED low
         /\ Return(op, x, pos, "OK", D!None)

\* NFTP_TAIL.  The test lets low + len = Cap pass.
PushTail(op, x, pos) ==
    IF SizeT(low + len) > Cap
    THEN Fails(op, x, pos, "OVERFLOW")
    ELSE /\ vec' = [vec EXCEPT ![low + len] = x]
         /\ len' = len + 1
         /\ UNCHANGED low
         /\ Return(op, x, pos, "OK", D!None)

\* NFTP_HEAD
PushHead(x) ==
    IF low = 0
    THEN Fails("push_head", x, D!None, "OVERFLOW")
    ELSE /\ low' = low - 1
         /\ vec' = [vec EXCEPT ![low'] = x]
         /\ len' = len + 1
         /\ Return("push_head", x, D!None, "OK", D!None)

Push(x) ==
    \/ PushTail("push_tail", x, D!None)
    \/ PushHead(x)
    \/ Fails("push_flag", x, D!None, "FLAG")

\* Entries from pos on move up one place.  A position that is not in the
\* vector, or negative, is a push at the tail.
Insert(x, pos) ==
    IF SizeT(low + len + 1) > Cap THEN Fails("insert", x, pos, "OVERFLOW")
    ELSE IF SizeT(pos) > len THEN PushTail("insert", x, pos)
    ELSE /\ vec' = Overwrite(low + pos, low + len + 1,
                             LAMBDA i : IF i = low + pos THEN x ELSE vec[i - 1])
         /\ len' = len + 1
         /\ UNCHANGED low
         /\ Return("insert", x, pos, "OK", D!None)
-----------------------------------------------------------------------------
\* Fault: low is raised before the test.
PopHeadEagerly ==
    IF len = 0
    THEN /\ low' = low + 1
         /\ UNCHANGED <<len, vec>>
         /\ Return("pop_head", D!None, D!None, "EMPTY", D!None)
    ELSE /\ low' = low + 1
         /\ vec' = [vec EXCEPT ![low] = Null]
         /\ len' = SizeT(len - 1)
         /\ Return("pop_head", D!None, D!None, "OK", vec[low])

PopHead ==
    IF len = 0
    THEN Fails("pop_head", D!None, D!None, "EMPTY")
    ELSE /\ low' = low + 1
         /\ vec' = [vec EXCEPT ![low] = Null]
         /\ len' = SizeT(len - 1)
         /\ Return("pop_head", D!None, D!None, "OK", vec[low])

PopTail ==
    IF len = 0
    THEN Fails("pop_tail", D!None, D!None, "EMPTY")
    ELSE /\ vec' = [vec EXCEPT ![low + len - 1] = Null]
         /\ len' = SizeT(len - 1)
         /\ UNCHANGED low
         /\ Return("pop_tail", D!None, D!None, "OK", vec[low + len - 1])

PopFlag ==
    Fails("pop_flag", D!None, D!None, IF len = 0 THEN "EMPTY" ELSE "FLAG")

\* The word that is read at pos.  Nothing is in use in an empty vector: there
\* it may be one an entry left, one never written or one outside the array.
Found(pos) == IF len = 0 THEN Entries \cup {Null} ELSE {vec[low + pos]}

\* Fault: the shift stops one entry early.
DeleteShort(pos) ==
    IF pos < 0 \/ SizeT(pos) > SizeT(len - 1)
    THEN Fails("delete", D!None, pos, "OVERFLOW")
    ELSE /\ vec' = Overwrite(low + pos, low + len - 2, LAMBDA i : vec[i + 1])
         /\ len' = SizeT(len - 1)
         /\ UNCHANGED low
         /\ \E word \in Found(pos) : Return("delete", D!None, pos, "OK", word)

\* Entries after pos move down one place.  In an empty vector len - 1 is
\* W - 1: no position but a negative one fails the test, and len becomes
\* W - 1.
Delete(pos) ==
    IF pos < 0 \/ SizeT(pos) > SizeT(len - 1)
    THEN Fails("delete", D!None, pos, "OVERFLOW")
    ELSE /\ vec' = Overwrite(low + pos, low + len - 1, LAMBDA i : vec[i + 1])
         /\ len' = SizeT(len - 1)
         /\ UNCHANGED low
         /\ \E word \in Found(pos) : Return("delete", D!None, pos, "OK", word)
-----------------------------------------------------------------------------
Get(pos) ==
    IF SizeT(pos) >= len \/ pos < 0
    THEN Fails("get", D!None, pos, "OVERFLOW")
    ELSE Return("get", D!None, pos, "OK", vec[low + pos]) /\ UNCHANGED fields

GetIdx(x) ==
    LET places == {i \in low .. low + len - 1 : vec[i] = x}
    IN  IF places = {}
        THEN Fails("getidx", x, D!None, "EMPTY")
        ELSE /\ Return("getidx", x, D!None, "OK", Min(places) - low)
             /\ UNCHANGED fields

\* nftp_vec_cat(this vector, another whose contents are s); that one stays.
Cat(s) ==
    IF SizeT(low + len + Len(s)) > Cap
    THEN Fails("cat", D!None, Len(s), "OVERFLOW")
    ELSE /\ vec' = Overwrite(low + len, low + len + Len(s),
                             LAMBDA i : s[i - (low + len) + 1])
         /\ len' = SizeT(len + Len(s))
         /\ UNCHANGED low
         /\ Return("cat", D!None, Len(s), "OK", D!None)

\* len wrapped below zero.  The array is then read and written anywhere, and
\* the vector is not followed further.
Wrapped == len = W - 1
Ended == Wrapped /\ UNCHANGED vars

Called ==
    \/ PopHead \/ PopTail \/ PopFlag
    \/ \E x \in Entries : Push(x) \/ GetIdx(x)
    \/ \E pos \in Positions : Delete(pos) \/ Get(pos)
    \/ \E x \in Entries, pos \in Positions : Insert(x, pos)
    \/ \E s \in Sources : Cat(s)

Next == (~Wrapped /\ Called) \/ Ended

Spec == Init /\ [][Next]_vars
-----------------------------------------------------------------------------
(* Properties *)

Results == {"OK", "OVERFLOW", "EMPTY", "FLAG"}

TypeOK ==
    /\ low \in 0 .. Cap + 1
    /\ len \in 0 .. W - 1
    /\ vec \in [0..Cap -> Entries \cup {Null}]
    /\ res.ret \in Results

\* The one call that is not a deque's: nftp_vec_delete on an empty vector
\* succeeds.
EmptyDelete == len = 0 /\ res'.op = "delete" /\ res'.ret = "OK"

\* As long as nothing is deleted from an empty vector, the array with its
\* moving bounds is a deque: shifting in nftp_vec_insert and nftp_vec_delete,
\* copying in nftp_vec_cat and the bookkeeping of low and len neither lose,
\* duplicate nor reorder an entry, in any order of calls, and a call that
\* fails changes nothing.
ImplementsDeque == D!Init /\ [][Wrapped \/ EmptyDelete \/ [D!Next]_<<Items, res>>]_vars

\* The slots in use reach at most one word past the array, which the tests of
\* nftp_vec_push (low + len > cap) let it write, and never two, until
\* nftp_vec_delete on an empty vector makes len the largest size_t.
OnePastAtMost ==
    low + len <= Cap + 1 \/ (Wrapped /\ res.op = "delete")
=============================================================================
