---------------------------- MODULE VectorProofs ----------------------------
(* What holds of a vector of any size, in any sequence of calls. *)
EXTENDS Vector, SequenceTheorems, FiniteSetTheorems, TLAPS

-----------------------------------------------------------------------------
(* size_t *)

\* A number that a size_t can hold stays what it is,
LEMMA SizeTSame == ASSUME NEW i \in 0 .. W - 1 PROVE SizeT(i) = i
  BY VectorAssumption DEF SizeT

\* and a negative position becomes larger than every position there is.
LEMMA SizeTNegative == ASSUME NEW i \in Int, -W <= i, i < 0 PROVE SizeT(i) = i + W
  BY VectorAssumption DEF SizeT

-----------------------------------------------------------------------------
(* The invariant: the entries are low .. low + len - 1, at most one of them  *)
(* is behind the array, and the fields have their types,                     *)

VecInv == TypeOK /\ low + len <= Cap + 1

(* or len has wrapped, which only nftp_vec_delete does.                      *)

IInv == VecInv \/ (TypeOK /\ Wrapped /\ res.op = "delete")

\* What a slot has.
Words == Entries \cup {Null}

\* The capacity is far from the wrap of size_t.
LEMMA Sizes == Cap \in Nat \ {0} /\ W \in Nat /\ 2 * Cap + 2 < W
  BY VectorAssumption

\* The fields of a vector that is in its bounds can be computed with.
LEMMA Fields ==
    ASSUME VecInv
    PROVE  /\ low \in Nat /\ len \in Nat /\ low + len <= Cap + 1 /\ Cap \in Nat \ {0}
           /\ W \in Nat /\ 2 * Cap + 2 < W
           /\ vec \in [0..Cap -> Words]
           /\ SizeT(low + len) = low + len /\ SizeT(low + len + 1) = low + len + 1
           /\ len # 0 => SizeT(len - 1) = len - 1
<1>1. /\ low \in Nat /\ len \in Nat /\ low + len <= Cap + 1 /\ Cap \in Nat \ {0}
      /\ W \in Nat /\ 2 * Cap + 2 < W
      /\ vec \in [0..Cap -> Words]
  BY VectorAssumption DEF VecInv, TypeOK, Words
<1>2. /\ low + len \in 0 .. W - 1 /\ low + len + 1 \in 0 .. W - 1
      /\ len # 0 => len - 1 \in 0 .. W - 1
  BY <1>1
<1> QED
  BY <1>1, <1>2, SizeTSame

\* The test of a position lets pass those from 0 to the bound.
LEMMA PositionInside ==
    ASSUME VecInv, NEW pos \in Positions, NEW n \in 0..len, ~(SizeT(pos) > n)
    PROVE  pos \in 0..n /\ SizeT(pos) = pos
<1>0. pos \in Int /\ -Cap <= pos /\ pos <= 2 * Cap
  BY VectorAssumption
<1>1. CASE pos < 0
  <2>1. SizeT(pos) = pos + W
    BY <1>0, <1>1, Fields, SizeTNegative
  <2>2. pos + W > n
    BY <1>0, Fields
  <2> QED
    BY <2>1, <2>2
<1>2. CASE pos >= 0
  <2>1. SizeT(pos) = pos
    BY <1>0, <1>2, Fields, SizeTSame
  <2> QED
    BY <1>0, <1>2, <2>1, Fields
<1> QED
  BY <1>0, <1>1, <1>2

\* A call that fails
LEMMA FailsInv ==
    ASSUME VecInv, NEW op, NEW x, NEW pos, NEW ret \in Results, Fails(op, x, pos, ret)
    PROVE  VecInv'
  BY DEF VecInv, TypeOK, Fails, Return, fields, D!Call

\* A call that succeeds
LEMMA ReturnInv ==
    ASSUME NEW op, NEW x, NEW pos, NEW out, Return(op, x, pos, "OK", out),
           low' \in Nat, len' \in Nat, low' + len' <= Cap + 1, vec' \in [0..Cap -> Words]
    PROVE  VecInv'
<1> DEFINE a == low'
           b == len'
<1>0. a \in Nat /\ b \in Nat /\ a + b <= Cap + 1
  OBVIOUS
<1> HIDE DEF a, b
<1>1. a \in 0 .. Cap + 1 /\ b \in 0 .. W - 1
  BY <1>0, Sizes
<1>2. res'.ret \in Results
  BY DEF Return, D!Call, Results
<1> QED
  BY <1>0, <1>1, <1>2 DEF VecInv, TypeOK, Words, a, b

\* nftp_vec_alloc establishes the invariant.
LEMMA InitInv == Init => VecInv
<1> SUFFICES ASSUME Init PROVE VecInv
  OBVIOUS
<1>1. Cap \div 4 \in Nat /\ Cap \div 4 <= Cap
  BY VectorAssumption
<1> QED
  BY <1>1, VectorAssumption DEF Init, VecInv, TypeOK, Results, D!Call

\* NFTP_TAIL of nftp_vec_push, and nftp_vec_append, keep it.
LEMMA PushTailInv ==
    ASSUME VecInv, NEW op, NEW x \in Entries, NEW pos, PushTail(op, x, pos)
    PROVE  VecInv'
<1>1. CASE SizeT(low + len) > Cap
  BY <1>1, FailsInv DEF PushTail, Results
<1>2. CASE ~(SizeT(low + len) > Cap)
  <2>1. /\ vec' = [vec EXCEPT ![low + len] = x] /\ len' = len + 1 /\ low' = low
        /\ Return(op, x, pos, "OK", D!None)
    BY <1>2 DEF PushTail
  <2>2. low + len \in 0..Cap
    BY <1>2, Fields
  <2>3. vec' \in [0..Cap -> Words]
    BY <2>1, <2>2, Fields DEF Words
  <2> QED
    BY SMTT(40), <2>1, <2>2, <2>3, Fields, ReturnInv
<1> QED
  BY <1>1, <1>2

\* nftp_vec_push keeps it at either end.
LEMMA PushInv == ASSUME VecInv, NEW x \in Entries, Push(x) PROVE VecInv'
<1>1. CASE PushTail("push_tail", x, D!None)
  BY <1>1, PushTailInv
<1>2. CASE PushHead(x)
  <2>1. CASE low = 0
    BY <1>2, <2>1, FailsInv DEF PushHead, Results
  <2>2. CASE low # 0
    <3>1. /\ low' = low - 1 /\ vec' = [vec EXCEPT ![low'] = x] /\ len' = len + 1
          /\ Return("push_head", x, D!None, "OK", D!None)
      BY <1>2, <2>2 DEF PushHead
    <3>2. vec' \in [0..Cap -> Words] /\ low' \in Nat
      BY SMTT(40), <2>2, <3>1, Fields DEF Words
    <3>3. len' \in Nat /\ low' + len' <= Cap + 1
      BY SMTT(40), <2>2, <3>1, Fields
    <3> QED
      BY <3>1, <3>2, <3>3, ReturnInv
  <2> QED
    BY <2>1, <2>2
<1>3. CASE Fails("push_flag", x, D!None, "FLAG")
  BY <1>3, FailsInv DEF Results
<1> QED
  BY <1>1, <1>2, <1>3 DEF Push

\* nftp_vec_insert keeps it.
LEMMA InsertInv ==
    ASSUME VecInv, NEW x \in Entries, NEW pos \in Positions, Insert(x, pos)
    PROVE  VecInv'
<1>1. CASE SizeT(low + len + 1) > Cap
  BY <1>1, FailsInv DEF Insert, Results
<1>2. CASE ~(SizeT(low + len + 1) > Cap) /\ SizeT(pos) > len
  BY <1>2, PushTailInv DEF Insert
<1>3. CASE ~(SizeT(low + len + 1) > Cap) /\ ~(SizeT(pos) > len)
  <2>1. /\ vec' = Overwrite(low + pos, low + len + 1,
                            LAMBDA i : IF i = low + pos THEN x ELSE vec[i - 1])
        /\ len' = len + 1 /\ low' = low
        /\ Return("insert", x, pos, "OK", D!None)
    BY <1>3 DEF Insert
  <2>2. low + len + 1 <= Cap
    BY <1>3, Fields
  <2>3. pos \in 0..len
    BY <1>3, Fields, PositionInside
  <2> DEFINE new == [i \in 0..Cap |-> IF i = low + pos THEN x
                                      ELSE IF i > 0 THEN vec[i - 1] ELSE Null]
  <2>4. new \in [0..Cap -> Words]
    BY Fields DEF Words
  <2>5. vec' = [i \in 0..Cap |-> IF i \in low + pos .. low + len THEN new[i] ELSE vec[i]]
    BY <2>1, <2>2, <2>3, Fields DEF Overwrite
  <2> HIDE DEF new
  <2>6. vec' \in [0..Cap -> Words]
    BY <2>4, <2>5, Fields
  <2>7. low' \in Nat /\ len' \in Nat /\ low' + len' <= Cap + 1
    BY <2>1, <2>2, Fields
  <2> QED
    BY <2>1, <2>6, <2>7, ReturnInv
<1> QED
  BY <1>1, <1>2, <1>3

\* NFTP_HEAD of nftp_vec_pop keeps it.
LEMMA PopHeadInv == ASSUME VecInv, PopHead PROVE VecInv'
<1>1. CASE len = 0
  BY <1>1, FailsInv DEF PopHead, Results
<1>2. CASE len # 0
  <2>1. /\ low' = low + 1 /\ vec' = [vec EXCEPT ![low] = Null] /\ len' = SizeT(len - 1)
        /\ Return("pop_head", D!None, D!None, "OK", vec[low])
    BY <1>2 DEF PopHead
  <2>2. vec' \in [0..Cap -> Words]
    BY <2>1, Fields DEF Words
  <2>3. low' \in Nat /\ len' \in Nat /\ low' + len' <= Cap + 1
    BY <1>2, <2>1, Fields
  <2> QED
    BY <2>1, <2>2, <2>3, ReturnInv
<1> QED
  BY <1>1, <1>2

\* NFTP_TAIL of nftp_vec_pop keeps it.
LEMMA PopTailInv == ASSUME VecInv, PopTail PROVE VecInv'
<1>1. CASE len = 0
  BY <1>1, FailsInv DEF PopTail, Results
<1>2. CASE len # 0
  <2>1. /\ low' = low /\ vec' = [vec EXCEPT ![low + len - 1] = Null] /\ len' = SizeT(len - 1)
        /\ Return("pop_tail", D!None, D!None, "OK", vec[low + len - 1])
    BY <1>2 DEF PopTail
  <2>2. vec' \in [0..Cap -> Words]
    BY <2>1, Fields DEF Words
  <2>3. low' \in Nat /\ len' \in Nat /\ low' + len' <= Cap + 1
    BY <1>2, <2>1, Fields
  <2> QED
    BY <2>1, <2>2, <2>3, ReturnInv
<1> QED
  BY <1>1, <1>2

\* A vector in its bounds has not wrapped.
LEMMA NotWrapped == ASSUME VecInv PROVE ~Wrapped
  BY Fields DEF Wrapped

\* What nftp_vec_delete does to a vector that has an entry at pos
LEMMA DeleteIs ==
    ASSUME VecInv, NEW pos \in Positions, len # 0, Delete(pos),
           ~(pos < 0 \/ SizeT(pos) > SizeT(len - 1))
    PROVE  /\ vec' = Overwrite(low + pos, low + len - 1, LAMBDA i : vec[i + 1])
           /\ len' = len - 1 /\ low' = low
           /\ Return("delete", D!None, pos, "OK", vec[low + pos])
           /\ pos \in 0 .. len - 1
<1>1. SizeT(len - 1) = len - 1 /\ len - 1 \in 0..len
  BY Fields
<1>2. pos \in 0 .. len - 1
  BY <1>1, PositionInside
<1>3. Found(pos) = {vec[low + pos]}
  BY DEF Found
<1> QED
  BY <1>1, <1>2, <1>3 DEF Delete

\* nftp_vec_delete keeps it where there is an entry, and refuses a position
\* where there is none.
LEMMA DeleteInv ==
    ASSUME VecInv, NEW pos \in Positions, Delete(pos), ~EmptyDelete
    PROVE  VecInv'
<1>1. CASE pos < 0 \/ SizeT(pos) > SizeT(len - 1)
  BY <1>1, FailsInv DEF Delete, Results
<1>2. CASE ~(pos < 0 \/ SizeT(pos) > SizeT(len - 1))
  <2>0. len # 0
    BY <1>2 DEF Delete, EmptyDelete, Return, D!Call
  <2>1. /\ vec' = Overwrite(low + pos, low + len - 1, LAMBDA i : vec[i + 1])
        /\ len' = len - 1 /\ low' = low
        /\ Return("delete", D!None, pos, "OK", vec[low + pos])
        /\ pos \in 0 .. len - 1
    BY <1>2, <2>0, DeleteIs
  <2> DEFINE new == [i \in 0..Cap |-> IF i < Cap THEN vec[i + 1] ELSE Null]
  <2>3. new \in [0..Cap -> Words]
    BY Fields DEF Words
  <2>4. vec' = [i \in 0..Cap |-> IF i \in low + pos .. low + len - 2 THEN new[i] ELSE vec[i]]
    BY SMTT(40), <2>1, Fields DEF Overwrite
  <2> HIDE DEF new
  <2>5. vec' \in [0..Cap -> Words]
    BY <2>3, <2>4, Fields
  <2>6. low' \in Nat /\ len' \in Nat /\ low' + len' <= Cap + 1
    BY <2>0, <2>1, Fields
  <2> QED
    BY <2>1, <2>5, <2>6, ReturnInv
<1> QED
  BY <1>1, <1>2

\* On an empty vector it makes len wrap.
LEMMA DeleteWraps ==
    ASSUME VecInv, NEW pos \in Positions, Delete(pos), EmptyDelete
    PROVE  TypeOK' /\ Wrapped' /\ res'.op = "delete"
<1>0. pos \in Int /\ low \in Nat /\ len = 0 /\ Cap \in Nat /\ W \in Nat /\ 0 < W
  BY VectorAssumption, Fields DEF EmptyDelete
<1>1. ~(pos < 0 \/ SizeT(pos) > SizeT(len - 1))
  BY DEF Delete, EmptyDelete, Fails, Return, D!Call
<1>2. /\ vec' = Overwrite(low + pos, low + len - 1, LAMBDA i : vec[i + 1])
      /\ len' = SizeT(len - 1) /\ low' = low
  BY <1>1 DEF Delete
<1>3. len' = W - 1
  BY <1>0, <1>2, SizeTNegative
<1>4. vec' = vec
  <2>1. \A i \in 0..Cap : i \notin low + pos .. low + len - 1 - 1
    BY <1>0, <1>1
  <2>2. vec' = [i \in 0..Cap |-> vec[i]]
    BY <1>2, <2>1, Fields DEF Overwrite
  <2> QED
    BY <2>2, Fields
<1>5. res'.ret \in Results
  BY DEF EmptyDelete, Results
<1>6. low' \in 0 .. Cap + 1 /\ len' \in 0 .. W - 1
  BY <1>0, <1>2, <1>3, Fields
<1>7. TypeOK'
  BY <1>4, <1>5, <1>6, Fields DEF TypeOK, Words
<1>8. Wrapped'
  BY <1>3 DEF Wrapped
<1> QED
  BY <1>7, <1>8 DEF EmptyDelete

\* A call that only looks
LEMMA LookInv ==
    ASSUME VecInv, NEW op, NEW x, NEW pos, NEW out, Return(op, x, pos, "OK", out),
           UNCHANGED fields
    PROVE  VecInv'
<1>1. res'.ret \in Results
  BY DEF Return, D!Call, Results
<1> QED
  BY <1>1 DEF VecInv, TypeOK, fields

\* The calls that only read keep it.
LEMMA GetInv ==
    ASSUME VecInv, NEW pos, Get(pos) \/ GetIdx(pos) \/ PopFlag
    PROVE  VecInv'
<1>1. CASE Get(pos)
  BY <1>1, FailsInv, LookInv DEF Get, Results
<1>2. CASE GetIdx(pos)
  BY <1>2, FailsInv, LookInv DEF GetIdx, Results
<1>3. CASE PopFlag
  BY <1>3, FailsInv DEF PopFlag, Results
<1> QED
  BY <1>1, <1>2, <1>3

\* nftp_vec_cat keeps it, or takes nothing over.
LEMMA CatInv == ASSUME VecInv, NEW s \in Sources, Cat(s) PROVE VecInv'
<1>0. /\ s \in Seq(Entries) /\ Len(s) \in Nat /\ Len(s) <= Cap + 1
      /\ \A i \in 1..Len(s) : s[i] \in Entries
  BY VectorAssumption
<1>1. CASE SizeT(low + len + Len(s)) > Cap
  BY <1>1, FailsInv DEF Cat, Results
<1>2. CASE ~(SizeT(low + len + Len(s)) > Cap)
  <2> DEFINE n == Len(s)
  <2>0. n \in Nat /\ n <= Cap + 1
    BY <1>0
  <2>1. /\ vec' = Overwrite(low + len, low + len + n, LAMBDA i : s[i - (low + len) + 1])
        /\ len' = SizeT(len + n) /\ low' = low
        /\ Return("cat", D!None, n, "OK", D!None)
    BY <1>2 DEF Cat
  <2>2. SizeT(low + len + n) = low + len + n /\ SizeT(len + n) = len + n
    <3> HIDE DEF n
    <3>1. low + len + n \in 0 .. W - 1 /\ len + n \in 0 .. W - 1
      BY SMTT(40), <2>0, Fields
    <3> QED
      BY <3>1, SizeTSame
  <2>3. low + len + n <= Cap
    BY <1>2, <2>0, <2>2, Fields
  <2> DEFINE new == [i \in 0..Cap |-> IF i \in low + len .. low + len + n - 1
                                      THEN s[i - (low + len) + 1] ELSE vec[i]]
  <2>4. vec' = new
    BY SMTT(40), <2>0, <2>1, <2>3, Fields DEF Overwrite
  <2>5. new \in [0..Cap -> Words]
    <3>1. ASSUME NEW i \in 0..Cap, i \in low + len .. low + len + n - 1
          PROVE  s[i - (low + len) + 1] \in Words
      <4>1. i - (low + len) + 1 \in 1..n
        <5>1. i \in Int /\ low + len <= i /\ i <= low + len + n - 1 /\ low + len \in Nat
          BY <3>1, Fields
        <5> HIDE DEF n
        <5> QED
          BY <2>0, <5>1
      <4> QED
        BY <1>0, <4>1 DEF Words
    <3>2. \A i \in 0..Cap : vec[i] \in Words
      BY Fields
    <3> QED
      BY <3>1, <3>2
  <2>6. low' \in Nat /\ len' \in Nat /\ low' + len' <= Cap + 1
    BY <2>0, <2>1, <2>2, <2>3, Fields
  <2> QED
    BY <2>1, <2>4, <2>5, <2>6, ReturnInv
<1> QED
  BY <1>1, <1>2

\* Every call but the delete on an empty vector keeps it,
LEMMA CalledInv == ASSUME VecInv, Called, ~EmptyDelete PROVE VecInv'
  BY PopHeadInv, PopTailInv, PushInv, GetInv, DeleteInv, InsertInv, CatInv DEF Called

\* and no other call can be mistaken for one.
LEMMA EmptyDeleteIs ==
    ASSUME Called, EmptyDelete
    PROVE  \E pos \in Positions : Delete(pos)
<1>1. ASSUME NEW op, NEW x, NEW pos, NEW ret, Fails(op, x, pos, ret), op # "delete"
      PROVE  FALSE
  BY <1>1 DEF Fails, Return, EmptyDelete, D!Call
<1>2. ASSUME NEW op, NEW x, NEW pos, NEW ret, NEW out, Return(op, x, pos, ret, out),
             op # "delete"
      PROVE  FALSE
  BY <1>2 DEF Return, EmptyDelete, D!Call
<1>3. ASSUME NEW op, NEW x, NEW pos, op # "delete", PushTail(op, x, pos) PROVE FALSE
  BY <1>1, <1>2, <1>3 DEF PushTail
<1>4. ASSUME PopHead \/ PopTail \/ PopFlag PROVE FALSE
  BY <1>1, <1>2, <1>4 DEF PopHead, PopTail, PopFlag
<1>5. ASSUME NEW x \in Entries, Push(x) \/ GetIdx(x) PROVE FALSE
  BY <1>1, <1>2, <1>3, <1>5 DEF Push, PushHead, GetIdx
<1>6. ASSUME NEW x \in Entries, NEW pos \in Positions, Insert(x, pos) PROVE FALSE
  BY <1>1, <1>2, <1>3, <1>6 DEF Insert
<1>7. ASSUME NEW pos \in Positions, Get(pos) PROVE FALSE
  BY <1>1, <1>2, <1>7 DEF Get
<1>8. ASSUME NEW s \in Sources, Cat(s) PROVE FALSE
  BY <1>1, <1>2, <1>8 DEF Cat
<1> QED
  BY <1>4, <1>5, <1>6, <1>7, <1>8 DEF Called

\* The invariant is inductive.
LEMMA NextInv == ASSUME IInv, [Next]_vars PROVE IInv'
<1>1. CASE UNCHANGED vars
  BY <1>1 DEF IInv, VecInv, TypeOK, Wrapped, vars, fields
<1>2. CASE Ended
  BY <1>1, <1>2 DEF Ended
<1>3. CASE ~Wrapped /\ Called
  <2>1. VecInv
    BY <1>3 DEF IInv
  <2>2. CASE EmptyDelete
    BY <1>3, <2>1, <2>2, EmptyDeleteIs, DeleteWraps DEF IInv
  <2>3. CASE ~EmptyDelete
    BY <1>3, <2>1, <2>3, CalledInv DEF IInv
  <2> QED
    BY <2>2, <2>3
<1> QED
  BY <1>1, <1>2, <1>3 DEF Next

\* It holds from the start.
LEMMA InitIInv == Init => IInv
  BY InitInv DEF IInv

\* The fields of a vector never leave their ranges: low the array and one
\* more, len those of size_t.
THEOREM TypeCorrect == Spec => []TypeOK
<1>1. IInv => TypeOK
  BY DEF IInv, VecInv
<1> QED
  BY <1>1, InitIInv, NextInv, PTL DEF Spec

\* The slots in use reach at most one word past the array, which every test
\* of nftp_vec_push lets it write, until something is deleted from an empty
\* vector.
THEOREM OnePastTheArray == Spec => []OnePastAtMost
<1>1. IInv => OnePastAtMost
  BY DEF IInv, VecInv, OnePastAtMost
<1> QED
  BY <1>1, InitIInv, NextInv, PTL DEF Spec

-----------------------------------------------------------------------------
(* The refinement: the slots in use, read as a sequence, are the deque.      *)

\* The sequence that the fields of a vector stand for
LEMMA ItemsAre ==
    ASSUME VecInv
    PROVE  /\ Items \in Seq(Words) /\ Len(Items) = len
           /\ \A i \in 1..len : Items[i] = vec[low + i - 1] /\ low + i - 1 \in 0..Cap
           /\ Items = <<>> <=> len = 0
<1>1. \A i \in 1..len : low + i - 1 \in 0..Cap
  BY SMTT(40), Fields
<1>2. \A i \in 1..len : vec[low + i - 1] \in Words
  BY <1>1, Fields
<1>3. Items \in [1..len -> Words] /\ len \in Nat
  BY <1>2, Fields DEF Items
<1>4. Items \in Seq(Words) /\ Len(Items) = len
  <2> DEFINE n == len
             t == Items
  <2>1. n \in Nat /\ t \in [1..n -> Words]
    BY <1>3
  <2> HIDE DEF n, t
  <2>2. t \in Seq(Words) /\ Len(t) = n
    BY <2>1
  <2> QED
    BY <2>2 DEF n, t
<1>5. \A i \in 1..len : Items[i] = vec[low + i - 1]
  BY DEF Items
<1>6. Items = <<>> <=> len = 0
  BY <1>4, EmptySeq
<1> QED
  BY <1>1, <1>4, <1>5, <1>6

\* A step makes it the sequence s if the slots in use then hold the entries of s.
LEMMA ItemsBecome ==
    ASSUME NEW s \in Seq(Words), len' = Len(s),
           \A i \in 1..Len(s) : vec'[low' + i - 1] = s[i]
    PROVE  Items' = s
<1>1. Items' = [i \in 1..Len(s) |-> s[i]]
  BY DEF Items
<1>2. s = [i \in 1..Len(s) |-> s[i]]
  BY LenProperties
<1> QED
  BY <1>1, <1>2

\* A call that fails is refused by the deque.
LEMMA FailsRefuses ==
    ASSUME NEW op, NEW x, NEW pos, NEW ret \in {"OVERFLOW", "EMPTY", "FLAG"},
           Fails(op, x, pos, ret)
    PROVE  D!Refused(op, x, pos)
  BY DEF Fails, Return, fields, Items, D!Refused, D!None

\* nftp_vec_append appends.
LEMMA PushTailAppends ==
    ASSUME VecInv, NEW op, NEW x \in Entries, NEW pos, PushTail(op, x, pos)
    PROVE  \/ D!Done(op, x, pos, D!None, Append(Items, x))
           \/ D!Refused(op, x, pos)
<1>1. CASE SizeT(low + len) > Cap
  BY <1>1, FailsRefuses DEF PushTail
<1>2. CASE ~(SizeT(low + len) > Cap)
  <2>1. /\ vec' = [vec EXCEPT ![low + len] = x] /\ len' = len + 1 /\ low' = low
        /\ Return(op, x, pos, "OK", D!None)
    BY <1>2 DEF PushTail
  <2>2. low + len \in 0..Cap
    BY <1>2, Fields
  <2> DEFINE s == Append(Items, x)
  <2>3. /\ s \in Seq(Words) /\ Len(s) = len + 1
        /\ \A i \in 1..len : s[i] = Items[i]
        /\ s[len + 1] = x
    <3>1. x \in Words
      BY DEF Words
    <3> QED
      BY <3>1, ItemsAre, AppendProperties
  <2> HIDE DEF s
  <2>4. ASSUME NEW i \in 1..Len(s) PROVE vec'[low' + i - 1] = s[i]
    <3>1. CASE i = len + 1
      BY SMTT(40), <2>1, <2>2, <2>3, <3>1, Fields
    <3>2. CASE i # len + 1
      <4>1. i \in 1..len
        BY <2>3, <3>2, Fields
      <4>2. low + i - 1 \in 0..Cap /\ low + i - 1 # low + len
        BY <4>1, ItemsAre, Fields
      <4>3. vec'[low + i - 1] = vec[low + i - 1]
        BY <2>1, <4>2, Fields
      <4> QED
        BY <2>1, <2>3, <4>1, <4>3, ItemsAre
    <3> QED
      BY <3>1, <3>2
  <2>5. Items' = s
    BY <2>1, <2>3, <2>4, ItemsBecome
  <2> QED
    BY <2>1, <2>5 DEF D!Done, Return, s
<1> QED
  BY <1>1, <1>2

\* A one-entry sequence
LEMMA One == ASSUME NEW x \in Words
             PROVE  <<x>> \in Seq(Words) /\ Len(<<x>>) = 1 /\ <<x>>[1] = x
  OBVIOUS

\* nftp_vec_push at the head puts the entry first.
LEMMA PushHeadPrepends ==
    ASSUME VecInv, NEW x \in Entries, PushHead(x)
    PROVE  \/ D!Done("push_head", x, D!None, D!None, <<x>> \o Items)
           \/ D!Refused("push_head", x, D!None)
<1>1. CASE low = 0
  BY <1>1, FailsRefuses DEF PushHead
<1>2. CASE low # 0
  <2>1. /\ low' = low - 1 /\ vec' = [vec EXCEPT ![low'] = x] /\ len' = len + 1
        /\ Return("push_head", x, D!None, "OK", D!None)
    BY <1>2 DEF PushHead
  <2> DEFINE s == <<x>> \o Items
  <2>2. /\ s \in Seq(Words) /\ Len(s) = len + 1
        /\ s[1] = x
        /\ \A i \in 1..len : s[i + 1] = Items[i]
    <3>1. x \in Words
      BY DEF Words
    <3> DEFINE t == Items
               h == <<x>>
    <3>2. t \in Seq(Words) /\ Len(t) = len /\ len \in Nat
      BY ItemsAre, Fields
    <3>3. h \in Seq(Words) /\ Len(h) = 1 /\ h[1] = x
      BY <3>1, One
    <3> HIDE DEF t, h
    <3>7. /\ h \o t \in Seq(Words) /\ Len(h \o t) = Len(h) + Len(t)
          /\ \A i \in 1..Len(h) + Len(t) :
                (h \o t)[i] = IF i <= Len(h) THEN h[i] ELSE t[i - Len(h)]
      BY <3>2, <3>3, ConcatProperties, Zenon
    <3>4. /\ h \o t \in Seq(Words) /\ Len(h \o t) = 1 + len
          /\ \A i \in 1..1 + len : (h \o t)[i] = IF i <= 1 THEN h[i] ELSE t[i - 1]
      BY <3>2, <3>3, <3>7
    <3>5. (h \o t)[1] = x
      BY <3>2, <3>3, <3>4
    <3>6. ASSUME NEW i \in 1..len PROVE (h \o t)[i + 1] = t[i]
      <4>1. i + 1 \in 1..1 + len /\ ~(i + 1 <= 1) /\ i + 1 - 1 = i
        BY <3>2
      <4> QED
        BY <3>4, <4>1
    <3> QED
      BY <3>2, <3>4, <3>5, <3>6 DEF t, h
  <2> HIDE DEF s
  <2>3. ASSUME NEW i \in 1..Len(s) PROVE vec'[low' + i - 1] = s[i]
    <3>1. CASE i = 1
      BY SMTT(40), <1>2, <2>1, <2>2, <3>1, Fields
    <3>2. CASE i # 1
      <4>1. i \in Int /\ i - 1 \in 1..len /\ (i - 1) + 1 = i
        BY SMTT(40), <2>2, <3>2, Fields
      <4>2. s[i] = vec[low + (i - 1) - 1] /\ low + (i - 1) - 1 \in 0..Cap
        BY <2>2, <4>1, ItemsAre
      <4>0. i \in Int /\ i # 1 /\ low \in Int /\ low' = low - 1
        BY <2>1, <3>2, <4>1, Fields
      <4>3. low' + i - 1 = low + (i - 1) - 1 /\ low' + i - 1 # low'
        BY <4>0
      <4> QED
        BY <2>1, <4>2, <4>3, Fields
    <3> QED
      BY <3>1, <3>2
  <2>4. Items' = s
    BY <2>1, <2>2, <2>3, ItemsBecome
  <2> QED
    BY <2>1, <2>4 DEF D!Done, Return, s
<1> QED
  BY <1>1, <1>2

\* nftp_vec_pop at the head takes the first entry,
LEMMA PopHeadTakes ==
    ASSUME VecInv, PopHead
    PROVE  \/ Items # <<>> /\ D!Done("pop_head", D!None, D!None, Head(Items), Tail(Items))
           \/ Items = <<>> /\ D!Refused("pop_head", D!None, D!None)
<1>1. CASE len = 0
  BY <1>1, FailsRefuses, ItemsAre DEF PopHead
<1>2. CASE len # 0
  <2>1. /\ low' = low + 1 /\ vec' = [vec EXCEPT ![low] = Null] /\ len' = len - 1
        /\ Return("pop_head", D!None, D!None, "OK", vec[low])
    BY <1>2, Fields DEF PopHead
  <2>0. Items # <<>> /\ 1 \in 1..len /\ low + 1 - 1 = low
    BY <1>2, Fields, ItemsAre
  <2>2. Head(Items) = vec[low]
    <3>1. Head(Items) = Items[1]
      BY <2>0, ItemsAre
    <3> QED
      BY <2>0, <3>1, ItemsAre
  <2> DEFINE s == Tail(Items)
  <2>3. s \in Seq(Words) /\ Len(s) = len - 1 /\ \A i \in 1..Len(s) : s[i] = Items[i + 1]
    BY <2>0, ItemsAre, HeadTailProperties
  <2> HIDE DEF s
  <2>4. ASSUME NEW i \in 1..Len(s) PROVE vec'[low' + i - 1] = s[i]
    <3>1. i \in Int /\ i >= 1 /\ i + 1 \in 1..len
      BY <2>3, Fields
    <3>2. s[i] = vec[low + (i + 1) - 1] /\ low + (i + 1) - 1 \in 0..Cap
      BY <2>3, <3>1, ItemsAre
    <3>4. low \in Int /\ low' = low + 1
      BY <2>1, Fields
    <3>3. low' + i - 1 = low + (i + 1) - 1 /\ low' + i - 1 # low
      BY <3>1, <3>4
    <3> QED
      BY <2>1, <3>2, <3>3, Fields
  <2>5. Items' = s
    BY <2>1, <2>3, <2>4, ItemsBecome
  <2> QED
    BY <2>0, <2>1, <2>2, <2>5 DEF D!Done, Return, s
<1> QED
  BY <1>1, <1>2

\* and at the tail the last one.
LEMMA PopTailTakes ==
    ASSUME VecInv, PopTail
    PROVE  \/ Items # <<>> /\ D!Done("pop_tail", D!None, D!None, Last(Items), Front(Items))
           \/ Items = <<>> /\ D!Refused("pop_tail", D!None, D!None)
<1>1. CASE len = 0
  BY <1>1, FailsRefuses, ItemsAre DEF PopTail
<1>2. CASE len # 0
  <2>1. /\ low' = low /\ vec' = [vec EXCEPT ![low + len - 1] = Null] /\ len' = len - 1
        /\ Return("pop_tail", D!None, D!None, "OK", vec[low + len - 1])
    BY <1>2, Fields DEF PopTail
  <2>0. Items # <<>> /\ len \in 1..len
    BY <1>2, Fields, ItemsAre
  <2>2. Last(Items) = vec[low + len - 1]
    BY <2>0, ItemsAre DEF Last
  <2> DEFINE s == Front(Items)
  <2>3. s \in Seq(Words) /\ Len(s) = len - 1 /\ \A i \in 1..Len(s) : s[i] = Items[i]
    <3> DEFINE t == Items
               n == len
    <3>1. t \in Seq(Words) /\ Len(t) = n /\ n \in Nat /\ n # 0
      BY <1>2, ItemsAre, Fields
    <3> HIDE DEF t, n
    <3>2. \A i \in 1 .. n - 1 : t[i] \in Words
      BY <3>1
    <3>3. /\ SubSeq(t, 1, n - 1) \in Seq(Words)
          /\ Len(SubSeq(t, 1, n - 1)) = n - 1
          /\ \A i \in 1 .. n - 1 : SubSeq(t, 1, n - 1)[i] = t[i]
      BY <3>1, <3>2
    <3> QED
      BY <3>1, <3>3 DEF t, n, Front
  <2> HIDE DEF s
  <2>4. ASSUME NEW i \in 1..Len(s) PROVE vec'[low' + i - 1] = s[i]
    <3>1. i \in 1..len /\ low + i - 1 # low + len - 1
      BY <2>3, Fields
    <3>2. s[i] = vec[low + i - 1] /\ low + i - 1 \in 0..Cap
      BY <2>3, <3>1, ItemsAre
    <3> QED
      BY <2>1, <3>1, <3>2, Fields
  <2>5. Items' = s
    BY <2>1, <2>3, <2>4, ItemsBecome
  <2> QED
    BY <2>0, <2>1, <2>2, <2>5 DEF D!Done, Return, s
<1> QED
  BY <1>1, <1>2

\* Deque and Vector have these operators from the same module.
LEMMA SameOperators ==
    \A s, i, x : /\ D!InsertAt(s, i, x) = InsertAt(s, i, x)
                 /\ D!RemoveAt(s, i) = RemoveAt(s, i)
                 /\ D!Last(s) = Last(s) /\ D!Front(s) = Front(s)
                 /\ D!Contains(s, x) = Contains(s, x)
  BY DEF D!InsertAt, InsertAt, D!RemoveAt, RemoveAt, D!Last, Last, D!Front, Front,
         D!Contains, Contains

\* What InsertAt puts where
LEMMA InsertAtPlaces ==
    ASSUME NEW t \in Seq(Words), NEW n \in Nat, Len(t) = n, NEW p \in 0..n, NEW x \in Words
    PROVE  /\ InsertAt(t, p + 1, x) \in Seq(Words)
           /\ Len(InsertAt(t, p + 1, x)) = n + 1
           /\ \A i \in 1..p : InsertAt(t, p + 1, x)[i] = t[i]
           /\ InsertAt(t, p + 1, x)[p + 1] = x
           /\ \A i \in p + 2 .. n + 1 : InsertAt(t, p + 1, x)[i] = t[i - 1]
<1> DEFINE a == SubSeq(t, 1, p)
           b == <<x>>
           c == SubSeq(t, p + 1, Len(t))
<1>0. n \in Nat /\ p \in Nat /\ p <= n /\ \A i \in 1..n : t[i] \in Words
  OBVIOUS
<1>1. a \in Seq(Words) /\ Len(a) = p /\ \A i \in 1..p : a[i] = t[i]
  <2>1. \A i \in 1..p : t[i] \in Words
    BY <1>0
  <2> QED
    BY <1>0, <2>1
<1>2. b \in Seq(Words) /\ Len(b) = 1 /\ b[1] = x
  BY One
<1>3. c \in Seq(Words) /\ Len(c) = n - p /\ \A i \in 1 .. n - p : c[i] = t[p + i]
  <2>1. \A i \in p + 1 .. n : t[i] \in Words
    BY <1>0
  <2>2. /\ c \in Seq(Words) /\ Len(c) = IF p + 1 <= n THEN n - (p + 1) + 1 ELSE 0
        /\ \A i \in 1 .. n - (p + 1) + 1 : c[i] = t[(p + 1) + i - 1]
    <3>1. p + 1 \in Int /\ n \in Int
      BY <1>0
    <3> QED
      BY <2>1, <3>1, SubSeqProperties
  <2> QED
    BY <1>0, <2>2
<1>4. InsertAt(t, p + 1, x) = a \o b \o c
  <2>1. (p + 1) - 1 = p
    BY <1>0
  <2> QED
    BY <2>1 DEF InsertAt
<1> HIDE DEF a, b, c
<1>5. /\ a \o b \in Seq(Words) /\ Len(a \o b) = p + 1
      /\ \A i \in 1 .. p + 1 : (a \o b)[i] = IF i <= p THEN a[i] ELSE b[i - p]
  <2>1. /\ a \o b \in Seq(Words) /\ Len(a \o b) = Len(a) + Len(b)
        /\ \A i \in 1 .. Len(a) + Len(b) :
              (a \o b)[i] = IF i <= Len(a) THEN a[i] ELSE b[i - Len(a)]
    BY <1>1, <1>2, ConcatProperties, Zenon
  <2> QED
    BY <1>1, <1>2, <2>1
<1> DEFINE d == a \o b
<1>6. /\ d \in Seq(Words) /\ Len(d) = p + 1
      /\ \A i \in 1 .. p + 1 : d[i] = IF i <= p THEN t[i] ELSE x
  <2>1. ASSUME NEW i \in 1 .. p + 1, ~(i <= p) PROVE i - p = 1
    BY <1>0, <2>1
  <2> QED
    BY <1>0, <1>1, <1>2, <1>5, <2>1
<1> HIDE DEF d
<1>7. /\ d \o c \in Seq(Words) /\ Len(d \o c) = n + 1
      /\ \A i \in 1 .. n + 1 : (d \o c)[i] = IF i <= p + 1 THEN d[i] ELSE c[i - (p + 1)]
  <2>1. /\ d \o c \in Seq(Words) /\ Len(d \o c) = Len(d) + Len(c)
        /\ \A i \in 1 .. Len(d) + Len(c) :
              (d \o c)[i] = IF i <= Len(d) THEN d[i] ELSE c[i - Len(d)]
    BY <1>3, <1>6, ConcatProperties, Zenon
  <2>2. Len(d) + Len(c) = n + 1 /\ Len(d) = p + 1
    BY <1>0, <1>3, <1>6
  <2> QED
    BY <2>1, <2>2
<1>8. /\ \A i \in 1..p : (d \o c)[i] = t[i]
      /\ (d \o c)[p + 1] = x
      /\ \A i \in p + 2 .. n + 1 : (d \o c)[i] = t[i - 1]
  <2>1. \A i \in 1 .. p + 1 : (d \o c)[i] = d[i]
    BY <1>0, <1>7
  <2>2. ASSUME NEW i \in p + 2 .. n + 1 PROVE (d \o c)[i] = t[i - 1]
    <3>1. /\ i - (p + 1) \in 1 .. n - p /\ p + (i - (p + 1)) = i - 1
          /\ i \in 1 .. n + 1 /\ ~(i <= p + 1)
      BY <1>0
    <3> QED
      BY <1>3, <1>7, <3>1
  <2>3. \A i \in 1..p : i \in 1 .. p + 1 /\ i <= p
    BY <1>0
  <2>4. p + 1 \in 1 .. p + 1 /\ ~(p + 1 <= p)
    BY <1>0
  <2> QED
    BY <1>6, <2>1, <2>2, <2>3, <2>4
<1> DEFINE r == InsertAt(t, p + 1, x)
<1>9. r = d \o c
  BY <1>4 DEF d
<1> HIDE DEF r
<1>10. /\ r \in Seq(Words) /\ Len(r) = n + 1
       /\ \A i \in 1..p : r[i] = t[i]
       /\ r[p + 1] = x
       /\ \A i \in p + 2 .. n + 1 : r[i] = t[i - 1]
  BY <1>7, <1>8, <1>9
<1> QED
  BY <1>10 DEF r

\* What RemoveAt leaves where
LEMMA RemoveAtPlaces ==
    ASSUME NEW t \in Seq(Words), NEW n \in Nat, Len(t) = n, NEW p \in 0 .. n - 1
    PROVE  /\ RemoveAt(t, p + 1) \in Seq(Words)
           /\ Len(RemoveAt(t, p + 1)) = n - 1
           /\ \A i \in 1 .. n - 1 :
                 RemoveAt(t, p + 1)[i] = IF i <= p THEN t[i] ELSE t[i + 1]
<1> DEFINE a == SubSeq(t, 1, p)
           c == SubSeq(t, p + 2, Len(t))
<1>0. n \in Nat /\ p \in Nat /\ p + 1 <= n /\ \A i \in 1..n : t[i] \in Words
  OBVIOUS
<1>1. a \in Seq(Words) /\ Len(a) = p /\ \A i \in 1..p : a[i] = t[i]
  <2>1. \A i \in 1..p : t[i] \in Words
    BY <1>0
  <2> QED
    BY <1>0, <2>1
<1>3. c \in Seq(Words) /\ Len(c) = n - p - 1 /\ \A i \in 1 .. n - p - 1 : c[i] = t[p + 1 + i]
  <2>1. \A i \in p + 2 .. n : t[i] \in Words
    BY <1>0
  <2>2. /\ c \in Seq(Words) /\ Len(c) = IF p + 2 <= n THEN n - (p + 2) + 1 ELSE 0
        /\ \A i \in 1 .. n - (p + 2) + 1 : c[i] = t[(p + 2) + i - 1]
    <3>1. p + 2 \in Int /\ n \in Int
      BY <1>0
    <3> QED
      BY <2>1, <3>1, SubSeqProperties
  <2>3. n - (p + 2) + 1 = n - p - 1 /\ (p + 2 <= n \/ n - p - 1 = 0)
    BY <1>0
  <2>4. \A i \in 1 .. n - p - 1 : (p + 2) + i - 1 = p + 1 + i
    BY <1>0
  <2> QED
    BY <1>0, <2>2, <2>3, <2>4
<1>4. RemoveAt(t, p + 1) = a \o c
  <2>1. (p + 1) - 1 = p /\ (p + 1) + 1 = p + 2
    BY <1>0
  <2> QED
    BY <2>1 DEF RemoveAt
<1> HIDE DEF a, c
<1>7. /\ a \o c \in Seq(Words) /\ Len(a \o c) = n - 1
      /\ \A i \in 1 .. n - 1 : (a \o c)[i] = IF i <= p THEN a[i] ELSE c[i - p]
  <2>1. /\ a \o c \in Seq(Words) /\ Len(a \o c) = Len(a) + Len(c)
        /\ \A i \in 1 .. Len(a) + Len(c) :
              (a \o c)[i] = IF i <= Len(a) THEN a[i] ELSE c[i - Len(a)]
    BY <1>1, <1>3, ConcatProperties, Zenon
  <2>2. Len(a) + Len(c) = n - 1 /\ Len(a) = p
    BY <1>0, <1>1, <1>3
  <2> QED
    BY <2>1, <2>2
<1>8. ASSUME NEW i \in 1 .. n - 1 PROVE (a \o c)[i] = IF i <= p THEN t[i] ELSE t[i + 1]
  <2>1. CASE i <= p
    BY <1>0, <1>1, <1>7, <2>1
  <2>2. CASE ~(i <= p)
    <3>1. i - p \in 1 .. n - p - 1 /\ p + 1 + (i - p) = i + 1
      BY <1>0, <2>2
    <3> QED
      BY <1>3, <1>7, <2>2, <3>1
  <2> QED
    BY <2>1, <2>2
<1> QED
  BY <1>4, <1>7, <1>8

\* nftp_vec_insert: up to pos nothing moves, from there on everything by one.
LEMMA InsertInserts ==
    ASSUME VecInv, NEW x \in Entries, NEW pos \in Positions, Insert(x, pos)
    PROVE  D!Insert(x, pos)
<1>0. pos \in Int /\ len \in Nat /\ low \in Nat /\ x \in Words
  BY VectorAssumption, Fields DEF Words
<1>1. CASE SizeT(low + len + 1) > Cap
  BY <1>1, FailsRefuses DEF Insert, D!Insert
<1>2. CASE ~(SizeT(low + len + 1) > Cap) /\ SizeT(pos) > len
  <2>1. pos \notin 0..len
    <3>1. ASSUME pos \in 0..len PROVE SizeT(pos) = pos
      <4>1. pos \in 0 .. W - 1
        BY <3>1, Fields
      <4> QED
        BY <4>1, SizeTSame
    <3> QED
      BY <1>0, <1>2, <3>1
  <2>2. ~D!Holds(pos)
    BY <1>0, <2>1, ItemsAre DEF D!Holds
  <2>3. \/ D!Done("insert", x, pos, D!None, Append(Items, x)) \/ D!Refused("insert", x, pos)
    BY <1>2, PushTailAppends DEF Insert
  <2>4. InsertAt(Items, Len(Items) + 1, x) = Append(Items, x)
    <3> DEFINE t == Items
               n == len
               r == InsertAt(t, n + 1, x)
               s == Append(t, x)
    <3>1. t \in Seq(Words) /\ Len(t) = n /\ n \in Nat
      BY <1>0, ItemsAre
    <3> HIDE DEF t, n
    <3>6. n \in 0..n /\ x \in Words
      BY <1>0, <3>1
    <3>2. /\ r \in Seq(Words) /\ Len(r) = n + 1
          /\ \A i \in 1..n : r[i] = t[i]
          /\ r[n + 1] = x
      BY <3>1, <3>6, InsertAtPlaces
    <3>3. /\ s \in Seq(Words) /\ Len(s) = n + 1
          /\ \A i \in 1..n : s[i] = t[i]
          /\ s[n + 1] = x
      BY <1>0, <3>1, AppendProperties
    <3> HIDE DEF r, s
    <3>4. \A i \in 1 .. n + 1 : r[i] = s[i]
      BY <3>1, <3>2, <3>3
    <3>5. r = s
      BY <3>2, <3>3, <3>4, SeqEqual
    <3> QED
      BY <3>1, <3>5 DEF r, s, t
  <2>5. (IF D!Holds(pos) THEN pos + 1 ELSE Len(Items) + 1) = Len(Items) + 1
    BY <2>2
  <2> QED
    BY <2>3, <2>4, <2>5, SameOperators DEF D!Insert
<1>3. CASE ~(SizeT(low + len + 1) > Cap) /\ ~(SizeT(pos) > len)
  <2>1. /\ vec' = Overwrite(low + pos, low + len + 1,
                            LAMBDA i : IF i = low + pos THEN x ELSE vec[i - 1])
        /\ len' = len + 1 /\ low' = low
        /\ Return("insert", x, pos, "OK", D!None)
    BY <1>3 DEF Insert
  <2>2. low + len + 1 <= Cap
    BY <1>3, Fields
  <2>3. pos \in 0..len
    BY <1>0, <1>3, PositionInside
  <2> DEFINE s == InsertAt(Items, pos + 1, x)
  <2>4. /\ s \in Seq(Words) /\ Len(s) = len + 1
        /\ \A i \in 1..pos : s[i] = Items[i]
        /\ s[pos + 1] = x
        /\ \A i \in pos + 2 .. len + 1 : s[i] = Items[i - 1]
    <3> DEFINE t == Items
               n == len
               p == pos
               r == InsertAt(t, p + 1, x)
    <3>1. t \in Seq(Words) /\ Len(t) = n /\ n \in Nat /\ p \in 0..n /\ x \in Words
      BY <1>0, <2>3, ItemsAre
    <3> HIDE DEF t, n, p
    <3>2. r \in Seq(Words) /\ Len(r) = n + 1
      BY <3>1, InsertAtPlaces
    <3>3. (\A i \in 1..p : r[i] = t[i]) /\ r[p + 1] = x
      BY <3>1, InsertAtPlaces
    <3>4. \A i \in p + 2 .. n + 1 : r[i] = t[i - 1]
      BY <3>1, InsertAtPlaces
    <3> QED
      BY <3>2, <3>3, <3>4 DEF t, n, p
  <2> HIDE DEF s
  <2>5. \A j \in 0..Cap :
           /\ j \notin low + pos .. low + len => vec'[j] = vec[j]
           /\ j = low + pos => vec'[j] = x
           /\ j \in low + pos + 1 .. low + len => vec'[j] = vec[j - 1]
    <3> DEFINE word(j) == IF j = low + pos THEN x ELSE vec[j - 1]
    <3>1. \A j \in 0..Cap :
             vec'[j] = IF j \in low + pos .. low + len THEN word(j) ELSE vec[j]
      BY <2>1, <1>0, Fields DEF Overwrite
    <3>2. \A j \in Int : j # low + pos => word(j) = vec[j - 1]
      OBVIOUS
    <3>3. word(low + pos) = x
      OBVIOUS
    <3> HIDE DEF word
    <3>4. low + pos \in low + pos .. low + len
      BY <1>0, <2>3
    <3>5. \A j \in low + pos + 1 .. low + len :
             j \in Int /\ j \in low + pos .. low + len /\ j # low + pos
      BY <1>0, <2>3
    <3> QED
      BY <3>1, <3>2, <3>3, <3>4, <3>5
  <2>6. ASSUME NEW i \in 1 .. len + 1 PROVE vec'[low + i - 1] = s[i]
    <3>0. i \in Int /\ low + i - 1 \in 0..Cap /\ Cap \in Int
      BY <1>0, <2>2, Fields
    <3>1. CASE i <= pos
      <4>1. i \in 1..len /\ low + i - 1 \notin low + pos .. low + len
        BY <1>0, <2>3, <3>1
      <4>2. vec'[low + i - 1] = vec[low + i - 1]
        BY <2>5, <3>0, <4>1
      <4> QED
        BY <2>4, <3>1, <4>1, <4>2, ItemsAre
    <3>2. CASE i = pos + 1
      <4>1. low + i - 1 = low + pos /\ ~(i <= pos)
        BY <1>0, <2>3, <3>2
      <4> QED
        BY <2>4, <2>5, <3>0, <3>2, <4>1
    <3>3. CASE i > pos + 1
      <4>1. /\ i - 1 \in 1..len /\ low + (i - 1) - 1 = low + i - 1 - 1
            /\ low + i - 1 \in low + pos + 1 .. low + len
            /\ i \in pos + 2 .. len + 1
        BY <1>0, <2>3, <3>0, <3>3
      <4> DEFINE j == low + i - 1
      <4>4. j \in 0..Cap /\ j \in low + pos + 1 .. low + len
        BY <3>0, <4>1
      <4> HIDE DEF j
      <4>5. vec'[j] = vec[j - 1]
        BY <2>5, <4>4
      <4>6. j = low + i - 1 /\ j - 1 = low + i - 1 - 1
        BY <1>0, <3>0 DEF j
      <4>2. vec'[low + i - 1] = vec[low + i - 1 - 1]
        BY <4>5, <4>6
      <4>3. s[i] = vec[low + (i - 1) - 1]
        BY <2>4, <4>1, ItemsAre
      <4> QED
        BY <4>1, <4>2, <4>3
    <3> QED
      BY <1>0, <3>0, <3>1, <3>2, <3>3
  <2>7. Items' = s
    BY <2>1, <2>4, <2>6, ItemsBecome
  <2>8. D!Holds(pos) \/ pos = Len(Items)
    BY <1>0, <2>3, ItemsAre DEF D!Holds
  <2>9. (IF D!Holds(pos) THEN pos + 1 ELSE Len(Items) + 1) = pos + 1
    BY <2>8
  <2>10. Items' = InsertAt(Items, IF D!Holds(pos) THEN pos + 1 ELSE Len(Items) + 1, x)
    BY <2>7, <2>9 DEF s
  <2> QED
    BY <2>1, <2>10, SameOperators DEF D!Insert, D!Done, Return
<1> QED
  BY <1>1, <1>2, <1>3

\* nftp_vec_delete: everything behind pos moves down by one.
LEMMA DeleteDeletes ==
    ASSUME VecInv, NEW pos \in Positions, Delete(pos), ~EmptyDelete
    PROVE  D!Delete(pos)
<1>0. pos \in Int /\ len \in Nat /\ low \in Nat
  BY VectorAssumption, Fields
<1>1. CASE pos < 0 \/ SizeT(pos) > SizeT(len - 1)
  <2>1. pos \notin 0 .. len - 1
    <3>1. ASSUME pos \in 0 .. len - 1 PROVE SizeT(pos) = pos /\ SizeT(len - 1) = len - 1
      <4>1. pos \in 0 .. W - 1 /\ len # 0
        BY <1>0, <3>1, Fields
      <4> QED
        BY <4>1, SizeTSame, Fields
    <3> QED
      BY <1>0, <1>1, <3>1
  <2>2. ~D!Holds(pos)
    BY <2>1, ItemsAre DEF D!Holds
  <2> QED
    BY <1>1, <2>2, FailsRefuses DEF Delete, D!Delete
<1>2. CASE ~(pos < 0 \/ SizeT(pos) > SizeT(len - 1))
  <2>0. len # 0
    BY <1>2 DEF Delete, EmptyDelete, Return, D!Call
  <2>1. /\ vec' = Overwrite(low + pos, low + len - 1, LAMBDA i : vec[i + 1])
        /\ len' = len - 1 /\ low' = low
        /\ Return("delete", D!None, pos, "OK", vec[low + pos])
    BY <1>2, <2>0, DeleteIs
  <2>2. pos \in 0 .. len - 1
    BY <1>2, <2>0, DeleteIs
  <2>3. D!Holds(pos) /\ Items[pos + 1] = vec[low + pos]
    <3>1. pos + 1 \in 1..len /\ low + (pos + 1) - 1 = low + pos
      BY <1>0, <2>2
    <3>2. Items[pos + 1] = vec[low + pos]
      BY <3>1, ItemsAre
    <3> QED
      BY <2>2, <3>2, ItemsAre DEF D!Holds
  <2> DEFINE s == RemoveAt(Items, pos + 1)
  <2>4. /\ s \in Seq(Words) /\ Len(s) = len - 1
        /\ \A i \in 1 .. len - 1 : s[i] = IF i <= pos THEN Items[i] ELSE Items[i + 1]
    BY <1>0, <2>2, ItemsAre, RemoveAtPlaces
  <2> HIDE DEF s
  <2>5. \A j \in 0..Cap :
           vec'[j] = IF j \in low + pos .. low + len - 2 THEN vec[j + 1] ELSE vec[j]
    BY <2>1, <1>0, Fields DEF Overwrite
  <2>6. ASSUME NEW i \in 1 .. len - 1 PROVE vec'[low + i - 1] = s[i]
    <3>0. i \in Int /\ low + i - 1 \in 0..Cap /\ Cap \in Int
      BY <1>0, Fields
    <3>1. CASE i <= pos
      <4>1. i \in 1..len /\ low + i - 1 \notin low + pos .. low + len - 2
        BY <1>0, <2>2, <3>1
      <4>2. vec'[low + i - 1] = vec[low + i - 1]
        BY <2>5, <3>0, <4>1
      <4> QED
        BY <2>4, <3>1, <4>1, <4>2, ItemsAre
    <3>2. CASE ~(i <= pos)
      <4>1. /\ i + 1 \in 1..len /\ low + (i + 1) - 1 = low + i - 1 + 1
            /\ low + i - 1 \in low + pos .. low + len - 2
        BY <1>0, <2>2, <3>0, <3>2
      <4>2. vec'[low + i - 1] = vec[low + (i + 1) - 1]
        BY <2>5, <3>0, <4>1
      <4> QED
        BY <2>4, <3>2, <4>1, <4>2, ItemsAre
    <3> QED
      BY <3>1, <3>2
  <2>7. Items' = s
    BY <2>1, <2>4, <2>6, ItemsBecome
  <2> QED
    BY <2>1, <2>3, <2>7, SameOperators DEF D!Delete, D!Done, Return, s
<1> QED
  BY <1>1, <1>2

\* A call that only looks leaves the deque alone.
LEMMA LookKeeps == ASSUME UNCHANGED fields PROVE Items' = Items
  BY DEF fields, Items

\* nftp_vec_get
LEMMA GetGets ==
    ASSUME VecInv, NEW pos \in Positions, Get(pos)
    PROVE  D!Get(pos)
<1>0. pos \in Int /\ len \in Nat /\ low \in Nat
  BY VectorAssumption, Fields
<1>1. CASE SizeT(pos) >= len \/ pos < 0
  <2>1. pos \notin 0 .. len - 1
    <3>1. ASSUME pos \in 0 .. len - 1 PROVE SizeT(pos) = pos
      <4>1. pos \in 0 .. W - 1
        BY <1>0, <3>1, Fields
      <4> QED
        BY <4>1, SizeTSame
    <3> QED
      BY <1>0, <1>1, <3>1
  <2>2. ~D!Holds(pos)
    BY <2>1, ItemsAre DEF D!Holds
  <2> QED
    BY <1>1, <2>2, FailsRefuses DEF Get, D!Get
<1>2. CASE ~(SizeT(pos) >= len \/ pos < 0)
  <2>1. Return("get", D!None, pos, "OK", vec[low + pos]) /\ UNCHANGED fields
    BY <1>2 DEF Get
  <2>2. pos \in 0 .. len - 1
    <3>1. SizeT(pos) \in Int
      BY <1>0, VectorAssumption DEF SizeT
    <3>2. pos \in 0..len
      BY <1>0, <1>2, <3>1, PositionInside
    <3>3. pos # len
      <4>1. pos \in 0 .. W - 1
        BY <1>0, <3>2, Fields
      <4> QED
        BY <1>0, <1>2, <4>1, SizeTSame
    <3> QED
      BY <1>0, <3>2, <3>3
  <2>3. pos + 1 \in 1..len /\ low + (pos + 1) - 1 = low + pos
    BY <1>0, <2>2
  <2>4. D!Holds(pos) /\ Items[pos + 1] = vec[low + pos]
    BY <2>2, <2>3, ItemsAre DEF D!Holds
  <2> QED
    BY <2>1, <2>4, LookKeeps DEF D!Get, D!Done, Return
<1> QED
  BY <1>1, <1>2

\* A set of numbers that is not empty has a least one: of the intervals up to
\* its members, one contains no other.
LEMMA LeastOfSet ==
    ASSUME NEW T \in SUBSET Nat, T # {}
    PROVE  \E m \in T : \A k \in T : m <= k
<1> DEFINE Up == {0..n : n \in T}
<1>1. Up \subseteq FiniteSubsetsOf(Nat) /\ Up # {}
  <2>1. ASSUME NEW n \in T PROVE 0..n \in SUBSET Nat /\ IsFiniteSet(0..n)
    <3>1. n \in Int /\ 0 \in Int
      OBVIOUS
    <3> QED
      BY <3>1, FS_Interval
  <2> QED
    BY <2>1 DEF FiniteSubsetsOf
<1>2. PICK I \in Up : \A J \in Up : <<J, I>> \notin StrictSubsetOrdering(Nat)
  <2>1. IsWellFoundedOn(StrictSubsetOrdering(Nat), FiniteSubsetsOf(Nat))
    BY FS_StrictSubsetOrderingWellFounded
  <2> HIDE DEF Up
  <2> QED
    BY <1>1, <2>1, WFMin
<1>3. PICK m \in T : I = 0..m
  OBVIOUS
<1>4. ASSUME NEW k \in T, k < m PROVE FALSE
  <2> DEFINE J == 0..k
  <2>1. J \in Up /\ J \in SUBSET Nat /\ I \in SUBSET Nat
    BY <1>3
  <2>2. J \subseteq I
    BY <1>3, <1>4
  <2>3. J # I
    <3>1. m \in I /\ m \notin J
      BY <1>3, <1>4
    <3> QED
      BY <3>1
  <2>4. <<J, I>> \in StrictSubsetOrdering(Nat)
    <3> HIDE DEF J
    <3> QED
      BY <2>1, <2>2, <2>3 DEF StrictSubsetOrdering
  <2> QED
    BY <1>2, <2>1, <2>4
<1> QED
  BY <1>4

\* It is the one that Min chooses.
LEMMA MinIs ==
    ASSUME NEW T \in SUBSET Nat, NEW m \in T, \A k \in T : m <= k
    PROVE  Min(T) = m /\ D!Min(T) = m
<1>1. ASSUME NEW k \in T, \A j \in T : k <= j PROVE k = m
  <2>1. k <= m /\ m <= k /\ k \in Nat /\ m \in Nat
    BY <1>1
  <2> QED
    BY <2>1
<1> QED
  BY <1>1 DEF Min, D!Min

\* nftp_vec_getidx finds the first place of its argument.
LEMMA GetIdxFinds ==
    ASSUME VecInv, NEW x \in Entries, GetIdx(x)
    PROVE  D!GetIdx(x)
<1> DEFINE places == {i \in low .. low + len - 1 : vec[i] = x}
           found == {i \in 1..Len(Items) : Items[i] = x}
<1>0. low \in Nat /\ len \in Nat
  BY Fields
<1>1. \A i \in 1..len : i \in found <=> low + i - 1 \in places
  <2>1. \A i \in 1..len : low + i - 1 \in low .. low + len - 1
    BY <1>0
  <2> QED
    BY <2>1, ItemsAre
<1>2. \A j \in places : j - low + 1 \in 1..len /\ low + (j - low + 1) - 1 = j
  BY <1>0
<1>3. places \subseteq Nat /\ found \subseteq Nat /\ found \subseteq 1..len
  BY <1>0, ItemsAre
<1>4. D!SelectInSeq(Items, LAMBDA e : e = x) = IF found # {} THEN D!Min(found) ELSE 0
  BY DEF D!SelectInSeq
<1>5. D!Contains(Items, x) <=> found # {}
  BY DEF D!Contains
<1>6. /\ places = {} => Fails("getidx", x, D!None, "EMPTY")
      /\ places # {} => Return("getidx", x, D!None, "OK", Min(places) - low) /\ UNCHANGED fields
  BY DEF GetIdx
<1> HIDE DEF places, found
<1>7. CASE places = {}
  <2>1. found = {}
    BY <1>1, <1>3, <1>7
  <2> QED
    BY <1>5, <1>6, <1>7, <2>1, FailsRefuses DEF D!GetIdx
<1>8. CASE places # {}
  <2>1. PICK m \in places : \A k \in places : m <= k
    BY <1>3, <1>8, LeastOfSet
  <2> DEFINE p == m - low + 1
  <2>2. p \in 1..len /\ low + p - 1 = m /\ p \in found
    BY <1>1, <1>2, <2>1
  <2>3. ASSUME NEW k \in found PROVE p <= k
    <3>1. k \in 1..len /\ low + k - 1 \in places
      BY <1>1, <1>3
    <3>2. m <= low + k - 1
      BY <2>1, <3>1
    <3>3. m \in Nat
      BY <1>3, <2>1
    <3> QED
      BY <1>0, <3>1, <3>2, <3>3
  <2>4. m \in Nat /\ p - 1 = m - low
    BY <1>0, <1>3, <2>1
  <2>5. Min(places) = m
    BY <1>3, <2>1, MinIs
  <2> HIDE DEF p
  <2>6. D!Min(found) = p
    BY <1>3, <2>2, <2>3, MinIs
  <2>7. D!SelectInSeq(Items, LAMBDA e : e = x) - 1 = Min(places) - low
    BY <1>4, <2>2, <2>4, <2>5, <2>6
  <2>8. Items' = Items
    BY <1>6, <1>8, LookKeeps
  <2> QED
    BY <1>5, <1>6, <1>8, <2>2, <2>7, <2>8 DEF D!GetIdx, D!Done, Return
<1> QED
  BY <1>7, <1>8

\* nftp_vec_cat appends the other vector's entries.
LEMMA CatConcatenates ==
    ASSUME VecInv, NEW s \in Sources, Cat(s)
    PROVE  D!Cat(s)
<1> DEFINE n == Len(s)
<1>0. /\ s \in Seq(Words) /\ n \in Nat /\ n <= Cap + 1
      /\ low \in Nat /\ len \in Nat
  <2>1. s \in Seq(Entries) /\ Len(s) \in Nat /\ Len(s) <= Cap + 1
    BY VectorAssumption
  <2>2. s \in Seq(Words)
    BY <2>1, SeqMonotonic DEF Words
  <2> QED
    BY <2>1, <2>2, Fields
<1>1. CASE SizeT(low + len + Len(s)) > Cap
  BY <1>1, FailsRefuses DEF Cat, D!Cat
<1>2. CASE ~(SizeT(low + len + Len(s)) > Cap)
  <2>1. /\ vec' = Overwrite(low + len, low + len + n, LAMBDA i : s[i - (low + len) + 1])
        /\ len' = SizeT(len + n) /\ low' = low
        /\ Return("cat", D!None, n, "OK", D!None)
    BY <1>2 DEF Cat
  <2>2. SizeT(low + len + n) = low + len + n /\ SizeT(len + n) = len + n
    <3> HIDE DEF n
    <3>1. low + len + n \in 0 .. W - 1 /\ len + n \in 0 .. W - 1
      BY <1>0, Fields
    <3> QED
      BY <3>1, SizeTSame
  <2>3. low + len + n <= Cap
    BY <1>0, <1>2, <2>2, Fields
  <2> DEFINE t == Items
             c == t \o s
  <2>4. /\ c \in Seq(Words) /\ Len(c) = len + n
        /\ \A i \in 1 .. len + n : c[i] = IF i <= len THEN Items[i] ELSE s[i - len]
    <3>1. t \in Seq(Words) /\ Len(t) = len
      BY ItemsAre
    <3> HIDE DEF t
    <3>2. /\ t \o s \in Seq(Words) /\ Len(t \o s) = Len(t) + Len(s)
          /\ \A i \in 1 .. Len(t) + Len(s) :
                (t \o s)[i] = IF i <= Len(t) THEN t[i] ELSE s[i - Len(t)]
      BY <1>0, <3>1, ConcatProperties, Zenon
    <3>3. /\ c \in Seq(Words) /\ Len(c) = len + n
          /\ \A i \in 1 .. len + n : c[i] = IF i <= len THEN t[i] ELSE s[i - len]
      BY <3>1, <3>2
    <3> QED
      BY <3>3 DEF t
  <2> HIDE DEF c, n
  <2>5. /\ \A j \in 0..Cap : j \notin low + len .. low + len + n - 1 => vec'[j] = vec[j]
        /\ \A j \in 0..Cap : j \in low + len .. low + len + n - 1
                             => vec'[j] = s[j - (low + len) + 1]
    BY <1>0, <2>1, Fields DEF Overwrite
  <2>6. ASSUME NEW i \in 1 .. len + n PROVE vec'[low + i - 1] = c[i]
    <3> DEFINE j == low + i - 1
    <3>0. i \in Int /\ j \in 0..Cap
      BY <1>0, <2>3, Fields
    <3>1. CASE i <= len
      <4>1. i \in 1..len /\ j \notin low + len .. low + len + n - 1
        BY <1>0, <3>0, <3>1
      <4> HIDE DEF j
      <4>2. vec'[j] = vec[j]
        BY <2>5, <3>0, <4>1
      <4>3. c[i] = vec[low + i - 1]
        BY <2>4, <3>1, <4>1, ItemsAre
      <4> QED
        BY <4>2, <4>3 DEF j
    <3>2. CASE ~(i <= len)
      <4>1. j \in low + len .. low + len + n - 1 /\ j - (low + len) + 1 = i - len
        BY <1>0, <3>0, <3>2
      <4> HIDE DEF j
      <4>2. vec'[j] = s[i - len]
        BY <2>5, <3>0, <4>1
      <4>3. c[i] = s[i - len]
        BY <2>4, <3>2
      <4> QED
        BY <4>2, <4>3 DEF j
    <3> QED
      BY <3>1, <3>2
  <2>7. Items' = c
    BY <2>1, <2>2, <2>4, <2>6, ItemsBecome
  <2> QED
    BY <2>1, <2>7 DEF D!Cat, D!Done, Return, c, n
<1> QED
  BY <1>1, <1>2

\* As long as nothing is deleted from an empty vector, the array with its
\* moving bounds is the deque that vector.h offers, for a vector of any size,
\* any entries and positions, and any order of calls.
THEOREM Refinement == Spec => ImplementsDeque
<1>1. Init => D!Init
  <2> SUFFICES ASSUME Init PROVE D!Init
    OBVIOUS
  <2>1. Items = <<>>
    BY InitInv, ItemsAre DEF Init
  <2> QED
    BY <2>1 DEF Init, D!Init
<1>2. ASSUME VecInv, Called, ~EmptyDelete PROVE D!Next
  <2>1. CASE PopHead \/ PopTail \/ PopFlag
    <3>1. PopFlag => D!Refused("pop_flag", D!None, D!None)
      BY FailsRefuses DEF PopFlag
    <3>2. D!PopOne
      BY <1>2, <2>1, <3>1, PopHeadTakes, PopTailTakes, SameOperators DEF D!PopOne
    <3> QED
      BY <3>2 DEF D!Next
  <2>2. ASSUME NEW x \in Entries, Push(x) \/ GetIdx(x) PROVE D!Next
    <3>1. Fails("push_flag", x, D!None, "FLAG") => D!Refused("push_flag", x, D!None)
      BY FailsRefuses
    <3>2. CASE Push(x)
      <4>1. D!Add(x)
        BY <1>2, <3>1, <3>2, PushTailAppends, PushHeadPrepends DEF Push, D!Add
      <4> QED
        BY <4>1 DEF D!Next
    <3>3. CASE GetIdx(x)
      BY <1>2, <3>3, GetIdxFinds DEF D!Next
    <3> QED
      BY <2>2, <3>2, <3>3
  <2>3. ASSUME NEW pos \in Positions, Delete(pos) \/ Get(pos) PROVE D!Next
    BY <1>2, <2>3, DeleteDeletes, GetGets DEF D!Next
  <2>4. ASSUME NEW x \in Entries, NEW pos \in Positions, Insert(x, pos) PROVE D!Next
    BY <1>2, <2>4, InsertInserts DEF D!Next
  <2>5. ASSUME NEW s \in Sources, Cat(s) PROVE D!Next
    BY <1>2, <2>5, CatConcatenates DEF D!Next
  <2> QED
    BY <1>2, <2>1, <2>2, <2>3, <2>4, <2>5 DEF Called
<1>3. UNCHANGED vars => UNCHANGED <<Items, res>>
  BY LookKeeps DEF vars
<1>4. IInv /\ [Next]_vars => [Wrapped \/ EmptyDelete \/ [D!Next]_<<Items, res>>]_vars
  BY <1>2, <1>3 DEF IInv, Next, Ended
<1> QED
  BY <1>1, <1>4, InitIInv, NextInv, PTL DEF Spec, ImplementsDeque
=============================================================================
