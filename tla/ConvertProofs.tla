--------------------------- MODULE ConvertProofs ----------------------------
(***************************************************************************)
(* What cJSON's parser makes of any text, and what becomes of a sample     *)
(* that is published and of a payload that is written.                     *)
(***************************************************************************)
EXTENDS Convert, TextProofs

\* What each field holds, is assigned and adds.
LEMMA ValuesAre ==
    /\ Values("int8_test") = Signed(Max8) /\ Values("uint8_test") = Unsigned(Max8)
    /\ Values("int16_test") = Signed(Max16) /\ Values("uint16_test") = Unsigned(Max16)
    /\ Values("int32_test") = Signed(Max32) /\ Values("uint32_test") = Unsigned(Max32)
    /\ Values("int64_test") = Signed(Max64) /\ Values("uint64_test") = Unsigned(Max64)
    /\ Values("example_enum") = Unsigned(Max32)
    /\ Values("message") = CStrings /\ Values("example_stru") = CStrings
BY DEF Values

LEMMA AssignedIs ==
    \A i : /\ Assigned("int8_test", i) = ToSigned(i, Max8)
           /\ Assigned("uint8_test", i) = ToUnsigned(i, Max8)
           /\ Assigned("int16_test", i) = ToSigned(i, Max16)
           /\ Assigned("uint16_test", i) = ToUnsigned(i, Max16)
           /\ Assigned("int32_test", i) = i /\ Assigned("int64_test", i) = i
           /\ Assigned("uint32_test", i) = ToUnsigned(i, Max32)
           /\ Assigned("example_enum", i) = ToUnsigned(i, Max32)
           /\ Assigned("uint64_test", i) = ToUnsigned(i, Max64)
BY DEF Assigned

LEMMA AddedIs ==
    /\ Added("message") = String(sample["message"])
    /\ Added("example_stru") =
       Object(<<Member(Spelled("message"), String(sample["example_stru"]))>>)
    /\ \A f : f \notin Strings => Added(f) = Number(Double(sample[f]))
BY DEF Added, Strings

-----------------------------------------------------------------------------
(* What the parser makes of any text *)

\* What a look-up needs of an item, of those in it and of those in them: numbers and strings.
Leaf(S, x)  == x.number \in Int /\ x.string \in Seq(S)
Inner(S, x) == Leaf(S, x) /\ \E M : x.child \in Seq(M) /\ \A m \in M : Leaf(S, m.item)
Outer(S, x) == Leaf(S, x) /\ \E M : x.child \in Seq(M) /\ \A m \in M : Inner(S, m.item)

OuterList(S, c) == \E M : c \in Seq(M) /\ \A m \in M : Outer(S, m.item)

\* What the parser keeps of the arrays and objects it is in.
IsLevel(S, l) ==
    /\ l = [type |-> l.type, members |-> l.members, name |-> l.name]
    /\ l.type = "Array" \/ l.type = "Object"
    /\ OuterList(S, l.members)

Stack(S, st) == \E L : st \in Seq(L) /\ \A l \in L : IsLevel(S, l)

\* What holds of the parser between two tokens.
Sound(S, p) ==
    /\ p = Parser(p.stack, p.expect, p.item)
    /\ Outer(S, p.item) /\ Stack(S, p.stack)
    /\ p.expect \in {"value", "first", "member", "colon", "end", "nothing"}
    /\ p.stack = <<>> => p.expect = "value" \/ p.expect = "nothing"
    /\ p.expect = "nothing" => p.stack = <<>>
    /\ Len(p.stack) <= NestingLimit

\* By how many levels a token brings the parser deeper.
Deeper(t) ==
    IF t.kind = "[" \/ t.kind = "{" THEN 1 ELSE IF t.kind = "]" \/ t.kind = "}" THEN -1 ELSE 0

Moves(p, t, q) ==
    \/ q.expect = "nothing" /\ q.item = NullItem
    \/ p.expect = "nothing" /\ q = p
    \/ p.expect # "nothing" /\ Len(q.stack) = Len(p.stack) + Deeper(t)

LEMMA OuterInside ==
    ASSUME NEW S, NEW x, Outer(S, x)
    PROVE  Inner(S, x) /\ Leaf(S, x)
BY DEF Outer, Inner

LEMMA LeavesOuter ==
    ASSUME NEW S
    PROVE  /\ \A type : Outer(S, Item(type))
           /\ \A n \in Int : Outer(S, Number(n))
           /\ \A s \in Seq(S) : Outer(S, String(s))
           /\ Outer(S, NullItem)
           /\ OuterList(S, <<>>)
<1> DEFINE none == {}
<1>1. <<>> \in Seq(none) /\ <<>> \in Seq(S)
  BY EmptySeq
<1>0. \A m \in none : FALSE
  OBVIOUS
<1> HIDE DEF none
<1>2. ASSUME NEW x, x.number \in Int, x.string \in Seq(S), x.child = <<>>
      PROVE  Outer(S, x)
  <2>1. x.child \in Seq(none) /\ \A m \in none : Inner(S, m.item)
    BY <1>0, <1>1, <1>2
  <2>2. \E M : x.child \in Seq(M) /\ \A m \in M : Inner(S, m.item)
    BY <2>1, Zenon
  <2> QED
    BY <1>2, <2>2 DEF Outer, Leaf
<1>3. ASSUME NEW type
      PROVE  /\ Item(type).number = 0 /\ Item(type).string = <<>> /\ Item(type).child = <<>>
  BY DEF Item
<1>4. ASSUME NEW type
      PROVE  Outer(S, Item(type))
  <2> DEFINE x == Item(type)
  <2>1. x.number = 0 /\ x.string = <<>> /\ x.child = <<>>
    BY <1>3
  <2> HIDE DEF x
  <2>3. x.number \in Int /\ x.string \in Seq(S) /\ x.child = <<>>
    BY <1>1, <2>1
  <2>2. Outer(S, x)
    BY <1>2, <2>3
  <2> QED
    BY <2>2 DEF x
<1>5. ASSUME NEW n \in Int
      PROVE  Outer(S, Number(n))
  <2>1. Number(n).number = n /\ Number(n).string = <<>> /\ Number(n).child = <<>>
    BY DEF Number, Item
  <2> QED
    BY <1>1, <1>2, <2>1
<1>6. ASSUME NEW s \in Seq(S)
      PROVE  Outer(S, String(s))
  <2>1. String(s).number = 0 /\ String(s).string = s /\ String(s).child = <<>>
    BY DEF String, Item
  <2> QED
    BY <1>1, <1>2, <2>1
<1>7. OuterList(S, <<>>)
  <2>1. <<>> \in Seq(none) /\ \A m \in none : Outer(S, m.item)
    BY <1>0, <1>1
  <2> QED
    BY <2>1, Zenon DEF OuterList
<1>8. Outer(S, NullItem)
  BY <1>4 DEF NullItem
<1> QED
  BY <1>4, <1>5, <1>6, <1>7, <1>8

LEMMA ParentsOuter ==
    ASSUME NEW S, NEW type, NEW c, OuterList(S, c)
    PROVE  Outer(S, Parent(type, c))
<1> DEFINE x == Parent(type, c)
<1>1. x.number = 0 /\ x.string = <<>> /\ x.child = c
  BY DEF Parent, Item
<1>2. PICK M : c \in Seq(M) /\ \A m \in M : Outer(S, m.item)
  BY DEF OuterList
<1>3. \A m \in M : Inner(S, m.item)
  BY <1>2, OuterInside
<1>4. <<>> \in Seq(S)
  BY EmptySeq
<1> HIDE DEF x
<1>5. x.child \in Seq(M) /\ \A m \in M : Inner(S, m.item)
  BY <1>1, <1>2, <1>3
<1>6. \E N : x.child \in Seq(N) /\ \A m \in N : Inner(S, m.item)
  BY <1>5, Zenon
<1>7. Outer(S, x)
  BY <1>1, <1>4, <1>6 DEF Outer, Leaf
<1> QED
  BY <1>7 DEF x

LEMMA ListsGrow ==
    ASSUME NEW S, NEW c, OuterList(S, c), NEW name, NEW x, Outer(S, x)
    PROVE  OuterList(S, Append(c, Member(name, x)))
<1> DEFINE m == Member(name, x)
<1>1. PICK M : c \in Seq(M) /\ \A k \in M : Outer(S, k.item)
  BY DEF OuterList
<1>2. m.item = x
  BY DEF Member
<1> HIDE DEF m
<1>3. Append(c, m) \in Seq(M \union {m})
  BY <1>1, StackIs
<1>4. \A k \in M \union {m} : Outer(S, k.item)
  BY <1>1, <1>2
<1>5. \E N : Append(c, m) \in Seq(N) /\ \A k \in N : Outer(S, k.item)
  BY <1>3, <1>4, Zenon
<1> QED
  BY <1>5 DEF OuterList, m

\* A stack that is not empty, and what becomes of it.
LEMMA StacksGrow ==
    ASSUME NEW S, NEW st, Stack(S, st), NEW l, IsLevel(S, l)
    PROVE  Stack(S, Append(st, l)) /\ Len(Append(st, l)) = Len(st) + 1 /\ Append(st, l) # <<>>
<1>1. PICK L : st \in Seq(L) /\ \A k \in L : IsLevel(S, k)
  BY DEF Stack
<1>2. /\ Append(st, l) \in Seq(L \union {l})
      /\ Len(Append(st, l)) = Len(st) + 1 /\ Append(st, l) # <<>>
  BY <1>1, StackIs
<1>3. \A k \in L \union {l} : IsLevel(S, k)
  BY <1>1
<1>4. \E N : Append(st, l) \in Seq(N) /\ \A k \in N : IsLevel(S, k)
  BY <1>2, <1>3, Zenon
<1> QED
  BY <1>2, <1>4 DEF Stack

LEMMA StacksAre ==
    ASSUME NEW S, NEW st, Stack(S, st)
    PROVE  /\ Len(st) \in Nat
           /\ st # <<>> => /\ IsLevel(S, Last(st)) /\ Stack(S, Front(st))
                           /\ Len(Front(st)) = Len(st) - 1 /\ Len(st) > 0
                           /\ st = Append(Front(st), Last(st))
<1>1. PICK L : st \in Seq(L) /\ \A k \in L : IsLevel(S, k)
  BY DEF Stack
<1> DEFINE n == Len(st)
<1>2. n \in Nat
  BY <1>1, LenProperties
<1>3. ASSUME st # <<>>
      PROVE  /\ IsLevel(S, Last(st)) /\ Stack(S, Front(st))
             /\ Len(Front(st)) = n - 1 /\ n > 0 /\ st = Append(Front(st), Last(st))
  <2>1. n > 0
    <3>1. n # 0
      BY <1>1, <1>3, EmptySeq
    <3> QED
      BY <1>2, <3>1
  <2>2. st[n] \in L
    <3>1. n \in 1 .. n
      BY <1>2, <2>1
    <3> QED
      BY <1>1, <3>1, ElementOfSeq
  <2>3. IsLevel(S, Last(st))
    BY <1>1, <2>2 DEF Last
  <2>4. SubSeq(st, 1, n - 1) \in Seq(L) /\ Len(SubSeq(st, 1, n - 1)) = n - 1
    <3>1. \A i \in 1 .. n - 1 : i \in 1 .. n
      BY <1>2, <2>1
    <3>2. \A i \in 1 .. n - 1 : st[i] \in L
      BY <1>1, <3>1, ElementOfSeq
    <3> HIDE DEF n
    <3>3. /\ 1 \in Int /\ n - 1 \in Int /\ ((n - 1) - 1) + 1 = n - 1
          /\ ~(1 <= n - 1) => n - 1 = 0
      BY <1>2, <2>1
    <3>4. /\ SubSeq(st, 1, n - 1) \in Seq(L)
          /\ Len(SubSeq(st, 1, n - 1)) = IF 1 <= n - 1 THEN (n - 1) - 1 + 1 ELSE 0
      BY <3>2, <3>3, SubSeqProperties
    <3> QED
      BY <1>2, <2>1, <3>3, <3>4
  <2>5. Front(st) \in Seq(L) /\ Len(Front(st)) = n - 1
    BY <2>4 DEF Front
  <2>6. Stack(S, Front(st))
    <3>1. \E N : Front(st) \in Seq(N) /\ \A k \in N : IsLevel(S, k)
      BY <1>1, <2>5, Zenon
    <3> QED
      BY <3>1 DEF Stack
  <2>7. st = Append(Front(st), Last(st))
    <3> DEFINE f == Front(st)
               l == st[n]
    <3>1. \A i \in 1 .. n - 1 : f[i] = st[i]
      BY <1>1, <1>2, <2>1 DEF Front
    <3> HIDE DEF f, l
    <3>2. f \in Seq(L) /\ Len(f) = n - 1 /\ l \in L
      BY <2>2, <2>5 DEF f, l
    <3>3. /\ Append(f, l) \in Seq(L) /\ Len(Append(f, l)) = n
          /\ Append(f, l)[n] = l /\ \A i \in 1 .. n - 1 : Append(f, l)[i] = f[i]
      <4>1. (n - 1) + 1 = n
        BY <1>2
      <4> QED
        BY <3>2, <4>1, AppendProperties
    <3>4. \A i \in 1 .. n : st[i] = Append(f, l)[i]
      BY <1>2, <3>1, <3>3 DEF l
    <3>5. st = Append(f, l)
      BY <1>1, <3>3, <3>4, SeqEqual
    <3> QED
      BY <3>5 DEF f, l, Last
  <2> QED
    BY <2>1, <2>3, <2>5, <2>6, <2>7
<1> QED
  BY <1>2, <1>3

LEMMA FailedIs ==
    ASSUME NEW S
    PROVE  /\ Sound(S, Failed) /\ Failed.expect = "nothing" /\ Failed.item = NullItem
           /\ Failed.stack = <<>>
<1>1. Failed.expect = "nothing" /\ Failed.item = NullItem /\ Failed.stack = <<>>
  BY DEF Failed, Parser
<1> DEFINE none == {}
<1>2. <<>> \in Seq(none) /\ Len(<<>>) = 0
  BY EmptySeq
<1>3. \A l \in none : IsLevel(S, l)
  OBVIOUS
<1> HIDE DEF none
<1>4. Stack(S, <<>>)
  BY <1>2, <1>3, Zenon DEF Stack
<1>5. Failed = Parser(Failed.stack, Failed.expect, Failed.item)
  BY <1>1 DEF Failed
<1>6. Len(Failed.stack) <= NestingLimit
  BY <1>1, <1>2, NestingAssumption
<1>7. Outer(S, NullItem)
  BY LeavesOuter
<1> QED
  BY <1>1, <1>4, <1>5, <1>6, <1>7 DEF Sound

LEMMA CompleteSound ==
    ASSUME NEW S, NEW p, Stack(S, p.stack), Len(p.stack) <= NestingLimit,
           NEW x, Outer(S, x)
    PROVE  Sound(S, Complete(p, x)) /\ Len(Complete(p, x).stack) = Len(p.stack)
<1> DEFINE st == p.stack
           q == Complete(p, x)
<1>1. CASE st = <<>>
  <2>1. q = Parser(<<>>, "nothing", x)
    BY <1>1 DEF Complete
  <2> HIDE DEF q
  <2>2. q.stack = <<>> /\ q.expect = "nothing" /\ q.item = x
    BY <2>1, ParserFields
  <2>3. q.stack = st
    BY <1>1, <2>2
  <2>4. Stack(S, q.stack) /\ Len(q.stack) <= NestingLimit
    BY <2>3
  <2>5. Sound(S, q)
    BY <2>1, <2>2, <2>4 DEF Sound
  <2> QED
    BY <2>3, <2>5 DEF q
<1>2. CASE st # <<>>
  <2> DEFINE top == Last(st)
             m == Member(top.name, x)
             full == [top EXCEPT !.members = Append(@, m)]
             new == Append(Front(st), full)
  <2>1. q = Parser(new, "end", NullItem)
    BY <1>2 DEF Complete, Top
  <2>2. /\ IsLevel(S, top) /\ Stack(S, Front(st)) /\ Len(Front(st)) = Len(st) - 1
        /\ Len(st) \in Nat /\ Len(st) > 0
    BY <1>2, StacksAre
  <2> HIDE DEF top
  <2>3. IsLevel(S, full)
    <3>1. /\ top = [type |-> top.type, members |-> top.members, name |-> top.name]
          /\ top.type = "Array" \/ top.type = "Object"
          /\ OuterList(S, top.members)
      BY <2>2 DEF IsLevel
    <3>2. OuterList(S, Append(top.members, m))
      BY <3>1, ListsGrow
    <3> HIDE DEF m
    <3>3. full = [type |-> top.type, members |-> Append(top.members, m), name |-> top.name]
      BY <3>1
    <3> HIDE DEF full
    <3>4. full.type = top.type /\ full.members = Append(top.members, m) /\ full.name = top.name
      BY <3>3
    <3> QED
      BY <3>1, <3>2, <3>3, <3>4 DEF IsLevel
  <2> HIDE DEF full
  <2>4. Stack(S, new) /\ Len(new) = Len(Front(st)) + 1 /\ new # <<>>
    BY <2>2, <2>3, StacksGrow
  <2> HIDE DEF new, q
  <2>5. q.stack = new /\ q.expect = "end" /\ q.item = NullItem
    BY <2>1, ParserFields
  <2>6. Outer(S, NullItem)
    BY LeavesOuter
  <2>7. Len(new) = Len(st)
    BY <2>2, <2>4
  <2> QED
    BY <2>1, <2>4, <2>5, <2>6, <2>7 DEF Sound, q
<1> QED
  BY <1>1, <1>2

LEMMA CloseSound ==
    ASSUME NEW S, NEW p, Sound(S, p), p.stack # <<>>
    PROVE  Sound(S, Close(p)) /\ Len(Close(p).stack) = Len(p.stack) - 1
<1> DEFINE st == p.stack
           f == Front(st)
           r == [p EXCEPT !.stack = Front(@)]
           x == Parent(Top(p).type, Top(p).members)
<1>1. /\ IsLevel(S, Last(st)) /\ Stack(S, f) /\ Len(f) = Len(st) - 1
      /\ Len(st) \in Nat /\ Len(st) <= NestingLimit
  BY StacksAre DEF Sound
<1>2. r.stack = f
  <2>1. p = Parser(st, p.expect, p.item)
    BY DEF Sound
  <2>2. [Parser(st, p.expect, p.item) EXCEPT !.stack = f] = Parser(f, p.expect, p.item)
    BY ParserChanges
  <2>3. r = [p EXCEPT !.stack = f]
    OBVIOUS
  <2> HIDE DEF r, st, f
  <2>4. r = Parser(f, p.expect, p.item)
    BY <2>1, <2>2, <2>3
  <2> QED
    BY <2>4, ParserFields
<1>3. OuterList(S, Top(p).members)
  BY <1>1 DEF Top, IsLevel
<1>4. Outer(S, x)
  BY <1>3, ParentsOuter
<1> HIDE DEF r, x, f
<1>5. Stack(S, r.stack) /\ Len(r.stack) <= NestingLimit
  BY <1>1, <1>2, NestingAssumption
<1>6. Sound(S, Complete(r, x)) /\ Len(Complete(r, x).stack) = Len(r.stack)
  BY <1>4, <1>5, CompleteSound
<1>7. Close(p) = Complete(r, x)
  BY DEF Close, r, x
<1> QED
  BY <1>1, <1>2, <1>6, <1>7

LEMMA OpenSound ==
    ASSUME NEW S, NEW p, Sound(S, p), NEW type, type = "Array" \/ type = "Object"
    PROVE  /\ Sound(S, Open(p, type))
           /\ \/ Open(p, type) = Failed
              \/ Len(Open(p, type).stack) = Len(p.stack) + 1
<1> DEFINE st == p.stack
           l == Level(type)
           new == Append(st, l)
           q == Open(p, type)
<1>1. Stack(S, st) /\ Len(st) \in Nat
  BY StacksAre DEF Sound
<1>2. CASE Len(st) >= NestingLimit
  <2>1. q = Failed
    BY <1>2 DEF Open
  <2> QED
    BY <2>1, FailedIs
<1>3. CASE ~(Len(st) >= NestingLimit)
  <2>1. q = Parser(new, "first", NullItem)
    BY <1>3 DEF Open
  <2>2. IsLevel(S, l)
    <3>1. l = [type |-> type, members |-> <<>>, name |-> Unnamed]
      BY DEF Level
    <3>2. OuterList(S, <<>>)
      BY LeavesOuter
    <3> HIDE DEF l
    <3>3. l.type = type /\ l.members = <<>> /\ l.name = Unnamed
      BY <3>1
    <3> QED
      BY <3>1, <3>2, <3>3 DEF IsLevel
  <2> HIDE DEF l
  <2>3. Stack(S, new) /\ Len(new) = Len(st) + 1 /\ new # <<>>
    BY <1>1, <2>2, StacksGrow
  <2> HIDE DEF q, new
  <2>4. q.stack = new /\ q.expect = "first" /\ q.item = NullItem
    BY <2>1, ParserFields
  <2>5. Outer(S, NullItem)
    BY LeavesOuter
  <2>6. Len(new) <= NestingLimit
    BY <1>1, <1>3, <2>3, NestingAssumption
  <2>7. Sound(S, q)
    BY <2>1, <2>3, <2>4, <2>5, <2>6 DEF Sound
  <2> QED
    BY <2>3, <2>4, <2>7 DEF q
<1> QED
  BY <1>2, <1>3

LEMMA NameSound ==
    ASSUME NEW S, NEW p, Sound(S, p), p.stack # <<>>, NEW s
    PROVE  /\ Sound(S, NameMember(p, s))
           /\ NameMember(p, s) = Failed \/ Len(NameMember(p, s).stack) = Len(p.stack)
<1> DEFINE st == p.stack
           n == Len(st)
           top == Last(st)
           f == Front(st)
           named == [top EXCEPT !.name = s.bytes]
           new == Append(f, named)
           q == NameMember(p, s)
<1>1. /\ IsLevel(S, top) /\ Stack(S, f) /\ Len(f) = n - 1 /\ n > 0
      /\ n \in Nat /\ n <= NestingLimit /\ st = Append(f, top) /\ Outer(S, p.item)
  BY StacksAre DEF Sound
<1>2. CASE ~s.ok
  <2>1. q = Failed
    BY <1>2 DEF NameMember
  <2> QED
    BY <2>1, FailedIs
<1>3. CASE s.ok
  <2>1. q = [p EXCEPT !.stack[Len(p.stack)].name = s.bytes, !.expect = "colon"]
    BY <1>3 DEF NameMember
  <2>2. [st EXCEPT ![n].name = s.bytes] = new
    <3>1. st[n] = top
      BY DEF Last
    <3>2. [st EXCEPT ![n].name = s.bytes] = [st EXCEPT ![n] = [st[n] EXCEPT !.name = s.bytes]]
      OBVIOUS
    <3>3. [st EXCEPT ![n].name = s.bytes] = [st EXCEPT ![n] = named]
      <4> HIDE DEF st, n, top
      <4> QED
        BY <3>1, <3>2
    <3>4. PICK L : f \in Seq(L)
      BY <1>1 DEF Stack
    <3>5. [Append(f, top) EXCEPT ![Len(Append(f, top))] = named] = Append(f, named)
      <4> HIDE DEF f, top, named
      <4> QED
        BY <3>4, StackTop
    <3> HIDE DEF st, f, named, top
    <3> QED
      BY <1>1, <3>3, <3>5 DEF n
  <2>3. q = Parser(new, "colon", p.item)
    <3> DEFINE b == [st EXCEPT ![n].name = s.bytes]
    <3>1. q = [p EXCEPT !.stack = b, !.expect = "colon"]
      BY <2>1
    <3>2. p = Parser(st, p.expect, p.item)
      BY DEF Sound
    <3> HIDE DEF b, st, q
    <3>3. [p EXCEPT !.stack = b, !.expect = "colon"] =
          [[p EXCEPT !.stack = b] EXCEPT !.expect = "colon"]
      BY <3>2
    <3>4. [p EXCEPT !.stack = b] = Parser(b, p.expect, p.item)
      BY <3>2, ParserChanges
    <3>5. [Parser(b, p.expect, p.item) EXCEPT !.expect = "colon"] = Parser(b, "colon", p.item)
      BY ParserChanges
    <3> HIDE DEF new
    <3>6. b = new
      BY <2>2 DEF b
    <3> QED
      BY <3>1, <3>3, <3>4, <3>5, <3>6
  <2>4. IsLevel(S, named)
    <3>1. /\ top = [type |-> top.type, members |-> top.members, name |-> top.name]
          /\ top.type = "Array" \/ top.type = "Object"
          /\ OuterList(S, top.members)
      BY <1>1 DEF IsLevel
    <3> HIDE DEF top
    <3>3. named = [type |-> top.type, members |-> top.members, name |-> s.bytes]
      BY <3>1
    <3> HIDE DEF named
    <3>4. named.type = top.type /\ named.members = top.members /\ named.name = s.bytes
      BY <3>3
    <3> QED
      BY <3>1, <3>3, <3>4 DEF IsLevel
  <2> HIDE DEF named, f
  <2>5. Stack(S, new) /\ Len(new) = Len(f) + 1 /\ new # <<>>
    BY <1>1, <2>4, StacksGrow
  <2> HIDE DEF q, new
  <2>6. q.stack = new /\ q.expect = "colon" /\ q.item = p.item
    BY <2>3, ParserFields
  <2>7. Len(new) = n
    BY <1>1, <2>5
  <2>8. Sound(S, q)
    BY <1>1, <2>3, <2>5, <2>6, <2>7 DEF Sound
  <2> QED
    BY <2>6, <2>7, <2>8 DEF q
<1> QED
  BY <1>2, <1>3

\* What the bytes of a payload can be: letters, and the zero that an escape may give.
Wide     == Letters \union {0}
Token(t) == t.number \in Int /\ t.raw \in Seq(Letters)

LEMMA WideIs ==
    /\ Bytes \subseteq Wide /\ Seq(Letters) \subseteq Seq(Wide)
    /\ Letters \subseteq Nat /\ Bytes \ {0} \subseteq Letters
<1>1. Bytes \subseteq Wide /\ Letters \subseteq Wide
  BY DEF Bytes, Wide, Letters
<1>2. Letters \subseteq Nat /\ Bytes \ {0} \subseteq Letters
  BY DEF Bytes, Letters
<1>3. \A s \in Seq(Letters) : s \in Seq(Wide)
  BY <1>1, SeqMonotonic
<1> QED
  BY <1>1, <1>2, <1>3

LEMMA ValueSound ==
    ASSUME NEW p, Sound(Wide, p), p.expect # "nothing", NEW t, Token(t)
    PROVE  Sound(Wide, FeedValue(p, t)) /\ Moves(p, t, FeedValue(p, t))
<1> DEFINE q == FeedValue(p, t)
<1> SUFFICES Sound(Wide, q) /\ Moves(p, t, q)
  OBVIOUS
<1>1. Stack(Wide, p.stack) /\ Len(p.stack) <= NestingLimit /\ Len(p.stack) \in Nat
  BY StacksAre DEF Sound
<1>2. ASSUME NEW x, Outer(Wide, x), q = Complete(p, x), Deeper(t) = 0
      PROVE  Sound(Wide, q) /\ Moves(p, t, q)
  <2>1. Sound(Wide, Complete(p, x)) /\ Len(Complete(p, x).stack) = Len(p.stack)
    BY <1>1, <1>2, CompleteSound
  <2> QED
    BY <1>1, <1>2, <2>1 DEF Moves
<1>10. \/ t.kind \in {"null", "false", "true"} /\ q = Complete(p, Item(Literals[t.kind]))
       \/ t.kind = "number" /\ q = Complete(p, Number(Double(t.number)))
       \/ t.kind = "string" /\ q = CompleteString(p, ParseString(t.raw))
       \/ t.kind = "[" /\ q = Open(p, "Array")
       \/ t.kind = "{" /\ q = Open(p, "Object")
       \/ q = Failed
  BY FeedValueIs
<1> HIDE DEF q
<1>3. CASE q = Failed
  <2>1. Sound(Wide, Failed) /\ Failed.expect = "nothing" /\ Failed.item = NullItem
    BY FailedIs
  <2> QED
    BY <1>3, <2>1 DEF Moves
<1>4. CASE t.kind \in {"null", "false", "true"} /\ q = Complete(p, Item(Literals[t.kind]))
  <2>1. Deeper(t) = 0
    BY <1>4 DEF Deeper
  <2>2. Outer(Wide, Item(Literals[t.kind]))
    BY LeavesOuter
  <2> QED
    BY <1>2, <1>4, <2>1, <2>2
<1>5. CASE t.kind = "number" /\ q = Complete(p, Number(Double(t.number)))
  <2>1. Deeper(t) = 0
    BY <1>5 DEF Deeper
  <2>2. Double(t.number) \in Int
    BY TextInt DEF Token
  <2>3. Outer(Wide, Number(Double(t.number)))
    BY <2>2, LeavesOuter
  <2> QED
    BY <1>2, <1>5, <2>1, <2>3
<1>6. CASE t.kind = "string" /\ q = CompleteString(p, ParseString(t.raw))
  <2> DEFINE s == ParseString(t.raw)
  <2>1. Deeper(t) = 0
    BY <1>6 DEF Deeper
  <2>2. s.bytes \in Seq(Wide)
    <3>1. t.raw \in Seq(Wide) /\ Bytes \subseteq Wide
      BY WideIs DEF Token
    <3> QED
      BY <3>1, ParseStringFits
  <2> HIDE DEF s
  <2>3. Outer(Wide, String(s.bytes))
    BY <2>2, LeavesOuter
  <2>4. q = Complete(p, String(s.bytes)) \/ q = Failed
    BY <1>6 DEF CompleteString, s
  <2> QED
    BY <1>2, <1>3, <2>1, <2>3, <2>4
<1>7. ASSUME NEW type, type = "Array" \/ type = "Object", Deeper(t) = 1, q = Open(p, type)
      PROVE  Sound(Wide, q) /\ Moves(p, t, q)
  <2>1. /\ Sound(Wide, Open(p, type))
        /\ Open(p, type) = Failed \/ Len(Open(p, type).stack) = Len(p.stack) + 1
    BY <1>7, OpenSound
  <2> QED
    BY <1>3, <1>7, <2>1 DEF Moves
<1>8. CASE t.kind = "[" /\ q = Open(p, "Array")
  <2>1. Deeper(t) = 1
    BY <1>8 DEF Deeper
  <2> QED
    BY <1>7, <1>8, <2>1
<1>9. CASE t.kind = "{" /\ q = Open(p, "Object")
  <2>1. Deeper(t) = 1
    BY <1>9 DEF Deeper
  <2> QED
    BY <1>7, <1>9, <2>1
<1> QED
  BY <1>3, <1>4, <1>5, <1>6, <1>8, <1>9, <1>10

LEMMA FeedSound ==
    ASSUME NEW p, Sound(Wide, p), NEW t, Token(t)
    PROVE  Sound(Wide, Feed(p, t)) /\ Moves(p, t, Feed(p, t))
<1> DEFINE q == Feed(p, t)
           st == p.stack
<1> SUFFICES Sound(Wide, q) /\ Moves(p, t, q)
  OBVIOUS
<1>1. /\ Stack(Wide, st) /\ Len(st) <= NestingLimit /\ Len(st) \in Nat
      /\ p = Parser(st, p.expect, p.item) /\ Outer(Wide, p.item)
  BY StacksAre DEF Sound
<1>2. /\ p.expect \in {"first", "member", "colon", "end"} => st # <<>>
      /\ p.expect = "nothing" => st = <<>>
  BY DEF Sound
<1>11. \/ Closes(p, t) /\ q = Close(p)
       \/ (p.expect = "value" \/ AtMember(p)) /\ q = FeedValue(p, t)
       \/ AtMember(p) /\ q = FeedName(p, t)
       \/ p.expect = "nothing" /\ q = p
       \/ p.expect = "colon" /\ t.kind = ":" /\ q = [p EXCEPT !.expect = "value"]
       \/ p.expect = "end" /\ t.kind = "," /\ q = [p EXCEPT !.expect = "member"]
       \/ q = Failed
  BY FeedIs
<1> HIDE DEF q
<1>3. CASE Closes(p, t) /\ q = Close(p)
  <2>1. st # <<>>
    BY <1>2, <1>3 DEF Closes
  <2>2. Sound(Wide, Close(p)) /\ Len(Close(p).stack) = Len(st) - 1
    BY <2>1, CloseSound
  <2>3. Deeper(t) = -1
    <3>1. Top(p).type = "Array" \/ Top(p).type = "Object"
      BY <1>1, <2>1, StacksAre DEF Top, IsLevel
    <3>2. t.kind = Brackets[Top(p).type][2]
      BY <1>3 DEF Closes
    <3>3. Brackets["Array"][2] = "]"
      <4> DEFINE b == Brackets["Array"]
      <4>1. b = <<"[", "]">>
        BY DEF Brackets
      <4> HIDE DEF b
      <4>2. b[2] = "]"
        BY <4>1
      <4> QED
        BY <4>2 DEF b
    <3>4. t.kind = "]" \/ t.kind = "}"
      BY <3>1, <3>2, <3>3, BracesAre
    <3> QED
      BY <3>4 DEF Deeper
  <2>4. Len(q.stack) = Len(st) + Deeper(t)
    BY <1>1, <1>3, <2>2, <2>3
  <2> QED
    BY <1>3, <2>2, <2>4 DEF Moves, Closes
<1>4. CASE (p.expect = "value" \/ AtMember(p)) /\ q = FeedValue(p, t)
  BY <1>4, ValueSound DEF AtMember
<1>5. CASE q = Failed
  <2>1. Sound(Wide, Failed) /\ Failed.expect = "nothing" /\ Failed.item = NullItem
    BY FailedIs
  <2> QED
    BY <1>5, <2>1 DEF Moves
<1>6. CASE AtMember(p) /\ q = FeedName(p, t)
  <2> DEFINE s == ParseString(t.raw)
  <2>1. q = Failed \/ (t.kind = "string" /\ q = NameMember(p, s))
    BY <1>6 DEF FeedName
  <2>2. CASE t.kind = "string" /\ q = NameMember(p, s)
    <3>1. st # <<>>
      BY <1>2, <1>6 DEF AtMember
    <3>2. /\ Sound(Wide, NameMember(p, s))
          /\ NameMember(p, s) = Failed \/ Len(NameMember(p, s).stack) = Len(st)
      BY <3>1, NameSound
    <3>3. Deeper(t) = 0
      BY <2>2 DEF Deeper
    <3> HIDE DEF s
    <3>4. q = Failed \/ Len(q.stack) = Len(st) + Deeper(t)
      BY <1>1, <2>2, <3>2, <3>3
    <3> QED
      BY <1>5, <1>6, <2>2, <3>2, <3>4 DEF Moves, AtMember
  <2> QED
    BY <1>5, <2>1, <2>2
<1>7. CASE p.expect = "nothing" /\ q = p
  BY <1>7 DEF Moves
<1>8. ASSUME NEW e \in {"value", "member"}, q = [p EXCEPT !.expect = e], st # <<>>,
             Deeper(t) = 0
      PROVE  Sound(Wide, q) /\ Moves(p, t, q)
  <2>1. q = Parser(st, e, p.item)
    <3>1. [Parser(st, p.expect, p.item) EXCEPT !.expect = e] = Parser(st, e, p.item)
      BY ParserChanges
    <3> HIDE DEF st
    <3> QED
      BY <1>1, <1>8, <3>1
  <2> HIDE DEF st
  <2>2. q.stack = st /\ q.expect = e /\ q.item = p.item
    BY <2>1, ParserFields
  <2>3. Sound(Wide, q)
    BY <1>1, <1>8, <2>1, <2>2 DEF Sound
  <2>4. Len(q.stack) = Len(st) + Deeper(t)
    BY <1>1, <1>8, <2>2
  <2> QED
    BY <1>2, <1>8, <2>3, <2>4 DEF Moves, st
<1>9. CASE p.expect = "colon" /\ t.kind = ":" /\ q = [p EXCEPT !.expect = "value"]
  <2>1. Deeper(t) = 0
    BY <1>9 DEF Deeper
  <2> QED
    BY <1>2, <1>8, <1>9, <2>1
<1>10. CASE p.expect = "end" /\ t.kind = "," /\ q = [p EXCEPT !.expect = "member"]
  <2>1. Deeper(t) = 0
    BY <1>10 DEF Deeper
  <2> QED
    BY <1>2, <1>8, <1>10, <2>1
<1> QED
  BY <1>3, <1>4, <1>5, <1>6, <1>7, <1>9, <1>10, <1>11

\* The depth, token by token.
CountOf(text, kinds, n) == Cardinality({j \in 1 .. n : text[j].kind \in kinds})

LEMMA CountSteps ==
    ASSUME NEW text, NEW kinds
    PROVE  /\ CountOf(text, kinds, 0) = 0
           /\ \A n \in Nat : /\ CountOf(text, kinds, n) \in Nat
                             /\ text[n + 1].kind \in kinds =>
                                    CountOf(text, kinds, n + 1) = CountOf(text, kinds, n) + 1
                             /\ text[n + 1].kind \notin kinds =>
                                    CountOf(text, kinds, n + 1) = CountOf(text, kinds, n)
<1> DEFINE X == {j \in Nat : text[j].kind \in kinds}
<1>1. \A n \in Nat : CountOf(text, kinds, n) = Among(X, n)
  <2> TAKE n \in Nat
  <2>1. {j \in 1 .. n : text[j].kind \in kinds} = {j \in 1 .. n : j \in X}
    OBVIOUS
  <2> HIDE DEF X
  <2> QED
    BY <2>1 DEF CountOf, Among
<1>2. ASSUME NEW n \in Nat, text[n + 1].kind \in kinds
      PROVE  n + 1 \in X
  BY <1>2
<1>3. ASSUME NEW n \in Nat, text[n + 1].kind \notin kinds
      PROVE  n + 1 \notin X
  BY <1>3
<1> HIDE DEF X
<1>4. /\ Among(X, 0) = 0
      /\ \A n \in Nat : /\ Among(X, n) \in Nat
                        /\ Among(X, n + 1) = Among(X, n) + (IF n + 1 \in X THEN 1 ELSE 0)
  BY AmongSteps
<1>5. CountOf(text, kinds, 0) = 0
  BY <1>1, <1>4
<1>6. ASSUME NEW n \in Nat
      PROVE  /\ CountOf(text, kinds, n) \in Nat
             /\ text[n + 1].kind \in kinds =>
                    CountOf(text, kinds, n + 1) = CountOf(text, kinds, n) + 1
             /\ text[n + 1].kind \notin kinds =>
                    CountOf(text, kinds, n + 1) = CountOf(text, kinds, n)
  <2>1. n + 1 \in Nat
    OBVIOUS
  <2>2. /\ CountOf(text, kinds, n) = Among(X, n) /\ CountOf(text, kinds, n + 1) = Among(X, n + 1)
        /\ Among(X, n) \in Nat
        /\ Among(X, n + 1) = Among(X, n) + (IF n + 1 \in X THEN 1 ELSE 0)
    BY <1>1, <1>4, <2>1
  <2>3. CASE text[n + 1].kind \in kinds
    <3>1. n + 1 \in X
      BY <1>2, <2>3
    <3> QED
      BY <2>2, <2>3, <3>1
  <2>4. CASE text[n + 1].kind \notin kinds
    <3>1. n + 1 \notin X
      BY <1>3, <2>4
    <3> QED
      BY <2>2, <2>4, <3>1
  <2> QED
    BY <2>3, <2>4
<1> QED
  BY <1>5, <1>6

LEMMA DepthSteps ==
    ASSUME NEW text
    PROVE  /\ Depth(text, 0) = 0
           /\ \A n \in Nat : /\ Depth(text, n) \in Int
                             /\ Depth(text, n + 1) = Depth(text, n) + Deeper(text[n + 1])
<1> DEFINE up == {"[", "{"}
           down == {"]", "}"}
<1>1. \A n : Depth(text, n) = CountOf(text, up, n) - CountOf(text, down, n)
  BY DEF Depth, CountOf
<1>2. \A t : /\ t.kind \in up => Deeper(t) = 1 /\ t.kind \notin down
             /\ t.kind \in down => Deeper(t) = -1 /\ t.kind \notin up
             /\ t.kind \notin up /\ t.kind \notin down => Deeper(t) = 0
  BY DEF Deeper
<1> HIDE DEF up, down
<1>3. Depth(text, 0) = 0
  <2>1. CountOf(text, up, 0) = 0 /\ CountOf(text, down, 0) = 0
    BY CountSteps
  <2> QED
    BY <1>1, <2>1
<1>4. ASSUME NEW n \in Nat
      PROVE  /\ Depth(text, n) \in Int
             /\ Depth(text, n + 1) = Depth(text, n) + Deeper(text[n + 1])
  <2> DEFINE t == text[n + 1]
             a == CountOf(text, up, n)
             b == CountOf(text, down, n)
             c == CountOf(text, up, n + 1)
             d == CountOf(text, down, n + 1)
  <2>1. /\ a \in Nat /\ (t.kind \in up => c = a + 1) /\ (t.kind \notin up => c = a)
    BY CountSteps
  <2>2. /\ b \in Nat /\ (t.kind \in down => d = b + 1) /\ (t.kind \notin down => d = b)
    BY CountSteps
  <2>3. Depth(text, n) = a - b /\ Depth(text, n + 1) = c - d
    BY <1>1
  <2>4. /\ t.kind \in up => Deeper(t) = 1 /\ t.kind \notin down
        /\ t.kind \in down => Deeper(t) = -1 /\ t.kind \notin up
        /\ t.kind \notin up /\ t.kind \notin down => Deeper(t) = 0
    BY <1>2
  <2> HIDE DEF t, a, b, c, d
  <2>5. c - d = (a - b) + Deeper(t)
    <3>1. CASE t.kind \in up
      BY <2>1, <2>2, <2>4, <3>1
    <3>2. CASE t.kind \in down
      BY <2>1, <2>2, <2>4, <3>2
    <3>3. CASE t.kind \notin up /\ t.kind \notin down
      BY <2>1, <2>2, <2>4, <3>3
    <3> QED
      BY <3>1, <3>2, <3>3
  <2>6. a - b \in Int
    BY <2>1, <2>2
  <2> QED
    BY <2>3, <2>5, <2>6 DEF t
<1> QED
  BY <1>3, <1>4

\* Texts of any length and any tokens.
LEMMA FeedingSound ==
    ASSUME NEW text, Len(text) \in Nat, \A i \in 1 .. Len(text) : Token(text[i])
    PROVE  LET f == Feeding(Start, text)
           IN  /\ f[0] = Start
               /\ \A i \in 0 .. Len(text) : Sound(Wide, f[i])
               /\ \A i \in 1 .. Len(text) : Moves(f[i - 1], text[i], f[i])
<1> DEFINE f == Feeding(Start, text)
           n == Len(text)
           D == {i \in 0 .. n : Sound(Wide, f[i])}
<1>1. f[0] = Start /\ \A i \in 1 .. n : f[i] = Feed(f[i - 1], text[i])
  BY FeedingSteps
<1> HIDE DEF f
<1>2. n \in Nat /\ \A i \in 1 .. n : Token(text[i])
  OBVIOUS
<1> HIDE DEF n
<1>3. Sound(Wide, Start)
  <2>1. Start.expect = "value" /\ Start.item = NullItem /\ Start.stack = <<>>
    BY DEF Start, Parser
  <2>2. Stack(Wide, <<>>) /\ Outer(Wide, NullItem) /\ Len(<<>>) <= NestingLimit
    <3>1. Sound(Wide, Failed) /\ Failed.stack = <<>> /\ Failed.item = NullItem
      BY FailedIs
    <3> QED
      BY <3>1 DEF Sound
  <2>3. Start = Parser(Start.stack, Start.expect, Start.item)
    BY <2>1 DEF Start
  <2> QED
    BY <2>1, <2>2, <2>3 DEF Sound
<1>4. 0 \in D
  BY <1>1, <1>2, <1>3
<1>5. ASSUME NEW i \in 0 .. n - 1, i \in D
      PROVE  i + 1 \in D
  <2>1. i + 1 \in 1 .. n /\ i + 1 \in 0 .. n /\ (i + 1) - 1 = i
    BY <1>2
  <2>2. f[i + 1] = Feed(f[i], text[i + 1]) /\ Token(text[i + 1]) /\ Sound(Wide, f[i])
    BY <1>1, <1>2, <1>5, <2>1
  <2>3. Sound(Wide, f[i + 1])
    BY <2>2, FeedSound
  <2> QED
    BY <2>1, <2>3
<1> HIDE DEF D
<1>6. \A i \in 0 .. n : i \in D
  BY <1>2, <1>4, <1>5, UpTo
<1>7. \A i \in 0 .. n : Sound(Wide, f[i])
  BY <1>6 DEF D
<1>8. ASSUME NEW i \in 1 .. n
      PROVE  Moves(f[i - 1], text[i], f[i])
  <2>1. i - 1 \in 0 .. n
    BY <1>2
  <2>2. f[i] = Feed(f[i - 1], text[i]) /\ Token(text[i]) /\ Sound(Wide, f[i - 1])
    BY <1>1, <1>2, <1>7, <2>1
  <2> QED
    BY <2>2, FeedSound
<1> QED
  BY <1>1, <1>7, <1>8 DEF f, n

LEMMA ParseSound ==
    ASSUME NEW text, Len(text) \in Nat, \A i \in 1 .. Len(text) : Token(text[i])
    PROVE  Outer(Wide, Parse(text))
<1> DEFINE p == Fed(Start, text)
<1>1. Sound(Wide, p)
  <2>1. \A i \in 0 .. Len(text) : Sound(Wide, Feeding(Start, text)[i])
    BY FeedingSound
  <2>2. Len(text) \in 0 .. Len(text)
    OBVIOUS
  <2> QED
    BY <2>1, <2>2 DEF Fed
<1>2. Parse(text) = p.item \/ Parse(text) = NullItem
  BY ParseIs
<1> HIDE DEF p
<1>3. Outer(Wide, p.item) /\ Outer(Wide, NullItem)
  BY <1>1, LeavesOuter DEF Sound
<1> QED
  BY <1>2, <1>3

\* As long as the parser has not failed it is as deep as the text, and when it is done the
\* text has come back to depth 0.
Follows(text, f, i) ==
    \/ f[i].expect = "nothing" /\ f[i].item = NullItem
    \/ /\ \A j \in 1 .. i :
             (\A k \in 1 .. j - 1 : Depth(text, k) > 0) => Depth(text, j) <= NestingLimit
       /\ \/ f[i].expect = "nothing" /\ \E j \in 1 .. i : Depth(text, j) = 0
          \/ f[i].expect # "nothing" /\ Len(f[i].stack) = Depth(text, i)

\* No text that is nested deeper than CJSON_NESTING_LIMIT gives an item: parse_array and
\* parse_object count every level and give every one back, whatever the text.
THEOREM DeepTextsFail ==
    ASSUME NEW text, Len(text) \in Nat, \A i \in 1 .. Len(text) : Token(text[i]),
           Parse(text) # NullItem
    PROVE  \A i \in 1 .. Len(text) :
               (\A j \in 1 .. i - 1 : Depth(text, j) > 0) => Depth(text, i) <= NestingLimit
<1> DEFINE f == Feeding(Start, text)
           n == Len(text)
           D == {i \in 0 .. n : Follows(text, f, i)}
<1>1. /\ f[0] = Start /\ \A i \in 0 .. n : Sound(Wide, f[i])
      /\ \A i \in 1 .. n : Moves(f[i - 1], text[i], f[i])
  BY FeedingSound
<1>2. n \in Nat
  OBVIOUS
<1>3. f[n].expect = "nothing" /\ f[n].item # NullItem
  BY ParseIs DEF Fed
<1> HIDE DEF f, n
<1>4. 0 \in D
  <2>1. Start.expect = "value" /\ Start.stack = <<>> /\ Len(<<>>) = 0
    BY DEF Start, Parser
  <2>2. Depth(text, 0) = 0
    BY DepthSteps
  <2>3. \A j \in 1 .. 0 : FALSE
    OBVIOUS
  <2>4. Follows(text, f, 0)
    BY <1>1, <2>1, <2>2, <2>3 DEF Follows
  <2> QED
    BY <1>2, <2>4
<1>5. ASSUME NEW i \in 0 .. n - 1, i \in D
      PROVE  i + 1 \in D
  <2> DEFINE m == i + 1
             p == f[i]
             q == f[m]
  <2>1. m \in 1 .. n /\ m \in 0 .. n /\ m - 1 = i /\ i \in 0 .. n /\ i \in Nat /\ m \in Nat
    BY <1>2
  <2>2. Sound(Wide, p) /\ Sound(Wide, q) /\ Moves(p, text[m], q) /\ Follows(text, f, i)
    <3>1. Moves(f[m - 1], text[m], f[m])
      BY <1>1, <2>1
    <3> QED
      BY <1>1, <1>5, <2>1, <3>1
  <2>3. Depth(text, m) = Depth(text, i) + Deeper(text[m]) /\ Depth(text, m) \in Int
    BY <2>1, DepthSteps
  <2>4. \A j \in 1 .. m : j = m \/ j \in 1 .. i
    BY <2>1
  <2>5. i + 1 = m
    OBVIOUS
  <2> HIDE DEF m, D
  <2> SUFFICES Follows(text, f, m)
    BY <2>1, <2>5 DEF D
  <2>6. CASE q.expect = "nothing" /\ q.item = NullItem
    BY <2>6 DEF Follows
  <2>7. CASE p.expect = "nothing" /\ q = p
    <3>1. CASE p.item = NullItem
      BY <2>6, <2>7, <3>1
    <3>2. CASE p.item # NullItem
      <4>1. /\ \A j \in 1 .. i :
                   (\A k \in 1 .. j - 1 : Depth(text, k) > 0) => Depth(text, j) <= NestingLimit
            /\ \E j \in 1 .. i : Depth(text, j) = 0
        BY <2>2, <2>7, <3>2 DEF Follows
      <4>2. PICK k \in 1 .. i : Depth(text, k) = 0
        BY <4>1
      <4>3. k \in 1 .. m - 1 /\ k \in 1 .. m /\ ~(Depth(text, k) > 0)
        BY <2>1, <4>2
      <4>4. ASSUME NEW j \in 1 .. m, \A h \in 1 .. j - 1 : Depth(text, h) > 0
            PROVE  Depth(text, j) <= NestingLimit
        <5>1. j # m
          BY <4>3, <4>4
        <5>2. j \in 1 .. i
          BY <2>4, <5>1
        <5> QED
          BY <4>1, <4>4, <5>2
      <4>5. \E j \in 1 .. m : Depth(text, j) = 0
        BY <4>2, <4>3
      <4> QED
        BY <2>7, <4>4, <4>5 DEF Follows
    <3> QED
      BY <3>1, <3>2
  <2>8. CASE p.expect # "nothing" /\ Len(q.stack) = Len(p.stack) + Deeper(text[m])
    <3>1. /\ \A j \in 1 .. i :
                 (\A k \in 1 .. j - 1 : Depth(text, k) > 0) => Depth(text, j) <= NestingLimit
          /\ Len(p.stack) = Depth(text, i)
      BY <2>2, <2>8 DEF Follows
    <3>2. Depth(text, m) = Len(q.stack)
      BY <2>3, <2>8, <3>1
    <3>3. Len(q.stack) <= NestingLimit /\ (q.expect = "nothing" => q.stack = <<>>)
      BY <2>2 DEF Sound
    <3>4. ASSUME NEW j \in 1 .. m, \A h \in 1 .. j - 1 : Depth(text, h) > 0
          PROVE  Depth(text, j) <= NestingLimit
      <4>1. CASE j = m
        BY <3>2, <3>3, <4>1
      <4>2. CASE j # m
        BY <2>4, <3>1, <3>4, <4>2
      <4> QED
        BY <4>1, <4>2
    <3>5. q.expect = "nothing" => \E j \in 1 .. m : Depth(text, j) = 0
      <4>1. m \in 1 .. m
        BY <2>1
      <4>2. q.stack = <<>> => Len(q.stack) = 0
        OBVIOUS
      <4> HIDE DEF q
      <4> QED
        BY <3>2, <3>3, <4>1, <4>2
    <3> QED
      BY <3>2, <3>4, <3>5 DEF Follows
  <2> QED
    BY <2>2, <2>6, <2>7, <2>8 DEF Moves
<1> HIDE DEF D
<1>6. \A i \in 0 .. n : i \in D
  BY <1>2, <1>4, <1>5, UpTo
<1>7. Follows(text, f, n)
  <2>1. n \in 0 .. n
    BY <1>2
  <2>2. n \in D
    BY <1>6, <2>1
  <2> QED
    BY <2>2 DEF D
<1> QED
  BY <1>3, <1>7 DEF Follows, n

-----------------------------------------------------------------------------
(* Samples *)

\* The names of the fields, each at one place.
LEMMA OrderIs ==
    /\ DOMAIN Order = 1 .. 11
    /\ Order[1] = "int8_test" /\ Order[2] = "uint8_test" /\ Order[3] = "int16_test"
    /\ Order[4] = "uint16_test" /\ Order[5] = "int32_test" /\ Order[6] = "uint32_test"
    /\ Order[7] = "int64_test" /\ Order[8] = "uint64_test" /\ Order[9] = "message"
    /\ Order[10] = "example_enum" /\ Order[11] = "example_stru"
<1> DEFINE b == <<"message", "example_enum", "example_stru">>
           a == SubSeq(Numbers, 1, 8)
           N == {Numbers[i] : i \in 1 .. 9} \union {b[i] : i \in 1 .. 3}
<1>1. Numbers \in Seq(N) /\ Len(Numbers) = 9 /\ b \in Seq(N) /\ Len(b) = 3
  <2>1. Len(Numbers) = 9 /\ Numbers = [i \in 1 .. 9 |-> Numbers[i]]
    BY DEF Numbers
  <2>2. Len(b) = 3 /\ b = [i \in 1 .. 3 |-> b[i]]
    OBVIOUS
  <2>3. (\A i \in 1 .. 9 : Numbers[i] \in N) /\ \A i \in 1 .. 3 : b[i] \in N
    OBVIOUS
  <2> HIDE DEF N, b
  <2>4. [i \in 1 .. 9 |-> Numbers[i]] \in Seq(N) /\ [i \in 1 .. 3 |-> b[i]] \in Seq(N)
    BY <2>3, IsASeq
  <2> QED
    BY <2>1, <2>2, <2>4
<1>2. /\ Numbers[1] = "int8_test" /\ Numbers[2] = "uint8_test" /\ Numbers[3] = "int16_test"
      /\ Numbers[4] = "uint16_test" /\ Numbers[5] = "int32_test" /\ Numbers[6] = "uint32_test"
      /\ Numbers[7] = "int64_test" /\ Numbers[8] = "uint64_test"
  BY DEF Numbers
<1>3. b[1] = "message" /\ b[2] = "example_enum" /\ b[3] = "example_stru"
  OBVIOUS
<1>4. Order = a \o b
  BY DEF Order
<1> HIDE DEF N, b
<1>5. ASSUME NEW i \in 1 .. 8
      PROVE  Numbers[i] \in N
  <2>1. i \in 1 .. Len(Numbers)
    BY <1>1
  <2> QED
    BY <1>1, <2>1, ElementOfSeq
<1>6. a \in Seq(N) /\ Len(a) = 8 /\ \A i \in 1 .. 8 : a[i] = Numbers[i]
  <2>1. /\ SubSeq(Numbers, 1, 8) \in Seq(N)
        /\ Len(SubSeq(Numbers, 1, 8)) = IF 1 <= 8 THEN 8 - 1 + 1 ELSE 0
        /\ \A i \in 1 .. 8 - 1 + 1 : SubSeq(Numbers, 1, 8)[i] = Numbers[1 + i - 1]
    BY <1>5, SubSeqProperties
  <2>2. \A i \in 1 .. 8 : i \in 1 .. 8 - 1 + 1 /\ (1 + i) - 1 = i
    OBVIOUS
  <2> QED
    BY <2>1, <2>2
<1> HIDE DEF a
<1>7. /\ Len(a \o b) = 11 /\ a \o b \in Seq(N)
      /\ \A i \in 1 .. 11 : (a \o b)[i] = IF i <= 8 THEN a[i] ELSE b[i - 8]
  <2>1. /\ a \o b \in Seq(N) /\ Len(a \o b) = Len(a) + Len(b)
        /\ \A i \in 1 .. Len(a) + Len(b) : (a \o b)[i] =
                    IF i <= Len(a) THEN a[i] ELSE b[i - Len(a)]
    BY <1>1, <1>6, ConcatProperties
  <2>2. Len(a) = 8 /\ Len(a) + Len(b) = 11
    BY <1>1, <1>6
  <2> QED
    BY <2>1, <2>2
<1>8. DOMAIN Order = 1 .. 11
  BY <1>4, <1>7, LenProperties
<1>9. /\ \A i \in 1 .. 8 : Order[i] = Numbers[i]
      /\ Order[9] = b[1] /\ Order[10] = b[2] /\ Order[11] = b[3]
  <2>1. \A i \in 1 .. 8 : i \in 1 .. 11 /\ i <= 8
    OBVIOUS
  <2>2. /\ 9 \in 1 .. 11 /\ ~(9 <= 8) /\ 9 - 8 = 1 /\ 10 \in 1 .. 11 /\ ~(10 <= 8)
        /\ 10 - 8 = 2 /\ 11 \in 1 .. 11 /\ ~(11 <= 8) /\ 11 - 8 = 3
    OBVIOUS
  <2>3. \A i \in 1 .. 8 : Order[i] = Numbers[i]
    BY <1>4, <1>6, <1>7, <2>1
  <2>4. Order[9] = b[1] /\ Order[10] = b[2] /\ Order[11] = b[3]
    BY <1>4, <1>7, <2>2
  <2> QED
    BY <2>3, <2>4
<1> QED
  BY <1>2, <1>3, <1>8, <1>9

LEMMA PlacesDiffer ==
    \A i, j \in 1 .. 11 : Order[i] = Order[j] => i = j
BY OrderIs

\* The last field is the one that has an object of its own.
LEMMA FieldsAre ==
    /\ \A f : f \in Fields <=> \/ f = "int8_test" \/ f = "uint8_test" \/ f = "int16_test"
                               \/ f = "uint16_test" \/ f = "int32_test" \/ f = "uint32_test"
                               \/ f = "int64_test" \/ f = "uint64_test" \/ f = "message"
                               \/ f = "example_enum" \/ f = "example_stru"
    /\ \A i \in 1 .. 11 : Order[i] \in Fields
    /\ \A f \in Fields : \E i \in 1 .. 11 : Order[i] = f
<1>1. DOMAIN Numbers = 1 .. 9
  BY DEF Numbers
<1>2. \A f : f \in ToSet(Numbers) <=> \E i \in 1 .. 9 : Numbers[i] = f
  BY <1>1 DEF ToSet
<1>3. ToSet(Numbers) = {"int8_test", "uint8_test", "int16_test", "uint16_test", "int32_test",
                        "uint32_test", "int64_test", "uint64_test", "example_enum"}
  BY <1>2 DEF Numbers
<1>4. ASSUME NEW f
      PROVE  f \in Fields <=> \/ f = "int8_test" \/ f = "uint8_test" \/ f = "int16_test"
                              \/ f = "uint16_test" \/ f = "int32_test" \/ f = "uint32_test"
                              \/ f = "int64_test" \/ f = "uint64_test" \/ f = "message"
                              \/ f = "example_enum" \/ f = "example_stru"
  BY <1>3 DEF Fields, Strings
<1>5. \A i \in 1 .. 11 : Order[i] \in Fields
  BY <1>4, OrderIs
<1>6. ASSUME NEW f \in Fields
      PROVE  \E i \in 1 .. 11 : Order[i] = f
  BY <1>4, OrderIs
<1> QED
  BY <1>4, <1>5, <1>6

\* One character for each name, and none of a field's name in capitals.
LEMMA SpelledIs ==
    /\ \A i \in 1 .. 11 : Spelled(Order[i]) = <<1000 + i>>
    /\ \A f \in Fields : Spelled(f) \in Seq(Letters) /\ Spelled(f) # Unnamed
<1>1. ASSUME NEW i \in 1 .. 11
      PROVE  Spelled(Order[i]) = <<1000 + i>>
  <2>1. DOMAIN Order = 1 .. 11
    BY OrderIs
  <2> DEFINE k == CHOOSE j \in DOMAIN Order : Order[j] = Order[i]
  <2>2. k = i
    BY <2>1, PlacesDiffer
  <2>3. Spelled(Order[i]) = <<1000 + k>>
    BY Zenon DEF Spelled
  <2> HIDE DEF k
  <2> QED
    BY <2>2, <2>3
<1>2. ASSUME NEW f \in Fields
      PROVE  Spelled(f) \in Seq(Letters) /\ Spelled(f) # Unnamed
  <2>1. PICK i \in 1 .. 11 : Order[i] = f
    BY FieldsAre
  <2> DEFINE c == 1000 + i
             s == <<c>>
  <2>2. c \in Letters
    BY DEF Letters
  <2> HIDE DEF c
  <2>3. s \in Seq(Letters) /\ s # <<>>
    BY <2>2
  <2>4. Spelled(f) = s
    BY <1>1, <2>1 DEF c
  <2> QED
    BY <2>3, <2>4 DEF Unnamed
<1> QED
  BY <1>1, <1>2

LEMMA NamesAre ==
    \A f, g \in Fields : SameName(Spelled(f), Spelled(g)) => f = g
<1> SUFFICES ASSUME NEW f \in Fields, NEW g \in Fields, SameName(Spelled(f), Spelled(g))
             PROVE  f = g
  OBVIOUS
<1>1. PICK i \in 1 .. 11 : Order[i] = f
  BY FieldsAre
<1>2. PICK j \in 1 .. 11 : Order[j] = g
  BY FieldsAre
<1>3. Spelled(f) = <<1000 + i>> /\ Spelled(g) = <<1000 + j>>
  <2>1. \A k \in 1 .. 11 : Spelled(Order[k]) = <<1000 + k>>
    BY SMTT(40), SpelledIs
  <2>2. Spelled(Order[i]) = <<1000 + i>>
    BY <2>1
  <2>3. Spelled(Order[j]) = <<1000 + j>>
    BY <2>1
  <2> QED
    BY <1>1, <1>2, <2>2, <2>3
<1>4. ToLower(<<1000 + i>>[1]) = ToLower(<<1000 + j>>[1])
  <2>1. 1 \in DOMAIN <<1000 + i>>
    OBVIOUS
  <2> QED
    BY <1>3, <2>1 DEF SameName
<1>5. 1000 + i = 1000 + j
  BY <1>4 DEF ToLower
<1>6. i = j
  BY <1>5
<1> QED
  BY <1>1, <1>2, <1>6

LEMMA NamesMatch ==
    \A f \in Fields : SameName(Spelled(f), Spelled(f))
BY DEF SameName

Held == \A f \in Fields : sample[f] \in Values(f)

\* Fields are strings of letters or numbers.
LEMMA ValuesTyped ==
    /\ \A f \in Fields : f \in Strings => Values(f) = CStrings
    /\ CStrings \subseteq Seq(Letters)
    /\ \A f \in Fields : f \notin Strings => Values(f) \subseteq Int
    /\ "message" \in Fields /\ "example_stru" \in Fields
    /\ \A f : f \in Strings <=> f = "message" \/ f = "example_stru"
<1>1. \A f : f \in Strings <=> f = "message" \/ f = "example_stru"
  BY DEF Strings
<1>2. \A f \in Fields : f \in Strings => Values(f) = CStrings
  BY <1>1, ValuesAre
<1>7. CStrings \subseteq Seq(Letters)
  BY DEF CStrings
<1>3. \A max \in Nat : Signed(max) \subseteq Int /\ Unsigned(max) \subseteq Int
  BY DEF Signed, Unsigned
<1>4. Max8 \in Nat /\ Max16 \in Nat /\ Max32 \in Nat /\ Max64 \in Nat
  BY NumberAssumption
<1>5. ASSUME NEW f \in Fields, f \notin Strings
      PROVE  Values(f) \subseteq Int
  <2>1. \/ f = "int8_test" \/ f = "uint8_test" \/ f = "int16_test"
        \/ f = "uint16_test" \/ f = "int32_test" \/ f = "uint32_test"
        \/ f = "int64_test" \/ f = "uint64_test" \/ f = "example_enum"
    BY <1>1, <1>5, FieldsAre
  <2>2. \/ \E max \in Nat : Values(f) = Signed(max)
        \/ \E max \in Nat : Values(f) = Unsigned(max)
    BY <1>4, <2>1, ValuesAre
  <2> QED
    BY <1>3, <2>2
<1>6. "message" \in Fields /\ "example_stru" \in Fields
  BY FieldsAre
<1> QED
  BY <1>1, <1>2, <1>5, <1>6, <1>7

LEMMA AddedSimple ==
    ASSUME Held
    PROVE  \A f \in Fields : Simple(Letters, Added(f))
<1> SUFFICES ASSUME NEW f \in Fields
             PROVE  Simple(Letters, Added(f))
  OBVIOUS
<1>1. sample[f] \in Values(f)
  BY DEF Held
<1>2. CASE f = "message"
  <2>1. sample[f] \in Seq(Letters)
    BY <1>1, <1>2, ValuesAre, ValuesTyped
  <2>2. Added(f) = String(sample[f])
    BY <1>2, AddedIs
  <2> QED
    BY <2>1, <2>2 DEF Simple
<1>3. CASE f = "example_stru"
  <2> DEFINE name == Spelled("message")
             s == sample[f]
  <2>1. s \in Seq(Letters)
    BY <1>1, <1>3, ValuesAre, ValuesTyped
  <2>2. Added(f) = Object(<<Member(name, String(s))>>)
    BY <1>3, AddedIs
  <2>3. name \in Seq(Letters) /\ name # Unnamed
    BY SMTT(40), SpelledIs, FieldsAre
  <2> HIDE DEF name, s
  <2> QED
    BY <2>1, <2>2, <2>3 DEF Simple
<1>4. CASE f \notin Strings
  <2>1. sample[f] \in Int
    BY <1>1, <1>4, ValuesTyped
  <2>2. Double(sample[f]) \in Int
    BY <2>1, TextInt
  <2>3. Added(f) = Number(Double(sample[f]))
    BY <1>4, AddedIs
  <2> QED
    BY <2>2, <2>3 DEF Simple
<1> QED
  BY <1>2, <1>3, <1>4, ValuesTyped

\* The member that is added for a field.
ForField(f) == Member(Spelled(f), Added(f))

Parts(fs) == [i \in 1 .. 11 |-> IF Order[i] \in fs THEN <<ForField(Order[i])>> ELSE <<>>]

LEMMA PartsAre ==
    ASSUME NEW fs
    PROVE  /\ Members(fs) = FlattenSeq(Parts(fs))
           /\ Parts(fs) \in Seq(Seq({ForField(f) : f \in fs})) /\ Len(Parts(fs)) = 11
           /\ \A i \in 1 .. 11 :
                  Parts(fs)[i] = IF Order[i] \in fs THEN <<ForField(Order[i])>> ELSE <<>>
<1> DEFINE M == {ForField(f) : f \in fs}
           P == Parts(fs)
<1>1. Members(fs) = FlattenSeq(P)
  <2>1. DOMAIN Order = 1 .. 11
    BY OrderIs
  <2> QED
    BY <2>1 DEF Members, Parts, ForField
<1>2. ASSUME NEW i \in 1 .. 11
      PROVE  (IF Order[i] \in fs THEN <<ForField(Order[i])>> ELSE <<>>) \in Seq(M)
  <2> DEFINE m == ForField(Order[i])
  <2>1. Order[i] \in fs => m \in M
    OBVIOUS
  <2>2. <<>> \in Seq(M)
    BY EmptySeq
  <2> HIDE DEF m, M
  <2>3. m \in M => <<m>> \in Seq(M)
    OBVIOUS
  <2>4. (IF Order[i] \in fs THEN <<m>> ELSE <<>>) \in Seq(M)
    BY <2>1, <2>2, <2>3
  <2> QED
    BY <2>4 DEF m
<1>3. \A i \in 1 .. 11 :
          P[i] = IF Order[i] \in fs THEN <<ForField(Order[i])>> ELSE <<>>
  BY DEF Parts
<1> HIDE DEF M
<1>4. P \in Seq(Seq(M)) /\ Len(P) = 11
  <2>1. P = [i \in 1 .. 11 |-> P[i]]
    BY DEF Parts
  <2>2. \A i \in 1 .. 11 : P[i] \in Seq(M)
    BY <1>2, <1>3
  <2> HIDE DEF P
  <2>3. [i \in 1 .. 11 |-> P[i]] \in Seq(Seq(M)) /\ Len([i \in 1 .. 11 |-> P[i]]) = 11
    BY <2>2, IsASeq
  <2> QED
    BY <2>1, <2>3
<1> QED
  BY <1>1, <1>3, <1>4 DEF M

\* Whatever fields are added, a member list of just those fields.
LEMMA MembersListed ==
    ASSUME Held, NEW fs, fs \subseteq Fields
    PROVE  /\ MemberList(Letters, Members(fs))
           /\ \A j \in 1 .. Len(Members(fs)) : \E f \in fs : Members(fs)[j] = ForField(f)
<1> DEFINE M == {ForField(f) : f \in fs}
           ms == Members(fs)
<1>1. ms \in Seq(M)
  <2> DEFINE P == Parts(fs)
  <2>1. P \in Seq(Seq(M)) /\ ms = FlattenSeq(P) /\ Len(P) = 11
    BY PartsAre
  <2> HIDE DEF M, P, ms
  <2>2. /\ \A i \in 0 .. Len(P) : FlatTo(P, i) \in Seq(M)
        /\ FlattenSeq(P) = FlatTo(P, Len(P))
    BY <2>1, FlatSteps
  <2> QED
    BY <2>1, <2>2
<1>2. \A f \in Fields : /\ ForField(f).name = Spelled(f) /\ ForField(f).item = Added(f)
  BY DEF ForField, Member
<1>3. \A m \in M : m.name \in Seq(Letters) /\ m.name # Unnamed /\ Simple(Letters, m.item)
  <2> SUFFICES ASSUME NEW f \in fs
               PROVE  /\ ForField(f).name \in Seq(Letters) /\ ForField(f).name # Unnamed
                      /\ Simple(Letters, ForField(f).item)
    OBVIOUS
  <2>1. f \in Fields
    OBVIOUS
  <2>2. Spelled(f) \in Seq(Letters) /\ Spelled(f) # Unnamed
    BY <2>1, SpelledIs
  <2>3. Simple(Letters, Added(f))
    BY <2>1, AddedSimple
  <2> QED
    BY <1>2, <2>1, <2>2, <2>3
<1>4. \A m \in M : \E f \in fs : m = ForField(f)
  OBVIOUS
<1> HIDE DEF M, ms
<1>5. Len(ms) \in Nat /\ ms = [i \in 1 .. Len(ms) |-> ms[i]] /\ \A i \in 1 .. Len(ms) : ms[i] \in M
  BY <1>1, LenProperties, ElementOfSeq
<1>6. MemberList(Letters, ms)
  BY <1>3, <1>5 DEF MemberList
<1>7. \A j \in 1 .. Len(ms) : \E f \in fs : ms[j] = ForField(f)
  BY <1>4, <1>5
<1> QED
  BY <1>6, <1>7 DEF ms

\* All fields, in their order.
LEMMA MembersWhole ==
    Members(Fields) = [i \in 1 .. 11 |-> ForField(Order[i])]
<1> DEFINE M == {ForField(f) : f \in Fields}
           P == Parts(Fields)
           w == [i \in 1 .. 11 |-> ForField(Order[i])]
           T == {k \in 0 .. 11 : /\ Len(FlatTo(P, k)) = k
                                 /\ \A j \in 1 .. k : FlatTo(P, k)[j] = w[j]}
<1>1. Members(Fields) = FlattenSeq(P) /\ P \in Seq(Seq(M)) /\ Len(P) = 11
  BY PartsAre
<1>2. \A i \in 1 .. 11 : P[i] = <<w[i]>> /\ w[i] \in M
  <2> TAKE i \in 1 .. 11
  <2>1. Order[i] \in Fields
    BY FieldsAre
  <2>2. P[i] = <<ForField(Order[i])>>
    BY <2>1, PartsAre
  <2> QED
    BY <2>1, <2>2
<1>3. w = [i \in 1 .. 11 |-> w[i]]
  OBVIOUS
<1> HIDE DEF M, P, w
<1>4. /\ \A i \in 0 .. 11 : FlatTo(P, i) \in Seq(M)
      /\ \A i \in 1 .. 11 : FlatTo(P, i) = FlatTo(P, i - 1) \o P[i]
      /\ FlattenSeq(P) = FlatTo(P, 11)
  BY <1>1, FlatSteps
<1>5. 0 \in T
  BY DEF FlatTo
<1>6. ASSUME NEW k \in 0 .. 10, k \in T
      PROVE  k + 1 \in T
  <2> DEFINE a == FlatTo(P, k)
             b == FlatTo(P, k + 1)
             x == w[k + 1]
  <2>1. k + 1 \in 1 .. 11 /\ k + 1 \in 0 .. 11 /\ k \in 0 .. 11 /\ (k + 1) - 1 = k
    OBVIOUS
  <2>2. b = a \o <<x>> /\ a \in Seq(M) /\ x \in M /\ b \in Seq(M)
    <3>1. b = FlatTo(P, (k + 1) - 1) \o P[k + 1]
      BY <1>4, <2>1
    <3> QED
      BY <1>2, <1>4, <2>1, <3>1
  <2>3. Len(a) = k /\ \A j \in 1 .. k : a[j] = w[j]
    BY <1>6
  <2> HIDE DEF a, b, T
  <2>4. b = Append(a, x)
    BY <2>2, AppendIsConcat
  <2>5. Len(b) = k + 1 /\ b[k + 1] = x /\ \A j \in 1 .. k : b[j] = a[j]
    BY <2>2, <2>3, <2>4, AppendProperties
  <2>6. \A j \in 1 .. k + 1 : j = k + 1 \/ j \in 1 .. k
    OBVIOUS
  <2>7. \A j \in 1 .. k + 1 : b[j] = w[j]
    BY <2>3, <2>5, <2>6
  <2> QED
    BY <2>1, <2>5, <2>7 DEF T, b
<1> HIDE DEF T
<1>7. \A k \in 0 .. 11 : k \in T
  <2>1. \A n \in 0 .. 11 - 1 : n \in T => n + 1 \in T
    <3>1. \A n \in 0 .. 11 - 1 : n \in 0 .. 10
      OBVIOUS
    <3> QED
      BY <1>6, <3>1
  <2>2. 11 \in Nat
    OBVIOUS
  <2> QED
    BY <1>5, <2>1, <2>2, UpTo
<1>8. Len(FlatTo(P, 11)) = 11 /\ \A j \in 1 .. 11 : FlatTo(P, 11)[j] = w[j]
  <2>1. 11 \in T
    BY <1>7
  <2> QED
    BY <2>1 DEF T
<1>9. FlatTo(P, 11) = [j \in 1 .. 11 |-> FlatTo(P, 11)[j]]
  <2>1. 11 \in 0 .. 11
    OBVIOUS
  <2>2. FlatTo(P, 11) \in Seq(M)
    BY <1>4, <2>1
  <2> QED
    BY <1>8, <2>2, LenProperties
<1>10. FlatTo(P, 11) = w
  BY <1>3, <1>8, <1>9
<1> QED
  BY <1>1, <1>4, <1>10 DEF w

\* What a look-up finds: the item of a member of that name, or none.
LEMMA LookUpIs ==
    ASSUME NEW object, object.type = "Object", NEW c, c = object.child, Len(c) \in Nat, NEW name
    PROVE  \/ /\ GetObjectItem(object, name) = NullItem
              /\ \A j \in 1 .. Len(c) : ~SameName(c[j].name, name)
           \/ \E j \in 1 .. Len(c) :
                  SameName(c[j].name, name) /\ GetObjectItem(object, name) = c[j].item
<1> DEFINE I == {j \in 1 .. Len(c) : SameName(c[j].name, name)}
           k == IF I # {} THEN Min(I) ELSE 0
<1>1. GetObjectItem(object, name) = IF k = 0 THEN NullItem ELSE c[k].item
  BY DEF GetObjectItem, SelectInSeq
<1>2. CASE I = {}
  BY <1>1, <1>2
<1>3. CASE I # {}
  <2>1. I \subseteq Nat
    OBVIOUS
  <2> DEFINE m == Min(I)
  <2>2. m \in I
    <3> HIDE DEF I
    <3>1. \E x \in I : \A y \in I : x <= y
      BY <1>3, <2>1, LeastElement
    <3> QED
      BY <3>1 DEF Min
  <2>3. k = m
    BY <1>3
  <2> HIDE DEF k, m
  <2>4. m \in 1 .. Len(c) /\ SameName(c[m].name, name) /\ m # 0
    BY <2>2
  <2>5. GetObjectItem(object, name) = c[m].item
    BY <1>1, <2>3, <2>4
  <2> QED
    BY <2>4, <2>5
<1> QED
  BY <1>2, <1>3

LEMMA NoObject ==
    ASSUME NEW object, object.type # "Object", NEW name
    PROVE  GetObjectItem(object, name) = NullItem
<1> DEFINE none == <<>>
           I == {j \in 1 .. Len(none) : SameName(none[j].name, name)}
           k == IF I # {} THEN Min(I) ELSE 0
<1>1. GetObjectItem(object, name) = IF k = 0 THEN NullItem ELSE none[k].item
  BY DEF GetObjectItem, SelectInSeq
<1>2. I = {}
  <2>1. Len(none) = 0
    OBVIOUS
  <2>2. 1 .. Len(none) = {}
    BY <2>1
  <2> HIDE DEF none
  <2> QED
    BY <2>2
<1> HIDE DEF I
<1>3. k = 0
  BY <1>2
<1> HIDE DEF k
<1> QED
  BY <1>1, <1>3

\* An item of another type or of another name is not one to read.
LEMMA NullIs ==
    NullItem.type = "NULL" /\ \A name : GetObjectItem(NullItem, name) = NullItem
<1>1. NullItem.type = "NULL"
  BY DEF NullItem, Item
<1> QED
  BY <1>1, NoObject

LEMMA NullNotRead ==
    /\ \A object : (\E f \in Fields : Source(object, f) = NullItem) => ~Complies(object)
    /\ ~Complies(NullItem)
<1>1. ASSUME NEW f
      PROVE  ~Readable(f, NullItem)
  BY NullIs DEF Readable
<1>2. \A object : (\E f \in Fields : Source(object, f) = NullItem) => ~Complies(object)
  BY <1>1 DEF Complies
<1>3. \E f \in Fields : Source(NullItem, f) = NullItem
  <2>1. Source(NullItem, "message") = NullItem
    BY NullIs DEF Source
  <2> QED
    BY <2>1, ValuesTyped
<1> QED
  BY <1>2, <1>3

\* A look-up in the object that comes back.
LEMMA ReturnedLookUp ==
    ASSUME NEW ms, Len(ms) \in Nat, NEW name
    PROVE  LET found == GetObjectItem(Object(Returned(ms)), name)
           IN  \/ /\ found = NullItem
                  /\ \A j \in 1 .. Len(ms) : ~SameName(ms[j].name, name)
               \/ \E j \in 1 .. Len(ms) :
                      SameName(ms[j].name, name) /\ found = Back(ms[j].item)
<1> DEFINE c == Returned(ms)
           x == Object(c)
           found == GetObjectItem(x, name)
<1>1. x.type = "Object" /\ x.child = c
  BY ItemsAre
<1>2. /\ Len(c) = Len(ms)
      /\ \A j \in 1 .. Len(ms) : c[j].name = ms[j].name /\ c[j].item = Back(ms[j].item)
  BY DEF Returned, Member
<1> HIDE DEF c, x
<1>3. \/ found = NullItem /\ \A j \in 1 .. Len(c) : ~SameName(c[j].name, name)
      \/ \E j \in 1 .. Len(c) : SameName(c[j].name, name) /\ found = c[j].item
  <2>1. Len(c) \in Nat /\ c = x.child /\ x.type = "Object"
    BY <1>1, <1>2
  <2> QED
    BY ONLY <2>1, LookUpIs
<1> HIDE DEF found
<1>4. CASE found = NullItem /\ \A j \in 1 .. Len(c) : ~SameName(c[j].name, name)
  <2>1. \A j \in 1 .. Len(ms) : ~SameName(ms[j].name, name)
    BY <1>2, <1>4
  <2> QED
    BY <1>4, <2>1 DEF found, x, c
<1>5. CASE \E j \in 1 .. Len(c) : SameName(c[j].name, name) /\ found = c[j].item
  <2>1. PICK j \in 1 .. Len(c) : SameName(c[j].name, name) /\ found = c[j].item
    BY <1>5
  <2>2. j \in 1 .. Len(ms) /\ SameName(ms[j].name, name) /\ found = Back(ms[j].item)
    BY <1>2, <2>1
  <2>3. \E i \in 1 .. Len(ms) : SameName(ms[i].name, name) /\ found = Back(ms[i].item)
    BY <2>2
  <2> QED
    BY <2>3 DEF found, x, c
<1> QED
  BY <1>3, <1>4, <1>5

LEMMA WholeIs ==
    LET ms == Members(Fields)
    IN  /\ Len(ms) = 11
        /\ \A i \in 1 .. 11 : /\ ms[i].name = Spelled(Order[i])
                              /\ ms[i].item = Added(Order[i])
BY MembersWhole DEF ForField, Member

\* In the tree that comes back each field is found under its name.
LEMMA WholeLookUp ==
    \A f \in Fields :
        GetObjectItem(Object(Returned(Members(Fields))), Spelled(f)) = Back(Added(f))
<1> SUFFICES ASSUME NEW f \in Fields
             PROVE  GetObjectItem(Object(Returned(Members(Fields))), Spelled(f)) = Back(Added(f))
  OBVIOUS
<1> DEFINE ms == Members(Fields)
           found == GetObjectItem(Object(Returned(ms)), Spelled(f))
<1>1. /\ Len(ms) = 11
      /\ \A i \in 1 .. 11 : ms[i].name = Spelled(Order[i]) /\ ms[i].item = Added(Order[i])
  BY WholeIs
<1> HIDE DEF ms
<1>2. \/ found = NullItem /\ \A j \in 1 .. Len(ms) : ~SameName(ms[j].name, Spelled(f))
      \/ \E j \in 1 .. Len(ms) :
             SameName(ms[j].name, Spelled(f)) /\ found = Back(ms[j].item)
  <2>1. Len(ms) \in Nat
    BY <1>1
  <2> QED
    BY ONLY <2>1, ReturnedLookUp
<1>3. PICK i \in 1 .. 11 : Order[i] = f
  BY FieldsAre
<1>4. SameName(ms[i].name, Spelled(f))
  BY <1>1, <1>3, NamesMatch
<1>5. PICK j \in 1 .. Len(ms) : SameName(ms[j].name, Spelled(f)) /\ found = Back(ms[j].item)
  BY <1>1, <1>2, <1>4
<1>6. Order[j] \in Fields /\ SameName(Spelled(Order[j]), Spelled(f))
  BY <1>1, <1>5, FieldsAre
<1>7. Order[j] = f
  BY <1>6, NamesAre
<1>8. found = Back(Added(f))
  BY <1>1, <1>5, <1>7
<1> QED
  BY <1>8 DEF ms

\* Every string as it was, every number as its text says.
LEMMA WholeSources ==
    \A f \in Fields :
        /\ f \in Strings =>
               Source(Object(Returned(Members(Fields))), f) = String(sample[f])
        /\ f \notin Strings =>
               Source(Object(Returned(Members(Fields))), f) = Number(Double(Text(sample[f])))
<1> DEFINE P == Object(Returned(Members(Fields)))
<1>1. \A f \in Fields : GetObjectItem(P, Spelled(f)) = Back(Added(f))
  BY WholeLookUp
<1> HIDE DEF P
<1>2. \A s : Back(String(s)) = String(s)
  BY ItemsAre DEF Back
<1>3. Source(P, "message") = String(sample["message"])
  <2>1. Source(P, "message") = GetObjectItem(P, Spelled("message"))
    BY DEF Source
  <2> QED
    BY <1>1, <1>2, <2>1, AddedIs, ValuesTyped
<1>4. Source(P, "example_stru") = String(sample["example_stru"])
  <2> DEFINE s == String(sample["example_stru"])
             m == Member(Spelled("message"), s)
             c == <<m>>
             x == Object(c)
  <2>1. GetObjectItem(P, Spelled("example_stru")) = x
    <3>1. Back(x) = x
      <4>1. x.type = "Object"
        BY ItemsAre
      <4> HIDE DEF x
      <4> QED
        BY <4>1 DEF Back
    <3>2. Added("example_stru") = x
      BY AddedIs
    <3> QED
      BY <1>1, <3>1, <3>2, ValuesTyped
  <2>2. x.type = "Object" /\ x.child = c
    BY ItemsAre
  <2>3. Len(c) = 1 /\ c[1] = m /\ m.name = Spelled("message") /\ m.item = s
    BY DEF Member
  <2> HIDE DEF s, m, c, x
  <2>4. GetObjectItem(x, Spelled("message")) = s
    <3> DEFINE found == GetObjectItem(x, Spelled("message"))
    <3>1. \/ /\ found = NullItem
             /\ \A j \in 1 .. Len(c) : ~SameName(c[j].name, Spelled("message"))
          \/ \E j \in 1 .. Len(c) :
                 SameName(c[j].name, Spelled("message")) /\ found = c[j].item
      BY <2>2, <2>3, LookUpIs
    <3>2. SameName(c[1].name, Spelled("message"))
      BY <2>3, NamesMatch, ValuesTyped
    <3> HIDE DEF found
    <3>3. \A j \in 1 .. Len(c) : j = 1
      BY <2>3
    <3>4. 1 \in 1 .. Len(c)
      BY <2>3
    <3>5. found = c[1].item
      BY <3>1, <3>2, <3>3, <3>4
    <3> QED
      BY <2>3, <3>5 DEF found
  <2>5. Source(P, "example_stru") =
        GetObjectItem(GetObjectItem(P, Spelled("example_stru")), Spelled("message"))
    BY DEF Source
  <2> QED
    BY <2>1, <2>4, <2>5 DEF s
<1>5. ASSUME NEW f \in Fields, f \notin Strings
      PROVE  Source(P, f) = Number(Double(Text(sample[f])))
  <2> DEFINE n == sample[f]
  <2>1. Added(f) = Number(Double(n))
    BY <1>5, AddedIs
  <2>2. f # "example_stru"
    BY <1>5, ValuesTyped
  <2>3. Source(P, f) = Back(Number(Double(n)))
    BY <1>1, <2>1, <2>2 DEF Source
  <2>4. Back(Number(Double(n))) = Number(Double(PrintNumber(Double(n))))
    BY ItemsAre DEF Back
  <2> QED
    BY <2>3, <2>4 DEF Text
<1> QED
  BY <1>3, <1>4, <1>5, ValuesTyped DEF P

\* Without a member, or without the string in the last one, what comes back is not read.
LEMMA LessNotRead ==
    ASSUME Held
    PROVE  \A f \in Fields : ~Complies(Parse(PrintText(Object(Members(Fields \ {f})))))
<1> SUFFICES ASSUME NEW f \in Fields
             PROVE  ~Complies(Parse(PrintText(Object(Members(Fields \ {f})))))
  OBVIOUS
<1> DEFINE fs == Fields \ {f}
           ms == Members(fs)
           P == Object(Returned(ms))
           found == GetObjectItem(P, Spelled(f))
<1>1. MemberList(Letters, ms) /\ \A j \in 1 .. Len(ms) : \E g \in fs : ms[j] = ForField(g)
  <2>1. fs \subseteq Fields
    OBVIOUS
  <2> HIDE DEF fs
  <2> QED
    BY <2>1, MembersListed
<1> HIDE DEF ms
<1>2. Len(ms) \in Nat
  BY <1>1 DEF MemberList
<1>3. Parse(PrintText(Object(ms))) = P
  BY <1>1, ObjectComesBack, WideIs
<1>4. \A j \in 1 .. Len(ms) : ~SameName(ms[j].name, Spelled(f))
  <2> TAKE j \in 1 .. Len(ms)
  <2>1. PICK g \in fs : ms[j] = ForField(g)
    BY <1>1
  <2>2. ms[j].name = Spelled(g) /\ g \in Fields /\ g # f
    BY <2>1 DEF ForField, Member
  <2> QED
    BY <2>2, NamesAre
<1>5. found = NullItem
  BY <1>2, <1>4, ReturnedLookUp
<1> HIDE DEF P, found
<1>6. Source(P, f) = NullItem
  BY <1>5, NullIs DEF Source, found
<1> QED
  BY <1>3, <1>6, NullNotRead DEF ms

\* The whole without the string in its last member.
Hollow == [Members(Fields) EXCEPT ![11].item = Object(<<>>)]

LEMMA HollowIs ==
    ASSUME Held
    PROVE  /\ MemberList(Letters, Hollow) /\ Len(Hollow) = 11
           /\ \A i \in 1 .. 11 : Hollow[i].name = Spelled(Order[i])
           /\ Hollow[11].item = Object(<<>>)
<1> DEFINE ms == Members(Fields)
           x == Object(<<>>)
           m == [ms[11] EXCEPT !.item = x]
           hs == [ms EXCEPT ![11] = m]
<1>1. MemberList(Letters, ms)
  <2>1. Fields \subseteq Fields
    OBVIOUS
  <2> QED
    BY <2>1, MembersListed
<1>2. /\ Len(ms) = 11 /\ ms[11].name = Spelled(Order[11])
      /\ \A i \in 1 .. 11 : ms[i].name = Spelled(Order[i])
  <2>1. 11 \in 1 .. 11
    OBVIOUS
  <2> QED
    BY <2>1, WholeIs
<1>3. m.name = ms[11].name /\ m.item = x
  <2>1. ms[11] = Member(ms[11].name, ms[11].item)
    <3>1. ms[11] = ForField(Order[11])
      BY MembersWhole
    <3> HIDE DEF ms
    <3> QED
      BY <3>1 DEF ForField, Member
  <2> DEFINE k == ms[11]
  <2> HIDE DEF x, k
  <2>2. k = [name |-> k.name, item |-> k.item]
    BY <2>1 DEF Member, k
  <2>3. [k EXCEPT !.item = x].name = k.name /\ [k EXCEPT !.item = x].item = x
    BY <2>2
  <2> QED
    BY <2>3 DEF k
<1>4. Hollow = hs
  BY DEF Hollow
<1>5. Simple(Letters, x)
  BY DEF Simple
<1> HIDE DEF ms, x, m
<1>6. ms = [i \in 1 .. 11 |-> ms[i]]
  BY <1>1, <1>2 DEF MemberList
<1>7. hs = [i \in 1 .. 11 |-> IF i = 11 THEN m ELSE ms[i]]
  BY <1>6
<1> HIDE DEF hs
<1>8. Len(hs) = 11 /\ \A i \in 1 .. 11 : hs[i] = IF i = 11 THEN m ELSE ms[i]
  BY <1>7
<1>9. hs = [i \in 1 .. Len(hs) |-> hs[i]]
  BY <1>7, <1>8
<1>10. ASSUME NEW i \in 1 .. 11
       PROVE  /\ hs[i].name = Spelled(Order[i])
              /\ hs[i].name \in Seq(Letters) /\ hs[i].name # Unnamed
              /\ Simple(Letters, hs[i].item)
  <2>1. /\ ms[i].name \in Seq(Letters) /\ ms[i].name # Unnamed
        /\ Simple(Letters, ms[i].item)
    BY <1>1, <1>2 DEF MemberList
  <2>2. ms[i].name = Spelled(Order[i])
    BY <1>2
  <2>3. CASE i = 11
    BY <1>3, <1>5, <1>8, <2>1, <2>2, <2>3
  <2>4. CASE i # 11
    BY <1>8, <2>1, <2>2, <2>4
  <2> QED
    BY <2>3, <2>4
<1>11. MemberList(Letters, hs)
  BY <1>8, <1>9, <1>10 DEF MemberList
<1>12. hs[11].item = x
  BY <1>3, <1>8
<1> QED
  BY <1>4, <1>8, <1>10, <1>11, <1>12 DEF x

LEMMA HollowNotRead ==
    ASSUME Held
    PROVE  ~Complies(Parse(PrintText(Object(Hollow))))
<1> DEFINE ms == Hollow
           P == Object(Returned(ms))
           f == "example_stru"
           x == Object(<<>>)
           found == GetObjectItem(P, Spelled(f))
<1>1. /\ MemberList(Letters, ms) /\ Len(ms) = 11
      /\ \A i \in 1 .. 11 : ms[i].name = Spelled(Order[i])
      /\ ms[11].item = x
  BY HollowIs
<1>2. Parse(PrintText(Object(ms))) = P
  BY <1>1, ObjectComesBack, WideIs
<1>3. \/ found = NullItem /\ \A j \in 1 .. Len(ms) : ~SameName(ms[j].name, Spelled(f))
      \/ \E j \in 1 .. Len(ms) :
             SameName(ms[j].name, Spelled(f)) /\ found = Back(ms[j].item)
  <2>1. Len(ms) \in Nat
    BY <1>1
  <2> QED
    BY ONLY <2>1, ReturnedLookUp
<1>4. Back(x) = x /\ x.type = "Object" /\ x.child = <<>>
  <2>1. x.type = "Object" /\ x.child = <<>>
    BY ItemsAre
  <2> HIDE DEF x
  <2> QED
    BY <2>1 DEF Back
<1> HIDE DEF ms, P, x
<1>5. found = NullItem \/ found = x
  <2>1. ASSUME NEW j \in 1 .. Len(ms), SameName(ms[j].name, Spelled(f))
        PROVE  j = 11
    <3>1. Order[j] \in Fields /\ ms[j].name = Spelled(Order[j]) /\ j \in 1 .. 11
      BY <1>1, FieldsAre
    <3>2. Order[j] = f
      BY <2>1, <3>1, NamesAre, ValuesTyped
    <3> QED
      BY <3>1, <3>2, OrderIs, PlacesDiffer
  <2> HIDE DEF found
  <2> QED
    BY <1>1, <1>3, <1>4, <2>1
<1>6. GetObjectItem(x, Spelled("message")) = NullItem
  <2> DEFINE c == <<>>
  <2>1. Len(c) = 0
    OBVIOUS
  <2>2. x.type = "Object" /\ x.child = c
    BY <1>4
  <2> HIDE DEF c
  <2>3. Len(c) \in Nat
    BY <2>1
  <2> DEFINE g == GetObjectItem(x, Spelled("message"))
  <2>4. g = NullItem \/ \E j \in 1 .. Len(c) : SameName(c[j].name, Spelled("message"))
    BY <2>2, <2>3, LookUpIs
  <2>5. 1 .. Len(c) = {}
    BY <2>1
  <2> QED
    BY <2>4, <2>5
<1>7. Source(P, f) = GetObjectItem(found, Spelled("message"))
  BY DEF Source
<1>8. Source(P, f) = NullItem
  BY <1>5, <1>6, <1>7, NullIs
<1> QED
  BY <1>2, <1>8, NullNotRead, ValuesTyped DEF ms

LEMMA EmptyNotRead == ~Complies(Parse(<<>>))
BY ParseNothing, NullNotRead

\* A sequence of tokens of letters is a text.
LEMMA TextsAre ==
    /\ Texts = Seq(Tokens(Letters))
    /\ \A text \in Texts : /\ Len(text) \in Nat /\ DOMAIN text = 1 .. Len(text)
                           /\ \A i \in 1 .. Len(text) : /\ Token(text[i])
                                                        /\ text[i] \in Tokens(Letters)
<1>1. Texts = Seq(Tokens(Letters))
  BY DEF Texts, Tokens
<1>2. \A t \in Tokens(Letters) : Token(t)
  BY DEF Tokens, Token
<1>3. ASSUME NEW text \in Texts
      PROVE  /\ Len(text) \in Nat /\ DOMAIN text = 1 .. Len(text)
             /\ \A i \in 1 .. Len(text) : Token(text[i]) /\ text[i] \in Tokens(Letters)
  <2>1. text \in Seq(Tokens(Letters))
    BY <1>1
  <2>2. Len(text) \in Nat /\ DOMAIN text = 1 .. Len(text)
    BY <2>1, LenProperties
  <2>3. \A i \in 1 .. Len(text) : text[i] \in Tokens(Letters)
    BY <2>1, ElementOfSeq
  <2> QED
    BY <1>2, <2>2, <2>3
<1> QED
  BY <1>1, <1>3

\* What is published of a sample, whole or not, is a text.
LEMMA SentTyped ==
    ASSUME Held
    PROVE  /\ Published \in Texts /\ PrintText(Object(Members(Fields))) \in Texts
           /\ \A f \in Fields : PrintText(Object(Members(Fields \ {f}))) \in Texts
           /\ PrintText(Object(Hollow)) \in Texts /\ <<>> \in Texts
<1>1. \A fs : fs \subseteq Fields =>
          /\ PrintText(Object(Members(fs))) \in Texts
          /\ Front(PrintText(Object(Members(fs)))) \in Texts
  <2> SUFFICES ASSUME NEW fs, fs \subseteq Fields
               PROVE  /\ PrintText(Object(Members(fs))) \in Texts
                      /\ Front(PrintText(Object(Members(fs)))) \in Texts
    OBVIOUS
  <2> DEFINE ms == Members(fs)
  <2>1. MemberList(Letters, ms)
    BY MembersListed
  <2> HIDE DEF ms
  <2>2. /\ PrintText(Object(ms)) \in Seq(Tokens(Letters))
        /\ Front(PrintText(Object(ms))) \in Seq(Tokens(Letters))
    BY <2>1, ObjectComesBack, WideIs
  <2> QED
    BY <2>2, TextsAre DEF ms
<1>2. PrintText(Object(Hollow)) \in Texts
  <2>1. MemberList(Letters, Hollow)
    BY HollowIs
  <2>2. PrintText(Object(Hollow)) \in Seq(Tokens(Letters))
    BY <2>1, ObjectComesBack, WideIs
  <2> QED
    BY <2>2, TextsAre
<1>3. <<>> \in Texts
  BY TextsAre, EmptySeq
<1>4. \A f \in Fields : Fields \ {f} \subseteq Fields
  OBVIOUS
<1>5. Fields \subseteq Fields
  OBVIOUS
<1>6. Published \in Texts
  BY <1>1, <1>5 DEF Published
<1> QED
  BY <1>1, <1>2, <1>3, <1>4, <1>5, <1>6

\* strcpy copies up to the first zero, and all of a string of letters.
LEMMA CStringIs ==
    /\ \A s \in Seq(Wide) : CString(s) \in Seq(Letters)
    /\ \A s \in Seq(Letters) : CString(s) = s
<1>1. Wide = Letters \union {0} /\ 0 \notin Letters
  BY DEF Wide, Letters
<1>2. ASSUME NEW s \in Seq(Wide)
      PROVE  /\ CString(s) \in Seq(Letters)
             /\ s \in Seq(Letters) => CString(s) = s
  <2> DEFINE n == Len(s)
             I == {j \in 1 .. n : s[j] = 0}
             m == Min(I)
             k == IF I # {} THEN m ELSE 0
  <2>1. CString(s) = IF k = 0 THEN s ELSE SubSeq(s, 1, k - 1)
    BY DEF CString, SelectInSeq
  <2>2. n \in Nat /\ s = [j \in 1 .. n |-> s[j]] /\ \A j \in 1 .. n : s[j] \in Wide
    BY LenProperties, ElementOfSeq
  <2>3. CASE I = {}
    <3>1. \A j \in 1 .. n : s[j] \in Letters
      BY <1>1, <2>2, <2>3
    <3> HIDE DEF n
    <3>2. [j \in 1 .. n |-> s[j]] \in Seq(Letters)
      BY <2>2, <3>1, IsASeq
    <3>3. k = 0
      BY <2>3
    <3> QED
      BY <2>1, <2>2, <3>2, <3>3
  <2>4. CASE I # {}
    <3>1. m \in I /\ \A j \in I : m <= j
      <4>1. I \subseteq Nat
        BY <2>2
      <4> HIDE DEF I
      <4>2. \E x \in I : \A y \in I : x <= y
        BY <2>4, <4>1, LeastElement
      <4> QED
        BY <4>2 DEF Min
    <3>2. k = m
      BY <2>4
    <3> HIDE DEF m, k
    <3>3. m \in 1 .. n /\ s[m] = 0 /\ m # 0
      BY <3>1
    <3>4. \A j \in 1 .. m - 1 : s[j] \in Letters
      <4> TAKE j \in 1 .. m - 1
      <4>1. j \in 1 .. n /\ ~(m <= j)
        BY <2>2, <3>3
      <4>2. j \notin I
        BY <3>1, <4>1
      <4>3. s[j] # 0
        BY <4>1, <4>2
      <4> QED
        BY <1>1, <2>2, <4>1, <4>3
    <3>5. m - 1 \in Int /\ 1 \in Int
      BY <2>2, <3>3
    <3> HIDE DEF I, n
    <3>6. SubSeq(s, 1, m - 1) \in Seq(Letters)
      BY <3>4, <3>5, SubSeqProperties
    <3>7. s \notin Seq(Letters)
      <4> SUFFICES ASSUME s \in Seq(Letters)
                   PROVE  FALSE
        OBVIOUS
      <4>1. s[m] \in Letters
        BY <3>3, ElementOfSeq DEF n
      <4> QED
        BY <1>1, <3>3, <4>1
    <3> QED
      BY <2>1, <3>2, <3>3, <3>6, <3>7
  <2> QED
    BY <2>3, <2>4
<1>3. \A s \in Seq(Letters) : s \in Seq(Wide)
  BY WideIs
<1> QED
  BY <1>2, <1>3

LEMMA FindsInside ==
    ASSUME NEW S, NEW x, NEW name
    PROVE  /\ Outer(S, x) => Inner(S, GetObjectItem(x, name))
           /\ Inner(S, x) => Leaf(S, GetObjectItem(x, name))
<1> DEFINE found == GetObjectItem(x, name)
<1>1. Inner(S, NullItem) /\ Leaf(S, NullItem)
  BY LeavesOuter, OuterInside
<1>2. CASE x.type # "Object"
  BY <1>1, <1>2, NoObject
<1>3. CASE x.type = "Object"
  <2> DEFINE c == x.child
  <2>1. ASSUME Len(c) \in Nat
        PROVE  found = NullItem \/ \E j \in 1 .. Len(c) : found = c[j].item
    BY <1>3, <2>1, LookUpIs
  <2> HIDE DEF found
  <2>2. ASSUME Outer(S, x)
        PROVE  Inner(S, found)
    <3>1. PICK M : c \in Seq(M) /\ \A m \in M : Inner(S, m.item)
      BY <2>2 DEF Outer
    <3>2. Len(c) \in Nat /\ \A j \in 1 .. Len(c) : c[j] \in M
      BY <3>1, LenProperties, ElementOfSeq
    <3> QED
      BY <1>1, <2>1, <3>1, <3>2
  <2>3. ASSUME Inner(S, x)
        PROVE  Leaf(S, found)
    <3>1. PICK M : c \in Seq(M) /\ \A m \in M : Leaf(S, m.item)
      BY <2>3 DEF Inner
    <3>2. Len(c) \in Nat /\ \A j \in 1 .. Len(c) : c[j] \in M
      BY <3>1, LenProperties, ElementOfSeq
    <3> QED
      BY <1>1, <2>1, <3>1, <3>2
  <2> QED
    BY <2>2, <2>3 DEF found
<1> QED
  BY <1>2, <1>3

\* Where a field is read from: numbers and strings, whatever the text.
LEMMA SourceTyped ==
    ASSUME NEW text \in Texts
    PROVE  \A f : Leaf(Wide, Source(Parse(text), f))
<1> DEFINE P == Parse(text)
<1>1. Outer(Wide, P)
  BY TextsAre, ParseSound
<1> HIDE DEF P
<1>2. ASSUME NEW f
      PROVE  Leaf(Wide, Source(P, f))
  <2> DEFINE x == GetObjectItem(P, Spelled(f))
  <2>1. Inner(Wide, x)
    BY <1>1, FindsInside
  <2>2. Leaf(Wide, x)
    BY <2>1 DEF Inner
  <2>3. Source(P, f) = IF f = "example_stru" THEN GetObjectItem(x, Spelled("message")) ELSE x
    BY DEF Source
  <2> HIDE DEF x
  <2>4. Leaf(Wide, GetObjectItem(x, Spelled("message")))
    BY <2>1, FindsInside
  <2> QED
    BY <2>2, <2>3, <2>4
<1> QED
  BY <1>2 DEF P

\* valueint is an int, and an assignment cuts it to the field.
LEMMA AssignedTyped ==
    /\ \A d \in Int : ValueInt(d) \in Signed(Max32)
    /\ 0 \in Signed(Max32) /\ 1 \in Signed(Max32)
    /\ \A i \in Signed(Max32) : i \in Int /\ i \in Signed(Max64)
    /\ \A i \in Int, max \in Nat :
          ToSigned(i, max) \in Signed(max) /\ ToUnsigned(i, max) \in Unsigned(max)
<1>1. /\ Max32 \in Nat /\ Max32 > 1 /\ Max64 \in Nat /\ Max32 < Max64
  BY NumberAssumption
<1>2. \A d \in Int : ValueInt(d) \in Signed(Max32)
  BY <1>1 DEF ValueInt, Signed
<1>3. 0 \in Signed(Max32) /\ 1 \in Signed(Max32)
  BY <1>1 DEF Signed
<1>4. \A i \in Signed(Max32) : i \in Int /\ i \in Signed(Max64)
  BY <1>1 DEF Signed
<1>5. ASSUME NEW i \in Int, NEW max \in Nat
      PROVE  ToSigned(i, max) \in Signed(max) /\ ToUnsigned(i, max) \in Unsigned(max)
  <2> DEFINE w == 2 * max + 2
             r == (i + max + 1) % w
             q == i % w
  <2>1. w \in Nat \ {0} /\ i + max + 1 \in Int
    OBVIOUS
  <2> HIDE DEF w
  <2>2. r \in 0 .. w - 1 /\ q \in 0 .. w - 1
    BY <2>1
  <2>3. ToSigned(i, max) = r - (max + 1) /\ ToUnsigned(i, max) = q
    BY DEF ToSigned, ToUnsigned, w
  <2> HIDE DEF r, q
  <2> QED
    BY <2>2, <2>3 DEF Signed, Unsigned, w
<1> QED
  BY <1>2, <1>3, <1>4, <1>5

\* The fields of numbers are no strings.
LEMMA NumbersFields ==
    ASSUME NEW f \in ToSet(Numbers)
    PROVE  f \in Fields \ Strings
<1>1. f \in Fields
  BY DEF Fields
<1>2. ToSet(Numbers) = {Numbers[i] : i \in 1 .. 9}
  BY DEF ToSet, Numbers
<1>3. PICK i \in 1 .. 9 : f = Numbers[i]
  BY <1>2
<1>4. f # "message" /\ f # "example_stru"
  BY <1>3 DEF Numbers
<1> QED
  BY <1>1, <1>4, ValuesTyped

\* What a string was before,
LEMMA BeforeIs ==
    ASSUME NEW f \in Strings
    PROVE  Before[f] \in [1..FieldLen -> Letters \union {0, Stale}]
BY ValuesTyped DEF Before

\* and what strcpy makes of it: a string that reads as the one that was copied.
LEMMA StrcpyIs ==
    ASSUME NEW s \in CStrings, NEW old \in [1..FieldLen -> Letters \union {0, Stale}]
    PROVE  /\ Strcpy(old, s) \in [1..FieldLen -> Letters \union {0, Stale}]
           /\ Len(s) \in Nat /\ Len(s) + 1 \in 1..FieldLen
           /\ Strcpy(old, s)[Len(s) + 1] = 0
           /\ \A i \in 1..Len(s) : Strcpy(old, s)[i] \in Letters
           /\ CString(Strcpy(old, s)) = s
<1> DEFINE n == FieldLen
           l == Len(s)
           S == Letters \union {0, Stale}
           A == Strcpy(old, s)
           I == {j \in 1 .. n : A[j] = 0}
           m == Min(I)
           k == IF I # {} THEN m ELSE 0
<1>1. /\ n \in Nat \ {0} /\ l \in Nat /\ l < n /\ s = [i \in 1..l |-> s[i]]
      /\ \A i \in 1..l : s[i] \in Letters
  BY ConvertAssumption, LenProperties, ElementOfSeq DEF CStrings
<1>2. 0 \notin Letters
  BY DEF Letters
<1>3. A = [i \in 1..n |-> IF i <= l THEN s[i] ELSE IF i = l + 1 THEN 0 ELSE old[i]]
  BY DEF Strcpy
<1> HIDE DEF A, n, l
<1>4. /\ \A i \in 1..l : i \in 1..n /\ A[i] = s[i]
      /\ l + 1 \in 1..n /\ A[l + 1] = 0
  BY <1>1, <1>3
<1>5. \A i \in 1..n : A[i] \in S
  <2> TAKE i \in 1..n
  <2>1. old[i] \in S
    BY DEF n
  <2> QED
    BY <1>1, <1>3, <2>1
<1>6. A \in [1..n -> S]
  BY <1>3, <1>5
<1>7. A \in Seq(S) /\ Len(A) = n
  <2>1. A = [i \in 1..n |-> A[i]]
    BY <1>6
  <2>2. [i \in 1..n |-> A[i]] \in Seq(S)
    BY <1>1, <1>5, IsASeq
  <2>3. A \in Seq(S) /\ DOMAIN A = 1..n
    BY <1>3, <2>1, <2>2
  <2> HIDE DEF S
  <2>4. Len(A) \in Nat /\ 1..n = 1..Len(A)
    BY <2>3, LenProperties
  <2> QED
    BY <1>1, <2>3, <2>4
<1>8. CString(A) = IF k = 0 THEN A ELSE SubSeq(A, 1, k - 1)
  BY <1>7 DEF CString, SelectInSeq
<1>9. m = l + 1 /\ I # {}
  <2>1. l + 1 \in I /\ \A j \in I : l + 1 <= j
    <3>1. \A j \in 1..l : j \notin I
      BY <1>1, <1>2, <1>4
    <3> QED
      BY <1>1, <1>4, <3>1
  <2>2. I \subseteq Int
    OBVIOUS
  <2> HIDE DEF I
  <2>3. m \in I /\ \A j \in I : m <= j
    BY <2>1 DEF Min
  <2> HIDE DEF m
  <2>4. m \in Int /\ m <= l + 1 /\ l + 1 <= m
    BY <2>1, <2>2, <2>3
  <2>5. m = l + 1
    BY <1>1, <2>4
  <2> QED
    BY <2>1, <2>5
<1>10. k = l + 1
  BY <1>9
<1> HIDE DEF k
<1>11. CString(A) = SubSeq(A, 1, l)
  BY <1>1, <1>8, <1>10
<1>12. SubSeq(A, 1, l) = [i \in 1..l |-> A[i]]
  BY <1>1, <1>4, <1>7, SubSeqProperties
<1>13. CString(A) = s
  BY <1>1, <1>4, <1>11, <1>12
<1> QED
  BY <1>1, <1>4, <1>6, <1>13 DEF A, n, l

\* What a string is filled with, if it fits,
LEMMA StringFilled ==
    ASSUME NEW text \in Texts, NEW f \in Strings, Fits(f, Source(Parse(text), f))
    PROVE  \E s \in CStrings :
               Filled(f, Before[f], Source(Parse(text), f)) = Strcpy(Before[f], s)
BY DEF Filled, Fits

\* and a number.
LEMMA NumberFilled ==
    ASSUME NEW text \in Texts
    PROVE  \A f \in Fields \ Strings :
               Filled(f, Before[f], Source(Parse(text), f)) \in Values(f)
<1> SUFFICES ASSUME NEW f \in Fields \ Strings
             PROVE  Filled(f, Before[f], Source(Parse(text), f)) \in Values(f)
  OBVIOUS
<1> DEFINE x == Source(Parse(text), f)
           i == ItemInt(x)
<1>1. x.number \in Int /\ x.string \in Seq(Wide)
  BY SourceTyped DEF Leaf
<1> HIDE DEF x
<1>3. CASE f \notin Strings
  <2>1. i \in Signed(Max32)
    BY <1>1, AssignedTyped DEF ItemInt
  <2> HIDE DEF i
  <2>2. i \in Int /\ i \in Signed(Max64)
    BY <2>1, AssignedTyped
  <2>3. /\ ToSigned(i, Max8) \in Signed(Max8) /\ ToUnsigned(i, Max8) \in Unsigned(Max8)
        /\ ToSigned(i, Max16) \in Signed(Max16) /\ ToUnsigned(i, Max16) \in Unsigned(Max16)
        /\ ToUnsigned(i, Max32) \in Unsigned(Max32) /\ ToUnsigned(i, Max64) \in Unsigned(Max64)
    <3>1. Max8 \in Nat /\ Max16 \in Nat /\ Max32 \in Nat /\ Max64 \in Nat
      BY NumberAssumption
    <3> QED
      BY <2>2, <3>1, AssignedTyped
  <2>4. Assigned(f, i) \in Values(f)
    <3>1. \/ f = "int8_test" \/ f = "uint8_test" \/ f = "int16_test"
          \/ f = "uint16_test" \/ f = "int32_test" \/ f = "uint32_test"
          \/ f = "int64_test" \/ f = "uint64_test" \/ f = "example_enum"
      BY <1>3, FieldsAre, ValuesTyped
    <3> QED
      BY <2>1, <2>2, <2>3, <3>1, ValuesAre, AssignedIs
  <2>5. Filled(f, Before[f], x) = Assigned(f, i)
    BY <1>3 DEF Filled, i
  <2> QED
    BY <2>4, <2>5 DEF x
<1> QED
  BY <1>3
-----------------------------------------------------------------------------
(***************************************************************************)
(* The inductive invariant.  What is published of a sample is its whole    *)
(* text, or one that MQTT_to_HelloWorld does not get through: no part of a *)
(* sample passes for one.  What was written comes from the payload alone.  *)
(***************************************************************************)
Typed ==
    /\ pc \in {"to_mqtt", "to_dds", "done", "crash", "overrun"}
    /\ payload \in Texts
    /\ Own => Held
    /\ pc = "to_mqtt" => Own /\ payload = <<>>

WholeOrRefused ==
    pc # "to_mqtt" /\ Own =>
        payload = PrintText(Object(Members(Fields))) \/ ~Complies(Parse(payload))

Written ==
    /\ pc = "done" =>
          /\ Complies(Parse(payload))
          /\ \A f \in Strings : Fits(f, Source(Parse(payload), f))
          /\ out = [f \in Fields |-> Filled(f, Before[f], Source(Parse(payload), f))]
    /\ pc # "done" => out = Before

IInv == Typed /\ WholeOrRefused /\ Written

\* What may be published, one at a time.
LEMMA SentIs ==
    ASSUME Held
    PROVE  /\ \/ Published = PrintText(Object(Members(Fields)))
              \/ ~Complies(Parse(Published))
           /\ \A f \in Fields : ~Complies(Parse(PrintText(Object(Members(Fields \ {f})))))
           /\ ~Complies(Parse(PrintText(Object(Hollow))))
<1> DEFINE W == PrintText(Object(Members(Fields)))
<1>1. Published = W \/ Published = Front(W)
  BY DEF Published
<1>2. ~Complies(Parse(Front(W)))
  <2>1. MemberList(Letters, Members(Fields))
    <3>1. Fields \subseteq Fields
      OBVIOUS
    <3> QED
      BY <3>1, MembersListed
  <2>2. Parse(Front(W)) = NullItem
    BY <2>1, ObjectComesBack, WideIs
  <2> QED
    BY <2>2, NullNotRead
<1> HIDE DEF W
<1>3. Published = W \/ ~Complies(Parse(Published))
  BY <1>1, <1>2
<1> QED
  BY <1>3, LessNotRead, HollowNotRead DEF W

LEMMA InitInv == Init => IInv
<1> SUFFICES ASSUME Init
             PROVE  IInv
  OBVIOUS
<1>1. out = Before
  BY DEF Init
<1>2. CASE pc = "to_mqtt" /\ sample \in Samples /\ payload = <<>>
  <2>1. DOMAIN sample = Fields /\ Held
    BY <1>2, ConvertAssumption DEF Held
  <2>2. Own
    BY <2>1, ValuesTyped DEF Own
  <2>3. payload \in Texts
    BY <1>2, TextsAre, EmptySeq
  <2> QED
    BY <1>1, <1>2, <2>1, <2>2, <2>3 DEF IInv, Typed, WholeOrRefused, Written
<1>3. CASE pc = "to_dds" /\ sample = NoSample /\ payload \in Foreign
  <2>1. ~Own
    <3>1. DOMAIN NoSample = {}
      BY DEF NoSample
    <3> QED
      BY <1>3, <3>1 DEF Own
  <2>2. payload \in Texts
    BY <1>3, ConvertAssumption
  <2> QED
    BY <1>1, <1>3, <2>1, <2>2 DEF IInv, Typed, WholeOrRefused, Written
<1> QED
  BY <1>2, <1>3 DEF Init

\* The whole text, and whether there is one, is a matter of the sample.
LEMMA SamplesStay ==
    ASSUME sample' = sample
    PROVE  /\ Own' <=> Own
           /\ Held' <=> Held
           /\ PrintText(Object(Members(Fields)))' = PrintText(Object(Members(Fields)))
<1>1. Own' <=> Own
  BY DEF Own
<1>2. Held' <=> Held
  BY DEF Held
<1>3. PrintText(Object(Members(Fields)))' = PrintText(Object(Members(Fields)))
  BY DEF Members, Added
<1> QED
  BY <1>1, <1>2, <1>3

LEMMA NextInv == IInv /\ [Next]_vars => IInv'
<1> SUFFICES ASSUME IInv, [Next]_vars
             PROVE  IInv'
  OBVIOUS
<1> DEFINE W == PrintText(Object(Members(Fields)))
<1>1. Typed /\ WholeOrRefused /\ Written
  BY DEF IInv
\* A payload for a sample: whole, or refused.
<1>2. ASSUME pc = "to_mqtt", pc' \in {"to_dds", "crash"}, UNCHANGED <<sample, out>>,
             payload' \in Texts, payload' = W \/ ~Complies(Parse(payload'))
      PROVE  IInv'
  <2>1. (Own' <=> Own) /\ (Held' <=> Held) /\ W' = W
    BY <1>2, SamplesStay
  <2> HIDE DEF W
  <2>2. Typed'
    BY <1>1, <1>2, <2>1 DEF Typed
  <2>3. WholeOrRefused'
    BY <1>2, <2>1 DEF WholeOrRefused, W
  <2>4. Written'
    BY <1>1, <1>2 DEF Written
  <2> QED
    BY <2>2, <2>3, <2>4 DEF IInv
<1>3. CASE HelloWorldToMqtt
  <2>1. Held
    BY <1>1, <1>3 DEF Typed, HelloWorldToMqtt
  <2>2. Published \in Texts /\ (Published = W \/ ~Complies(Parse(Published)))
    BY <2>1, SentTyped, SentIs
  <2> HIDE DEF W
  <2>3. /\ pc = "to_mqtt" /\ pc' = "to_dds" /\ UNCHANGED <<sample, out>>
        /\ payload' = Published
    BY <1>3 DEF HelloWorldToMqtt
  <2> QED
    BY <1>2, <2>2, <2>3
<1>4. CASE HelloWorldToMqttFails
  <2>1. /\ pc = "to_mqtt" /\ pc' = "to_dds" /\ UNCHANGED <<sample, out>>
        /\ \/ \E f \in Fields : payload' = PrintText(Object(Members(Fields \ {f})))
           \/ payload' = PrintText(Object(Hollow))
    BY <1>4 DEF HelloWorldToMqttFails, Hollow
  <2>2. Held
    BY <1>1, <2>1 DEF Typed
  <2>3. payload' \in Texts /\ ~Complies(Parse(payload'))
    BY <2>1, <2>2, SentTyped, SentIs
  <2> QED
    BY <1>2, <2>1, <2>3
\* No payload, and the program ends.
<1>9. CASE HelloWorldToMqttCrashes
  <2>1. pc = "to_mqtt" /\ pc' = "crash" /\ UNCHANGED <<sample, payload, out>>
    BY <1>9 DEF HelloWorldToMqttCrashes
  <2>2. payload' \in Texts /\ ~Complies(Parse(payload'))
    BY <1>1, <2>1, EmptyNotRead DEF Typed
  <2> QED
    BY <1>2, <2>1, <2>2
\* A payload on its way to DDS stays what it was.
<1>5. ASSUME pc = "to_dds", pc' \in {"done", "crash", "overrun"}, UNCHANGED <<sample, payload>>
      PROVE  Typed' /\ WholeOrRefused'
  <2>1. (Own' <=> Own) /\ (Held' <=> Held) /\ W' = W
    BY <1>5, SamplesStay
  <2> HIDE DEF W
  <2>2. Typed'
    BY <1>1, <1>5, <2>1 DEF Typed
  <2>3. WholeOrRefused'
    BY <1>1, <1>5, <2>1 DEF WholeOrRefused, W
  <2> QED
    BY <2>2, <2>3
<1>6. CASE MqttToHelloWorld
  <2>1. /\ pc = "to_dds" /\ pc' = "done" /\ UNCHANGED <<sample, payload>>
        /\ Complies(Parse(payload))
        /\ \A f \in Strings : Fits(f, Source(Parse(payload), f))
        /\ out' = [f \in Fields |-> Filled(f, out[f], Source(Parse(payload), f))]
    BY <1>6 DEF MqttToHelloWorld
  <2>4. out = Before
    BY <1>1, <2>1 DEF Written
  <2>2. Written'
    BY <2>1, <2>4 DEF Written
  <2>3. Typed' /\ WholeOrRefused'
    BY <1>5, <2>1
  <2> QED
    BY <2>2, <2>3 DEF IInv
<1>7. CASE MqttToHelloWorldCrashes \/ MqttToHelloWorldOverruns
  <2>1. /\ pc = "to_dds" /\ pc' \in {"crash", "overrun"}
        /\ UNCHANGED <<sample, payload, out>>
    BY <1>7 DEF MqttToHelloWorldCrashes, MqttToHelloWorldOverruns
  <2>2. Written'
    BY <1>1, <2>1 DEF Written
  <2>3. Typed' /\ WholeOrRefused'
    BY <1>5, <2>1
  <2> QED
    BY <2>2, <2>3 DEF IInv
<1>8. CASE UNCHANGED vars
  <2>1. pc' = pc /\ UNCHANGED <<sample, payload, out>>
    BY <1>8 DEF vars
  <2>2. (Own' <=> Own) /\ (Held' <=> Held) /\ W' = W
    BY <2>1, SamplesStay
  <2> HIDE DEF W
  <2>3. Typed'
    BY <1>1, <2>1, <2>2 DEF Typed
  <2>4. WholeOrRefused'
    BY <1>1, <2>1, <2>2 DEF WholeOrRefused, W
  <2>5. Written'
    BY <1>1, <2>1 DEF Written
  <2> QED
    BY <2>3, <2>4, <2>5 DEF IInv
<1> QED
  BY <1>3, <1>4, <1>6, <1>7, <1>8, <1>9 DEF Next, Ended

LEMMA Invariant == Spec => []IInv
BY InitInv, NextInv, PTL DEF Spec
-----------------------------------------------------------------------------
\* What the fields hold when the sample is written: numbers of their types, and strings that
\* begin as strcpy wrote them.
LEMMA FieldsFilled ==
    ASSUME IInv, pc = "done"
    PROVE  /\ \A f \in Fields \ Strings : out[f] \in Values(f)
           /\ \A f \in Strings : \E s \in CStrings : out[f] = Strcpy(Before[f], s)
<1>1. /\ payload \in Texts
      /\ \A f \in Strings : Fits(f, Source(Parse(payload), f))
      /\ \A f \in Fields : out[f] = Filled(f, Before[f], Source(Parse(payload), f))
  BY DEF IInv, Typed, Written
<1>2. \A f \in Fields \ Strings : out[f] \in Values(f)
  BY <1>1, NumberFilled
<1>3. \A f \in Strings : \E s \in CStrings : out[f] = Strcpy(Before[f], s)
  BY <1>1, StringFilled, ValuesTyped
<1> QED
  BY <1>2, <1>3

\* A number of a sample that is written has a value of its type, whatever the payload: none
\* is out of the field's range (MQTT_to_HelloWorld).  A string of it is written within its
\* field, since a payload with a longer one leads to an overrun instead.
THEOREM TypeCorrect == Spec => []TypeOK
<1>1. IInv => TypeOK
  <2> SUFFICES ASSUME IInv
               PROVE  TypeOK
    OBVIOUS
  <2>1. Typed /\ Written
    BY DEF IInv
  <2>2. ASSUME NEW f \in Fields \ Strings
        PROVE  out[f] = Stale \/ out[f] \in Values(f)
    <3>1. CASE pc = "done"
      BY <3>1, FieldsFilled
    <3>2. CASE pc # "done"
      BY <2>1, <3>2 DEF Written, Before
    <3> QED
      BY <3>1, <3>2
  <2>3. ASSUME NEW f \in Strings
        PROVE  out[f] \in [1..FieldLen -> Letters \union {0, Stale}]
    <3>1. CASE pc = "done"
      BY <3>1, FieldsFilled, BeforeIs, StrcpyIs
    <3>2. CASE pc # "done"
      BY <2>1, <3>2, BeforeIs DEF Written
    <3> QED
      BY <3>1, <3>2
  <2> QED
    BY <2>1, <2>2, <2>3 DEF TypeOK, Typed, Held
<1> QED
  BY <1>1, Invariant, PTL

\* Nothing of an earlier sample is in the fields of one that is written, whatever the payload
\* lacks, but in the bytes behind the zeros of its strings: there is no path through
\* MQTT_to_HelloWorld that leaves a field out.
THEOREM StaleBehindZeros == Spec => []StaleBehindZeroOnly
<1>1. IInv => StaleBehindZeroOnly
  <2> SUFFICES ASSUME IInv, pc = "done"
               PROVE  /\ \A f \in ToSet(Numbers) : out[f] # Stale
                      /\ \A f \in Strings : \A i \in 1..FieldLen :
                             out[f][i] = Stale => \E j \in 1 .. i - 1 : out[f][j] = 0
    BY DEF StaleBehindZeroOnly
  <2>1. ASSUME NEW f \in ToSet(Numbers)
        PROVE  out[f] # Stale
    <3>1. f \in Fields \ Strings
      BY NumbersFields
    <3>2. out[f] \in Int
      BY <3>1, FieldsFilled, ValuesTyped
    <3> QED
      BY <3>2, ConvertAssumption
  <2>2. ASSUME NEW f \in Strings, NEW i \in 1..FieldLen, out[f][i] = Stale
        PROVE  \E j \in 1 .. i - 1 : out[f][j] = 0
    <3>1. PICK s \in CStrings : out[f] = Strcpy(Before[f], s)
      BY FieldsFilled
    <3>2. /\ Len(s) \in Nat /\ Len(s) + 1 \in 1..FieldLen /\ out[f][Len(s) + 1] = 0
          /\ \A j \in 1..Len(s) : out[f][j] \in Letters
      BY <3>1, BeforeIs, StrcpyIs
    <3>3. Stale \notin Letters /\ Stale # 0
      <4>1. Letters \subseteq Int /\ 0 \in Int
        BY DEF Letters
      <4>2. Stale \notin Int
        BY ConvertAssumption
      <4> QED
        BY <4>1, <4>2
    <3>4. i \notin 1..Len(s) /\ i # Len(s) + 1
      BY <2>2, <3>2, <3>3
    <3>5. Len(s) + 1 \in 1 .. i - 1
      BY <3>2, <3>4
    <3> QED
      BY <3>2, <3>5
  <2> QED
    BY <2>1, <2>2
<1> QED
  BY <1>1, Invariant, PTL

\* In the buffers of cJSON, print_string_ptr and parse_string stay inside what they have
\* allocated for every string of a sample and for every string of a payload, escapes,
\* surrogates and all.  What strcpy makes of them in the sample is another matter.
THEOREM JsonStringsFit == Spec => []StringsFit
<1>1. IInv => StringsFit
  <2> SUFFICES ASSUME IInv
               PROVE  StringsFit
    OBVIOUS
  <2>1. Typed
    BY DEF IInv
  <2>2. ASSUME Own, NEW f \in Strings
        PROVE  Len(PrintString(sample[f])) = OutputLength(sample[f]) + 1
    <3>1. sample[f] \in Seq(Letters)
      <4>1. f \in Fields
        BY ValuesTyped
      <4>2. sample[f] \in Values(f)
        BY <2>1, <2>2, <4>1 DEF Typed, Held
      <4> QED
        BY <4>1, <4>2, ValuesTyped
    <3>2. sample[f] \in Seq(Nat)
      BY <3>1, WideIs, SeqMonotonic
    <3> QED
      BY <3>2, PrintStringFits
  <2>3. ASSUME NEW t \in ToSet(payload), ParseString(t.raw).ok
        PROVE  Len(ParseString(t.raw).bytes) < Allocated(t.raw)
    <3>1. PICK i \in DOMAIN payload : t = payload[i]
      BY DEF ToSet
    <3>2. t.raw \in Seq(Letters)
      BY <2>1, <3>1, TextsAre DEF Typed, Token
    <3>3. t.raw \in Seq(Wide) /\ Bytes \subseteq Wide
      BY <3>2, WideIs
    <3> QED
      BY <2>3, <3>3, ParseStringFits
  <2> QED
    BY <2>2, <2>3 DEF StringsFit
<1> QED
  BY <1>1, Invariant, PTL

\* A payload that is written was nested no deeper than CJSON_NESTING_LIMIT, however its
\* brackets come and go and whatever follows its value.
THEOREM DepthAlwaysLimited == Spec => []DepthIsLimited
<1>1. IInv => DepthIsLimited
  <2> SUFFICES ASSUME IInv, pc = "done"
               PROVE  \A i \in DOMAIN payload :
                          (\A j \in 1 .. i - 1 : Depth(payload, j) > 0) =>
                              Depth(payload, i) <= NestingLimit
    BY DEF DepthIsLimited
  <2>1. payload \in Texts /\ Complies(Parse(payload))
    BY DEF IInv, Typed, Written
  <2>2. Parse(payload) # NullItem
    BY <2>1, NullNotRead
  <2>3. /\ Len(payload) \in Nat /\ DOMAIN payload = 1 .. Len(payload)
        /\ \A i \in 1 .. Len(payload) : Token(payload[i])
    BY <2>1, TextsAre
  <2>4. \A i \in 1 .. Len(payload) :
            (\A j \in 1 .. i - 1 : Depth(payload, j) > 0) => Depth(payload, i) <= NestingLimit
    BY <2>2, <2>3, DeepTextsFail
  <2> QED
    BY <2>3, <2>4
<1> QED
  BY <1>1, Invariant, PTL

\* cJSON_Parse undoes cJSON_Print on the tree of every sample, up to the digits of numbers.
THEOREM AlwaysParsesAsPrinted == Spec => []ParsesAsPrinted
<1>1. IInv => ParsesAsPrinted
  <2> SUFFICES ASSUME IInv, pc = "to_mqtt"
               PROVE  Parse(PrintText(Object(Members(Fields)))) =
                      Object([i \in 1 .. 11 |->
                          LET m == Members(Fields)[i]
                          IN  IF m.item.type = "Number"
                              THEN [m EXCEPT !.item.number = Double(PrintNumber(@))]
                              ELSE m])
    BY DEF ParsesAsPrinted
  <2> DEFINE ms == Members(Fields)
             again(m) == IF m.item.type = "Number"
                         THEN [m EXCEPT !.item.number = Double(PrintNumber(@))] ELSE m
  <2>1. Held
    BY DEF IInv, Typed
  <2>2. MemberList(Letters, ms) /\ Len(ms) = 11
    <3>1. Fields \subseteq Fields
      OBVIOUS
    <3> QED
      BY <2>1, <3>1, MembersListed, WholeIs
  <2>3. Parse(PrintText(Object(ms))) = Object(Returned(ms))
    BY <2>2, ObjectComesBack, WideIs
  <2>4. ASSUME NEW i \in 1 .. 11
        PROVE  Member(ms[i].name, Back(ms[i].item)) = again(ms[i])
    <3> DEFINE f == Order[i]
               name == Spelled(f)
               x == Added(f)
               m == Member(name, x)
    <3>1. ms[i] = m
      BY MembersWhole DEF ForField
    <3>2. m = [name |-> name, item |-> x]
      BY DEF Member
    <3>3. m.name = name /\ m.item = x
      BY <3>2
    <3> HIDE DEF f, name, ms
    <3>4. CASE x.type = "Number"
      <4>1. \E n : x = Number(n)
        <5>1. f \in Fields
          BY FieldsAre DEF f
        <5>2. f \notin Strings
          <6>1. ASSUME f = "message"
                PROVE  FALSE
            <7>1. x = String(sample["message"])
              BY <6>1, AddedIs
            <7> HIDE DEF x
            <7>2. x.type = "String"
              BY <7>1, ItemsAre
            <7> QED
              BY <3>4, <7>2
          <6>2. ASSUME f = "example_stru"
                PROVE  FALSE
            <7>1. x = Object(<<Member(Spelled("message"), String(sample["example_stru"]))>>)
              BY <6>2, AddedIs
            <7> HIDE DEF x
            <7>2. x.type = "Object"
              BY <7>1, ItemsAre
            <7> QED
              BY <3>4, <7>2
          <6> QED
            BY <6>1, <6>2, ValuesTyped
        <5> QED
          BY <5>2, AddedIs
      <4>2. PICK n : x = Number(n)
        BY <4>1
      <4> DEFINE d == Double(PrintNumber(n))
      <4>3. x = [type |-> "Number", number |-> n, string |-> <<>>, child |-> <<>>]
        BY <4>2 DEF Number, Item
      <4>4. Number(d) = [type |-> "Number", number |-> d, string |-> <<>>, child |-> <<>>]
        BY DEF Number, Item
      <4>5. x.number = n
        BY <4>3
      <4> HIDE DEF d, x
      <4>6. [x EXCEPT !.number = d] = Number(d)
        BY <4>3, <4>4
      <4>7. again(m) =
            [m EXCEPT !.item = [m.item EXCEPT !.number = Double(PrintNumber(m.item.number))]]
        BY <3>3, <3>4
      <4>8. [m.item EXCEPT !.number = Double(PrintNumber(m.item.number))] = Number(d)
        BY <3>3, <4>5, <4>6 DEF d
      <4> DEFINE y == Number(d)
      <4> HIDE DEF y, m
      <4>9. again(m) = [m EXCEPT !.item = y]
        BY <4>7, <4>8 DEF y
      <4>10. [m EXCEPT !.item = y] = [name |-> name, item |-> y]
        BY <3>2
      <4>11. Back(x) = y
        BY <3>4, <4>5 DEF Back, y, d
      <4> QED
        BY <3>1, <3>3, <4>9, <4>10, <4>11 DEF Member
    <3>5. CASE x.type # "Number"
      <4>1. Back(x) = x
        BY <3>5 DEF Back
      <4> QED
        BY <3>1, <3>3, <3>5, <4>1
    <3> QED
      BY <3>4, <3>5
  <2>5. Returned(ms) = [i \in 1 .. 11 |-> again(ms[i])]
    BY <2>2, <2>4 DEF Returned
  <2> QED
    BY <2>3, <2>5
<1> QED
  BY <1>1, Invariant, PTL

LEMMA ClampIs ==
    ASSUME NEW n \in Int
    PROVE  /\ ValueInt(Double(Text(n))) = Clamp(n) /\ Clamp(n) \in Int
           /\ n \in Signed(Max32) => Clamp(n) = n
           /\ \A max \in Nat : /\ n \in Signed(max) => Clamp(n) \in Signed(max)
                               /\ n \in Unsigned(max) => Clamp(n) \in Unsigned(max)
<1>1. ValueInt(Double(Text(n))) = Clamp(n)
  BY NumbersSaturate DEF Clamp
<1>2. Max32 \in Nat
  BY NumberAssumption
<1>3. Clamp(n) \in Int /\ (n \in Signed(Max32) => Clamp(n) = n)
  BY <1>2 DEF Clamp, Signed
<1>4. \A max \in Nat : /\ n \in Signed(max) => Clamp(n) \in Signed(max)
                       /\ n \in Unsigned(max) => Clamp(n) \in Unsigned(max)
  BY <1>2 DEF Clamp, Signed, Unsigned
<1> QED
  BY <1>1, <1>3, <1>4

\* No assignment to a field changes a number of the field that fits an int.
LEMMA ClampAssigned ==
    \A f \in Fields : f \notin Strings =>
        \A n \in Values(f) : Assigned(f, Clamp(n)) = Clamp(n)
<1> SUFFICES ASSUME NEW f \in Fields, f \notin Strings, NEW n \in Values(f)
             PROVE  Assigned(f, Clamp(n)) = Clamp(n)
  OBVIOUS
<1> DEFINE i == Clamp(n)
<1>1. n \in Int
  BY ValuesTyped
<1>2. \A max \in Nat : /\ n \in Signed(max) => ToSigned(i, max) = i
                       /\ n \in Unsigned(max) => ToUnsigned(i, max) = i
  <2> TAKE max \in Nat
  <2>1. (n \in Signed(max) => i \in Signed(max)) /\ (n \in Unsigned(max) => i \in Unsigned(max))
    BY <1>1, ClampIs
  <2> HIDE DEF i
  <2> QED
    BY <2>1, SignedExact, UnsignedExact
<1>3. Max8 \in Nat /\ Max16 \in Nat /\ Max32 \in Nat /\ Max64 \in Nat
  BY NumberAssumption
<1> HIDE DEF i
<1>4. /\ n \in Signed(Max8) => ToSigned(i, Max8) = i
      /\ n \in Unsigned(Max8) => ToUnsigned(i, Max8) = i
      /\ n \in Signed(Max16) => ToSigned(i, Max16) = i
      /\ n \in Unsigned(Max16) => ToUnsigned(i, Max16) = i
      /\ n \in Unsigned(Max32) => ToUnsigned(i, Max32) = i
      /\ n \in Unsigned(Max64) => ToUnsigned(i, Max64) = i
  BY <1>2, <1>3
<1>5. \/ f = "int8_test" \/ f = "uint8_test" \/ f = "int16_test"
      \/ f = "uint16_test" \/ f = "int32_test" \/ f = "uint32_test"
      \/ f = "int64_test" \/ f = "uint64_test" \/ f = "example_enum"
  BY FieldsAre, ValuesTyped
<1>6. Assigned(f, i) = i
  BY <1>4, <1>5, ValuesAre, AssignedIs
<1> QED
  BY <1>6 DEF i

\* A sample that comes back has every string as it was and every number cut to the range of
\* an int: rounding, digits and the widths of the fields change nothing else, and no failed
\* allocation passes for a sample.
THEOREM AlwaysArrivesClamped == Spec => []ArrivesClamped
<1>1. IInv => ArrivesClamped
  <2> SUFFICES ASSUME IInv, pc = "done", Own, NEW f \in Fields
               PROVE  IF f \in Strings THEN CString(out[f]) = sample[f]
                      ELSE out[f] = Clamp(sample[f])
    BY DEF ArrivesClamped
  <2> DEFINE W == PrintText(Object(Members(Fields)))
             P == Object(Returned(Members(Fields)))
             x == Source(P, f)
  <2>1. /\ Held /\ payload = W
        /\ out[f] = Filled(f, Before[f], Source(Parse(payload), f))
    BY DEF IInv, Typed, WholeOrRefused, Written
  <2>2. Parse(W) = P
    <3>1. MemberList(Letters, Members(Fields))
      <4>1. Fields \subseteq Fields
        OBVIOUS
      <4> QED
        BY <2>1, <4>1, MembersListed
    <3> QED
      BY <3>1, ObjectComesBack, WideIs
  <2>3. /\ f \in Strings => x = String(sample[f])
        /\ f \notin Strings => x = Number(Double(Text(sample[f])))
    BY WholeSources
  <2>4. sample[f] \in Values(f)
    BY <2>1 DEF Held
  <2> HIDE DEF W, P, x
  <2>5. out[f] = Filled(f, Before[f], x)
    BY <2>1, <2>2 DEF x
  <2>6. CASE f \in Strings
    <3>1. x.string = sample[f]
      BY <2>3, <2>6, ItemsAre
    <3>2. CString(sample[f]) = sample[f] /\ sample[f] \in CStrings
      BY <2>4, <2>6, ValuesTyped, CStringIs
    <3>3. Filled(f, Before[f], x) = Strcpy(Before[f], CString(x.string))
      BY <2>6 DEF Filled
    <3>4. out[f] = Strcpy(Before[f], sample[f])
      BY <2>5, <2>6, <3>1, <3>2, <3>3 DEF Filled
    <3>5. CString(out[f]) = sample[f]
      BY <2>6, <3>2, <3>4, BeforeIs, StrcpyIs
    <3> QED
      BY <2>6, <3>5
  <2>7. CASE f \notin Strings
    <3> DEFINE n == sample[f]
    <3>1. n \in Int
      BY <2>4, <2>7, ValuesTyped
    <3>2. x.type = "Number" /\ x.number = Double(Text(n))
      BY <2>3, <2>7, ItemsAre
    <3>3. Filled(f, Before[f], x) = Assigned(f, ItemInt(x))
      BY <2>7 DEF Filled
    <3>4. ItemInt(x) = Clamp(n)
      BY <3>1, <3>2, ClampIs DEF ItemInt
    <3>5. Assigned(f, Clamp(n)) = Clamp(n)
      BY <2>4, <2>7, ClampAssigned
    <3> QED
      BY <2>5, <2>7, <3>3, <3>4, <3>5
  <2> QED
    BY <2>6, <2>7
<1> QED
  BY <1>1, Invariant, PTL

LEMMA NumbersHeld ==
    ASSUME IInv, Own, NEW f \in ToSet(Numbers)
    PROVE  sample[f] \in Int
<1>1. f \in Fields /\ f \notin Strings
  BY NumbersFields
<1>2. sample[f] \in Values(f)
  BY <1>1 DEF IInv, Typed, Held
<1> QED
  BY <1>1, <1>2, ValuesTyped

\* The digits of a published number say how great it is among others: no sample has a
\* number of which the text is greater than that of the number after it.
THEOREM AlwaysTextInOrder == Spec => []TextInOrder
<1>1. IInv => TextInOrder
  <2> SUFFICES ASSUME IInv, Own, NEW f \in ToSet(Numbers)
               PROVE  Text(sample[f]) <= Text(sample[f] + 1)
    BY DEF TextInOrder
  <2>1. sample[f] \in Int
    BY NumbersHeld
  <2> DEFINE n == sample[f]
  <2> HIDE DEF n
  <2>2. n \in Int /\ n + 1 \in Int /\ n <= n + 1
    BY <2>1 DEF n
  <2>3. Text(n) <= Text(n + 1)
    BY <2>2, TextKeepsOrder
  <2> QED
    BY <2>3 DEF n
<1> QED
  BY <1>1, Invariant, PTL

\* A published number is exact with up to 15 digits, and with more of them off by four parts
\* in 2^53 at most.
THEOREM AlwaysTextIsClose == Spec => []TextIsClose
<1>1. IInv => TextIsClose
  <2> SUFFICES ASSUME IInv, Own, NEW f \in ToSet(Numbers)
               PROVE  /\ Abs(sample[f]) < Short => Text(sample[f]) = sample[f]
                      /\ Abs(Text(sample[f]) - sample[f]) * Mantissa <= 4 * Abs(sample[f])
    BY DEF TextIsClose
  <2>1. sample[f] \in Int
    BY NumbersHeld
  <2> QED
    BY <2>1, ShortNumbersExact, TextStaysClose
<1> QED
  BY <1>1, Invariant, PTL
=============================================================================
