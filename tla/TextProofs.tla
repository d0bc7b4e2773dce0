----------------------------- MODULE TextProofs -----------------------------
(***************************************************************************)
(* Strings between quotes, and texts: what cJSON's printers write, its     *)
(* parsers read back, within the bounds of every buffer.                   *)
(***************************************************************************)
EXTENDS JsonText, PrintBuffer, NumberProofs, SequenceTheorems, FiniteSetTheorems

\* What one token does to the parser, state by state.
LEMMA FeedCloses ==
    ASSUME NEW p, NEW t, Closes(p, t)
    PROVE  Feed(p, t) = Close(p)
BY DEF Feed

LEMMA FeedFirst ==
    ASSUME NEW p, NEW t, ~Closes(p, t), p.expect = "value"
    PROVE  Feed(p, t) = FeedValue(p, t)
BY DEF Feed

LEMMA FeedElement ==
    ASSUME NEW p, NEW t, ~Closes(p, t), AtMember(p), Top(p).type = "Array"
    PROVE  Feed(p, t) = FeedValue(p, t)
BY DEF Feed

LEMMA FeedMember ==
    ASSUME NEW p, NEW t, ~Closes(p, t), AtMember(p), p.expect # "value", Top(p).type # "Array"
    PROVE  Feed(p, t) = FeedName(p, t)
BY DEF Feed

LEMMA FeedNothing ==
    ASSUME NEW p, NEW t, ~Closes(p, t), ~AtMember(p), p.expect = "nothing"
    PROVE  Feed(p, t) = p
BY DEF Feed

LEMMA FeedColon ==
    ASSUME NEW p, NEW t, ~Closes(p, t), ~AtMember(p), p.expect = "colon", t.kind = ":"
    PROVE  Feed(p, t) = [p EXCEPT !.expect = "value"]
BY DEF Feed

LEMMA FeedComma ==
    ASSUME NEW p, NEW t, ~Closes(p, t), ~AtMember(p), p.expect = "end", t.kind = ","
    PROVE  Feed(p, t) = [p EXCEPT !.expect = "member"]
BY DEF Feed

LEMMA FeedOther ==
    ASSUME NEW p, NEW t, ~Closes(p, t), ~AtMember(p), p.expect \notin {"value", "nothing"},
           ~(p.expect = "colon" /\ t.kind = ":"), ~(p.expect = "end" /\ t.kind = ",")
    PROVE  Feed(p, t) = Failed
BY DEF Feed

LEMMA FeedIs ==
    ASSUME NEW p, NEW t
    PROVE  \/ Closes(p, t) /\ Feed(p, t) = Close(p)
           \/ (p.expect = "value" \/ AtMember(p)) /\ Feed(p, t) = FeedValue(p, t)
           \/ AtMember(p) /\ Feed(p, t) = FeedName(p, t)
           \/ p.expect = "nothing" /\ Feed(p, t) = p
           \/ p.expect = "colon" /\ t.kind = ":" /\ Feed(p, t) = [p EXCEPT !.expect = "value"]
           \/ p.expect = "end" /\ t.kind = "," /\ Feed(p, t) = [p EXCEPT !.expect = "member"]
           \/ Feed(p, t) = Failed
BY DEF Feed

LEMMA FeedValueIs ==
    ASSUME NEW p, NEW t
    PROVE  \/ /\ t.kind \in {"null", "false", "true"}
              /\ FeedValue(p, t) = Complete(p, Item(Literals[t.kind]))
           \/ t.kind = "number" /\ FeedValue(p, t) = Complete(p, Number(Double(t.number)))
           \/ t.kind = "string" /\ FeedValue(p, t) = CompleteString(p, ParseString(t.raw))
           \/ t.kind = "[" /\ FeedValue(p, t) = Open(p, "Array")
           \/ t.kind = "{" /\ FeedValue(p, t) = Open(p, "Object")
           \/ FeedValue(p, t) = Failed
<1>1. DOMAIN Literals = {"null", "false", "true"}
  BY SMTT(40) DEF Literals
<1> QED
  BY <1>1 DEF FeedValue

-----------------------------------------------------------------------------
(* Strings between quotes *)

\* Sequences one behind the other, up to each of them.
Flat(seqs) ==
    CHOOSE f : f = [i \in 1 .. Len(seqs) |-> IF i = 1 THEN seqs[i] ELSE f[i - 1] \o seqs[i]]

FlatTo(seqs, i) == IF i = 0 THEN <<>> ELSE Flat(seqs)[i]

LEMMA FlatExists ==
    ASSUME NEW seqs, Len(seqs) \in Nat
    PROVE  Flat(seqs) =
           [i \in 1 .. Len(seqs) |-> IF i = 1 THEN seqs[i] ELSE Flat(seqs)[i - 1] \o seqs[i]]
<1> DEFINE T == {n \in Nat :
                    \E f : f = [i \in 1 .. n |-> IF i = 1 THEN seqs[i] ELSE f[i - 1] \o seqs[i]]}
<1>1. 0 \in T
  <2> DEFINE f == [i \in 1 .. 0 |-> <<>>]
  <2>1. f = [i \in 1 .. 0 |-> IF i = 1 THEN seqs[i] ELSE f[i - 1] \o seqs[i]]
    OBVIOUS
  <2> HIDE DEF f
  <2> QED
    BY <2>1
<1>2. ASSUME NEW n \in Nat, n \in T
      PROVE  n + 1 \in T
  <2>1. PICK f : f = [i \in 1 .. n |-> IF i = 1 THEN seqs[i] ELSE f[i - 1] \o seqs[i]]
    BY <1>2
  <2> DEFINE last == IF n = 0 THEN seqs[n + 1] ELSE f[n] \o seqs[n + 1]
             g == [i \in 1 .. n + 1 |-> IF i = n + 1 THEN last ELSE f[i]]
  <2>2. g = [i \in 1 .. n + 1 |-> IF i = 1 THEN seqs[i] ELSE g[i - 1] \o seqs[i]]
    <3> SUFFICES ASSUME NEW i \in 1 .. n + 1
                 PROVE  g[i] = IF i = 1 THEN seqs[i] ELSE g[i - 1] \o seqs[i]
      OBVIOUS
    <3>1. CASE i = n + 1
      <4>1. g[i] = last /\ (i # 1 => g[i - 1] = f[n]) /\ (i = 1 <=> n = 0)
        BY <3>1
      <4> HIDE DEF g
      <4> QED
        BY <3>1, <4>1
    <3>2. CASE i # n + 1
      <4>1. i \in 1 .. n /\ g[i] = f[i] /\ (i # 1 => g[i - 1] = f[i - 1])
        BY <3>2
      <4> HIDE DEF g
      <4>2. f[i] = IF i = 1 THEN seqs[i] ELSE f[i - 1] \o seqs[i]
        BY <2>1, <4>1
      <4> QED
        BY <4>1, <4>2
    <3> QED
      BY <3>1, <3>2
  <2>3. n + 1 \in Nat
    OBVIOUS
  <2> HIDE DEF g
  <2> QED
    BY <2>2, <2>3, Zenon
<1> HIDE DEF T
<1>3. Len(seqs) \in T
  BY <1>1, <1>2, Upward
<1> QED
  BY <1>3 DEF T, Flat

\* Sequences over a set, one behind the other, are a sequence over the set, and each adds itself.
LEMMA FlatSteps ==
    ASSUME NEW S, NEW seqs \in Seq(Seq(S))
    PROVE  /\ \A i \in 0 .. Len(seqs) : FlatTo(seqs, i) \in Seq(S)
           /\ \A i \in 1 .. Len(seqs) : FlatTo(seqs, i) = FlatTo(seqs, i - 1) \o seqs[i]
           /\ FlattenSeq(seqs) = FlatTo(seqs, Len(seqs))
<1> DEFINE f == Flat(seqs)
           n == Len(seqs)
<1>1. n \in Nat /\ DOMAIN seqs = 1 .. n /\ \A i \in 1 .. n : seqs[i] \in Seq(S)
  BY LenProperties, ElementOfSeq
<1>2. f = [i \in 1 .. n |-> IF i = 1 THEN seqs[i] ELSE f[i - 1] \o seqs[i]]
  BY <1>1, FlatExists
<1> HIDE DEF f
<1>3. ASSUME NEW i \in 1 .. n, FlatTo(seqs, i - 1) \in Seq(S)
      PROVE  FlatTo(seqs, i) = FlatTo(seqs, i - 1) \o seqs[i]
  <2>1. CASE i = 1
    <3>1. FlatTo(seqs, i) = seqs[i] /\ FlatTo(seqs, i - 1) = <<>>
      BY <1>1, <1>2, <2>1 DEF FlatTo, f
    <3>2. <<>> \o seqs[i] = seqs[i]
      BY <1>1, ConcatEmptySeq
    <3> QED
      BY <3>1, <3>2
  <2>2. CASE i # 1
    <3>1. i \in Nat /\ i # 0 /\ i - 1 # 0
      BY <1>1, <2>2
    <3>2. FlatTo(seqs, i) = f[i] /\ FlatTo(seqs, i - 1) = f[i - 1]
      BY <3>1 DEF FlatTo, f
    <3>3. f[i] = f[i - 1] \o seqs[i]
      BY <1>2, <2>2
    <3> QED
      BY <3>2, <3>3
  <2> QED
    BY <2>1, <2>2
<1> DEFINE T == {i \in 0 .. n : FlatTo(seqs, i) \in Seq(S)}
<1>4. 0 \in T
  BY <1>1, EmptySeq DEF FlatTo
<1>5. ASSUME NEW i \in 0 .. n - 1, i \in T
      PROVE  i + 1 \in T
  <2>1. i + 1 \in 1 .. n /\ (i + 1) - 1 = i /\ FlatTo(seqs, i) \in Seq(S)
    BY <1>1, <1>5
  <2>2. FlatTo(seqs, i + 1) = FlatTo(seqs, i) \o seqs[i + 1]
    BY <1>3, <2>1
  <2>3. seqs[i + 1] \in Seq(S)
    BY <1>1, <2>1
  <2>4. FlatTo(seqs, i + 1) \in Seq(S)
    BY <2>1, <2>2, <2>3, ConcatProperties
  <2> QED
    BY <1>1, <2>1, <2>4
<1> HIDE DEF T
<1>6. \A i \in 0 .. n : i \in T
  BY <1>1, <1>4, <1>5, UpTo
<1>7. \A i \in 0 .. n : FlatTo(seqs, i) \in Seq(S)
  BY <1>6 DEF T
<1>8. \A i \in 1 .. n : FlatTo(seqs, i) = FlatTo(seqs, i - 1) \o seqs[i]
  <2> SUFFICES ASSUME NEW i \in 1 .. n
               PROVE  FlatTo(seqs, i) = FlatTo(seqs, i - 1) \o seqs[i]
    OBVIOUS
  <2>1. i - 1 \in 0 .. n
    BY <1>1
  <2> QED
    BY <1>3, <1>7, <2>1
<1>9. FlattenSeq(seqs) = FlatTo(seqs, n)
  <2>1. CASE n = 0
    <3>1. seqs = <<>>
      BY <2>1
    <3> QED
      BY <2>1, <3>1 DEF FlattenSeq, FlatTo
  <2>2. CASE n # 0
    BY <2>2 DEF FlattenSeq, FlatTo, Flat
  <2> QED
    BY <2>1, <2>2
<1> QED
  BY <1>7, <1>8, <1>9

\* How many of the numbers up to n are in a set, one number at a time.
Among(X, n) == Cardinality({j \in 1 .. n : j \in X})

LEMMA AmongSteps ==
    ASSUME NEW X
    PROVE  /\ Among(X, 0) = 0
           /\ \A n \in Nat : /\ Among(X, n) \in Nat
                             /\ Among(X, n + 1) = Among(X, n) + (IF n + 1 \in X THEN 1 ELSE 0)
<1> DEFINE A(n) == {j \in 1 .. n : j \in X}
<1>1. Among(X, 0) = 0
  <2>1. A(0) = {}
    OBVIOUS
  <2> QED
    BY <2>1, FS_EmptySet DEF Among
<1>2. ASSUME NEW n \in Nat
      PROVE  /\ Among(X, n) \in Nat
             /\ Among(X, n + 1) = Among(X, n) + (IF n + 1 \in X THEN 1 ELSE 0)
  <2>1. IsFiniteSet(A(n))
    <3>1. IsFiniteSet(1 .. n) /\ A(n) \subseteq 1 .. n
      BY FS_Interval
    <3> QED
      BY <3>1, FS_Subset
  <2>2. Cardinality(A(n)) \in Nat
    BY <2>1, FS_CardinalityType
  <2>3. CASE n + 1 \in X
    <3>1. A(n + 1) = A(n) \union {n + 1} /\ n + 1 \notin A(n)
      BY <2>3
    <3> HIDE DEF A
    <3>2. Cardinality(A(n + 1)) = Cardinality(A(n)) + 1
      BY <2>1, <3>1, FS_AddElement
    <3> QED
      BY <2>2, <2>3, <3>2 DEF Among, A
  <2>4. CASE n + 1 \notin X
    <3>1. A(n + 1) = A(n)
      BY <2>4
    <3> QED
      BY <2>2, <2>4, <3>1 DEF Among
  <2> QED
    BY <2>3, <2>4
<1> QED
  BY <1>1, <1>2

\* The seven escapes of two characters.
LEMMA ShortEscapesAre ==
    \A e : e \in ShortEscapes <=>
           e \in {<<98, 8>>, <<102, 12>>, <<110, 10>>, <<114, 13>>, <<116, 9>>,
                  <<34, 34>>, <<92, 92>>}
BY DEF ShortEscapes, Escapes

LEMMA HasShortIs == \A c : HasShort(c) <=> c \in {8, 12, 10, 13, 9, 34, 92}
<1> SUFFICES ASSUME NEW c
             PROVE  HasShort(c) <=> c \in {8, 12, 10, 13, 9, 34, 92}
  OBVIOUS
<1>1. ASSUME HasShort(c)
      PROVE  c \in {8, 12, 10, 13, 9, 34, 92}
  <2>1. PICK e \in ShortEscapes : e[2] = c
    BY <1>1 DEF HasShort
  <2>2. e \in {<<98, 8>>, <<102, 12>>, <<110, 10>>, <<114, 13>>, <<116, 9>>,
                <<34, 34>>, <<92, 92>>}
    BY ShortEscapesAre
  <2> QED
    BY <2>1, <2>2
<1>2. ASSUME c \in {8, 12, 10, 13, 9, 34, 92}
      PROVE  HasShort(c)
  <2>1. \E e \in {<<98, 8>>, <<102, 12>>, <<110, 10>>, <<114, 13>>, <<116, 9>>,
                  <<34, 34>>, <<92, 92>>} : e[2] = c
    BY <1>2
  <2> QED
    BY <2>1, ShortEscapesAre DEF HasShort
<1> QED
  BY <1>1, <1>2

LEMMA ShortOfIs ==
    ASSUME NEW c, HasShort(c)
    PROVE  <<ShortOf(c), c>> \in ShortEscapes
<1> DEFINE e == CHOOSE x \in ShortEscapes : x[2] = c
<1>1. e \in ShortEscapes /\ e[2] = c
  BY DEF HasShort
<1>2. ShortOf(c) = e[1]
  BY DEF ShortOf
<1> HIDE DEF e
<1>3. e = <<e[1], e[2]>>
  BY <1>1, ShortEscapesAre
<1> QED
  BY <1>1, <1>2, <1>3

\* What print_string_ptr writes for a character: itself, a short escape, or six characters.
LEMMA EscapeIs ==
    ASSUME NEW c \in Nat
    PROVE  /\ Plain(c) => ~HasShort(c) /\ Escape(c) = <<c>>
           /\ HasShort(c) => ~Plain(c) /\ Escape(c) = <<92, ShortOf(c)>>
           /\ ~Plain(c) /\ ~HasShort(c) =>
                  c < 32 /\ Escape(c) = <<92, 117, 48, 48, HexChar(c \div 16), HexChar(c % 16)>>
BY HasShortIs DEF Plain, Escape, Quote, Backslash, LetterU

LEMMA EscapeLength ==
    ASSUME NEW c \in Nat
    PROVE  /\ Escape(c) \in Seq(Nat \ {0})
           /\ Len(Escape(c)) = 1 + (IF HasShort(c) THEN 1 ELSE 0)
                                 + 5 * (IF ~Plain(c) /\ ~HasShort(c) THEN 1 ELSE 0)
<1>1. CASE Plain(c)
  <2>1. Escape(c) = <<c>> /\ c # 0
    BY <1>1, EscapeIs DEF Plain
  <2> QED
    BY <1>1, <2>1, EscapeIs
<1>2. CASE HasShort(c)
  <2>1. Escape(c) = <<92, ShortOf(c)>>
    BY <1>2, EscapeIs
  <2>2. ShortOf(c) \in Nat \ {0}
    <3>1. <<ShortOf(c), c>> \in {<<98, 8>>, <<102, 12>>, <<110, 10>>, <<114, 13>>, <<116, 9>>,
                                 <<34, 34>>, <<92, 92>>}
      BY <1>2, ShortOfIs, ShortEscapesAre
    <3> QED
      BY <3>1
  <2> QED
    BY <1>2, <2>1, <2>2, EscapeIs
<1>3. CASE ~Plain(c) /\ ~HasShort(c)
  <2>1. c < 32 /\ Escape(c) = <<92, 117, 48, 48, HexChar(c \div 16), HexChar(c % 16)>>
    BY <1>3, EscapeIs
  <2>2. c \div 16 \in Nat /\ c % 16 \in Nat
    OBVIOUS
  <2>3. \A d \in Nat : HexChar(d) \in Nat \ {0}
    BY DEF HexChar
  <2> QED
    BY <1>3, <2>1, <2>2, <2>3
<1> QED
  BY <1>1, <1>2, <1>3

\* The escapes of a string.
EscapesOf(s) == [i \in DOMAIN s |-> Escape(s[i])]

LEMMA EscapesOfIs ==
    ASSUME NEW s \in Seq(Nat)
    PROVE  /\ EscapesOf(s) \in Seq(Seq(Nat \ {0})) /\ Len(EscapesOf(s)) = Len(s)
           /\ \A i \in 1 .. Len(s) : EscapesOf(s)[i] = Escape(s[i]) /\ s[i] \in Nat
<1>1. Len(s) \in Nat /\ DOMAIN s = 1 .. Len(s) /\ \A i \in 1 .. Len(s) : s[i] \in Nat
  BY LenProperties, ElementOfSeq
<1>2. EscapesOf(s) = [i \in 1 .. Len(s) |-> Escape(s[i])]
  BY <1>1 DEF EscapesOf
<1>3. \A i \in 1 .. Len(s) : Escape(s[i]) \in Seq(Nat \ {0})
  BY <1>1, EscapeLength
<1> HIDE DEF EscapesOf
<1> QED
  BY <1>1, <1>2, <1>3

\* print_string_ptr writes as many characters as it has counted, and the closing quote.
THEOREM PrintStringFits ==
    ASSUME NEW s \in Seq(Nat)
    PROVE  Len(PrintString(s)) = OutputLength(s) + 1
<1> DEFINE n == Len(s)
           A == {i \in DOMAIN s : HasShort(s[i])}
           B == {i \in DOMAIN s : ~Plain(s[i]) /\ ~HasShort(s[i])}
           seqs == EscapesOf(s)
           T == {i \in 0 .. n : Len(FlatTo(seqs, i)) = i + Among(A, i) + 5 * Among(B, i)}
<1>1. n \in Nat /\ DOMAIN s = 1 .. n
  BY LenProperties
<1>2. seqs \in Seq(Seq(Nat \ {0})) /\ Len(seqs) = n
  BY EscapesOfIs
<1>3. /\ \A i \in 0 .. n : FlatTo(seqs, i) \in Seq(Nat \ {0})
      /\ \A i \in 1 .. n : FlatTo(seqs, i) = FlatTo(seqs, i - 1) \o seqs[i]
      /\ FlattenSeq(seqs) = FlatTo(seqs, n)
  <2> HIDE DEF seqs
  <2> QED
    BY <1>2, FlatSteps
<1>4. \A i \in 1 .. n : seqs[i] = Escape(s[i]) /\ s[i] \in Nat
  BY EscapesOfIs
<1> HIDE DEF seqs
<1>5. 0 \in T
  BY <1>1, AmongSteps DEF FlatTo
<1>6. ASSUME NEW i \in 0 .. n - 1, i \in T
      PROVE  i + 1 \in T
  <2>1. i \in Nat /\ i + 1 \in 1 .. n /\ (i + 1) - 1 = i
    BY <1>1
  <2>2. FlatTo(seqs, i + 1) = FlatTo(seqs, i) \o Escape(s[i + 1]) /\ s[i + 1] \in Nat
    BY <1>3, <1>4, <2>1
  <2>3. Escape(s[i + 1]) \in Seq(Nat \ {0}) /\ FlatTo(seqs, i) \in Seq(Nat \ {0})
    <3>1. Escape(s[i + 1]) \in Seq(Nat \ {0})
      BY <2>2, EscapeLength
    <3>2. FlatTo(seqs, i) \in Seq(Nat \ {0})
      BY <1>1, <1>3
    <3> QED
      BY <3>1, <3>2
  <2>4. Len(FlatTo(seqs, i + 1)) = Len(FlatTo(seqs, i)) + Len(Escape(s[i + 1]))
    BY <2>2, <2>3, ConcatProperties
  <2>5. Len(Escape(s[i + 1])) = 1 + (IF i + 1 \in A THEN 1 ELSE 0)
                                  + 5 * (IF i + 1 \in B THEN 1 ELSE 0)
    BY <1>1, <2>1, <2>2, EscapeLength
  <2> HIDE DEF A, B
  <2>6. /\ Among(A, i) \in Nat /\ Among(A, i + 1) = Among(A, i) + (IF i + 1 \in A THEN 1 ELSE 0)
        /\ Among(B, i) \in Nat /\ Among(B, i + 1) = Among(B, i) + (IF i + 1 \in B THEN 1 ELSE 0)
    BY <2>1, AmongSteps
  <2>7. Len(FlatTo(seqs, i)) = i + Among(A, i) + 5 * Among(B, i)
    BY <1>6
  <2>8. /\ Len(FlatTo(seqs, i)) \in Nat
        /\ Len(FlatTo(seqs, i + 1)) = (i + 1) + Among(A, i + 1) + 5 * Among(B, i + 1)
    <3>1. Len(FlatTo(seqs, i)) \in Nat
      BY <2>3, LenProperties
    <3> DEFINE x == IF i + 1 \in A THEN 1 ELSE 0
               y == IF i + 1 \in B THEN 1 ELSE 0
    <3>2. x \in Nat /\ y \in Nat
      OBVIOUS
    <3>3. /\ Len(Escape(s[i + 1])) = 1 + x + 5 * y
          /\ Among(A, i + 1) = Among(A, i) + x
          /\ Among(B, i + 1) = Among(B, i) + y
      BY <2>5, <2>6
    <3> HIDE DEF x, y
    <3>4. Len(FlatTo(seqs, i + 1)) = Len(FlatTo(seqs, i)) + (1 + x + 5 * y)
      BY <2>4, <3>3
    <3>5. Among(A, i) \in Nat /\ Among(B, i) \in Nat /\ i \in Nat
      BY <2>1, <2>6
    <3> DEFINE a == Among(A, i)
               b == Among(B, i)
               l == Len(FlatTo(seqs, i))
    <3>6. l = i + a + 5 * b /\ i \in Nat /\ a \in Nat /\ b \in Nat
      BY <2>7, <3>5
    <3>7. Len(FlatTo(seqs, i + 1)) = l + (1 + x + 5 * y)
      BY <3>4
    <3>8. Among(A, i + 1) = a + x /\ Among(B, i + 1) = b + y
      BY <3>3
    <3> HIDE DEF a, b, l
    <3>9. l + (1 + x + 5 * y) = (i + 1) + (a + x) + 5 * (b + y)
      BY <3>2, <3>6
    <3> QED
      BY <3>1, <3>7, <3>8, <3>9 DEF l
  <2> QED
    BY <1>1, <2>1, <2>8
<1>7. n \in T
  <2> HIDE DEF T
  <2>1. \A i \in 0 .. n : i \in T
    BY <1>1, <1>5, <1>6, UpTo
  <2> QED
    BY <1>1, <2>1
<1>8. Among(A, n) = Cardinality(A) /\ Among(B, n) = Cardinality(B)
  <2>1. {j \in 1 .. n : j \in A} = A /\ {j \in 1 .. n : j \in B} = B
    BY <1>1
  <2> QED
    BY <2>1 DEF Among
<1>9. Among(A, n) \in Nat /\ Among(B, n) \in Nat
  BY <1>1, AmongSteps
<1>10. PrintString(s) = FlatTo(seqs, n) \o <<34>>
  BY <1>3 DEF PrintString, Quote, seqs, EscapesOf
<1>11. Len(PrintString(s)) = Len(FlatTo(seqs, n)) + 1
  BY <1>1, <1>3, <1>10
<1> QED
  BY <1>1, <1>7, <1>8, <1>9, <1>11 DEF OutputLength

\* The first loop of parse_string, from each place on.
ScanFrom(raw, f, i) ==
    IF i > Len(raw) THEN [end |-> 0, skipped |-> 0]
    ELSE IF raw[i] = Quote THEN [end |-> i, skipped |-> 0]
    ELSE IF raw[i] = Backslash THEN [f[i + 2] EXCEPT !.skipped = @ + 1]
    ELSE f[i + 1]

Scan(raw) == CHOOSE f : f = [i \in 1 .. Len(raw) + 2 |-> ScanFrom(raw, f, i)]

LEMMA ScanExists ==
    ASSUME NEW raw, Len(raw) \in Nat
    PROVE  Scan(raw) = [i \in 1 .. Len(raw) + 2 |-> ScanFrom(raw, Scan(raw), i)]
<1> DEFINE N == Len(raw) + 2
           T == {m \in Nat : m <= N =>
                    \E f : f = [i \in N + 1 - m .. N |-> ScanFrom(raw, f, i)]}
<1>1. 0 \in T
  <2> DEFINE f == [i \in N + 1 .. N |-> 0]
  <2>1. f = [i \in N + 1 - 0 .. N |-> ScanFrom(raw, f, i)]
    OBVIOUS
  <2> HIDE DEF f
  <2> QED
    BY <2>1
<1>2. ASSUME NEW m \in Nat, m \in T
      PROVE  m + 1 \in T
  <2> SUFFICES ASSUME m + 1 <= N
               PROVE  \E f : f = [i \in N + 1 - (m + 1) .. N |-> ScanFrom(raw, f, i)]
    OBVIOUS
  <2>1. PICK f : f = [i \in N + 1 - m .. N |-> ScanFrom(raw, f, i)]
    BY <1>2
  <2> DEFINE k == N - m
             g == [i \in k .. N |-> IF i = k THEN ScanFrom(raw, f, i) ELSE f[i]]
  <2>2. k \in 1 .. N /\ N + 1 - (m + 1) = k /\ N + 1 - m = k + 1 /\ N \in Nat
    OBVIOUS
  <2>3. \A i \in k + 1 .. N : g[i] = f[i]
    BY <2>2
  <2>4. \A i \in k .. N : ScanFrom(raw, g, i) = ScanFrom(raw, f, i)
    <3> SUFFICES ASSUME NEW i \in k .. N
                 PROVE  ScanFrom(raw, g, i) = ScanFrom(raw, f, i)
      OBVIOUS
    <3>1. CASE i > Len(raw)
      BY <3>1 DEF ScanFrom
    <3>2. CASE ~(i > Len(raw))
      <4>1. i + 1 \in k + 1 .. N /\ i + 2 \in k + 1 .. N
        BY <2>2, <3>2
      <4>2. g[i + 1] = f[i + 1] /\ g[i + 2] = f[i + 2]
        BY <2>3, <4>1
      <4> HIDE DEF g
      <4> QED
        BY <4>2 DEF ScanFrom
    <3> QED
      BY <3>1, <3>2
  <2>5. \A i \in k .. N : g[i] = ScanFrom(raw, f, i)
    <3> SUFFICES ASSUME NEW i \in k .. N
                 PROVE  g[i] = ScanFrom(raw, f, i)
      OBVIOUS
    <3>1. CASE i = k
      BY <3>1
    <3>2. CASE i # k
      <4>1. i \in k + 1 .. N
        BY <2>2, <3>2
      <4>2. f[i] = ScanFrom(raw, f, i)
        BY <2>1, <2>2, <4>1
      <4> QED
        BY <2>3, <4>1, <4>2
    <3> QED
      BY <3>1, <3>2
  <2>6. g = [i \in k .. N |-> g[i]]
    OBVIOUS
  <2> HIDE DEF g
  <2>7. g = [i \in k .. N |-> ScanFrom(raw, g, i)]
    BY <2>4, <2>5, <2>6
  <2>8. g = [i \in N + 1 - (m + 1) .. N |-> ScanFrom(raw, g, i)]
    BY <2>2, <2>7
  <2> QED
    BY <2>8, Zenon
<1> HIDE DEF T
<1>3. N \in Nat /\ N + 1 - N = 1
  OBVIOUS
<1>4. N \in T
  BY <1>1, <1>2, <1>3, Upward
<1>5. \E f : f = [i \in 1 .. N |-> ScanFrom(raw, f, i)]
  BY <1>3, <1>4 DEF T
<1> QED
  BY <1>5, Zenon DEF Scan

LEMMA ClosingIs ==
    ASSUME NEW raw, Len(raw) \in Nat
    PROVE  Closing(raw) = Scan(raw)[1]
BY DEF Closing, Scan, ScanFrom

LEMMA PlaneIs == Plane \in Nat /\ Plane > 2048 /\ Plane = 16 * 4096
BY DEF Plane

\* Four digits are a number of 16 bits, and no digits are zero.
LEMMA ParseHex4Is == \A raw, i : ParseHex4(raw, i) \in Nat /\ ParseHex4(raw, i) < Plane
<1>1. \A c : HexDigit(c) \in -1 .. 15
  BY DEF HexDigit
<1> SUFFICES ASSUME NEW raw, NEW i
             PROVE  ParseHex4(raw, i) \in Nat /\ ParseHex4(raw, i) < Plane
  OBVIOUS
<1> DEFINE d(k) == HexDigit(raw[i + k])
<1>2. d(0) \in -1 .. 15 /\ d(1) \in -1 .. 15 /\ d(2) \in -1 .. 15 /\ d(3) \in -1 .. 15
  BY <1>1
<1>3. ParseHex4(raw, i) =
      IF \E k \in 0..3 : d(k) = -1 THEN 0
      ELSE 4096 * d(0) + 256 * d(1) + 16 * d(2) + d(3)
  BY DEF ParseHex4
<1>4. ASSUME ~(\E k \in 0..3 : d(k) = -1)
      PROVE  d(0) \in 0 .. 15 /\ d(1) \in 0 .. 15 /\ d(2) \in 0 .. 15 /\ d(3) \in 0 .. 15
  <2>1. d(0) # -1 /\ d(1) # -1 /\ d(2) # -1 /\ d(3) # -1
    BY <1>4
  <2> HIDE DEF d
  <2> QED
    BY <1>2, <2>1
<1> HIDE DEF d
<1>5. CASE \E k \in 0..3 : d(k) = -1
  <2>1. ParseHex4(raw, i) = 0
    BY <1>3, <1>5
  <2> QED
    BY <2>1, PlaneIs
<1>6. CASE ~(\E k \in 0..3 : d(k) = -1)
  <2>1. ParseHex4(raw, i) = 4096 * d(0) + 256 * d(1) + 16 * d(2) + d(3)
    BY <1>3, <1>6
  <2>2. d(0) \in 0 .. 15 /\ d(1) \in 0 .. 15 /\ d(2) \in 0 .. 15 /\ d(3) \in 0 .. 15
    BY <1>4, <1>6
  <2> DEFINE w == d(0)
             x == d(1)
             y == d(2)
             z == d(3)
             code == 4096 * w + 256 * x + 16 * y + z
  <2>3. ParseHex4(raw, i) = code
    BY <2>1
  <2>4. w \in 0 .. 15 /\ x \in 0 .. 15 /\ y \in 0 .. 15 /\ z \in 0 .. 15
    BY <2>2
  <2> HIDE DEF w, x, y, z
  <2>5. code \in Nat /\ code < 16 * 4096
    BY <2>4
  <2> HIDE DEF code
  <2> QED
    BY <2>3, <2>5, PlaneIs
<1> QED
  BY <1>5, <1>6

\* The bytes of a code point.
LEMMA Utf8Is ==
    ASSUME NEW cp \in Nat, cp < 17 * Plane
    PROVE  /\ Utf8(cp) \in Seq(0 .. 255)
           /\ Len(Utf8(cp)) \in 1 .. 4
           /\ cp < Plane => Len(Utf8(cp)) <= 3
           /\ cp >= Plane => Len(Utf8(cp)) = 4
           /\ cp < 128 => Utf8(cp) = <<cp>>
<1> DEFINE rest(unit) == 128 + ((cp \div unit) % 64)
<1>0. Plane \in Nat /\ Plane > 2048 /\ Plane = 16 * 4096
  BY PlaneIs
<1>1. rest(1) \in 0 .. 255 /\ rest(64) \in 0 .. 255 /\ rest(4096) \in 0 .. 255
  OBVIOUS
<1>2. CASE cp < 128
  <2>1. Utf8(cp) = <<cp>>
    BY <1>0, <1>2 DEF Utf8
  <2> QED
    BY <1>0, <1>2, <2>1
<1>3. CASE ~(cp < 128) /\ cp < 2048
  <2>1. Utf8(cp) = <<192 + (cp \div 64), rest(1)>>
    BY <1>0, <1>3 DEF Utf8
  <2>2. 192 + (cp \div 64) \in 0 .. 255
    BY <1>3
  <2> HIDE DEF rest
  <2> QED
    BY <1>0, <1>1, <1>3, <2>1, <2>2
<1>4. CASE ~(cp < 2048) /\ cp < Plane
  <2>1. Utf8(cp) = <<224 + (cp \div 4096), rest(64), rest(1)>>
    BY <1>4 DEF Utf8
  <2>2. 224 + (cp \div 4096) \in 0 .. 255
    BY <1>0, <1>4
  <2> HIDE DEF rest
  <2> QED
    BY <1>0, <1>1, <1>4, <2>1, <2>2
<1>5. CASE ~(cp < Plane)
  <2>1. Utf8(cp) = <<240 + (cp \div (64 * 4096)), rest(4096), rest(64), rest(1)>>
    BY <1>0, <1>5 DEF Utf8
  <2>2. 240 + (cp \div (64 * 4096)) \in 0 .. 255
    BY <1>0, <1>5
  <2> HIDE DEF rest
  <2> QED
    BY <1>0, <1>1, <1>5, <2>1, <2>2
<1> QED
  BY <1>2, <1>3, <1>4, <1>5

\* One turn of the second loop reads one character, an escape of two, or one of six or twelve if
\* there are as many up to the closing quote, and writes fewer bytes than it reads if it reads more
\* than one: no more than one, three and four.
LEMMA ReadPieceIs ==
    ASSUME NEW raw, NEW i \in Nat, NEW end \in Nat
    PROVE  LET p == ReadPiece(raw, i, end)
           IN  /\ p.reads \in {0, 1, 2, 6, 12}
               /\ p.reads = 1 => raw[i] # Backslash /\ p.bytes = <<raw[i]>>
               /\ p.reads # 1 => p.bytes \in Seq(0 .. 255)
               /\ p.reads \in {0, 2} => Len(p.bytes) <= 1
               /\ p.reads = 6 => Len(p.bytes) <= 3 /\ i + 6 <= end
               /\ p.reads = 12 => Len(p.bytes) <= 4 /\ i + 12 <= end
<1> DEFINE p == ReadPiece(raw, i, end)
<1>0. <<>> \in Seq(0 .. 255) /\ Len(<<>>) = 0
  OBVIOUS
<1>1. CASE raw[i] # Backslash
  BY <1>1 DEF ReadPiece, Piece
<1>2. CASE raw[i] = Backslash /\ raw[i + 1] = 47
  <2>1. p = Piece(2, <<47>>)
    BY <1>2 DEF ReadPiece
  <2> QED
    BY <2>1 DEF Piece
<1>3. CASE raw[i] = Backslash /\ raw[i + 1] # 47 /\ raw[i + 1] = LetterU
  <2> DEFINE room == end - i
             first == ParseHex4(raw, i + 2)
             pair == raw[i + 6] = Backslash /\ raw[i + 7] = LetterU
             second == ParseHex4(raw, i + 8)
  <2>1. p = Utf16(room, first, pair, second)
    BY <1>3 DEF ReadPiece, Utf16Literal
  <2>2. /\ room \in Int
        /\ first \in Nat /\ first < Plane /\ second \in Nat /\ second < Plane
    BY ParseHex4Is
  <2> HIDE DEF room, first, pair, second
  <2>3. CASE p = Failure
    BY <1>0, <2>3 DEF Failure, Piece
  <2>4. CASE p # Failure /\ ~High(first)
    <3>1. p = Piece(6, Utf8(first)) /\ ~(room < 6)
      BY <2>1, <2>4 DEF Utf16
    <3>2. first < 17 * Plane
      BY <2>2, PlaneIs
    <3>3. Utf8(first) \in Seq(0 .. 255) /\ Len(Utf8(first)) <= 3
      BY <2>2, <3>2, Utf8Is
    <3>4. i + 6 <= end
      BY <2>2, <3>1 DEF room
    <3> QED
      BY <3>1, <3>3, <3>4 DEF Piece
  <2>5. CASE p # Failure /\ High(first)
    <3> DEFINE cp == Plane + 1024 * (first % 1024) + (second % 1024)
    <3>1. p = Piece(12, Utf8(cp)) /\ ~(room < 12)
      BY <2>1, <2>5 DEF Utf16
    <3>2. cp \in Nat /\ cp < 17 * Plane /\ cp >= Plane
      <4>1. first % 1024 \in 0 .. 1023 /\ second % 1024 \in 0 .. 1023
        BY <2>2
      <4> DEFINE x == first % 1024
                 y == second % 1024
                 low == 1024 * x + y
      <4>2. x \in 0 .. 1023 /\ y \in 0 .. 1023
        BY <4>1
      <4> HIDE DEF x, y
      <4>3. low \in Nat /\ low < 16 * (16 * 4096)
        BY <4>2
      <4> HIDE DEF low
      <4>4. Plane + low \in Nat /\ Plane + low < 17 * Plane /\ Plane + low >= Plane
        BY <4>3, PlaneIs
      <4>5. cp = Plane + low
        <5>1. cp = Plane + 1024 * x + y
          BY DEF x, y
        <5>2. low = 1024 * x + y
          BY DEF low
        <5> QED
          BY <4>2, <5>1, <5>2, PlaneIs
      <4> QED
        BY <4>4, <4>5
    <3> HIDE DEF cp
    <3>3. Utf8(cp) \in Seq(0 .. 255) /\ Len(Utf8(cp)) = 4
      BY <3>2, Utf8Is
    <3>4. i + 12 <= end
      BY <2>2, <3>1 DEF room
    <3>5. p.reads = 12 /\ p.bytes = Utf8(cp)
      BY <3>1 DEF Piece
    <3> HIDE DEF p
    <3>6. Len(p.bytes) = 4 /\ p.bytes \in Seq(0 .. 255)
      BY <3>3, <3>5, Zenon
    <3>7. p.reads # 0 /\ p.reads # 1 /\ p.reads # 2 /\ p.reads # 6
      BY <3>5
    <3> QED
      BY <3>4, <3>5, <3>6, <3>7 DEF p
  <2> QED
    BY <2>3, <2>4, <2>5
<1>4. CASE raw[i] = Backslash /\ raw[i + 1] # 47 /\ raw[i + 1] # LetterU
  <2>1. CASE \E e \in ShortEscapes : e[1] = raw[i + 1]
    <3> DEFINE e == CHOOSE e \in ShortEscapes : e[1] = raw[i + 1]
    <3>1. e \in ShortEscapes
      BY <2>1
    <3>2. p = Piece(2, <<e[2]>>)
      BY <1>4, <2>1 DEF ReadPiece
    <3> HIDE DEF e
    <3>3. e[2] \in 0 .. 255
      BY <3>1, ShortEscapesAre
    <3> QED
      BY <3>2, <3>3 DEF Piece
  <2>2. CASE ~(\E e \in ShortEscapes : e[1] = raw[i + 1])
    <3>1. p = Failure
      BY <1>4, <2>2 DEF ReadPiece
    <3> QED
      BY <1>0, <3>1 DEF Failure, Piece
  <2> QED
    BY <2>1, <2>2
<1> QED
  BY <1>1, <1>2, <1>3, <1>4

\* g counts the backslashes that the first loop has skipped behind, from each place up to the
\* closing quote: never two neighbours, nor the last one before the quote.
Counts(raw, g, i, end) ==
    /\ \A j \in i .. end : g[j] \in Nat
    /\ g[end] = 0
    /\ \A j \in i .. end - 1 :
           \/ g[j] = g[j + 1]
           \/ /\ g[j] = g[j + 1] + 1
              /\ raw[j] = Backslash
              /\ j + 1 < end
              /\ g[j + 1] = g[j + 2]

Scanned(raw, s, i) ==
    /\ s = [end |-> s.end, skipped |-> s.skipped]
    /\ s.end \in 0 .. Len(raw) /\ s.skipped \in Nat
    /\ s.end # 0 => /\ i <= s.end
                    /\ raw[s.end] = Quote
                    /\ \E g : Counts(raw, g, i, s.end) /\ g[i] = s.skipped

\* The first loop finds a quote, if it finds one, and the backslashes it counts are apart.
LEMMA ScanCounts ==
    ASSUME NEW raw, Len(raw) \in Nat
    PROVE  \A i \in 1 .. Len(raw) + 2 : Scanned(raw, Scan(raw)[i], i)
<1> DEFINE f == Scan(raw)
           N == Len(raw) + 2
           T == {n \in Nat : \A i \in 1 .. N : i >= n => Scanned(raw, f[i], i)}
<1>1. f = [i \in 1 .. N |-> ScanFrom(raw, f, i)]
  BY ScanExists
<1> HIDE DEF f
<1>2. ASSUME NEW i \in 1 .. N, \A j \in 1 .. N : j > i => Scanned(raw, f[j], j)
      PROVE  Scanned(raw, f[i], i)
  <2>1. f[i] = ScanFrom(raw, f, i)
    BY <1>1
  <2>2. CASE i > Len(raw)
    BY <2>1, <2>2 DEF ScanFrom, Scanned
  <2>3. CASE i <= Len(raw) /\ raw[i] = Quote
    <3>1. f[i] = [end |-> i, skipped |-> 0]
      BY <2>1, <2>3 DEF ScanFrom
    <3> DEFINE g == [j \in i .. i |-> 0]
    <3>2. Counts(raw, g, i, i) /\ g[i] = 0
      BY DEF Counts
    <3> HIDE DEF g
    <3>3. f[i].end = i /\ f[i].skipped = 0
      BY <3>1
    <3> QED
      BY <2>3, <3>1, <3>2, <3>3 DEF Scanned
  <2>4. CASE i <= Len(raw) /\ raw[i] # Quote /\ raw[i] # Backslash
    <3> DEFINE s == f[i + 1]
    <3>1. f[i] = s
      BY <2>1, <2>4 DEF ScanFrom
    <3>2. Scanned(raw, s, i + 1)
      <4>1. i + 1 \in 1 .. N /\ i + 1 > i
        BY <2>4
      <4> QED
        BY <1>2, <4>1
    <3> HIDE DEF s
    <3>3. CASE s.end # 0
      <4>1. PICK h : Counts(raw, h, i + 1, s.end) /\ h[i + 1] = s.skipped
        BY <3>2, <3>3 DEF Scanned
      <4>2. s.end \in Nat /\ i + 1 <= s.end /\ s.skipped \in Nat
        BY <3>2, <3>3 DEF Scanned
      <4> DEFINE g == [j \in i .. s.end |-> IF j = i THEN h[i + 1] ELSE h[j]]
      <4>3. g[i] = h[i + 1] /\ \A j \in i + 1 .. s.end : g[j] = h[j]
        BY <4>2
      <4> HIDE DEF g
      <4>4. Counts(raw, g, i, s.end)
        <5>1. \A j \in i .. s.end : j # i => j \in i + 1 .. s.end
          OBVIOUS
        <5>2. \A j \in i .. s.end : g[j] \in Nat
          BY <4>1, <4>2, <4>3, <5>1 DEF Counts
        <5>3. g[s.end] = 0
          BY <4>1, <4>2, <4>3, <5>1 DEF Counts
        <5>4. ASSUME NEW j \in i .. s.end - 1
              PROVE  \/ g[j] = g[j + 1]
                     \/ /\ g[j] = g[j + 1] + 1
                        /\ raw[j] = Backslash
                        /\ j + 1 < s.end
                        /\ g[j + 1] = g[j + 2]
          <6>1. CASE j = i
            <7>1. i + 1 \in i + 1 .. s.end
              BY <4>2
            <7> QED
              BY <4>3, <6>1, <7>1
          <6>2. CASE j # i
            <7>1. j \in i + 1 .. s.end - 1 /\ j \in i + 1 .. s.end /\ j + 1 \in i + 1 .. s.end
              BY <4>2, <6>2
            <7>2. j + 1 < s.end => j + 2 \in i + 1 .. s.end
              BY <4>2, <7>1
            <7>3. \/ h[j] = h[j + 1]
                  \/ /\ h[j] = h[j + 1] + 1
                     /\ raw[j] = Backslash
                     /\ j + 1 < s.end
                     /\ h[j + 1] = h[j + 2]
              BY <4>1, <7>1 DEF Counts
            <7> QED
              BY <4>3, <7>1, <7>2, <7>3
          <6> QED
            BY <6>1, <6>2
        <5> QED
          BY <5>2, <5>3, <5>4 DEF Counts
      <4>5. g[i] = s.skipped /\ i <= s.end
        BY <4>1, <4>2, <4>3
      <4>6. Scanned(raw, s, i)
        BY <3>2, <4>4, <4>5 DEF Scanned
      <4> QED
        BY <3>1, <4>6
    <3>4. CASE s.end = 0
      BY <3>1, <3>2, <3>4 DEF Scanned
    <3> QED
      BY <3>3, <3>4
  <2>5. CASE i <= Len(raw) /\ raw[i] # Quote /\ raw[i] = Backslash
    <3> DEFINE s == f[i + 2]
    <3>1. f[i] = [s EXCEPT !.skipped = @ + 1]
      BY <2>1, <2>5 DEF ScanFrom
    <3>2. Scanned(raw, s, i + 2)
      <4>1. i + 2 \in 1 .. N /\ i + 2 > i
        BY <2>5
      <4> QED
        BY <1>2, <4>1
    <3> HIDE DEF s
    <3>3. /\ f[i] = [end |-> s.end, skipped |-> s.skipped + 1]
          /\ s.end \in 0 .. Len(raw) /\ s.skipped \in Nat
      <4>1. s = [end |-> s.end, skipped |-> s.skipped]
        BY <3>2 DEF Scanned
      <4> QED
        BY <3>1, <3>2, <4>1 DEF Scanned
    <3>4. f[i].end = s.end /\ f[i].skipped = s.skipped + 1
      BY <3>3
    <3>5. CASE s.end # 0
      <4>1. PICK h : Counts(raw, h, i + 2, s.end) /\ h[i + 2] = s.skipped
        BY <3>2, <3>5 DEF Scanned
      <4>2. s.end \in Nat /\ i + 2 <= s.end /\ s.skipped \in Nat /\ raw[s.end] = Quote
        BY <3>2, <3>5 DEF Scanned
      <4> DEFINE g == [j \in i .. s.end |-> IF j = i THEN h[i + 2] + 1
                                            ELSE IF j = i + 1 THEN h[i + 2]
                                            ELSE h[j]]
      <4>3. /\ g[i] = h[i + 2] + 1 /\ g[i + 1] = h[i + 2]
            /\ \A j \in i + 2 .. s.end : g[j] = h[j]
        BY <4>2
      <4> HIDE DEF g
      <4>4. Counts(raw, g, i, s.end)
        <5>1. \A j \in i .. s.end : j # i /\ j # i + 1 => j \in i + 2 .. s.end
          OBVIOUS
        <5>2. \A j \in i .. s.end : g[j] \in Nat
          BY SMTT(40), <4>1, <4>2, <4>3, <5>1 DEF Counts
        <5>3. g[s.end] = 0
          BY <4>1, <4>2, <4>3, <5>1 DEF Counts
        <5>4. ASSUME NEW j \in i .. s.end - 1
              PROVE  \/ g[j] = g[j + 1]
                     \/ /\ g[j] = g[j + 1] + 1
                        /\ raw[j] = Backslash
                        /\ j + 1 < s.end
                        /\ g[j + 1] = g[j + 2]
          <6>1. i + 2 \in i + 2 .. s.end
            BY <4>2
          <6>2. CASE j = i
            BY <2>5, <4>2, <4>3, <6>1, <6>2
          <6>3. CASE j = i + 1
            <7>1. j + 1 = i + 2
              BY <6>3
            <7> QED
              BY <4>3, <6>1, <6>3, <7>1
          <6>4. CASE j # i /\ j # i + 1
            <7>1. j \in i + 2 .. s.end - 1 /\ j \in i + 2 .. s.end /\ j + 1 \in i + 2 .. s.end
              BY <4>2, <6>4
            <7>2. j + 1 < s.end => j + 2 \in i + 2 .. s.end
              BY <4>2, <7>1
            <7>3. \/ h[j] = h[j + 1]
                  \/ /\ h[j] = h[j + 1] + 1
                     /\ raw[j] = Backslash
                     /\ j + 1 < s.end
                     /\ h[j + 1] = h[j + 2]
              BY <4>1, <7>1 DEF Counts
            <7> QED
              BY <4>3, <7>1, <7>2, <7>3
          <6> QED
            BY <6>2, <6>3, <6>4
        <5> QED
          BY <5>2, <5>3, <5>4 DEF Counts
      <4>5. g[i] = s.skipped + 1 /\ i <= s.end
        BY <4>1, <4>2, <4>3
      <4>6. Counts(raw, g, i, f[i].end) /\ g[i] = f[i].skipped
        BY <3>4, <4>4, <4>5
      <4> QED
        BY <3>3, <3>4, <4>2, <4>5, <4>6 DEF Scanned
    <3>6. CASE s.end = 0
      BY <3>3, <3>4, <3>6 DEF Scanned
    <3> QED
      BY <3>5, <3>6
  <2> QED
    BY <2>2, <2>3, <2>4, <2>5
<1>3. N \in T
  <2> SUFFICES ASSUME NEW i \in 1 .. N, i >= N
               PROVE  Scanned(raw, f[i], i)
    OBVIOUS
  <2> QED
    BY <1>2
<1>4. ASSUME NEW n \in 1 .. N, n \in T
      PROVE  n - 1 \in T
  <2> SUFFICES ASSUME NEW i \in 1 .. N, i >= n - 1
               PROVE  Scanned(raw, f[i], i)
    OBVIOUS
  <2>1. \A j \in 1 .. N : j > i => j >= n
    OBVIOUS
  <2>2. \A j \in 1 .. N : j > i => Scanned(raw, f[j], j)
    BY <1>4, <2>1
  <2> QED
    BY <1>2, <2>2
<1>5. N \in Nat
  OBVIOUS
<1> HIDE DEF T
<1>6. \A n \in 0 .. N : n \in T
  BY <1>3, <1>4, <1>5, Downward
<1>7. 0 \in T
  BY <1>5, <1>6
<1> QED
  BY <1>7 DEF T, f

\* The second loop of parse_string, from each place on.
ReadFrom(raw, end, f, i) ==
    IF i >= end THEN [ok |-> TRUE, bytes |-> <<>>]
    ELSE LET p == ReadPiece(raw, i, end)
         IN  IF p.reads = 0 THEN NoString
             ELSE [f[i + p.reads] EXCEPT !.bytes = p.bytes \o @]

Read(raw, end) == CHOOSE f : f = [i \in 1 .. Len(raw) + 12 |-> ReadFrom(raw, end, f, i)]

LEMMA ParseStringIs ==
    ASSUME NEW raw, Len(raw) \in Nat
    PROVE  ParseString(raw) =
           IF Scan(raw)[1].end = 0 THEN NoString ELSE Read(raw, Scan(raw)[1].end)[1]
<1>1. Closing(raw) = Scan(raw)[1]
  BY ClosingIs
<1> QED
  BY <1>1 DEF ParseString, Read, ReadFrom

LEMMA ReadExists ==
    ASSUME NEW raw, Len(raw) \in Nat, NEW end \in 0 .. Len(raw)
    PROVE  Read(raw, end) = [i \in 1 .. Len(raw) + 12 |-> ReadFrom(raw, end, Read(raw, end), i)]
<1> DEFINE N == Len(raw) + 12
           T == {m \in Nat : m <= N =>
                    \E f : f = [i \in N + 1 - m .. N |-> ReadFrom(raw, end, f, i)]}
<1>1. 0 \in T
  <2> DEFINE f == [i \in N + 1 .. N |-> 0]
  <2>1. f = [i \in N + 1 - 0 .. N |-> ReadFrom(raw, end, f, i)]
    OBVIOUS
  <2> HIDE DEF f
  <2> QED
    BY <2>1
<1>2. ASSUME NEW m \in Nat, m \in T
      PROVE  m + 1 \in T
  <2> SUFFICES ASSUME m + 1 <= N
               PROVE  \E f : f = [i \in N + 1 - (m + 1) .. N |-> ReadFrom(raw, end, f, i)]
    OBVIOUS
  <2>1. PICK f : f = [i \in N + 1 - m .. N |-> ReadFrom(raw, end, f, i)]
    BY <1>2
  <2> DEFINE k == N - m
             g == [i \in k .. N |-> IF i = k THEN ReadFrom(raw, end, f, i) ELSE f[i]]
  <2>2. k \in 1 .. N /\ N + 1 - (m + 1) = k /\ N + 1 - m = k + 1 /\ N \in Nat
    OBVIOUS
  <2>3. \A i \in k + 1 .. N : g[i] = f[i]
    BY <2>2
  <2>4. \A i \in k .. N : ReadFrom(raw, end, g, i) = ReadFrom(raw, end, f, i)
    <3> SUFFICES ASSUME NEW i \in k .. N
                 PROVE  ReadFrom(raw, end, g, i) = ReadFrom(raw, end, f, i)
      OBVIOUS
    <3>1. CASE i >= end
      BY <3>1 DEF ReadFrom
    <3>2. CASE ~(i >= end)
      <4> DEFINE p == ReadPiece(raw, i, end)
      <4>1. i \in Nat /\ end \in Nat
        BY <2>2
      <4>2. p.reads \in {0, 1, 2, 6, 12}
        BY <4>1, ReadPieceIs
      <4> HIDE DEF p
      <4>3. p.reads # 0 => i + p.reads \in k + 1 .. N
        BY <2>2, <3>2, <4>2
      <4>4. p.reads # 0 => g[i + p.reads] = f[i + p.reads]
        BY <2>3, <4>3
      <4> HIDE DEF g
      <4> QED
        BY <4>4 DEF ReadFrom, p
    <3> QED
      BY <3>1, <3>2
  <2>5. \A i \in k .. N : g[i] = ReadFrom(raw, end, f, i)
    <3> SUFFICES ASSUME NEW i \in k .. N
                 PROVE  g[i] = ReadFrom(raw, end, f, i)
      OBVIOUS
    <3>1. CASE i = k
      BY <3>1
    <3>2. CASE i # k
      <4>1. i \in k + 1 .. N
        BY <2>2, <3>2
      <4>2. f[i] = ReadFrom(raw, end, f, i)
        BY <2>1, <2>2, <4>1
      <4> QED
        BY <2>3, <4>1, <4>2
    <3> QED
      BY <3>1, <3>2
  <2>6. g = [i \in k .. N |-> g[i]]
    OBVIOUS
  <2> HIDE DEF g
  <2>7. g = [i \in k .. N |-> ReadFrom(raw, end, g, i)]
    BY <2>4, <2>5, <2>6
  <2>8. g = [i \in N + 1 - (m + 1) .. N |-> ReadFrom(raw, end, g, i)]
    BY <2>2, <2>7
  <2> QED
    BY <2>8, Zenon
<1> HIDE DEF T
<1>3. N \in Nat /\ N + 1 - N = 1
  OBVIOUS
<1>4. N \in T
  BY <1>1, <1>2, <1>3, Upward
<1>5. \E f : f = [i \in 1 .. N |-> ReadFrom(raw, end, f, i)]
  BY <1>3, <1>4 DEF T
<1> QED
  BY <1>5, Zenon DEF Read

Bytes == 0 .. 255

\* parse_string makes a string of bytes and of the characters it copies, and no longer one than
\* it has allocated, whatever the text.
LEMMA ReadFits ==
    ASSUME NEW S, Bytes \subseteq S, NEW raw \in Seq(S), NEW end \in Nat, 1 <= end,
           end <= Len(raw), NEW g, Counts(raw, g, 1, end)
    PROVE  LET r == Read(raw, end)[1]
           IN  /\ r = [ok |-> r.ok, bytes |-> r.bytes]
               /\ r.ok \in BOOLEAN /\ r.bytes \in Seq(S)
               /\ r.ok => Len(r.bytes) <= end - 1 - g[1]
<1> DEFINE f == Read(raw, end)
           N == Len(raw) + 12
           P(i) == /\ f[i] = [ok |-> f[i].ok, bytes |-> f[i].bytes]
                   /\ f[i].ok \in BOOLEAN /\ f[i].bytes \in Seq(S)
                   /\ f[i].ok => Len(f[i].bytes) <= (IF i < end THEN end - i - g[i] ELSE 0)
           T == {n \in Nat : \A i \in 1 .. N : i >= n => P(i)}
<1>a. Len(raw) \in Nat
  BY LenProperties
<1>b. N \in Nat /\ end \in 0 .. Len(raw) /\ 1 \in 1 .. N /\ end < N
  BY <1>a
<1>c. \A j \in 1 .. Len(raw) : raw[j] \in S
  BY ElementOfSeq
<1>d. \A j \in 1 .. end - 1 : j \in 1 .. Len(raw)
  BY <1>a
<1>0. /\ N \in Nat /\ end \in Nat /\ 1 <= end /\ end < N /\ 1 \in 1 .. N
      /\ \A j \in 1 .. end - 1 : raw[j] \in S
  BY <1>b, <1>c, <1>d
<1>1. f = [i \in 1 .. N |-> ReadFrom(raw, end, f, i)]
  BY <1>a, <1>b, ReadExists
<1> HIDE DEF N
<1> HIDE DEF f
<1>2. ASSUME NEW i \in 1 .. N, \A j \in 1 .. N : j > i => P(j)
      PROVE  P(i)
  <2>1. f[i] = ReadFrom(raw, end, f, i)
    BY <1>1
  <2>2. CASE i >= end
    <3>1. f[i] = [ok |-> TRUE, bytes |-> <<>>]
      BY <2>1, <2>2 DEF ReadFrom
    <3> QED
      BY <1>0, <2>2, <3>1
  <2>3. CASE i < end
    <3> DEFINE p == ReadPiece(raw, i, end)
    <3>1. /\ p.reads \in {0, 1, 2, 6, 12}
          /\ p.reads = 1 => raw[i] # Backslash /\ p.bytes = <<raw[i]>>
          /\ p.reads # 1 => p.bytes \in Seq(0 .. 255)
          /\ p.reads \in {0, 2} => Len(p.bytes) <= 1
          /\ p.reads = 6 => Len(p.bytes) <= 3 /\ i + 6 <= end
          /\ p.reads = 12 => Len(p.bytes) <= 4 /\ i + 12 <= end
      <4>1. i \in Nat /\ end \in Nat
        BY <1>0
      <4> QED
        BY <4>1, ReadPieceIs
    <3>2. p.bytes \in Seq(S)
      <4>1. raw[i] \in S
        BY <1>0, <2>3
      <4>2. Seq(0 .. 255) \subseteq Seq(S)
        BY SeqMonotonic DEF Bytes
      <4>3. CASE p.reads = 1
        <5>1. <<raw[i]>> \in Seq(S)
          BY <4>1
        <5> QED
          BY <3>1, <4>3, <5>1
      <4>4. CASE p.reads # 1
        BY <3>1, <4>2, <4>4
      <4> QED
        BY <4>3, <4>4
    <3>3. CASE p.reads = 0
      <4>1. f[i] = [ok |-> FALSE, bytes |-> <<>>]
        BY <2>1, <2>3, <3>3 DEF ReadFrom, NoString
      <4> QED
        BY <4>1
    <3>4. CASE p.reads # 0
      <4> DEFINE k == i + p.reads
                 b == p.bytes
                 l == Len(b)
                 m == Len(f[k].bytes)
      <4>1. k \in 1 .. N /\ k > i /\ k \in Nat
        BY <1>0, <2>3, <3>1, <3>4
      <4>2. P(k)
        BY <1>2, <4>1
      <4>3. f[i] = [f[k] EXCEPT !.bytes = b \o @]
        BY <2>1, <2>3, <3>4 DEF ReadFrom
      <4>4. f[i] = [ok |-> f[k].ok, bytes |-> b \o f[k].bytes]
        BY <4>2, <4>3
      <4>k. /\ p.reads = 1 => k = i + 1
            /\ p.reads = 2 => k = i + 2
            /\ p.reads = 6 => k = i + 6
            /\ p.reads = 12 => k = i + 12
        OBVIOUS
      <4>l. /\ p.reads = 1 => l = 1
            /\ p.reads = 2 => l <= 1
            /\ p.reads = 6 => l <= 3
            /\ p.reads = 12 => l <= 4
        BY <3>1
      <4>m. m = Len(f[k].bytes)
        OBVIOUS
      <4>p. l = Len(b) /\ b \in Seq(S)
        BY <3>2
      <4> HIDE DEF p, k, b, l, m
      <4>5. f[i].ok = f[k].ok /\ f[i].bytes = b \o f[k].bytes
        BY <4>4
      <4>6. f[i].bytes \in Seq(S) /\ Len(f[i].bytes) = l + m /\ l \in Nat /\ m \in Nat
        BY <4>m, <4>p, <4>2, <4>5, ConcatProperties, LenProperties
      <4>7. \A j \in 1 .. end - 1 : /\ g[j] \in Nat /\ g[j + 1] \in Nat
                                    /\ g[j] = g[j + 1] \/ g[j] = g[j + 1] + 1
                                    /\ raw[j] # Backslash => g[j] = g[j + 1]
                                    /\ j + 1 = end => g[j] = g[j + 1]
        BY <1>0 DEF Counts
      <4>8. \A j \in 1 .. end - 2 : g[j] <= g[j + 2] + 1
        <5> SUFFICES ASSUME NEW j \in 1 .. end - 2
                     PROVE  g[j] <= g[j + 2] + 1
          OBVIOUS
        <5>1. j \in 1 .. end - 1 /\ j + 1 \in 1 .. end - 1 /\ (j + 1) + 1 = j + 2
          BY <1>0
        <5>2. g[j] = g[j + 1] \/ (g[j] = g[j + 1] + 1 /\ g[j + 1] = g[j + 2])
          BY <5>1 DEF Counts
        <5>3. g[j + 1] = g[j + 2] \/ g[j + 1] = g[j + 2] + 1
          BY <4>7, <5>1
        <5>4. g[j] \in Nat /\ g[j + 1] \in Nat /\ g[j + 2] \in Nat
          BY <4>7, <5>1
        <5> QED
          BY <5>2, <5>3, <5>4
      <4>9. g[end] = 0 /\ \A j \in 1 .. end : g[j] \in Nat
        BY <1>0 DEF Counts
      <4>10. i \in 1 .. end - 1
        BY <1>0, <2>3
      <4>11. ASSUME f[k].ok
             PROVE  l + m <= end - i - g[i]
        <5>0. m <= (IF k < end THEN end - k - g[k] ELSE 0)
          BY <4>m, <4>2, <4>11
        <5>1. CASE p.reads = 1
          <6>1. l = 1 /\ k = i + 1 /\ g[i] = g[k]
            BY <3>1, <4>k, <4>l, <4>7, <4>10, <5>1
          <6>2. k = end => g[k] = 0
            BY <4>9
          <6> QED
            BY <1>0, <4>6, <4>7, <4>9, <4>10, <5>0, <6>1, <6>2
        <5>2. CASE p.reads = 2
          <6>1. l <= 1 /\ k = i + 2
            BY <3>1, <4>k, <4>l, <5>2
          <6>2. CASE i = end - 1
            <7>1. g[i] = g[i + 1] /\ g[i + 1] = 0
              BY <1>0, <4>7, <4>9, <4>10, <6>2
            <7> QED
              BY <1>0, <4>6, <5>0, <6>1, <6>2, <7>1
          <6>3. CASE i # end - 1
            <7>1. k \in 1 .. end /\ g[i] <= g[k] + 1
              BY <1>0, <4>8, <4>10, <6>1, <6>3
            <7>2. k = end => g[k] = 0
              BY <4>9
            <7> QED
              BY SMTT(40), <1>0, <4>6, <4>9, <4>10, <5>0, <6>1, <7>1, <7>2
          <6> QED
            BY <6>2, <6>3
        <5>3. CASE p.reads = 6
          <6>1. l <= 3 /\ k = i + 6 /\ k <= end
            BY <3>1, <4>k, <4>l, <5>3
          <6>2. /\ g[i] <= g[i + 2] + 1 /\ g[i + 2] <= g[i + 4] + 1 /\ g[i + 4] <= g[k] + 1
                /\ g[i] \in Nat /\ g[i + 2] \in Nat /\ g[i + 4] \in Nat /\ g[k] \in Nat
            <7>1. /\ i \in 1 .. end - 2 /\ i + 2 \in 1 .. end - 2 /\ i + 4 \in 1 .. end - 2
                  /\ (i + 2) + 2 = i + 4 /\ (i + 4) + 2 = k /\ k \in 1 .. end
              BY <1>0, <4>10, <6>1
            <7>2. g[i + 2] <= g[(i + 2) + 2] + 1 /\ g[i + 4] <= g[(i + 4) + 2] + 1
              BY <4>8, <7>1
            <7>3. i + 2 \in 1 .. end /\ i + 4 \in 1 .. end /\ i \in 1 .. end
              BY <1>0, <7>1
            <7> QED
              BY <4>8, <4>9, <7>1, <7>2, <7>3
          <6> DEFINE x0 == g[i]
                     x1 == g[i + 2]
                     x2 == g[i + 4]
                     x3 == g[k]
          <6>3. x0 <= x1 + 1 /\ x1 <= x2 + 1 /\ x2 <= x3 + 1
            BY <6>2
          <6>4. x0 \in Nat /\ x1 \in Nat /\ x2 \in Nat /\ x3 \in Nat
            BY <6>2
          <6> HIDE DEF x0, x1, x2, x3
          <6>5. x0 <= x3 + 3
            BY <6>3, <6>4
          <6>6. g[i] <= g[k] + 3 /\ g[i] \in Nat /\ g[k] \in Nat
            BY <6>4, <6>5 DEF x0, x3
          <6>7. k = end => g[k] = 0
            BY <4>9
          <6>8. end \in Nat /\ i \in Nat /\ m \in Nat /\ l \in Nat /\ k \in Nat
            BY <1>0, <4>6, <4>10, <6>1
          <6> DEFINE a == g[i]
                     w == g[k]
          <6>9. a <= w + 3 /\ a \in Nat /\ w \in Nat /\ (k = end => w = 0)
            BY <6>6, <6>7
          <6>10. m <= (IF k < end THEN end - k - w ELSE 0)
            BY <5>0
          <6> HIDE DEF a, w, b, l, m, k
          <6>11. l + m <= end - i - a
            BY ONLY <6>1, <6>8, <6>9, <6>10
          <6> QED
            BY <6>11 DEF a
        <5>4. CASE p.reads = 12
          <6>1. l <= 4 /\ k = i + 12 /\ k <= end
            BY <3>1, <4>k, <4>l, <5>4
          <6>2. g[i] <= g[k] + 6 /\ g[i] \in Nat /\ g[k] \in Nat
            <7>1. /\ i \in 1 .. end - 2 /\ i + 2 \in 1 .. end - 2 /\ i + 4 \in 1 .. end - 2
                  /\ i + 6 \in 1 .. end - 2 /\ i + 8 \in 1 .. end - 2 /\ i + 10 \in 1 .. end - 2
                  /\ k \in 1 .. end
              BY <1>0, <4>10, <6>1
            <7>2. /\ (i + 2) + 2 = i + 4 /\ (i + 4) + 2 = i + 6 /\ (i + 6) + 2 = i + 8
                  /\ (i + 8) + 2 = i + 10 /\ (i + 10) + 2 = k
              BY <6>1
            <7>3. /\ g[i] <= g[i + 2] + 1 /\ g[i + 2] <= g[i + 4] + 1 /\ g[i + 4] <= g[i + 6] + 1
                  /\ g[i + 6] <= g[i + 8] + 1 /\ g[i + 8] <= g[i + 10] + 1
                  /\ g[i + 10] <= g[k] + 1
              BY <4>8, <7>1, <7>2
            <7>4. /\ g[i] \in Nat /\ g[i + 2] \in Nat /\ g[i + 4] \in Nat /\ g[i + 6] \in Nat
                  /\ g[i + 8] \in Nat /\ g[i + 10] \in Nat /\ g[k] \in Nat
              <8>1. \A j \in 1 .. end - 2 : j \in 1 .. end
                BY <1>0
              <8> QED
                BY <4>9, <7>1, <8>1
            <7> DEFINE x0 == g[i]
                       x1 == g[i + 2]
                       x2 == g[i + 4]
                       x3 == g[i + 6]
                       x4 == g[i + 8]
                       x5 == g[i + 10]
                       x6 == g[k]
            <7>5. /\ x0 <= x1 + 1 /\ x1 <= x2 + 1 /\ x2 <= x3 + 1
                  /\ x3 <= x4 + 1 /\ x4 <= x5 + 1 /\ x5 <= x6 + 1
              BY <7>3
            <7>6. /\ x0 \in Nat /\ x1 \in Nat /\ x2 \in Nat /\ x3 \in Nat
                  /\ x4 \in Nat /\ x5 \in Nat /\ x6 \in Nat
              BY <7>4
            <7> HIDE DEF x0, x1, x2, x3, x4, x5, x6
            <7>7. x0 <= x6 + 6
              BY <7>5, <7>6
            <7> QED
              BY <7>6, <7>7 DEF x0, x6
          <6>3. k = end => g[k] = 0
            BY <4>9
          <6>4. end \in Nat /\ i \in Nat /\ m \in Nat /\ l \in Nat /\ k \in Nat
            BY <1>0, <4>6, <4>10, <6>1
          <6> DEFINE a == g[i]
                     w == g[k]
          <6>5. a <= w + 6 /\ a \in Nat /\ w \in Nat /\ (k = end => w = 0)
            BY <6>2, <6>3
          <6>6. m <= (IF k < end THEN end - k - w ELSE 0)
            BY <5>0
          <6> HIDE DEF a, w, b, l, m, k
          <6>7. l + m <= end - i - a
            BY ONLY <6>1, <6>4, <6>5, <6>6
          <6> QED
            BY <6>7 DEF a
        <5> QED
          BY <3>1, <3>4, <5>1, <5>2, <5>3, <5>4
      <4>12. f[i] = [ok |-> f[i].ok, bytes |-> f[i].bytes] /\ f[i].ok \in BOOLEAN
        BY <4>2, <4>4
      <4>13. f[i].ok => Len(f[i].bytes) <= end - i - g[i]
        BY <4>5, <4>6, <4>11
      <4> QED
        BY <2>3, <4>6, <4>12, <4>13
    <3> QED
      BY <3>3, <3>4
  <2> QED
    BY <1>0, <2>2, <2>3
<1>3. N \in T
  <2> SUFFICES ASSUME NEW i \in 1 .. N, i >= N
               PROVE  P(i)
    BY <1>0
  <2> HIDE DEF P
  <2>1. \A j \in 1 .. N : ~(j > i)
    BY <1>0
  <2> QED
    BY <1>2, <2>1
<1>4. ASSUME NEW n \in 1 .. N, n \in T
      PROVE  n - 1 \in T
  <2> SUFFICES ASSUME NEW i \in 1 .. N, i >= n - 1
               PROVE  P(i)
    BY <1>0
  <2>1. \A j \in 1 .. N : j > i => j >= n
    BY <1>0
  <2> HIDE DEF P
  <2>2. \A j \in 1 .. N : j > i => P(j)
    BY <1>4, <2>1
  <2> QED
    BY <1>2, <2>2
<1> HIDE DEF T
<1>6. \A n \in 0 .. N : n \in T
  BY <1>0, <1>3, <1>4, Downward
<1>7. 0 \in T
  BY <1>0, <1>6
<1>8. P(1)
  BY <1>0, <1>7 DEF T
<1>9. Counts(raw, g, 1, end) => g[end] = 0
  BY DEF Counts
<1> QED
  BY <1>0, <1>8, <1>9 DEF f

\* parse_string allocates as much as it writes and a byte for the end, whatever the text: the
\* escapes it counts as one byte each are never read as more.
THEOREM ParseStringFits ==
    ASSUME NEW S, Bytes \subseteq S, NEW raw \in Seq(S)
    PROVE  LET p == ParseString(raw)
           IN  /\ p = [ok |-> p.ok, bytes |-> p.bytes]
               /\ p.ok \in BOOLEAN /\ p.bytes \in Seq(S)
               /\ p.ok => Len(p.bytes) < Allocated(raw)
<1> DEFINE end == Scan(raw)[1].end
           s == Scan(raw)[1].skipped
<1>1. Len(raw) \in Nat
  BY LenProperties
<1>2. Scanned(raw, Scan(raw)[1], 1)
  <2>1. 1 \in 1 .. Len(raw) + 2
    BY <1>1
  <2> QED
    BY <1>1, <2>1, ScanCounts
<1>3. end \in 0 .. Len(raw) /\ s \in Nat
  BY <1>2 DEF Scanned
<1>4. Allocated(raw) = end - s + 1
  BY <1>1, ClosingIs DEF Allocated
<1>5. ParseString(raw) = IF end = 0 THEN NoString ELSE Read(raw, end)[1]
  BY <1>1, ParseStringIs
<1>6. CASE end = 0
  BY <1>5, <1>6 DEF NoString
<1>7. CASE end # 0
  <2>1. PICK g : Counts(raw, g, 1, end) /\ g[1] = s
    BY <1>2, <1>7 DEF Scanned
  <2> HIDE DEF end, s
  <2>2. end \in Nat /\ 1 <= end /\ end <= Len(raw)
    BY <1>1, <1>3, <1>7
  <2> DEFINE r == Read(raw, end)[1]
  <2>3. /\ r = [ok |-> r.ok, bytes |-> r.bytes]
        /\ r.ok \in BOOLEAN /\ r.bytes \in Seq(S)
        /\ r.ok => Len(r.bytes) <= end - 1 - g[1]
    BY <2>1, <2>2, ReadFits
  <2>4. ParseString(raw) = r
    BY <1>5, <1>7
  <2> HIDE DEF r
  <2>5. Len(r.bytes) \in Nat
    BY <2>3, LenProperties
  <2>6. r.ok => Len(r.bytes) < Allocated(raw)
    BY <1>3, <1>4, <2>1, <2>2, <2>3, <2>5
  <2> QED
    BY <2>3, <2>4, <2>6
<1> QED
  BY <1>6, <1>7

\* Where each character of a string begins in the printed text, less one.
Off(s, i) == Len(FlatTo(EscapesOf(s), i))

\* The printed text holds the escape of each character at its place, and a quote behind them.
LEMMA PlacesAre ==
    ASSUME NEW s \in Seq(Nat)
    PROVE  LET raw == PrintString(s)
           IN  /\ raw \in Seq(Nat \ {0})
               /\ Off(s, 0) = 0 /\ \A i \in 0 .. Len(s) : Off(s, i) \in 0 .. Off(s, Len(s))
               /\ \A i \in 1 .. Len(s) :
                      /\ Off(s, i) = Off(s, i - 1) + Len(Escape(s[i]))
                      /\ \A k \in 1 .. Len(Escape(s[i])) :
                             raw[Off(s, i - 1) + k] = Escape(s[i])[k]
               /\ Len(raw) = Off(s, Len(s)) + 1 /\ raw[Len(raw)] = 34
<1> DEFINE n == Len(s)
           seqs == EscapesOf(s)
           raw == PrintString(s)
           F(i) == FlatTo(seqs, i)
           T == {i \in 0 .. n : /\ Off(s, i) <= Off(s, n)
                                /\ \A j \in 1 .. Off(s, i) : raw[j] = F(i)[j]}
<1>1. n \in Nat
  BY LenProperties
<1>2. seqs \in Seq(Seq(Nat \ {0})) /\ Len(seqs) = n
  BY EscapesOfIs
<1>3. \A i \in 1 .. n : seqs[i] = Escape(s[i]) /\ s[i] \in Nat
  BY EscapesOfIs
<1>4. raw = FlattenSeq(seqs) \o <<34>>
  BY DEF PrintString, Quote, EscapesOf
<1> HIDE DEF seqs, raw
<1>5. /\ \A i \in 0 .. n : F(i) \in Seq(Nat \ {0})
      /\ \A i \in 1 .. n : F(i) = F(i - 1) \o seqs[i]
      /\ FlattenSeq(seqs) = F(n)
  BY <1>2, FlatSteps
<1>6. \A i : Off(s, i) = Len(F(i))
  BY DEF Off, seqs
<1> HIDE DEF F
<1>7. F(n) \in Seq(Nat \ {0}) /\ raw = F(n) \o <<34>> /\ n \in 0 .. n
  BY <1>1, <1>4, <1>5
<1>8. /\ raw \in Seq(Nat \ {0}) /\ Len(raw) = Len(F(n)) + 1 /\ raw[Len(raw)] = 34
      /\ \A j \in 1 .. Len(F(n)) : raw[j] = F(n)[j]
  BY <1>7
<1>9. \A i \in 0 .. n : Off(s, i) \in Nat
  BY <1>5, <1>6, LenProperties
<1>10. ASSUME NEW i \in 1 .. n
       PROVE  /\ Off(s, i) = Off(s, i - 1) + Len(Escape(s[i]))
              /\ Off(s, i - 1) \in Nat /\ Len(Escape(s[i])) \in Nat
              /\ F(i) \in Seq(Nat \ {0}) /\ F(i - 1) \in Seq(Nat \ {0})
              /\ F(i) = F(i - 1) \o Escape(s[i]) /\ Escape(s[i]) \in Seq(Nat \ {0})
  <2>1. i - 1 \in 0 .. n /\ i \in 0 .. n
    BY <1>1
  <2>2. F(i) = F(i - 1) \o Escape(s[i]) /\ s[i] \in Nat
    BY <1>3, <1>5
  <2>3. Escape(s[i]) \in Seq(Nat \ {0}) /\ F(i) \in Seq(Nat \ {0}) /\ F(i - 1) \in Seq(Nat \ {0})
    <3>1. Escape(s[i]) \in Seq(Nat \ {0})
      BY <2>2, EscapeLength
    <3> QED
      BY <1>5, <2>1, <3>1
  <2>4. Len(F(i)) = Len(F(i - 1)) + Len(Escape(s[i]))
    BY <2>2, <2>3, ConcatProperties
  <2>5. Len(Escape(s[i])) \in Nat
    BY <2>3, LenProperties
  <2> QED
    BY <1>6, <1>9, <2>1, <2>2, <2>3, <2>4, <2>5
<1>11. n \in T
  <2>1. Off(s, n) = Len(F(n)) /\ Off(s, n) \in Nat
    BY <1>6, <1>7, <1>9
  <2> QED
    BY <1>7, <1>8, <2>1
<1>12. ASSUME NEW i \in 1 .. n, i \in T
       PROVE  i - 1 \in T
  <2>1. i - 1 \in 0 .. n /\ i \in 0 .. n
    BY <1>1
  <2>2. /\ Off(s, i) = Off(s, i - 1) + Len(Escape(s[i]))
        /\ Off(s, i - 1) \in Nat /\ Len(Escape(s[i])) \in Nat
        /\ Off(s, n) \in Nat /\ Off(s, i) <= Off(s, n)
    BY <1>7, <1>9, <1>10, <1>12
  <2>3. Off(s, i - 1) <= Off(s, n)
    BY <2>2
  <2>4. ASSUME NEW j \in 1 .. Off(s, i - 1)
        PROVE  raw[j] = F(i - 1)[j]
    <3>1. j \in 1 .. Off(s, i) /\ j \in 1 .. Len(F(i - 1))
      BY <1>6, <2>2
    <3>2. raw[j] = F(i)[j]
      BY <1>12, <3>1
    <3>3. F(i)[j] = F(i - 1)[j]
      BY <1>10, <3>1, ConcatProperties
    <3> QED
      BY <3>2, <3>3
  <2> QED
    BY <2>1, <2>3, <2>4
<1> HIDE DEF T
<1>13. \A i \in 0 .. n : i \in T
  BY <1>1, <1>11, <1>12, Downward
<1>14. \A i \in 0 .. n : /\ Off(s, i) <= Off(s, n)
                         /\ \A j \in 1 .. Off(s, i) : raw[j] = F(i)[j]
  BY <1>13 DEF T
<1>15. ASSUME NEW i \in 1 .. n, NEW k \in 1 .. Len(Escape(s[i]))
       PROVE  raw[Off(s, i - 1) + k] = Escape(s[i])[k]
  <2>1. /\ Off(s, i) = Off(s, i - 1) + Len(Escape(s[i]))
        /\ Off(s, i - 1) \in Nat /\ Len(Escape(s[i])) \in Nat
    BY <1>10
  <2>2. Off(s, i - 1) + k \in 1 .. Off(s, i) /\ i \in 0 .. n
    BY <1>1, <2>1
  <2>3. raw[Off(s, i - 1) + k] = F(i)[Off(s, i - 1) + k]
    BY <1>14, <2>2
  <2>4. F(i)[Len(F(i - 1)) + k] = Escape(s[i])[k]
    <3> DEFINE a == F(i - 1)
               b == Escape(s[i])
    <3>1. a \in Seq(Nat \ {0}) /\ b \in Seq(Nat \ {0}) /\ F(i) = a \o b /\ k \in 1 .. Len(b)
      BY <1>10
    <3> HIDE DEF a, b
    <3>2. Len(a) \in Nat /\ Len(b) \in Nat
      BY <3>1, LenProperties
    <3>3. (a \o b)[Len(a) + k] = b[k]
      BY <3>1, <3>2
    <3> QED
      BY <3>1, <3>3 DEF a, b
  <2> QED
    BY <1>6, <2>3, <2>4
<1>16. Off(s, 0) = 0
  BY <1>6 DEF F, FlatTo
<1>17. \A i \in 0 .. n : Off(s, i) \in 0 .. Off(s, n)
  BY <1>7, <1>9, <1>14
<1>18. Len(raw) = Off(s, n) + 1
  BY <1>6, <1>8
<1>19. \A i \in 1 .. n : Off(s, i) = Off(s, i - 1) + Len(Escape(s[i]))
  BY <1>10
<1> QED
  BY <1>8, <1>15, <1>16, <1>17, <1>18, <1>19 DEF raw

\* Read back, the escape of a character is the character, and nothing of it is a closing quote.
LEMMA EscapeReads ==
    ASSUME NEW c \in Nat, NEW raw, NEW i \in Nat, NEW end \in Nat,
           \A k \in 1 .. Len(Escape(c)) : raw[i + k] = Escape(c)[k],
           i + Len(Escape(c)) < end
    PROVE  ReadPiece(raw, i + 1, end) = Piece(Len(Escape(c)), <<c>>)
<1>1. CASE Plain(c)
  <2>1. Escape(c) = <<c>> /\ c # 92
    BY <1>1, EscapeIs DEF Plain, Backslash
  <2>2. Len(Escape(c)) = 1 /\ raw[i + 1] = c
    BY <2>1
  <2> QED
    BY <2>1, <2>2 DEF ReadPiece, Backslash
<1>2. CASE HasShort(c)
  <2>1. Escape(c) = <<92, ShortOf(c)>> /\ <<ShortOf(c), c>> \in ShortEscapes
    BY <1>2, EscapeIs, ShortOfIs
  <2>2. Len(Escape(c)) = 2 /\ raw[i + 1] = 92 /\ raw[i + 2] = ShortOf(c)
    BY <2>1
  <2> DEFINE e == CHOOSE e \in ShortEscapes : e[1] = raw[(i + 1) + 1]
  <2>3. e \in ShortEscapes /\ e[1] = ShortOf(c)
    <3>1. <<ShortOf(c), c>>[1] = ShortOf(c) /\ (i + 1) + 1 = i + 2
      OBVIOUS
    <3> QED
      BY <2>1, <2>2, <3>1
  <2>4. ShortOf(c) # 47 /\ ShortOf(c) # 117
    BY <2>1, ShortEscapesAre
  <2>5. ReadPiece(raw, i + 1, end) = Piece(2, <<e[2]>>)
    <3>1. (i + 1) + 1 = i + 2
      OBVIOUS
    <3>2. \E x \in ShortEscapes : x[1] = raw[(i + 1) + 1]
      BY <2>2, <2>3, <3>1
    <3> QED
      BY <2>2, <2>4, <3>1, <3>2 DEF ReadPiece, Backslash, LetterU
  <2> HIDE DEF e
  <2>6. e[2] = c
    BY <2>1, <2>3, ShortEscapesAre
  <2> QED
    BY <2>2, <2>5, <2>6
<1>3. CASE ~Plain(c) /\ ~HasShort(c)
  <2> DEFINE d == HexChar(c \div 16)
             u == HexChar(c % 16)
  <2>1. c < 32 /\ Escape(c) = <<92, 117, 48, 48, d, u>>
    BY <1>3, EscapeIs
  <2>2. /\ Len(Escape(c)) = 6 /\ raw[i + 1] = 92 /\ raw[i + 2] = 117 /\ raw[i + 3] = 48
        /\ raw[i + 4] = 48 /\ raw[i + 5] = d /\ raw[i + 6] = u
    BY <2>1
  <2>3. ParseHex4(raw, i + 3) = c
    <3>1. /\ (i + 3) + 0 = i + 3 /\ (i + 3) + 1 = i + 4 /\ (i + 3) + 2 = i + 5
          /\ (i + 3) + 3 = i + 6
      OBVIOUS
    <3>2. c \div 16 \in 0 .. 1 /\ c % 16 \in 0 .. 15 /\ c = 16 * (c \div 16) + (c % 16)
      BY <2>1
    <3>3. ASSUME NEW x \in 0 .. 15
          PROVE  HexDigit(HexChar(x)) = x
      <4>1. CASE x < 10
        <5>1. /\ HexChar(x) = 48 + x /\ 48 + x \in 48 .. 57
              /\ 48 + x \notin 65 .. 70 /\ 48 + x \notin 97 .. 102
          BY <4>1 DEF HexChar
        <5>2. HexDigit(48 + x) = (48 + x) - 48
          BY <5>1 DEF HexDigit
        <5> QED
          BY <5>1, <5>2
      <4>2. CASE ~(x < 10)
        <5>1. /\ HexChar(x) = 87 + x /\ 87 + x \in 97 .. 102
              /\ 87 + x \notin 48 .. 57 /\ 87 + x \notin 65 .. 70
          BY <4>2 DEF HexChar
        <5>2. HexDigit(87 + x) = (87 + x) - 87
          BY <5>1 DEF HexDigit
        <5> QED
          BY <5>1, <5>2
      <4> QED
        BY <4>1, <4>2
    <3>4. HexDigit(d) = c \div 16 /\ HexDigit(u) = c % 16 /\ HexDigit(48) = 0
      <4>1. HexChar(0) = 48
        BY DEF HexChar
      <4>2. c \div 16 \in 0 .. 15
        BY <3>2
      <4>3. 0 \in 0 .. 15
        OBVIOUS
      <4>4. HexDigit(HexChar(0)) = 0
        BY <3>3, <4>3
      <4>5. HexDigit(d) = c \div 16
        BY <3>3, <4>2
      <4>6. HexDigit(u) = c % 16
        BY <3>2, <3>3
      <4> QED
        BY <4>1, <4>4, <4>5, <4>6
    <3> DEFINE D(k) == HexDigit(raw[(i + 3) + k])
    <3>5. D(0) = 0 /\ D(1) = 0 /\ D(2) = c \div 16 /\ D(3) = c % 16
      BY <2>2, <3>1, <3>4
    <3>6. ParseHex4(raw, i + 3) =
          IF \E k \in 0..3 : D(k) = -1 THEN 0
          ELSE 4096 * D(0) + 256 * D(1) + 16 * D(2) + D(3)
      BY DEF ParseHex4
    <3> HIDE DEF D, d, u
    <3>7. ~(\E k \in 0..3 : D(k) = -1)
      <4>1. \A k \in 0..3 : k = 0 \/ k = 1 \/ k = 2 \/ k = 3
        OBVIOUS
      <4> QED
        BY <3>2, <3>5, <4>1
    <3> QED
      BY <3>2, <3>5, <3>6, <3>7
  <2>4. ~Low(c) /\ ~High(c)
    <3>1. c \div 1024 = 0
      BY <2>1
    <3> QED
      BY <3>1 DEF Low, High
  <2>5. Utf8(c) = <<c>>
    <3>1. c < 128
      BY <2>1
    <3> QED
      BY <3>1 DEF Utf8
  <2>6. ReadPiece(raw, i + 1, end) = Utf16Literal(raw, i + 1, end)
    <3>1. (i + 1) + 1 = i + 2
      OBVIOUS
    <3> QED
      BY <2>2, <3>1 DEF ReadPiece, Backslash, LetterU
  <2>7. Utf16Literal(raw, i + 1, end) = Piece(6, Utf8(c))
    <3>1. (i + 1) + 2 = i + 3 /\ ~(end - (i + 1) < 6)
      BY <2>2
    <3> QED
      BY <2>3, <2>4, <3>1 DEF Utf16Literal, Utf16
  <2> QED
    BY <2>2, <2>5, <2>6, <2>7
<1> QED
  BY <1>1, <1>2, <1>3

LEMMA EscapePasses ==
    ASSUME NEW c \in Nat, NEW raw, Len(raw) \in Nat, NEW i \in Nat,
           \A k \in 1 .. Len(Escape(c)) : raw[i + k] = Escape(c)[k],
           i + Len(Escape(c)) < Len(raw)
    PROVE  Scan(raw)[i + 1].end = Scan(raw)[i + Len(Escape(c)) + 1].end
<1> DEFINE f == Scan(raw)
           N == Len(raw)
<1>1. f = [j \in 1 .. N + 2 |-> ScanFrom(raw, f, j)]
  BY ScanExists
<1>2. \A j \in 1 .. N + 2 : Scanned(raw, f[j], j)
  BY ScanCounts
<1>3. Len(Escape(c)) \in Nat
  <2>1. Escape(c) \in Seq(Nat \ {0})
    BY EscapeLength
  <2> QED
    BY <2>1, LenProperties
<1>4. N \in Nat /\ i + Len(Escape(c)) < N
  OBVIOUS
<1> HIDE DEF f, N
<1>5. ASSUME NEW j \in Nat, 1 <= j, j <= N, raw[j] = 92
      PROVE  f[j].end = f[j + 2].end
  <2>1. f[j] = [f[j + 2] EXCEPT !.skipped = @ + 1]
    <3>1. j \in 1 .. N + 2 /\ ~(j > N)
      BY <1>4, <1>5
    <3>2. f[j] = ScanFrom(raw, f, j)
      BY <1>1, <3>1
    <3> QED
      BY <1>5, <3>1, <3>2 DEF ScanFrom, Quote, Backslash, N
  <2>2. j + 2 \in 1 .. N + 2
    BY <1>4, <1>5
  <2>3. f[j + 2] = [end |-> f[j + 2].end, skipped |-> f[j + 2].skipped]
    BY <1>2, <2>2 DEF Scanned
  <2> DEFINE s == f[j + 2]
  <2>4. f[j] = [s EXCEPT !.skipped = @ + 1] /\ s = [end |-> s.end, skipped |-> s.skipped]
    BY <2>1, <2>3
  <2> HIDE DEF s
  <2>5. f[j].end = s.end
    BY <2>4
  <2> QED
    BY <2>5 DEF s
<1>6. ASSUME NEW j \in Nat, 1 <= j, j <= N, raw[j] # 92, raw[j] # 34
      PROVE  f[j].end = f[j + 1].end
  <2>1. j \in 1 .. N + 2 /\ ~(j > N)
    BY <1>4, <1>6
  <2>2. f[j] = ScanFrom(raw, f, j)
    BY <1>1, <2>1
  <2> QED
    BY <1>6, <2>1, <2>2 DEF ScanFrom, Quote, Backslash, N
<1>7. CASE Plain(c)
  <2>1. Escape(c) = <<c>> /\ c # 92 /\ c # 34
    BY <1>7, EscapeIs DEF Plain, Backslash, Quote
  <2>2. Len(Escape(c)) = 1 /\ raw[i + 1] = c
    BY <2>1
  <2>3. i + 1 \in Nat /\ 1 <= i + 1 /\ i + 1 <= N
    BY <1>4, <2>2
  <2> QED
    BY <1>6, <2>1, <2>2, <2>3 DEF f
<1>8. CASE HasShort(c)
  <2>1. Escape(c) = <<92, ShortOf(c)>>
    BY <1>8, EscapeIs
  <2>2. Len(Escape(c)) = 2 /\ raw[i + 1] = 92
    BY <2>1
  <2>3. i + 1 \in Nat /\ 1 <= i + 1 /\ i + 1 <= N /\ (i + 1) + 2 = (i + 2) + 1
    BY <1>4, <2>2
  <2>4. f[i + 1].end = f[(i + 1) + 2].end
    BY <1>5, <2>2, <2>3
  <2> QED
    BY <2>2, <2>3, <2>4 DEF f
<1>9. CASE ~Plain(c) /\ ~HasShort(c)
  <2> DEFINE d == HexChar(c \div 16)
             u == HexChar(c % 16)
  <2>1. c < 32 /\ Escape(c) = <<92, 117, 48, 48, d, u>>
    BY <1>9, EscapeIs
  <2>e. \A k \in 1 .. 6 : raw[i + k] = <<92, 117, 48, 48, d, u>>[k]
    BY <2>1
  <2>2. /\ Len(Escape(c)) = 6 /\ raw[i + 1] = 92 /\ raw[i + 3] = 48 /\ raw[i + 4] = 48
        /\ raw[i + 5] = d /\ raw[i + 6] = u
    <3> HIDE DEF d, u
    <3> QED
      BY <2>1, <2>e
  <2>3. d # 92 /\ d # 34 /\ u # 92 /\ u # 34
    <3>1. c \div 16 \in 0 .. 15 /\ c % 16 \in 0 .. 15
      BY <2>1
    <3>2. \A x \in 0 .. 15 : HexChar(x) # 92 /\ HexChar(x) # 34
      <4> SUFFICES ASSUME NEW x \in 0 .. 15
                   PROVE  HexChar(x) # 92 /\ HexChar(x) # 34
        OBVIOUS
      <4>1. CASE x < 10
        BY <4>1 DEF HexChar
      <4>2. CASE ~(x < 10)
        BY <4>2 DEF HexChar
      <4> QED
        BY <4>1, <4>2
    <3> QED
      BY <3>1, <3>2
  <2> HIDE DEF d, u
  <2>4. /\ i + 1 \in Nat /\ i + 3 \in Nat /\ i + 4 \in Nat /\ i + 5 \in Nat /\ i + 6 \in Nat
        /\ 1 <= i + 1 /\ i + 1 <= N /\ 1 <= i + 3 /\ i + 3 <= N /\ 1 <= i + 4 /\ i + 4 <= N
        /\ 1 <= i + 5 /\ i + 5 <= N /\ 1 <= i + 6 /\ i + 6 <= N
        /\ (i + 1) + 2 = i + 3 /\ (i + 3) + 1 = i + 4 /\ (i + 4) + 1 = i + 5
        /\ (i + 5) + 1 = i + 6
    BY <1>4, <2>2
  <2>5. f[i + 1].end = f[i + 3].end
    <3>1. f[i + 1].end = f[(i + 1) + 2].end
      BY <1>5, <2>2, <2>4
    <3> QED
      BY <2>4, <3>1
  <2>6. f[i + 3].end = f[i + 4].end
    <3>1. f[i + 3].end = f[(i + 3) + 1].end
      BY SMTT(40), <1>6, <2>2, <2>4
    <3> QED
      BY <2>4, <3>1
  <2>7. f[i + 4].end = f[i + 5].end
    <3>1. f[i + 4].end = f[(i + 4) + 1].end
      BY SMTT(40), <1>6, <2>2, <2>4
    <3> QED
      BY <2>4, <3>1
  <2>8. f[i + 5].end = f[i + 6].end
    <3>1. f[i + 5].end = f[(i + 5) + 1].end
      BY <1>6, <2>2, <2>3, <2>4
    <3> QED
      BY <2>4, <3>1
  <2>9. f[i + 6].end = f[(i + 6) + 1].end
    BY <1>6, <2>2, <2>3, <2>4
  <2> QED
    BY <2>2, <2>5, <2>6, <2>7, <2>8, <2>9 DEF f
<1> QED
  BY <1>7, <1>8, <1>9

\* parse_string gives back the string that print_string_ptr was given, whatever the string: the
\* two agree on every escape.
THEOREM StringComesBack ==
    ASSUME NEW s \in Seq(Nat)
    PROVE  ParseString(PrintString(s)) = [ok |-> TRUE, bytes |-> s]
<1> DEFINE n == Len(s)
           raw == PrintString(s)
           end == Off(s, n) + 1
           f == Scan(raw)
           g == Read(raw, end)
<1>1. n \in Nat /\ \A i \in 1 .. n : s[i] \in Nat
  BY LenProperties, ElementOfSeq
<1>2. /\ raw \in Seq(Nat \ {0})
      /\ Off(s, 0) = 0 /\ \A i \in 0 .. n : Off(s, i) \in 0 .. Off(s, n)
      /\ \A i \in 1 .. n :
             /\ Off(s, i) = Off(s, i - 1) + Len(Escape(s[i]))
             /\ \A k \in 1 .. Len(Escape(s[i])) :
                    raw[Off(s, i - 1) + k] = Escape(s[i])[k]
      /\ Len(raw) = Off(s, n) + 1 /\ raw[Len(raw)] = 34
  BY PlacesAre
<1>3. Len(raw) \in Nat /\ Len(raw) = end /\ end \in 0 .. Len(raw) /\ 1 <= end /\ raw[end] = 34
  <2>1. Len(raw) \in Nat
    BY <1>2, LenProperties
  <2>2. 0 \in 0 .. n
    BY <1>1
  <2>3. Off(s, 0) \in 0 .. Off(s, n)
    BY <1>2, <2>2
  <2> HIDE DEF raw
  <2> QED
    BY <1>2, <2>1, <2>3
<1> HIDE DEF raw
<1>4. ASSUME NEW i \in 1 .. n
      PROVE  /\ Off(s, i - 1) \in Nat /\ s[i] \in Nat /\ Len(Escape(s[i])) \in Nat
             /\ \A k \in 1 .. Len(Escape(s[i])) : raw[Off(s, i - 1) + k] = Escape(s[i])[k]
             /\ Off(s, i) = Off(s, i - 1) + Len(Escape(s[i]))
             /\ Off(s, i) < Len(raw) /\ Off(s, i) \in Nat /\ Len(Escape(s[i])) >= 1
  <2>1. i \in 0 .. n /\ i - 1 \in 0 .. n
    BY <1>1
  <2>2. Off(s, i) \in 0 .. Off(s, n) /\ Off(s, i - 1) \in 0 .. Off(s, n)
    BY <1>2, <2>1
  <2>3. Off(s, n) \in Nat
    <3>1. n \in 0 .. n
      BY <1>1
    <3>2. Off(s, n) \in 0 .. Off(s, n)
      BY <1>2, <3>1
    <3> QED
      BY <3>2
  <2>4. Off(s, i) \in Nat /\ Off(s, i - 1) \in Nat /\ Off(s, i) < Len(raw)
    BY <1>2, <2>2, <2>3
  <2>5. s[i] \in Nat
    BY <1>1
  <2>6. Len(Escape(s[i])) \in Nat /\ Len(Escape(s[i])) >= 1
    <3>1. /\ Escape(s[i]) \in Seq(Nat \ {0})
          /\ Len(Escape(s[i])) = 1 + (IF HasShort(s[i]) THEN 1 ELSE 0)
                                 + 5 * (IF ~Plain(s[i]) /\ ~HasShort(s[i]) THEN 1 ELSE 0)
      BY <2>5, EscapeLength
    <3>2. Len(Escape(s[i])) \in Nat
      BY <3>1, LenProperties
    <3> QED
      BY <3>1, <3>2
  <2> QED
    BY <1>2, <2>4, <2>5, <2>6
<1>5. f[1].end = end
  <2> DEFINE T == {i \in 0 .. n : f[Off(s, i) + 1].end = end}
  <2>1. n \in T
    <3>1. end \in 1 .. Len(raw) + 2 /\ ~(end > Len(raw))
      BY <1>3
    <3>2. f[end] = ScanFrom(raw, f, end)
      <4>1. f = [j \in 1 .. Len(raw) + 2 |-> ScanFrom(raw, f, j)]
        BY <1>3, ScanExists
      <4> HIDE DEF f, end
      <4> QED
        BY <3>1, <4>1
    <3>3. f[end] = [end |-> end, skipped |-> 0]
      BY <1>3, <3>1, <3>2 DEF ScanFrom, Quote
    <3> HIDE DEF f
    <3> QED
      BY <1>1, <3>3
  <2>2. ASSUME NEW i \in 1 .. n, i \in T
        PROVE  i - 1 \in T
    <3>1. f[Off(s, i - 1) + 1].end = f[Off(s, i - 1) + Len(Escape(s[i])) + 1].end
      <4> DEFINE k == Off(s, i - 1)
                 c == s[i]
      <4>1. /\ k \in Nat /\ c \in Nat /\ k + Len(Escape(c)) < Len(raw)
            /\ \A j \in 1 .. Len(Escape(c)) : raw[k + j] = Escape(c)[j]
        BY <1>4
      <4>2. Len(raw) \in Nat
        BY <1>3
      <4> HIDE DEF k, c, end
      <4>3. Scan(raw)[k + 1].end = Scan(raw)[k + Len(Escape(c)) + 1].end
        BY <4>1, <4>2, EscapePasses
      <4> QED
        BY <4>3 DEF k, c
    <3>2. i - 1 \in 0 .. n
      BY <1>1
    <3> HIDE DEF f
    <3> QED
      BY <1>4, <2>2, <3>1, <3>2
  <2> HIDE DEF T
  <2>3. \A i \in 0 .. n : i \in T
    BY <1>1, <2>1, <2>2, Downward
  <2>4. 0 \in T
    BY <1>1, <2>3
  <2> QED
    BY <1>2, <2>4 DEF T
<1>6. ParseString(raw) = g[1]
  BY <1>3, <1>5, ParseStringIs
<1>7. g = [i \in 1 .. Len(raw) + 12 |-> ReadFrom(raw, end, g, i)]
  BY <1>3, ReadExists
<1> HIDE DEF g, f
<1>8. g[1] = [ok |-> TRUE, bytes |-> s]
  <2> DEFINE Rest(i) == [k \in 1 .. n - i |-> s[i + k]]
             T == {i \in 0 .. n : g[Off(s, i) + 1] = [ok |-> TRUE, bytes |-> Rest(i)]}
  <2>1. n \in T
    <3>1. end \in 1 .. Len(raw) + 12 /\ end >= end
      BY <1>3
    <3>2. g[end] = [ok |-> TRUE, bytes |-> <<>>]
      BY <1>7, <3>1 DEF ReadFrom
    <3>3. Rest(n) = <<>>
      BY <1>1
    <3> QED
      BY <1>1, <3>2, <3>3
  <2>2. ASSUME NEW i \in 1 .. n, i \in T
        PROVE  i - 1 \in T
    <3> DEFINE k == Off(s, i - 1)
               c == s[i]
               l == Len(Escape(c))
    <3>1. /\ k \in Nat /\ c \in Nat /\ l \in Nat /\ k + l < Len(raw) /\ l >= 1
          /\ k + l = Off(s, i)
          /\ \A j \in 1 .. l : raw[k + j] = Escape(c)[j]
      BY <1>4
    <3>2. end \in Nat /\ k + l < end
      BY <1>3, <3>1
    <3>3. ReadPiece(raw, k + 1, end) = Piece(l, <<c>>)
      <4> HIDE DEF k, c, end
      <4> QED
        BY <3>1, <3>2, EscapeReads
    <3>4. g[k + l + 1] = [ok |-> TRUE, bytes |-> Rest(i)]
      BY <2>2, <3>1
    <3>5. g[k + 1] = [g[(k + 1) + l] EXCEPT !.bytes = <<c>> \o @]
      <4>1. k + 1 \in 1 .. Len(raw) + 12 /\ ~(k + 1 >= end)
        BY SMTT(40), <1>3, <3>1, <3>2
      <4>2. g[k + 1] = ReadFrom(raw, end, g, k + 1)
        BY <1>7, <4>1
      <4>3. ReadPiece(raw, k + 1, end).reads = l /\ ReadPiece(raw, k + 1, end).bytes = <<c>>
        BY <3>3 DEF Piece
      <4> DEFINE p == ReadPiece(raw, k + 1, end)
      <4>4. p.reads = l /\ p.bytes = <<c>> /\ p.reads # 0
        BY <3>1, <4>3
      <4>5. ReadFrom(raw, end, g, k + 1) =
            IF p.reads = 0 THEN NoString
            ELSE [g[(k + 1) + p.reads] EXCEPT !.bytes = p.bytes \o @]
        BY <4>1 DEF ReadFrom
      <4> HIDE DEF p, k, l, c, end
      <4>6. g[k + 1] = [g[(k + 1) + p.reads] EXCEPT !.bytes = p.bytes \o @]
        BY <4>2, <4>4, <4>5
      <4> QED
        BY <4>4, <4>6
    <3>6. (k + 1) + l = k + l + 1
      BY <3>1
    <3>7. <<c>> \o Rest(i) = Rest(i - 1)
      <4>1. i - 1 \in Nat /\ n - i \in Nat /\ n - (i - 1) = (n - i) + 1
        BY <1>1
      <4>2. Rest(i) \in Seq(Nat) /\ Len(Rest(i)) = n - i
        <5>1. \A j \in 1 .. n - i : s[i + j] \in Nat
          BY <1>1
        <5> QED
          BY <4>1, <5>1
      <4>3. <<c>> \o Rest(i) = [j \in 1 .. (n - i) + 1 |-> IF j = 1 THEN c ELSE Rest(i)[j - 1]]
        <5> DEFINE r == Rest(i)
        <5>1. r \in Seq(Nat) /\ Len(r) = n - i /\ c \in Nat
          BY <3>1, <4>2
        <5> HIDE DEF r, c
        <5>2. Len(<<c>>) + Len(r) = (n - i) + 1 /\ <<c>> \o r \in Seq(Nat)
          BY <4>1, <5>1
        <5>3. Len(<<c>> \o r) = (n - i) + 1
          BY <5>1, <5>2
        <5>4. \A j \in 1 .. (n - i) + 1 : (<<c>> \o r)[j] = IF j = 1 THEN c ELSE r[j - 1]
          BY <4>1, <5>1
        <5>5. DOMAIN (<<c>> \o r) = 1 .. (n - i) + 1
          BY <5>2, <5>3
        <5> DEFINE w == <<c>> \o r
        <5>6. w = [j \in DOMAIN w |-> w[j]]
          BY <5>2
        <5> HIDE DEF w
        <5>7. DOMAIN w = 1 .. (n - i) + 1
          BY <5>5 DEF w
        <5>8. \A j \in 1 .. (n - i) + 1 : w[j] = IF j = 1 THEN c ELSE r[j - 1]
          BY <5>4 DEF w
        <5>9. w = [j \in 1 .. (n - i) + 1 |-> IF j = 1 THEN c ELSE r[j - 1]]
          BY <5>6, <5>7, <5>8
        <5> QED
          BY <5>9 DEF w, r
      <4>4. \A j \in 1 .. (n - i) + 1 :
                (IF j = 1 THEN c ELSE Rest(i)[j - 1]) = s[(i - 1) + j]
        BY <4>1
      <4> QED
        BY <4>1, <4>3, <4>4
    <3>8. g[k + 1] = [ok |-> TRUE, bytes |-> Rest(i - 1)]
      <4> HIDE DEF Rest, k, l, c
      <4>1. g[(k + 1) + l] = [ok |-> TRUE, bytes |-> Rest(i)]
        BY <3>4, <3>6
      <4> DEFINE u == Rest(i)
                 v == g[(k + 1) + l]
      <4>2. v = [ok |-> TRUE, bytes |-> u] /\ g[k + 1] = [v EXCEPT !.bytes = <<c>> \o @]
        BY <3>5, <4>1
      <4> HIDE DEF u, v
      <4>3. v.bytes = u /\ v.ok = TRUE /\ DOMAIN v = {"ok", "bytes"}
        BY <4>2
      <4>4. g[k + 1] = [ok |-> TRUE, bytes |-> <<c>> \o u]
        BY <4>2, <4>3
      <4> QED
        BY <3>7, <4>4 DEF u
    <3>9. i - 1 \in 0 .. n
      BY <1>1
    <3> QED
      BY <3>8, <3>9
  <2> HIDE DEF T
  <2>3. \A i \in 0 .. n : i \in T
    BY <1>1, <2>1, <2>2, Downward
  <2>4. 0 \in T
    BY <1>1, <2>3
  <2>5. Rest(0) = s
    <3>1. s = [k \in 1 .. n |-> s[k]]
      OBVIOUS
    <3> QED
      BY <1>1, <3>1
  <2> HIDE DEF Rest
  <2>6. g[Off(s, 0) + 1] = [ok |-> TRUE, bytes |-> Rest(0)]
    BY <2>4 DEF T
  <2>7. Off(s, 0) + 1 = 1
    BY <1>2
  <2> QED
    BY <2>5, <2>6, <2>7
<1> QED
  BY <1>6, <1>8 DEF raw

-----------------------------------------------------------------------------
(* The parser, token by token, and what the printer gives it *)

\* The states of the parser from p on.
Feeding(p, text) ==
    CHOOSE fed : fed = [i \in 0 .. Len(text) |-> IF i = 0 THEN p ELSE Feed(fed[i - 1], text[i])]

Fed(p, text) == Feeding(p, text)[Len(text)]

LEMMA FeedingExists ==
    ASSUME NEW p, NEW text, Len(text) \in Nat
    PROVE  Feeding(p, text) =
           [i \in 0 .. Len(text) |-> IF i = 0 THEN p ELSE Feed(Feeding(p, text)[i - 1], text[i])]
<1> DEFINE T == {n \in Nat :
                    \E f : f = [i \in 0 .. n |-> IF i = 0 THEN p ELSE Feed(f[i - 1], text[i])]}
<1>1. 0 \in T
  <2> DEFINE f == [i \in 0 .. 0 |-> p]
  <2>1. f = [i \in 0 .. 0 |-> IF i = 0 THEN p ELSE Feed(f[i - 1], text[i])]
    OBVIOUS
  <2> HIDE DEF f
  <2> QED
    BY <2>1
<1>2. ASSUME NEW n \in Nat, n \in T
      PROVE  n + 1 \in T
  <2>1. PICK f : f = [i \in 0 .. n |-> IF i = 0 THEN p ELSE Feed(f[i - 1], text[i])]
    BY <1>2
  <2> DEFINE last == Feed(f[n], text[n + 1])
             g == [i \in 0 .. n + 1 |-> IF i = n + 1 THEN last ELSE f[i]]
  <2>2. g = [i \in 0 .. n + 1 |-> IF i = 0 THEN p ELSE Feed(g[i - 1], text[i])]
    <3> SUFFICES ASSUME NEW i \in 0 .. n + 1
                 PROVE  g[i] = IF i = 0 THEN p ELSE Feed(g[i - 1], text[i])
      OBVIOUS
    <3>1. CASE i = n + 1
      <4>1. g[i] = last /\ g[i - 1] = f[n] /\ i # 0
        BY <3>1
      <4> HIDE DEF g
      <4> QED
        BY <3>1, <4>1
    <3>2. CASE i # n + 1
      <4>1. i \in 0 .. n /\ g[i] = f[i] /\ (i # 0 => g[i - 1] = f[i - 1])
        BY <3>2
      <4> HIDE DEF g
      <4>2. f[i] = IF i = 0 THEN p ELSE Feed(f[i - 1], text[i])
        BY <2>1, <4>1
      <4> QED
        BY <4>1, <4>2
    <3> QED
      BY <3>1, <3>2
  <2>3. n + 1 \in Nat
    OBVIOUS
  <2> HIDE DEF g
  <2> QED
    BY <2>2, <2>3, Zenon
<1> HIDE DEF T
<1>3. Len(text) \in T
  BY <1>1, <1>2, Upward
<1> QED
  BY <1>3 DEF T, Feeding

LEMMA ParseIs ==
    \A text : Parse(text) = IF Fed(Start, text).expect = "nothing" THEN Fed(Start, text).item
                            ELSE NullItem
BY DEF Parse, Fed, Feeding

\* Token by token.
LEMMA FeedingSteps ==
    ASSUME NEW p, NEW text, Len(text) \in Nat
    PROVE  /\ Feeding(p, text)[0] = p
           /\ \A i \in 1 .. Len(text) :
                  Feeding(p, text)[i] = Feed(Feeding(p, text)[i - 1], text[i])
<1> DEFINE f == Feeding(p, text)
           n == Len(text)
<1>1. f = [i \in 0 .. n |-> IF i = 0 THEN p ELSE Feed(f[i - 1], text[i])]
  BY FeedingExists
<1> HIDE DEF f
<1>2. n \in Nat
  OBVIOUS
<1> HIDE DEF n
<1>3. f[0] = p
  BY <1>1, <1>2
<1>4. \A i \in 1 .. n : f[i] = Feed(f[i - 1], text[i])
  BY <1>1, <1>2
<1> QED
  BY <1>3, <1>4 DEF f, n

LEMMA FedOne ==
    \A p, t : Fed(p, <<>>) = p /\ Fed(p, <<t>>) = Feed(p, t)
<1> SUFFICES ASSUME NEW p, NEW t
             PROVE  Fed(p, <<>>) = p /\ Fed(p, <<t>>) = Feed(p, t)
  OBVIOUS
<1>1. Len(<<>>) = 0 /\ Len(<<t>>) = 1 /\ <<t>>[1] = t
  OBVIOUS
<1>2. Fed(p, <<>>) = p
  BY <1>1, FeedingSteps DEF Fed
<1>3. Feeding(p, <<t>>)[0] = p /\ Feeding(p, <<t>>)[1] = Feed(Feeding(p, <<t>>)[0], <<t>>[1])
  <2> DEFINE text == <<t>>
  <2>1. Len(text) = 1 /\ Len(text) \in Nat /\ 1 \in 1 .. Len(text) /\ 1 - 1 = 0
    OBVIOUS
  <2> HIDE DEF text
  <2>2. Feeding(p, text)[0] = p /\ Feeding(p, text)[1] = Feed(Feeding(p, text)[0], text[1])
    BY SMTT(40), <2>1, FeedingSteps
  <2> QED
    BY <2>2 DEF text
<1> QED
  BY <1>1, <1>2, <1>3 DEF Fed

\* One text behind the other.
LEMMA FedBoth ==
    ASSUME NEW S, NEW a \in Seq(S), NEW b \in Seq(S), NEW p
    PROVE  Fed(p, a \o b) = Fed(Fed(p, a), b)
<1> DEFINE c == a \o b
           m == Len(a)
           n == Len(b)
           f == Feeding(p, a)
           q == Fed(p, a)
           g == Feeding(q, b)
           h == Feeding(p, c)
<1>1. /\ m \in Nat /\ n \in Nat /\ Len(c) = m + n
      /\ \A i \in 1 .. m : c[i] = a[i]
      /\ \A i \in 1 .. n : c[m + i] = b[i]
  BY LenProperties, ConcatProperties
<1>2. f[0] = p /\ \A i \in 1 .. m : f[i] = Feed(f[i - 1], a[i])
  BY <1>1, FeedingSteps
<1>3. g[0] = q /\ \A i \in 1 .. n : g[i] = Feed(g[i - 1], b[i])
  BY <1>1, FeedingSteps
<1>4. h[0] = p /\ \A i \in 1 .. m + n : h[i] = Feed(h[i - 1], c[i])
  <2>1. Len(c) \in Nat
    BY <1>1
  <2> HIDE DEF c
  <2> QED
    BY SMTT(40), <1>1, <2>1, FeedingSteps
<1>5. q = f[m] /\ Fed(q, b) = g[n] /\ Fed(p, c) = h[m + n]
  BY <1>1 DEF Fed
<1> HIDE DEF c, m, n, f, g, h, q
<1>6. h[m] = f[m]
  <2> DEFINE T == {i \in 0 .. m : h[i] = f[i]}
  <2>1. 0 \in T
    BY <1>1, <1>2, <1>4
  <2>2. ASSUME NEW i \in 0 .. m - 1, i \in T
        PROVE  i + 1 \in T
    <3>1. i + 1 \in 1 .. m /\ i + 1 \in 1 .. m + n /\ (i + 1) - 1 = i /\ i + 1 \in 0 .. m
      BY SMTT(40), <1>1
    <3>2. h[i + 1] = Feed(h[i], c[i + 1]) /\ f[i + 1] = Feed(f[i], a[i + 1])
      BY <1>2, <1>4, <3>1
    <3> QED
      BY <1>1, <2>2, <3>1, <3>2
  <2> HIDE DEF T
  <2>3. \A i \in 0 .. m : i \in T
    BY <1>1, <2>1, <2>2, UpTo
  <2>4. m \in T
    BY <1>1, <2>3
  <2> QED
    BY <2>4 DEF T
<1>7. h[m + n] = g[n]
  <2> DEFINE T == {i \in 0 .. n : h[m + i] = g[i]}
  <2>1. 0 \in T
    BY <1>1, <1>3, <1>5, <1>6
  <2>2. ASSUME NEW i \in 0 .. n - 1, i \in T
        PROVE  i + 1 \in T
    <3>1. /\ i + 1 \in 1 .. n /\ m + (i + 1) \in 1 .. m + n /\ (i + 1) - 1 = i
          /\ i + 1 \in 0 .. n /\ (m + (i + 1)) - 1 = m + i
      BY <1>1
    <3>2. h[m + (i + 1)] = Feed(h[m + i], c[m + (i + 1)]) /\ g[i + 1] = Feed(g[i], b[i + 1])
      BY <1>3, <1>4, <3>1
    <3>3. c[m + (i + 1)] = b[i + 1]
      BY <1>1, <3>1
    <3> QED
      BY <2>2, <3>1, <3>2, <3>3
  <2> HIDE DEF T
  <2>3. \A i \in 0 .. n : i \in T
    BY <1>1, <2>1, <2>2, UpTo
  <2>4. n \in T
    BY <1>1, <2>3
  <2> QED
    BY <2>4 DEF T
<1> QED
  BY <1>5, <1>6, <1>7 DEF c, q

\* The items that HelloWorld_to_MQTT puts into its object: a number, a string, an object that
\* has a string or, where an allocation failed, has not.
Simple(S, x) ==
    \/ \E n \in Int : x = Number(n)
    \/ \E s \in Seq(S) : x = String(s)
    \/ \E name \in Seq(S), s \in Seq(S) : name # Unnamed /\ x = Object(<<Member(name, String(s))>>)
    \/ x = Object(<<>>)

\* What it is once it has been printed and parsed.
Back(x) == IF x.type = "Number" THEN Number(Double(PrintNumber(x.number))) ELSE x

Tokens(S) == [kind : Kinds, number : Int, raw : Seq(S)]

\* What is printed of the members of an array or object, in an item and in the whole.
Named(m) ==
    IF m.name = Unnamed THEN <<>> ELSE <<StringToken(m.name), Mark(":")>>

Behind(i, n) == IF i < n THEN <<Mark(",")>> ELSE <<>>

InnerParts(c) ==
    [i \in DOMAIN c |-> Named(c[i]) \o PrintLeaf(c[i].item) \o Behind(i, Len(c))]

OuterParts(c) ==
    [i \in DOMAIN c |-> Named(c[i]) \o PrintInner(c[i].item) \o Behind(i, Len(c))]

LEMMA SimpleOver ==
    ASSUME NEW S, S \subseteq Nat, NEW x, Simple(S, x)
    PROVE  Simple(Nat, x)
<1>1. \A s \in Seq(S) : s \in Seq(Nat)
  BY SeqMonotonic
<1> QED
  BY <1>1 DEF Simple

LEMMA ItemsAre ==
    /\ \A n : Number(n).type = "Number" /\ Number(n).number = n
    /\ \A s : String(s).type = "String" /\ String(s).string = s
    /\ \A c : Object(c).type = "Object" /\ Object(c).child = c
    /\ "Number" \notin DOMAIN Brackets /\ "String" \notin DOMAIN Brackets
    /\ "Object" \in DOMAIN Brackets /\ Brackets["Object"] = <<"{", "}">>
BY DEF Number, String, Object, Parent, Item, Brackets

LEMMA PrintLeafIs ==
    /\ \A n : PrintLeaf(Number(n)) = <<NumberToken(PrintNumber(n))>>
    /\ \A s : PrintLeaf(String(s)) = <<StringToken(s)>>
<1>1. ASSUME NEW x, x.type = "Number"
      PROVE  PrintLeaf(x) = <<NumberToken(PrintNumber(x.number))>>
  BY <1>1, ItemsAre DEF PrintLeaf, PrintValue
<1>2. ASSUME NEW x, x.type = "String"
      PROVE  PrintLeaf(x) = <<StringToken(x.string)>>
  BY <1>2, ItemsAre DEF PrintLeaf, PrintValue
<1>3. \A n : Number(n).type = "Number" /\ Number(n).number = n
  BY ItemsAre
<1>4. \A s : String(s).type = "String" /\ String(s).string = s
  BY ItemsAre
<1>5. ASSUME NEW n
      PROVE  PrintLeaf(Number(n)) = <<NumberToken(PrintNumber(n))>>
  BY <1>1, <1>3
<1>6. ASSUME NEW s
      PROVE  PrintLeaf(String(s)) = <<StringToken(s)>>
  BY <1>2, <1>4
<1> QED
  BY <1>5, <1>6

LEMMA PrintInnerIs ==
    /\ \A n : PrintInner(Number(n)) = <<NumberToken(PrintNumber(n))>>
    /\ \A s : PrintInner(String(s)) = <<StringToken(s)>>
    /\ \A c : PrintInner(Object(c)) = <<Mark("{")>> \o FlattenSeq(InnerParts(c)) \o <<Mark("}")>>
<1>1. ASSUME NEW x, x.type = "Number"
      PROVE  PrintInner(x) = <<NumberToken(PrintNumber(x.number))>>
  BY <1>1, ItemsAre DEF PrintInner, PrintValue
<1>2. ASSUME NEW x, x.type = "String"
      PROVE  PrintInner(x) = <<StringToken(x.string)>>
  BY <1>2, ItemsAre DEF PrintInner, PrintValue
<1>3. ASSUME NEW x, x.type = "Object"
      PROVE  PrintInner(x) = <<Mark("{")>> \o FlattenSeq(InnerParts(x.child)) \o <<Mark("}")>>
  <2> DEFINE joined == FlattenSeq([i \in DOMAIN x.child |->
                           (IF x.child[i].name = Unnamed THEN <<>>
                            ELSE <<StringToken(x.child[i].name), Mark(":")>>)
                           \o PrintLeaf(x.child[i].item)
                           \o (IF i < Len(x.child) THEN <<Mark(",")>> ELSE <<>>)])
  <2>1. PrintInner(x) = <<Mark(Brackets[x.type][1])>> \o joined \o <<Mark(Brackets[x.type][2])>>
    BY <1>3, ItemsAre DEF PrintInner, PrintValue, Joined
  <2>2. joined = FlattenSeq(InnerParts(x.child))
    BY DEF InnerParts, Named, Behind
  <2>3. Brackets[x.type] = <<"{", "}">>
    BY <1>3, ItemsAre
  <2>4. Brackets[x.type][1] = "{" /\ Brackets[x.type][2] = "}"
    <3> DEFINE b == Brackets[x.type]
    <3>1. b = <<"{", "}">>
      BY <2>3
    <3> HIDE DEF b
    <3>2. b[1] = "{" /\ b[2] = "}"
      BY <3>1
    <3> QED
      BY <3>2 DEF b
  <2> HIDE DEF joined
  <2> QED
    BY <2>1, <2>2, <2>4
<1>4. \A n : Number(n).type = "Number" /\ Number(n).number = n
  BY ItemsAre
<1>5. \A s : String(s).type = "String" /\ String(s).string = s
  BY ItemsAre
<1>6. \A c : Object(c).type = "Object" /\ Object(c).child = c
  BY ItemsAre
<1>7. ASSUME NEW n
      PROVE  PrintInner(Number(n)) = <<NumberToken(PrintNumber(n))>>
  BY <1>1, <1>4
<1>8. ASSUME NEW s
      PROVE  PrintInner(String(s)) = <<StringToken(s)>>
  BY <1>2, <1>5
<1>9. ASSUME NEW c
      PROVE  PrintInner(Object(c)) = <<Mark("{")>> \o FlattenSeq(InnerParts(c)) \o <<Mark("}")>>
  BY <1>3, <1>6
<1> QED
  BY <1>7, <1>8, <1>9

LEMMA PrintTextIs ==
    \A c : PrintText(Object(c)) = <<Mark("{")>> \o FlattenSeq(OuterParts(c)) \o <<Mark("}")>>
<1> SUFFICES ASSUME NEW c
             PROVE  PrintText(Object(c)) =
                    <<Mark("{")>> \o FlattenSeq(OuterParts(c)) \o <<Mark("}")>>
  OBVIOUS
<1> DEFINE x == Object(c)
           joined == FlattenSeq([i \in DOMAIN x.child |->
                         (IF x.child[i].name = Unnamed THEN <<>>
                          ELSE <<StringToken(x.child[i].name), Mark(":")>>)
                         \o PrintInner(x.child[i].item)
                         \o (IF i < Len(x.child) THEN <<Mark(",")>> ELSE <<>>)])
<1>1. x.type = "Object" /\ x.child = c
  BY ItemsAre
<1> HIDE DEF x
<1>2. PrintText(x) = <<Mark(Brackets[x.type][1])>> \o joined \o <<Mark(Brackets[x.type][2])>>
  BY <1>1, ItemsAre DEF PrintText, PrintValue, Joined
<1>3. joined = FlattenSeq(OuterParts(x.child))
  BY DEF OuterParts, Named, Behind
<1>4. Brackets[x.type] = <<"{", "}">>
  BY <1>1, ItemsAre
<1>5. Brackets[x.type][1] = "{" /\ Brackets[x.type][2] = "}"
  <2> DEFINE b == Brackets[x.type]
  <2>1. b = <<"{", "}">>
    BY <1>4
  <2> HIDE DEF b
  <2>2. b[1] = "{" /\ b[2] = "}"
    BY <2>1
  <2> QED
    BY <2>2 DEF b
<1> HIDE DEF joined
<1> QED
  BY <1>1, <1>2, <1>3, <1>5 DEF x

\* What is printed of a string has its characters and bytes that are no zeros.
LEMMA EscapeOver ==
    ASSUME NEW S, S \subseteq Nat, Bytes \ {0} \subseteq S, NEW c \in S
    PROVE  Escape(c) \in Seq(S)
<1>0. c \in Nat
  OBVIOUS
<1>1. \A b : b \in Nat /\ b > 0 /\ b < 256 => b \in S
  BY DEF Bytes
<1>2. CASE Plain(c)
  <2>1. Escape(c) = <<c>>
    BY <1>0, <1>2, EscapeIs
  <2> QED
    BY <2>1
<1>3. CASE HasShort(c)
  <2>1. Escape(c) = <<92, ShortOf(c)>>
    BY <1>0, <1>3, EscapeIs
  <2>2. <<ShortOf(c), c>> \in {<<98, 8>>, <<102, 12>>, <<110, 10>>, <<114, 13>>, <<116, 9>>,
                               <<34, 34>>, <<92, 92>>}
    BY <1>3, ShortOfIs, ShortEscapesAre
  <2>3. ShortOf(c) \in Nat /\ ShortOf(c) > 0 /\ ShortOf(c) < 256
    BY <2>2
  <2>4. 92 \in S /\ ShortOf(c) \in S
    BY <1>1, <2>3
  <2> QED
    BY <2>1, <2>4
<1>4. CASE ~Plain(c) /\ ~HasShort(c)
  <2> DEFINE d == HexChar(c \div 16)
             u == HexChar(c % 16)
  <2>1. c < 32 /\ Escape(c) = <<92, 117, 48, 48, d, u>>
    BY <1>0, <1>4, EscapeIs
  <2>2. c \div 16 \in 0 .. 15 /\ c % 16 \in 0 .. 15
    BY <1>0, <2>1
  <2>3. \A x \in 0 .. 15 : HexChar(x) \in Nat /\ HexChar(x) > 0 /\ HexChar(x) < 256
    BY DEF HexChar
  <2>4. 92 \in S /\ 117 \in S /\ 48 \in S /\ d \in S /\ u \in S
    BY <1>1, <2>2, <2>3
  <2> HIDE DEF d, u
  <2> QED
    BY <2>1, <2>4
<1> QED
  BY <1>2, <1>3, <1>4

LEMMA PrintStringOver ==
    ASSUME NEW S, S \subseteq Nat, Bytes \ {0} \subseteq S, NEW s \in Seq(S)
    PROVE  PrintString(s) \in Seq(S) /\ s \in Seq(Nat)
<1> DEFINE seqs == EscapesOf(s)
           n == Len(s)
<1>1. n \in Nat /\ DOMAIN s = 1 .. n /\ \A i \in 1 .. n : s[i] \in S
  BY LenProperties, ElementOfSeq
<1>2. s \in Seq(Nat)
  BY SeqMonotonic
<1>3. \A i \in 1 .. n : Escape(s[i]) \in Seq(S)
  <2> TAKE i \in 1 .. n
  <2>1. s[i] \in S
    BY <1>1
  <2> QED
    BY <2>1, EscapeOver
<1>4. seqs = [i \in 1 .. n |-> Escape(s[i])]
  BY <1>1 DEF EscapesOf
<1> HIDE DEF seqs
<1>5. seqs \in Seq(Seq(S))
  BY <1>1, <1>3, <1>4
<1>6. Len(seqs) \in 0 .. Len(seqs)
  <2>1. Len(seqs) \in Nat
    BY <1>5, LenProperties
  <2> QED
    BY <2>1
<1>7. FlattenSeq(seqs) \in Seq(S)
  <2>1. FlatTo(seqs, Len(seqs)) \in Seq(S) /\ FlattenSeq(seqs) = FlatTo(seqs, Len(seqs))
    BY <1>5, <1>6, FlatSteps
  <2> QED
    BY <2>1
<1>8. 34 \in S
  BY DEF Bytes
<1>9. <<34>> \in Seq(S)
  BY <1>8
<1>10. PrintString(s) = FlattenSeq(seqs) \o <<34>>
  BY DEF PrintString, Quote, seqs, EscapesOf
<1> QED
  BY <1>2, <1>7, <1>9, <1>10, ConcatProperties

LEMMA TokenFields ==
    /\ \A k : Mark(k) = [kind |-> k, number |-> 0, raw |-> <<>>]
    /\ \A n : NumberToken(n) = [kind |-> "number", number |-> n, raw |-> <<>>]
    /\ \A s : StringToken(s) = [kind |-> "string", number |-> 0, raw |-> PrintString(s)]
BY DEF Mark, NumberToken, StringToken, RawToken

LEMMA TokensAre ==
    ASSUME NEW S, S \subseteq Nat, Bytes \ {0} \subseteq S
    PROVE  /\ \A k \in Kinds : Mark(k) \in Tokens(S)
           /\ \A n \in Int : NumberToken(n) \in Tokens(S)
           /\ \A s \in Seq(S) : StringToken(s) \in Tokens(S)
<1>1. <<>> \in Seq(S)
  BY EmptySeq
<1>2. \A k \in Kinds : Mark(k) \in Tokens(S)
  <2> TAKE k \in Kinds
  <2>1. Mark(k) = [kind |-> k, number |-> 0, raw |-> <<>>]
    BY TokenFields
  <2> QED
    BY <1>1, <2>1 DEF Tokens
<1>3. \A n \in Int : NumberToken(n) \in Tokens(S)
  <2> TAKE n \in Int
  <2>1. NumberToken(n) = [kind |-> "number", number |-> n, raw |-> <<>>]
    BY TokenFields
  <2>2. "number" \in Kinds
    BY DEF Kinds
  <2> QED
    BY <1>1, <2>1, <2>2 DEF Tokens
<1>4. \A s \in Seq(S) : StringToken(s) \in Tokens(S)
  <2> TAKE s \in Seq(S)
  <2>1. PrintString(s) \in Seq(S)
    BY PrintStringOver
  <2>2. StringToken(s) = [kind |-> "string", number |-> 0, raw |-> PrintString(s)]
    BY TokenFields
  <2>3. "string" \in Kinds
    BY DEF Kinds
  <2> QED
    BY <2>1, <2>2, <2>3 DEF Tokens
<1> QED
  BY <1>2, <1>3, <1>4

\* The top of a stack.
LEMMA StackIs ==
    ASSUME NEW L, NEW st \in Seq(L), NEW x
    PROVE  /\ Append(st, x) \in Seq(L \union {x})
           /\ Len(Append(st, x)) = Len(st) + 1 /\ Append(st, x) # <<>>
           /\ Last(Append(st, x)) = x /\ Front(Append(st, x)) = st
           /\ \A y : [Append(st, x) EXCEPT ![Len(Append(st, x))] = y] = Append(st, y)
<1> DEFINE M == L \union {x}
           a == Append(st, x)
           n == Len(st)
<1>1. st \in Seq(M) /\ x \in M
  BY SeqMonotonic
<1>2. n \in Nat
  BY LenProperties
<1>3. /\ a \in Seq(M) /\ Len(a) = n + 1 /\ a[n + 1] = x
      /\ \A i \in 1 .. n : a[i] = st[i]
  BY <1>1, AppendProperties
<1>4. a # <<>>
  BY <1>2, <1>3
<1>5. Last(a) = x
  BY <1>3 DEF Last
<1>6. Front(a) = st
  <2>1. Front(a) = [i \in 1 .. n |-> a[i]]
    <3>1. Len(a) - 1 = n
      BY <1>2, <1>3
    <3> HIDE DEF a
    <3>2. Front(a) = SubSeq(a, 1, n)
      BY <3>1 DEF Front
    <3>3. SubSeq(a, 1, n) = [i \in 1 .. n |-> a[i]]
      <4>1. SubSeq(a, 1, n) \in Seq(M) /\ Len(SubSeq(a, 1, n)) = n
            /\ \A i \in 1 .. n : SubSeq(a, 1, n)[i] = a[i]
        BY <1>2, <1>3
      <4> DEFINE b == SubSeq(a, 1, n)
      <4>2. b \in Seq(M) /\ Len(b) = n /\ \A i \in 1 .. n : b[i] = a[i]
        BY <4>1
      <4> HIDE DEF b
      <4>3. b = [i \in 1 .. n |-> b[i]]
        BY <4>2
      <4> QED
        BY <4>2, <4>3 DEF b
    <3> QED
      BY <3>2, <3>3
  <2>2. st = [i \in 1 .. n |-> st[i]]
    OBVIOUS
  <2> QED
    BY <1>3, <2>1, <2>2
<1>7. ASSUME NEW y
      PROVE  [a EXCEPT ![Len(a)] = y] = Append(st, y)
  <2> DEFINE N == L \union {y}
             b == Append(st, y)
             c == [a EXCEPT ![Len(a)] = y]
  <2>1. st \in Seq(N) /\ y \in N
    BY SeqMonotonic
  <2>2. /\ b \in Seq(N) /\ Len(b) = n + 1 /\ b[n + 1] = y
        /\ \A i \in 1 .. n : b[i] = st[i]
    BY <2>1, AppendProperties
  <2>3. DOMAIN a = 1 .. n + 1 /\ DOMAIN b = 1 .. n + 1
    BY <1>2, <1>3, <2>2
  <2>4. c = [i \in 1 .. n + 1 |-> IF i = n + 1 THEN y ELSE a[i]]
    BY <1>3, <2>3
  <2>5. b = [i \in 1 .. n + 1 |-> b[i]]
    <3> HIDE DEF b
    <3> QED
      BY <2>2, <2>3
  <2>6. \A i \in 1 .. n + 1 : (IF i = n + 1 THEN y ELSE a[i]) = b[i]
    BY <1>2, <1>3, <2>2
  <2> HIDE DEF a, b, c
  <2> QED
    BY <2>4, <2>5, <2>6 DEF b, c
<1> QED
  BY <1>3, <1>4, <1>5, <1>6, <1>7

LEMMA StackTop ==
    ASSUME NEW L, NEW st \in Seq(L), NEW x
    PROVE  \A y : [Append(st, x) EXCEPT ![Len(Append(st, x))] = y] = Append(st, y)
BY StackIs

LEMMA TuplesJoin ==
    /\ \A a, b, c : <<a, b>> \o <<c>> = <<a, b, c>>
    /\ \A a, b, c, d, e : <<a>> \o <<b, c, d>> \o <<e>> = <<a, b, c, d, e>>
    /\ \A a, b : <<a>> \o <<b>> = <<a, b>>
<1>1. ASSUME NEW a, NEW b, NEW c
      PROVE  <<a, b>> \o <<c>> = <<a, b, c>>
  <2> DEFINE S == {a, b, c}
             x == <<a, b>>
             y == <<c>>
             z == <<a, b, c>>
  <2>1. /\ x \in Seq(S) /\ y \in Seq(S) /\ z \in Seq(S)
        /\ Len(x) = 2 /\ Len(y) = 1 /\ Len(z) = 3
    OBVIOUS
  <2>2. /\ z[1] = x[1] /\ z[2] = x[2]
        /\ z[3] = y[1]
    OBVIOUS
  <2> HIDE DEF S, x, y, z
  <2>3. /\ x \o y \in Seq(S) /\ Len(x \o y) = 3
        /\ \A i \in 1 .. 3 : (x \o y)[i] = IF i <= 2 THEN x[i] ELSE y[i - 2]
    <3>1. /\ x \o y \in Seq(S) /\ Len(x \o y) = Len(x) + Len(y)
          /\ \A i \in 1 .. Len(x) + Len(y) :
                 (x \o y)[i] = IF i <= Len(x) THEN x[i] ELSE y[i - Len(x)]
      BY <2>1, ConcatProperties
    <3>2. Len(x) + Len(y) = 3
      BY <2>1
    <3> QED
      BY <2>1, <3>1, <3>2
  <2>4. \A i \in 1 .. 3 : (x \o y)[i] = z[i]
    BY <2>2, <2>3
  <2>5. x \o y = z
    BY <2>1, <2>3, <2>4, SeqEqual
  <2> QED
    BY <2>5 DEF x, y, z
<1>2. ASSUME NEW a, NEW b
      PROVE  <<a>> \o <<b>> = <<a, b>>
  <2> DEFINE S == {a, b}
             x == <<a>>
             y == <<b>>
             z == <<a, b>>
  <2>1. /\ x \in Seq(S) /\ y \in Seq(S) /\ z \in Seq(S)
        /\ Len(x) = 1 /\ Len(y) = 1 /\ Len(z) = 2
    OBVIOUS
  <2>2. /\ z[1] = x[1]
        /\ z[2] = y[1]
    OBVIOUS
  <2> HIDE DEF S, x, y, z
  <2>3. /\ x \o y \in Seq(S) /\ Len(x \o y) = 2
        /\ \A i \in 1 .. 2 : (x \o y)[i] = IF i <= 1 THEN x[i] ELSE y[i - 1]
    <3>1. /\ x \o y \in Seq(S) /\ Len(x \o y) = Len(x) + Len(y)
          /\ \A i \in 1 .. Len(x) + Len(y) :
                 (x \o y)[i] = IF i <= Len(x) THEN x[i] ELSE y[i - Len(x)]
      BY <2>1, ConcatProperties
    <3>2. Len(x) + Len(y) = 2
      BY <2>1
    <3> QED
      BY <2>1, <3>1, <3>2
  <2>4. \A i \in 1 .. 2 : (x \o y)[i] = z[i]
    BY <2>2, <2>3
  <2>5. x \o y = z
    BY <2>1, <2>3, <2>4, SeqEqual
  <2> QED
    BY <2>5 DEF x, y, z
<1>3. ASSUME NEW a, NEW b, NEW c, NEW d
      PROVE  <<a>> \o <<b, c, d>> = <<a, b, c, d>>
  <2> DEFINE S == {a, b, c, d}
             x == <<a>>
             y == <<b, c, d>>
             z == <<a, b, c, d>>
  <2>1. /\ x \in Seq(S) /\ y \in Seq(S) /\ z \in Seq(S)
        /\ Len(x) = 1 /\ Len(y) = 3 /\ Len(z) = 4
    OBVIOUS
  <2>2. /\ z[1] = x[1]
        /\ z[2] = y[1] /\ z[3] = y[2] /\ z[4] = y[3]
    OBVIOUS
  <2> HIDE DEF S, x, y, z
  <2>3. /\ x \o y \in Seq(S) /\ Len(x \o y) = 4
        /\ \A i \in 1 .. 4 : (x \o y)[i] = IF i <= 1 THEN x[i] ELSE y[i - 1]
    <3>1. /\ x \o y \in Seq(S) /\ Len(x \o y) = Len(x) + Len(y)
          /\ \A i \in 1 .. Len(x) + Len(y) :
                 (x \o y)[i] = IF i <= Len(x) THEN x[i] ELSE y[i - Len(x)]
      BY <2>1, ConcatProperties
    <3>2. Len(x) + Len(y) = 4
      BY <2>1
    <3> QED
      BY <2>1, <3>1, <3>2
  <2>4. \A i \in 1 .. 4 : (x \o y)[i] = z[i]
    BY <2>2, <2>3
  <2>5. x \o y = z
    BY <2>1, <2>3, <2>4, SeqEqual
  <2> QED
    BY <2>5 DEF x, y, z
<1>4. ASSUME NEW a, NEW b, NEW c, NEW d, NEW e
      PROVE  <<a, b, c, d>> \o <<e>> = <<a, b, c, d, e>>
  <2> DEFINE S == {a, b, c, d, e}
             x == <<a, b, c, d>>
             y == <<e>>
             z == <<a, b, c, d, e>>
  <2>1. /\ x \in Seq(S) /\ y \in Seq(S) /\ z \in Seq(S)
        /\ Len(x) = 4 /\ Len(y) = 1 /\ Len(z) = 5
    OBVIOUS
  <2>2. /\ z[1] = x[1] /\ z[2] = x[2] /\ z[3] = x[3] /\ z[4] = x[4]
        /\ z[5] = y[1]
    OBVIOUS
  <2> HIDE DEF S, x, y, z
  <2>3. /\ x \o y \in Seq(S) /\ Len(x \o y) = 5
        /\ \A i \in 1 .. 5 : (x \o y)[i] = IF i <= 4 THEN x[i] ELSE y[i - 4]
    <3>1. /\ x \o y \in Seq(S) /\ Len(x \o y) = Len(x) + Len(y)
          /\ \A i \in 1 .. Len(x) + Len(y) :
                 (x \o y)[i] = IF i <= Len(x) THEN x[i] ELSE y[i - Len(x)]
      BY <2>1, ConcatProperties
    <3>2. Len(x) + Len(y) = 5
      BY <2>1
    <3> QED
      BY <2>1, <3>1, <3>2
  <2>4. \A i \in 1 .. 5 : (x \o y)[i] = z[i]
    BY SMTT(40), <2>2, <2>3
  <2>5. x \o y = z
    BY <2>1, <2>3, <2>4, SeqEqual
  <2> QED
    BY <2>5 DEF x, y, z
<1>5. ASSUME NEW a, NEW b, NEW c, NEW d, NEW e
      PROVE  <<a>> \o <<b, c, d>> \o <<e>> = <<a, b, c, d, e>>
  <2>1. <<a>> \o <<b, c, d>> = <<a, b, c, d>>
    BY <1>3
  <2>2. <<a, b, c, d>> \o <<e>> = <<a, b, c, d, e>>
    BY <1>4
  <2> QED
    BY <2>1, <2>2, Zenon
<1> QED
  BY <1>1, <1>2, <1>5, Zenon

LEMMA TuplesTyped ==
    ASSUME NEW T
    PROVE  /\ \A a \in T : <<a>> \in Seq(T)
           /\ \A a, b \in T : <<a, b>> \in Seq(T)
           /\ \A a, b, c, d, e \in T : <<a, b, c, d, e>> \in Seq(T)
OBVIOUS

LEMMA FlattenOne ==
    ASSUME NEW S, NEW s \in Seq(S)
    PROVE  FlattenSeq(<<s>>) = s
<1> DEFINE seqs == <<s>>
<1>1. seqs \in Seq(Seq(S)) /\ Len(seqs) = 1 /\ seqs[1] = s
  OBVIOUS
<1> HIDE DEF seqs
<1>2. /\ \A i \in 1 .. Len(seqs) : FlatTo(seqs, i) = FlatTo(seqs, i - 1) \o seqs[i]
      /\ FlattenSeq(seqs) = FlatTo(seqs, Len(seqs))
  BY <1>1, FlatSteps
<1>3. FlatTo(seqs, 1) = FlatTo(seqs, 1 - 1) \o seqs[1]
  BY <1>1, <1>2
<1>4. FlatTo(seqs, 1 - 1) = <<>>
  BY DEF FlatTo
<1>5. <<>> \o s = s
  BY ConcatEmptySeq
<1> QED
  BY <1>1, <1>2, <1>3, <1>4, <1>5 DEF seqs

LEMMA InnerObjectIs ==
    /\ PrintInner(Object(<<>>)) = <<Mark("{"), Mark("}")>>
    /\ \A name, s : name # Unnamed =>
           PrintInner(Object(<<Member(name, String(s))>>)) =
           <<Mark("{"), StringToken(name), Mark(":"), StringToken(s), Mark("}")>>
<1>1. PrintInner(Object(<<>>)) = <<Mark("{"), Mark("}")>>
  <2>1. InnerParts(<<>>) = <<>>
    BY DEF InnerParts
  <2>2. FlattenSeq(<<>>) = <<>>
    BY FlatSteps, EmptySeq DEF FlatTo, FlattenSeq
  <2>3. PrintInner(Object(<<>>)) = <<Mark("{")>> \o <<>> \o <<Mark("}")>>
    BY <2>1, <2>2, PrintInnerIs
  <2>4. <<Mark("{")>> \o <<>> = <<Mark("{")>>
    BY ConcatEmptySeq
  <2> QED
    BY <2>3, <2>4, TuplesJoin
<1>2. ASSUME NEW name, NEW s, name # Unnamed
      PROVE  PrintInner(Object(<<Member(name, String(s))>>)) =
             <<Mark("{"), StringToken(name), Mark(":"), StringToken(s), Mark("}")>>
  <2> DEFINE m == Member(name, String(s))
             c == <<m>>
             part == <<StringToken(name), Mark(":"), StringToken(s)>>
             T == {StringToken(name), Mark(":"), StringToken(s)}
  <2>1. m.name = name /\ m.item = String(s)
    BY DEF Member
  <2>2. DOMAIN c = {1} /\ c[1] = m /\ Len(c) = 1
    OBVIOUS
  <2>3. Named(m) = <<StringToken(name), Mark(":")>>
    BY <1>2, <2>1 DEF Named
  <2>4. PrintLeaf(m.item) = <<StringToken(s)>>
    BY <2>1, PrintLeafIs
  <2>5. Behind(1, 1) = <<>>
    BY DEF Behind
  <2>6. part \in Seq(T)
    OBVIOUS
  <2>7. Named(c[1]) \o PrintLeaf(c[1].item) \o Behind(1, Len(c)) = part
    <3>1. <<StringToken(name), Mark(":")>> \o <<StringToken(s)>> = part
      BY TuplesJoin
    <3>2. part \o <<>> = part
      BY <2>6, ConcatEmptySeq
    <3> HIDE DEF m, c, part
    <3> QED
      BY <2>2, <2>3, <2>4, <2>5, <3>1, <3>2
  <2>8. InnerParts(c) = <<part>>
    <3> HIDE DEF m, c, part
    <3>1. InnerParts(c) = [i \in {1} |-> Named(c[i]) \o PrintLeaf(c[i].item) \o Behind(i, Len(c))]
      BY <2>2 DEF InnerParts
    <3>2. InnerParts(c) = [i \in {1} |-> part]
      BY <2>7, <3>1
    <3>3. <<part>> = [i \in {1} |-> part]
      OBVIOUS
    <3> QED
      BY <3>2, <3>3
  <2>9. FlattenSeq(InnerParts(c)) = part
    <3> HIDE DEF c, part, T
    <3> QED
      BY <2>6, <2>8, FlattenOne
  <2>10. PrintInner(Object(c)) = <<Mark("{")>> \o part \o <<Mark("}")>>
    <3> HIDE DEF c, part
    <3> QED
      BY <2>9, PrintInnerIs
  <2>11. <<Mark("{")>> \o part \o <<Mark("}")>> =
         <<Mark("{"), StringToken(name), Mark(":"), StringToken(s), Mark("}")>>
    <3>1. \A v, w, x, y, z : <<v>> \o <<w, x, y>> \o <<z>> = <<v, w, x, y, z>>
      BY TuplesJoin, Zenon
    <3> QED
      BY <3>1, Zenon
  <2> QED
    BY <2>10, <2>11
<1> QED
  BY <1>1, <1>2

\* The tokens of such an item.
LEMMA SimpleTyped ==
    ASSUME NEW S, S \subseteq Nat, Bytes \ {0} \subseteq S, NEW x, Simple(S, x)
    PROVE  PrintInner(x) \in Seq(Tokens(S))
<1>1. \A k \in {"{", "}", ":", ","} : Mark(k) \in Tokens(S)
  <2>1. \A k \in {"{", "}", ":", ","} : k \in Kinds
    BY DEF Kinds
  <2> QED
    BY <2>1, TokensAre
<1>2. CASE \E n \in Int : x = Number(n)
  <2>1. PICK n \in Int : x = Number(n)
    BY <1>2
  <2>2. PrintNumber(n) \in Int
    BY TextInt
  <2>3. NumberToken(PrintNumber(n)) \in Tokens(S)
    BY <2>2, TokensAre
  <2>4. PrintInner(x) = <<NumberToken(PrintNumber(n))>>
    BY <2>1, PrintInnerIs
  <2> QED
    BY <2>3, <2>4
<1>3. CASE \E s \in Seq(S) : x = String(s)
  <2>1. PICK s \in Seq(S) : x = String(s)
    BY <1>3
  <2>2. StringToken(s) \in Tokens(S)
    BY TokensAre
  <2>3. PrintInner(x) = <<StringToken(s)>>
    BY <2>1, PrintInnerIs
  <2> QED
    BY <2>2, <2>3
<1>4. CASE \E name \in Seq(S), s \in Seq(S) :
              name # Unnamed /\ x = Object(<<Member(name, String(s))>>)
  <2>1. PICK name \in Seq(S), s \in Seq(S) :
              name # Unnamed /\ x = Object(<<Member(name, String(s))>>)
    BY <1>4
  <2>2. StringToken(s) \in Tokens(S) /\ StringToken(name) \in Tokens(S)
    BY TokensAre
  <2>3. PrintInner(x) = <<Mark("{"), StringToken(name), Mark(":"), StringToken(s), Mark("}")>>
    BY <2>1, InnerObjectIs
  <2>4. Mark("{") \in Tokens(S) /\ Mark(":") \in Tokens(S) /\ Mark("}") \in Tokens(S)
    BY <1>1
  <2>5. <<Mark("{"), StringToken(name), Mark(":"), StringToken(s), Mark("}")>> \in Seq(Tokens(S))
    BY <2>2, <2>4, TuplesTyped
  <2> QED
    BY <2>3, <2>5
<1>5. CASE x = Object(<<>>)
  <2>1. PrintInner(x) = <<Mark("{"), Mark("}")>>
    BY <1>5, InnerObjectIs
  <2>2. Mark("{") \in Tokens(S) /\ Mark("}") \in Tokens(S)
    BY <1>1
  <2>3. <<Mark("{"), Mark("}")>> \in Seq(Tokens(S))
    BY <2>2, TuplesTyped
  <2> QED
    BY <2>1, <2>3
<1> QED
  BY <1>2, <1>3, <1>4, <1>5 DEF Simple

LEMMA FedTwo ==
    ASSUME NEW p, NEW a, NEW b
    PROVE  Fed(p, <<a, b>>) = Feed(Feed(p, a), b)
<1> DEFINE text == <<a, b>>
           f == Feeding(p, text)
<1>1. Len(text) = 2 /\ text[1] = a /\ text[2] = b
  OBVIOUS
<1> HIDE DEF text
<1>l. Len(text) \in Nat
  BY <1>1
<1>f. f[0] = p /\ \A i \in 1 .. Len(text) : f[i] = Feed(f[i - 1], text[i])
  BY <1>l, FeedingSteps
<1>2. f[0] = p /\ \A i \in 1 .. 2 : f[i] = Feed(f[i - 1], text[i])
  BY <1>1, <1>f
<1> HIDE DEF f
<1>3. f[1] = Feed(f[0], text[1]) /\ f[2] = Feed(f[1], text[2])
  <2>1. 1 \in 1 .. 2 /\ 2 \in 1 .. 2 /\ 1 - 1 = 0 /\ 2 - 1 = 1
    OBVIOUS
  <2> QED
    BY <1>2, <2>1
<1> QED
  BY <1>1, <1>2, <1>3 DEF Fed, f, text

LEMMA FedFive ==
    ASSUME NEW p, NEW a, NEW b, NEW c, NEW d, NEW e
    PROVE  Fed(p, <<a, b, c, d, e>>) = Feed(Feed(Feed(Feed(Feed(p, a), b), c), d), e)
<1> DEFINE text == <<a, b, c, d, e>>
           f == Feeding(p, text)
<1>1. /\ Len(text) = 5 /\ text[1] = a /\ text[2] = b /\ text[3] = c /\ text[4] = d
      /\ text[5] = e
  OBVIOUS
<1> HIDE DEF text
<1>l. Len(text) \in Nat
  BY <1>1
<1>f. f[0] = p /\ \A i \in 1 .. Len(text) : f[i] = Feed(f[i - 1], text[i])
  BY <1>l, FeedingSteps
<1>2. f[0] = p /\ \A i \in 1 .. 5 : f[i] = Feed(f[i - 1], text[i])
  BY <1>1, <1>f
<1> HIDE DEF f
<1>3. /\ f[1] = Feed(f[0], text[1]) /\ f[2] = Feed(f[1], text[2])
      /\ f[3] = Feed(f[2], text[3]) /\ f[4] = Feed(f[3], text[4])
      /\ f[5] = Feed(f[4], text[5])
  <2>1. /\ 1 \in 1 .. 5 /\ 2 \in 1 .. 5 /\ 3 \in 1 .. 5 /\ 4 \in 1 .. 5 /\ 5 \in 1 .. 5
        /\ 1 - 1 = 0 /\ 2 - 1 = 1 /\ 3 - 1 = 2 /\ 4 - 1 = 3 /\ 5 - 1 = 4
    OBVIOUS
  <2> QED
    BY <1>2, <2>1
<1>4. Fed(p, text) = f[5]
  BY <1>1 DEF Fed, f
<1> QED
  BY <1>1, <1>2, <1>3, <1>4 DEF text

LEMMA ParserFields ==
    \A st, e, x : /\ Parser(st, e, x).stack = st /\ Parser(st, e, x).expect = e
                  /\ Parser(st, e, x).item = x
BY DEF Parser

LEMMA ParserChanges ==
    /\ \A st, e, x, f : [Parser(st, e, x) EXCEPT !.expect = f] = Parser(st, f, x)
    /\ \A st, e, x, su : [Parser(st, e, x) EXCEPT !.stack = su] = Parser(su, e, x)
BY DEF Parser

LEMMA FeedValues ==
    ASSUME NEW st, NEW x, NEW t
    PROVE  Feed(Parser(st, "value", x), t) = FeedValue(Parser(st, "value", x), t)
<1> DEFINE p == Parser(st, "value", x)
<1>1. p.expect = "value"
  BY ParserFields
<1> HIDE DEF p
<1>2. ~Closes(p, t)
  BY <1>1 DEF Closes
<1>3. Feed(p, t) = FeedValue(p, t)
  BY <1>1, <1>2, FeedFirst
<1> QED
  BY <1>3 DEF p

LEMMA FeedKinds ==
    ASSUME NEW p, NEW t
    PROVE  /\ t.kind = "number" => FeedValue(p, t) = Complete(p, Number(Double(t.number)))
           /\ t.kind = "string" => FeedValue(p, t) = CompleteString(p, ParseString(t.raw))
           /\ t.kind = "{" => FeedValue(p, t) = Open(p, "Object")
BY DEF FeedValue, Literals

LEMMA CompletesAlike ==
    \A p, q, x : p.stack = q.stack => Complete(p, x) = Complete(q, x)
BY DEF Complete, Top

\* A level with the item x as one member more, under the name that was read.
Holding(level, x) == [level EXCEPT !.members = Append(@, Member(level.name, x))]

LEMMA CompletesInside ==
    ASSUME NEW L, NEW st \in Seq(L), NEW level, NEW e, NEW y, NEW x
    PROVE  Complete(Parser(Append(st, level), e, y), x) =
           Parser(Append(st, Holding(level, x)), "end", NullItem)
<1> DEFINE p == Parser(Append(st, level), e, y)
<1>1. p.stack = Append(st, level)
  BY ParserFields
<1>2. /\ Append(st, level) # <<>> /\ Last(Append(st, level)) = level
      /\ Front(Append(st, level)) = st
  BY ZenonT(40), StackIs
<1> HIDE DEF p
<1>3. p.stack # <<>> /\ Top(p) = level /\ Front(p.stack) = st
  BY <1>1, <1>2 DEF Top
<1>4. Complete(p, x) =
      Parser(Append(Front(p.stack),
                    [Top(p) EXCEPT !.members = Append(@, Member(Top(p).name, x))]),
             "end", NullItem)
  BY <1>3 DEF Complete
<1> QED
  BY <1>3, <1>4 DEF p, Holding

\* The parser completes a number or a string that was printed.
LEMMA LeavesFed ==
    ASSUME NEW st, NEW y
    PROVE  LET p == Parser(st, "value", y)
           IN  /\ \A n : Feed(p, NumberToken(n)) = Complete(p, Number(Double(n)))
               /\ \A s \in Seq(Nat) : Feed(p, StringToken(s)) = Complete(p, String(s))
<1> DEFINE p == Parser(st, "value", y)
<1>1. \A t : Feed(p, t) = FeedValue(p, t)
  BY FeedValues
<1> HIDE DEF p
<1>2. ASSUME NEW n
      PROVE  Feed(p, NumberToken(n)) = Complete(p, Number(Double(n)))
  <2>1. NumberToken(n).kind = "number" /\ NumberToken(n).number = n
    BY TokenFields
  <2> QED
    BY <1>1, <2>1, FeedKinds
<1>3. ASSUME NEW s \in Seq(Nat)
      PROVE  Feed(p, StringToken(s)) = Complete(p, String(s))
  <2>1. StringToken(s).kind = "string" /\ StringToken(s).raw = PrintString(s)
    BY TokenFields
  <2>2. ParseString(PrintString(s)) = [ok |-> TRUE, bytes |-> s]
    BY StringComesBack
  <2>3. Feed(p, StringToken(s)) = CompleteString(p, ParseString(PrintString(s)))
    BY <1>1, <2>1, FeedKinds
  <2> QED
    BY <2>2, <2>3 DEF CompleteString
<1> QED
  BY <1>2, <1>3 DEF p

\* The name of a member and the colon behind it.
LEMMA NamesFed ==
    ASSUME NEW L, NEW st \in Seq(L), NEW level, level.type = "Object",
           NEW e \in {"first", "member"}, NEW y, NEW name \in Seq(Nat)
    PROVE  Feed(Feed(Parser(Append(st, level), e, y), StringToken(name)), Mark(":")) =
           Parser(Append(st, [level EXCEPT !.name = name]), "value", y)
<1> DEFINE p == Parser(Append(st, level), e, y)
           t == StringToken(name)
           s == ParseString(PrintString(name))
           named == [level EXCEPT !.name = name]
           q == Parser(Append(st, named), "colon", y)
<1>1. p.stack = Append(st, level) /\ p.expect = e /\ p.item = y
  BY DEF Parser
<1>2. t.kind = "string" /\ t.raw = PrintString(name)
  BY TokenFields
<1>3. s = [ok |-> TRUE, bytes |-> name]
  BY StringComesBack
<1> DEFINE a == Append(st, level)
           n == Len(a)
<1>4. /\ Last(a) = level
      /\ [a EXCEPT ![n] = named] = Append(st, named)
  <2>1. Last(a) = level
    BY StackIs
  <2>2. \A z : [Append(st, level) EXCEPT ![Len(Append(st, level))] = z] = Append(st, z)
    BY StackTop
  <2>3. [a EXCEPT ![n] = named] = Append(st, named)
    BY <2>2, Zenon
  <2> QED
    BY <2>1, <2>3
<1>11. a[n] = level
  BY <1>4 DEF Last
<1>5. Feed(p, t) = FeedName(p, t)
  <2>1. Top(p) = level
    BY <1>1, <1>4 DEF Top
  <2>2. Brackets["Object"] = <<"{", "}">>
    BY ItemsAre
  <2>3. Brackets[Top(p).type][2] = "}"
    <3> DEFINE b == Brackets["Object"]
    <3>1. b = <<"{", "}">>
      BY <2>2
    <3> HIDE DEF b
    <3>2. b[2] = "}"
      BY <3>1
    <3> QED
      BY <2>1, <3>2 DEF b
  <2> HIDE DEF p, t
  <2>4. ~Closes(p, t)
    BY <1>2, <2>3 DEF Closes
  <2>5. AtMember(p) /\ p.expect # "value" /\ Top(p).type # "Array"
    BY <1>1, <2>1 DEF AtMember
  <2> QED
    BY <2>4, <2>5, FeedMember
<1>6. FeedName(p, t) = NameMember(p, s)
  BY <1>2 DEF FeedName
<1>7. NameMember(p, s) = [p EXCEPT !.stack[Len(p.stack)].name = name, !.expect = "colon"]
  <2> HIDE DEF p, s
  <2> QED
    BY <1>3 DEF NameMember
<1>8. [p EXCEPT !.stack[Len(p.stack)].name = name, !.expect = "colon"] = q
  <2>1. [a EXCEPT ![n].name = name] = Append(st, named)
    <3> HIDE DEF a, n
    <3>1. [a EXCEPT ![n].name = name] = [a EXCEPT ![n] = [a[n] EXCEPT !.name = name]]
      OBVIOUS
    <3> QED
      BY <1>4, <1>11, <3>1
  <2>2. [p EXCEPT !.stack[Len(p.stack)].name = name, !.expect = "colon"] =
        [p EXCEPT !.stack = [a EXCEPT ![n].name = name], !.expect = "colon"]
    <3>1. p.stack = a
      BY <1>1
    <3> HIDE DEF p, a
    <3> QED
      BY <3>1
  <2>3. \A b : [p EXCEPT !.stack = b, !.expect = "colon"] = Parser(b, "colon", y)
    <3> TAKE b
    <3>1. p = Parser(a, e, y)
      OBVIOUS
    <3> HIDE DEF a, p
    <3>2. [p EXCEPT !.stack = b, !.expect = "colon"] =
          [[p EXCEPT !.stack = b] EXCEPT !.expect = "colon"]
      BY <3>1
    <3>3. [p EXCEPT !.stack = b] = Parser(b, e, y)
      BY <3>1, ParserChanges
    <3>4. [Parser(b, e, y) EXCEPT !.expect = "colon"] = Parser(b, "colon", y)
      BY ParserChanges
    <3> QED
      BY <3>2, <3>3, <3>4
  <2> HIDE DEF a, n, p
  <2> QED
    BY <2>1, <2>2, <2>3
<1>9. Feed(q, Mark(":")) = [q EXCEPT !.expect = "value"]
  <2> DEFINE m == Mark(":")
  <2>1. q.expect = "colon" /\ m.kind = ":"
    BY ParserFields, TokenFields
  <2> HIDE DEF q, m
  <2>2. ~Closes(q, m) /\ ~AtMember(q)
    BY <2>1 DEF Closes, AtMember
  <2>3. Feed(q, m) = [q EXCEPT !.expect = "value"]
    BY <2>1, <2>2, FeedColon
  <2> QED
    BY <2>3 DEF m
<1>10. [q EXCEPT !.expect = "value"] = Parser(Append(st, named), "value", y)
  <2> DEFINE c == Append(st, named)
  <2>1. q = Parser(c, "colon", y)
    OBVIOUS
  <2> HIDE DEF c, q
  <2>2. [q EXCEPT !.expect = "value"] = Parser(c, "value", y)
    BY <2>1, ParserChanges
  <2> QED
    BY <2>2 DEF c
<1> QED
  BY <1>5, <1>6, <1>7, <1>8, <1>9, <1>10

\* An opening and a closing brace.
LEMMA OpensFed ==
    ASSUME NEW L, NEW st \in Seq(L), Len(st) < NestingLimit, NEW y
    PROVE  Feed(Parser(st, "value", y), Mark("{")) =
           Parser(Append(st, Level("Object")), "first", NullItem)
<1> DEFINE p == Parser(st, "value", y)
<1>1. Feed(p, Mark("{")) = FeedValue(p, Mark("{"))
  BY FeedValues
<1>2. Mark("{").kind = "{"
  BY TokenFields
<1>3. FeedValue(p, Mark("{")) = Open(p, "Object")
  BY <1>2, FeedKinds
<1>4. p.stack = st
  BY ParserFields
<1>5. ~(Len(st) >= NestingLimit)
  BY LenProperties, NestingAssumption
<1> HIDE DEF p
<1>6. Open(p, "Object") = Parser(Append(st, Level("Object")), "first", NullItem)
  BY <1>4, <1>5 DEF Open
<1> QED
  BY <1>1, <1>3, <1>6 DEF p

LEMMA BracesAre ==
    Brackets["Object"][1] = "{" /\ Brackets["Object"][2] = "}"
<1> DEFINE b == Brackets["Object"]
<1>1. b = <<"{", "}">>
  BY ItemsAre
<1> HIDE DEF b
<1>2. b[1] = "{" /\ b[2] = "}"
  BY <1>1
<1> QED
  BY <1>2 DEF b

LEMMA ClosesFed ==
    ASSUME NEW L, NEW st \in Seq(L), NEW level, level.type = "Object", NEW y, NEW z
    PROVE  /\ Feed(Parser(Append(st, level), "first", y), Mark("}")) =
              Complete(Parser(st, "value", z), Object(level.members))
           /\ Feed(Parser(Append(st, level), "end", y), Mark("}")) =
              Complete(Parser(st, "value", z), Object(level.members))
<1>1. ASSUME NEW e, e = "first" \/ e = "end"
      PROVE  Feed(Parser(Append(st, level), e, y), Mark("}")) =
             Complete(Parser(st, "value", z), Object(level.members))
  <2> DEFINE p == Parser(Append(st, level), e, y)
             q == Parser(st, "value", z)
             r == [p EXCEPT !.stack = Front(@)]
             t == Mark("}")
  <2>1. p.stack = Append(st, level) /\ p.expect = e /\ q.stack = st
    BY DEF Parser
  <2>2. Last(Append(st, level)) = level /\ Front(Append(st, level)) = st
    BY StackIs
  <2>3. t.kind = "}"
    BY TokenFields
  <2>4. r.stack = st
    <3>1. r = [p EXCEPT !.stack = Front(p.stack)]
      OBVIOUS
    <3>2. [p EXCEPT !.stack = st] = Parser(st, e, y)
      BY ParserChanges
    <3> HIDE DEF p
    <3>3. r = Parser(st, e, y)
      BY <2>1, <2>2, <3>1, <3>2
    <3> HIDE DEF r
    <3> QED
      BY <3>3 DEF Parser
  <2> HIDE DEF p, q, t
  <2>5. Top(p) = level
    BY <2>1, <2>2 DEF Top
  <2>6. Closes(p, t)
    BY <1>1, <2>1, <2>3, <2>5, BracesAre DEF Closes
  <2>7. Feed(p, t) = Close(p)
    BY <2>6, FeedCloses
  <2>8. Close(p) = Complete(r, Object(level.members))
    BY <2>5 DEF Close, Object
  <2> HIDE DEF r
  <2>9. Complete(r, Object(level.members)) = Complete(q, Object(level.members))
    <3>1. r.stack = q.stack
      BY <2>1, <2>4
    <3> QED
      BY <3>1, CompletesAlike
  <2> QED
    BY <2>7, <2>8, <2>9 DEF p, q, t
<1> QED
  BY <1>1

\* The parser completes what was printed of an item inside.
LEMMA SimpleFed ==
    ASSUME NEW L, NEW st \in Seq(L), Len(st) < NestingLimit, NEW y, NEW x, Simple(Nat, x)
    PROVE  Fed(Parser(st, "value", y), PrintInner(x)) =
           Complete(Parser(st, "value", y), Back(x))
<1> DEFINE p == Parser(st, "value", y)
           level == Level("Object")
           open == Parser(Append(st, level), "first", NullItem)
<1>1. \A t : Fed(p, <<t>>) = Feed(p, t)
  BY FedOne
<1>2. /\ \A n : Feed(p, NumberToken(n)) = Complete(p, Number(Double(n)))
      /\ \A s \in Seq(Nat) : Feed(p, StringToken(s)) = Complete(p, String(s))
  BY LeavesFed
<1>3. Feed(p, Mark("{")) = open
  BY OpensFed
<1>4. /\ level.type = "Object" /\ level.members = <<>>
  BY DEF Level
<1>10. level = [type |-> "Object", members |-> <<>>, name |-> Unnamed]
  BY DEF Level
<1> HIDE DEF p, level
<1>6. CASE \E n \in Int : x = Number(n)
  <2>1. PICK n \in Int : x = Number(n)
    BY <1>6
  <2>2. Back(x) = Number(Double(PrintNumber(n)))
    BY <2>1, ItemsAre DEF Back
  <2>3. PrintInner(x) = <<NumberToken(PrintNumber(n))>>
    BY <2>1, PrintInnerIs
  <2> QED
    BY <1>1, <1>2, <2>2, <2>3 DEF p
<1>7. CASE \E s \in Seq(Nat) : x = String(s)
  <2>1. PICK s \in Seq(Nat) : x = String(s)
    BY <1>7
  <2>2. Back(x) = x
    BY <2>1, ItemsAre DEF Back
  <2>3. PrintInner(x) = <<StringToken(s)>>
    BY <2>1, PrintInnerIs
  <2> QED
    BY <1>1, <1>2, <2>1, <2>2, <2>3 DEF p
<1>8. CASE \E name \in Seq(Nat), s \in Seq(Nat) :
              name # Unnamed /\ x = Object(<<Member(name, String(s))>>)
  <2>1. PICK name \in Seq(Nat), s \in Seq(Nat) :
              name # Unnamed /\ x = Object(<<Member(name, String(s))>>)
    BY <1>8
  <2> DEFINE named == [level EXCEPT !.name = name]
             full == [named EXCEPT !.members = Append(@, Member(named.name, String(s)))]
             q == Parser(Append(st, named), "value", NullItem)
             r == Parser(Append(st, full), "end", NullItem)
  <2>2. Back(x) = x
    BY <2>1, ItemsAre DEF Back
  <2>3. PrintInner(x) = <<Mark("{"), StringToken(name), Mark(":"), StringToken(s), Mark("}")>>
    BY <2>1, InnerObjectIs
  <2>4. Fed(p, PrintInner(x)) =
        Feed(Feed(Feed(Feed(Feed(p, Mark("{")), StringToken(name)), Mark(":")), StringToken(s)),
             Mark("}"))
    <3> DEFINE a == Mark("{")
               b == StringToken(name)
               c == Mark(":")
               d == StringToken(s)
               f == Mark("}")
    <3> HIDE DEF a, b, c, d, f
    <3>1. Fed(p, <<a, b, c, d, f>>) = Feed(Feed(Feed(Feed(Feed(p, a), b), c), d), f)
      BY FedFive
    <3> QED
      BY <2>3, <3>1 DEF a, b, c, d, f
  <2>5. Feed(Feed(open, StringToken(name)), Mark(":")) = q
    BY <1>4, NamesFed
  <2>6. Feed(q, StringToken(s)) = Complete(q, String(s))
    BY LeavesFed
  <2>7. Complete(q, String(s)) = r
    <3> DEFINE w == String(s)
    <3> HIDE DEF named, w
    <3>1. Complete(Parser(Append(st, named), "value", NullItem), w) =
          Parser(Append(st, Holding(named, w)), "end", NullItem)
      BY CompletesInside
    <3>2. Holding(named, w) = full
      BY DEF Holding, w
    <3> QED
      BY <3>1, <3>2 DEF q, r, w
  <2>8. full.type = "Object" /\ full.members = <<Member(name, String(s))>>
    <3>1. named = [type |-> "Object", members |-> <<>>, name |-> name]
      BY SMTT(40) DEF level, Level
    <3> HIDE DEF named
    <3>2. full = [type |-> "Object", members |-> Append(<<>>, Member(name, String(s))),
                  name |-> name]
      BY <3>1
    <3>3. Append(<<>>, Member(name, String(s))) = <<Member(name, String(s))>>
      OBVIOUS
    <3> HIDE DEF full
    <3> QED
      BY <3>2, <3>3
  <2>9. Feed(r, Mark("}")) = Complete(p, Object(full.members))
    <3> HIDE DEF full
    <3> QED
      BY <2>8, ClosesFed DEF p
  <2> HIDE DEF q, r, named, full, open
  <2> QED
    BY <1>3, <2>1, <2>2, <2>4, <2>5, <2>6, <2>7, <2>8, <2>9 DEF p
<1>9. CASE x = Object(<<>>)
  <2>1. Back(x) = x
    BY <1>9, ItemsAre DEF Back
  <2>2. Fed(p, PrintInner(x)) = Feed(Feed(p, Mark("{")), Mark("}"))
    <3>1. PrintInner(x) = <<Mark("{"), Mark("}")>>
      BY <1>9, InnerObjectIs
    <3>2. \A a, b : Fed(p, <<a, b>>) = Feed(Feed(p, a), b)
      BY FedTwo, Zenon
    <3> QED
      BY <3>1, <3>2, Zenon
  <2>3. Feed(open, Mark("}")) = Complete(p, Object(level.members))
    <3>2. Feed(Parser(Append(st, level), "first", NullItem), Mark("}")) =
          Complete(Parser(st, "value", y), Object(level.members))
      BY <1>4, ClosesFed
    <3> QED
      BY <3>2 DEF p
  <2> HIDE DEF open
  <2> QED
    BY <1>3, <1>4, <1>9, <2>1, <2>2, <2>3 DEF p
<1> QED
  BY <1>6, <1>7, <1>8, <1>9 DEF Simple

\* Lists of members with such items.
MemberList(S, ms) ==
    /\ Len(ms) \in Nat /\ ms = [i \in 1 .. Len(ms) |-> ms[i]]
    /\ \A i \in 1 .. Len(ms) :
           /\ ms[i].name \in Seq(S) /\ ms[i].name # Unnamed
           /\ Simple(S, ms[i].item)

\* The object of such members when the parser has i of them.
SoFar(ms, i) ==
    [type    |-> "Object",
     members |-> [j \in 1 .. i |-> Member(ms[j].name, Back(ms[j].item))],
     name    |-> IF i = 0 THEN Unnamed ELSE ms[i].name]

InObject(ms, i) ==
    Parser(Append(<<>>, SoFar(ms, i)),
           IF i = 0 THEN "first" ELSE IF i < Len(ms) THEN "member" ELSE "end", NullItem)

LEMMA PartsTyped ==
    ASSUME NEW S, S \subseteq Nat, Bytes \ {0} \subseteq S, NEW ms, MemberList(S, ms)
    PROVE  /\ OuterParts(ms) \in Seq(Seq(Tokens(S)))
           /\ Len(OuterParts(ms)) = Len(ms)
           /\ \A i \in 1 .. Len(ms) :
                  /\ OuterParts(ms)[i] =
                     <<StringToken(ms[i].name), Mark(":")>> \o PrintInner(ms[i].item)
                     \o Behind(i, Len(ms))
                  /\ <<StringToken(ms[i].name), Mark(":")>> \in Seq(Tokens(S))
                  /\ PrintInner(ms[i].item) \in Seq(Tokens(S))
                  /\ Behind(i, Len(ms)) \in Seq(Tokens(S))
<1> DEFINE n == Len(ms)
           parts == OuterParts(ms)
<1>1. n \in Nat /\ DOMAIN ms = 1 .. n
  BY DEF MemberList
<1>2. ":" \in Kinds /\ "," \in Kinds
  BY DEF Kinds
<1>3. ASSUME NEW i \in 1 .. n
      PROVE  /\ Named(ms[i]) = <<StringToken(ms[i].name), Mark(":")>>
             /\ <<StringToken(ms[i].name), Mark(":")>> \in Seq(Tokens(S))
             /\ PrintInner(ms[i].item) \in Seq(Tokens(S))
             /\ Behind(i, n) \in Seq(Tokens(S))
  <2>1. ms[i].name \in Seq(S) /\ ms[i].name # Unnamed /\ Simple(S, ms[i].item)
    BY DEF MemberList
  <2>2. Named(ms[i]) = <<StringToken(ms[i].name), Mark(":")>>
    BY <2>1 DEF Named
  <2>3. StringToken(ms[i].name) \in Tokens(S) /\ Mark(":") \in Tokens(S) /\ Mark(",") \in Tokens(S)
    BY <1>2, <2>1, TokensAre
  <2>4. <<StringToken(ms[i].name), Mark(":")>> \in Seq(Tokens(S))
    BY <2>3, TuplesTyped
  <2>5. PrintInner(ms[i].item) \in Seq(Tokens(S))
    BY <2>1, SimpleTyped
  <2>6. Behind(i, n) \in Seq(Tokens(S))
    <3>1. <<>> \in Seq(Tokens(S))
      BY EmptySeq
    <3>2. <<Mark(",")>> \in Seq(Tokens(S))
      BY <2>3, TuplesTyped
    <3> QED
      BY <3>1, <3>2 DEF Behind
  <2> QED
    BY <2>2, <2>4, <2>5, <2>6
<1> HIDE DEF n
<1>4. parts = [i \in 1 .. n |-> Named(ms[i]) \o PrintInner(ms[i].item) \o Behind(i, n)]
  BY <1>1 DEF OuterParts, n
<1> HIDE DEF parts
<1>5. ASSUME NEW i \in 1 .. n
      PROVE  /\ parts[i] = <<StringToken(ms[i].name), Mark(":")>> \o PrintInner(ms[i].item)
                           \o Behind(i, n)
             /\ parts[i] \in Seq(Tokens(S))
  <2> DEFINE a == <<StringToken(ms[i].name), Mark(":")>>
             b == PrintInner(ms[i].item)
             c == Behind(i, n)
             T == Tokens(S)
  <2>1. parts[i] = Named(ms[i]) \o b \o c
    BY <1>4
  <2>2. Named(ms[i]) = a /\ a \in Seq(T) /\ b \in Seq(T) /\ c \in Seq(T)
    BY <1>3
  <2> HIDE DEF a, b, c, T
  <2>3. parts[i] = a \o b \o c
    BY <2>1, <2>2
  <2>4. a \o b \o c \in Seq(T)
    BY <2>2, ConcatProperties
  <2> QED
    BY <2>3, <2>4 DEF a, b, c, T
<1>6. parts \in Seq(Seq(Tokens(S))) /\ Len(parts) = n
  <2>1. \A i \in 1 .. n : parts[i] \in Seq(Tokens(S))
    BY <1>5
  <2> QED
    BY <1>1, <1>4, <2>1
<1> QED
  BY <1>3, <1>5, <1>6 DEF n, parts

\* One member: its name, its item and the comma behind it, if there is one.
WithMember(level, name, item) ==
    LET named == [level EXCEPT !.name = name]
    IN  [named EXCEPT !.members = Append(@, Member(named.name, item))]

LEMMA MemberFed ==
    ASSUME NEW L, NEW st \in Seq(L), Len(st) + 1 < NestingLimit,
           NEW level, level.type = "Object", NEW e \in {"first", "member"}, NEW y,
           NEW name \in Seq(Nat), NEW x, Simple(Nat, x)
    PROVE  Fed(Fed(Parser(Append(st, level), e, y), <<StringToken(name), Mark(":")>>),
               PrintInner(x)) =
           Parser(Append(st, WithMember(level, name, Back(x))), "end", NullItem)
<1> DEFINE named == [level EXCEPT !.name = name]
           full == [named EXCEPT !.members = Append(@, Member(named.name, Back(x)))]
           p == Parser(Append(st, level), e, y)
           q == Parser(Append(st, named), "value", y)
           t == StringToken(name)
           u == Mark(":")
<1>1. Fed(p, <<t, u>>) = q
  <2>2. Feed(Feed(p, t), u) = q
    BY NamesFed
  <2> HIDE DEF p, t, u, q
  <2>3. Fed(p, <<t, u>>) = Feed(Feed(p, t), u)
    BY FedTwo
  <2> QED
    BY <2>2, <2>3
<1>2. Fed(q, PrintInner(x)) = Complete(q, Back(x))
  <2> DEFINE M == L \union {named}
             a == Append(st, named)
  <2> HIDE DEF named
  <2>1. a \in Seq(M) /\ Len(a) = Len(st) + 1
    BY StackIs
  <2> HIDE DEF a, M
  <2>2. Len(a) < NestingLimit
    BY <2>1
  <2>3. Fed(Parser(a, "value", y), PrintInner(x)) = Complete(Parser(a, "value", y), Back(x))
    BY <2>1, <2>2, SimpleFed
  <2> QED
    BY <2>3 DEF a
<1>3. Complete(q, Back(x)) = Parser(Append(st, full), "end", NullItem)
  <2> DEFINE w == Back(x)
  <2> HIDE DEF named, w
  <2>1. Complete(Parser(Append(st, named), "value", y), w) =
        Parser(Append(st, Holding(named, w)), "end", NullItem)
    BY CompletesInside
  <2>2. Holding(named, w) = full
    BY DEF Holding, w
  <2> QED
    BY <2>1, <2>2 DEF w
<1> QED
  BY <1>1, <1>2, <1>3 DEF WithMember

LEMMA PartFed ==
    ASSUME NEW S, S \subseteq Nat, Bytes \ {0} \subseteq S, NEW ms, MemberList(S, ms),
           NEW i \in 1 .. Len(ms)
    PROVE  Fed(InObject(ms, i - 1), OuterParts(ms)[i]) = InObject(ms, i)
<1> DEFINE n == Len(ms)
           T == Tokens(S)
           st == <<>>
           name == ms[i].name
           x == ms[i].item
           level == SoFar(ms, i - 1)
           full == WithMember(level, name, Back(x))
           L == {level, full}
           e == IF i - 1 = 0 THEN "first" ELSE IF i - 1 < n THEN "member" ELSE "end"
           p == Parser(Append(st, level), e, NullItem)
           r == Parser(Append(st, full), "end", NullItem)
           a == <<StringToken(name), Mark(":")>>
           b == PrintInner(x)
           c == Behind(i, n)
<1>1. n \in Nat /\ i \in Nat /\ i >= 1 /\ i <= n
  BY DEF MemberList
<1>2. name \in Seq(S) /\ Simple(S, x)
  BY DEF MemberList
<1>3. /\ OuterParts(ms)[i] = a \o b \o c
      /\ a \in Seq(T) /\ b \in Seq(T) /\ c \in Seq(T)
  BY PartsTyped
<1>4. st \in Seq(L) /\ Len(st) = 0
  BY EmptySeq
<1>5. Fed(Fed(p, a), b) = r
  <2>1. e \in {"first", "member"}
    BY <1>1
  <2>2. level.type = "Object"
    BY DEF SoFar
  <2>3. Len(st) + 1 < NestingLimit
    BY <1>4, NestingAssumption
  <2>4. st \in Seq(L)
    BY <1>4
  <2>5. name \in Seq(Nat)
    BY <1>2, SeqMonotonic
  <2>6. Simple(Nat, x)
    BY <1>2, SimpleOver
  <2> HIDE DEF e, level, name, x, st, L
  <2> QED
    BY <2>1, <2>2, <2>3, <2>4, <2>5, <2>6, MemberFed
<1>7. full = SoFar(ms, i)
  <2> DEFINE m == [j \in 1 .. i - 1 |-> Member(ms[j].name, Back(ms[j].item))]
             k == [j \in 1 .. i |-> Member(ms[j].name, Back(ms[j].item))]
             named == [level EXCEPT !.name = name]
             old == IF i - 1 = 0 THEN Unnamed ELSE ms[i - 1].name
  <2>1. level = [type |-> "Object", members |-> m, name |-> old]
    BY DEF SoFar
  <2> HIDE DEF level, old, m, name, x
  <2>2. named = [type |-> "Object", members |-> m, name |-> name]
    BY <2>1
  <2>6. full = [named EXCEPT !.members = Append(@, Member(named.name, Back(x)))]
    BY DEF WithMember
  <2> HIDE DEF named, full
  <2>3. full = [type |-> "Object", members |-> Append(m, Member(name, Back(x))), name |-> name]
    BY <2>2, <2>6
  <2>4. Append(m, Member(name, Back(x))) = k
    <3> DEFINE new == Member(name, Back(x))
               U == {Member(ms[j].name, Back(ms[j].item)) : j \in 1 .. i}
    <3>1. m \in Seq(U) /\ Len(m) = i - 1 /\ k \in Seq(U) /\ Len(k) = i /\ k[i] = new
          /\ \A j \in 1 .. i - 1 : k[j] = m[j]
      <4> DEFINE W(j) == Member(ms[j].name, Back(ms[j].item))
      <4>1. i \in Nat /\ i - 1 \in Nat /\ i \in 1 .. i /\ \A j \in 1 .. i - 1 : j \in 1 .. i
        BY <1>1
      <4>2. U = {W(j) : j \in 1 .. i} /\ new = W(i)
        BY DEF name, x
      <4>3. m = [j \in 1 .. i - 1 |-> W(j)] /\ k = [j \in 1 .. i |-> W(j)]
        BY DEF m
      <4> HIDE DEF W, U, new, k
      <4>4. \A j \in 1 .. i : W(j) \in U
        BY ONLY <4>2
      <4>5. k \in Seq(U) /\ Len(k) = i
        BY ONLY <4>1, <4>3, <4>4
      <4>6. m \in Seq(U) /\ Len(m) = i - 1
        BY ONLY <4>1, <4>3, <4>4
      <4> QED
        BY ONLY <4>1, <4>2, <4>3, <4>5, <4>6
    <3>2. new \in U
      BY <1>1 DEF name, x
    <3> HIDE DEF new, U, k
    <3>3. /\ Append(m, new) \in Seq(U) /\ Len(Append(m, new)) = i
          /\ Append(m, new)[i] = new /\ \A j \in 1 .. i - 1 : Append(m, new)[j] = m[j]
      BY <1>1, <3>1, <3>2, AppendProperties
    <3>4. \A j \in 1 .. i : Append(m, new)[j] = k[j]
      BY <1>1, <3>1, <3>3
    <3>5. Append(m, new) = k
      BY <3>1, <3>3, <3>4, SeqEqual
    <3> QED
      BY <3>5 DEF new
  <2>5. SoFar(ms, i) = [type |-> "Object", members |-> k, name |-> name]
    BY <1>1 DEF SoFar, name
  <2> HIDE DEF k
  <2> QED
    BY <2>3, <2>4, <2>5
<1>8. Fed(r, c) = InObject(ms, i)
  <2> DEFINE s == Parser(Append(st, full), "member", NullItem)
  <2>0. i # 0
    BY <1>1
  <2>1. CASE i < n
    <3> DEFINE t == Mark(",")
    <3>1. c = <<t>>
      BY <2>1 DEF Behind
    <3>2. InObject(ms, i) = s
      <4> HIDE DEF full
      <4> QED
        BY <1>7, <2>0, <2>1 DEF InObject
    <3>3. r.expect = "end" /\ r.stack = Append(st, full)
      BY ParserFields
    <3>4. t.kind = ","
      BY TokenFields
    <3>6. Last(Append(st, full)) = full
      <4> HIDE DEF full, L, st
      <4> QED
        BY <1>4, StackIs
    <3>7. full.type = "Object"
      <4> HIDE DEF full
      <4> QED
        BY <1>7 DEF SoFar
    <3>8. [r EXCEPT !.expect = "member"] = s
      <4> HIDE DEF full
      <4> QED
        BY ParserChanges
    <3> HIDE DEF r, t, full, s, c
    <3>9. Top(r).type = "Object"
      BY <3>3, <3>6, <3>7 DEF Top
    <3>10. ~Closes(r, t) /\ ~AtMember(r)
      BY <3>3, <3>4, <3>9, BracesAre DEF Closes, AtMember
    <3>11. Feed(r, t) = [r EXCEPT !.expect = "member"]
      BY <3>3, <3>4, <3>10, FeedComma
    <3>12. Fed(r, <<t>>) = Feed(r, t)
      BY FedOne
    <3> QED
      BY <3>1, <3>2, <3>8, <3>11, <3>12
  <2>2. CASE ~(i < n)
    <3>1. c = <<>>
      BY <2>2 DEF Behind
    <3> HIDE DEF full, c, n
    <3>2. InObject(ms, i) = r
      BY <1>7, <2>0, <2>2 DEF InObject, n
    <3>3. Fed(r, <<>>) = r
      BY FedOne
    <3> QED
      BY <3>1, <3>2, <3>3
  <2> QED
    BY <2>1, <2>2
<1>9. InObject(ms, i - 1) = p
  BY DEF InObject
<1> HIDE DEF T, p, r, a, b, c
<1>10. Fed(p, a \o b \o c) = Fed(r, c)
  <2>1. a \o b \in Seq(T)
    BY <1>3, ConcatProperties
  <2>2. Fed(p, (a \o b) \o c) = Fed(Fed(p, a \o b), c)
    BY <1>3, <2>1, FedBoth
  <2>3. Fed(p, a \o b) = Fed(Fed(p, a), b)
    BY <1>3, FedBoth
  <2> QED
    BY <1>5, <2>2, <2>3
<1> QED
  BY <1>3, <1>8, <1>9, <1>10

\* The text of such an object is parsed as that object, but for numbers, and what lacks the
\* last brace as nothing.
Returned(ms) == [j \in 1 .. Len(ms) |-> Member(ms[j].name, Back(ms[j].item))]

LEMMA MembersFed ==
    ASSUME NEW S, S \subseteq Nat, Bytes \ {0} \subseteq S, NEW ms, MemberList(S, ms)
    PROVE  /\ FlattenSeq(OuterParts(ms)) \in Seq(Tokens(S))
           /\ Fed(InObject(ms, 0), FlattenSeq(OuterParts(ms))) = InObject(ms, Len(ms))
<1> DEFINE n == Len(ms)
           seqs == OuterParts(ms)
           T == Tokens(S)
           p == InObject(ms, 0)
           D == {i \in 0 .. n : Fed(p, FlatTo(seqs, i)) = InObject(ms, i)}
<1>1. n \in Nat
  BY DEF MemberList
<1>2. seqs \in Seq(Seq(T)) /\ Len(seqs) = n
  BY PartsTyped
<1>3. \A i \in 1 .. n : Fed(InObject(ms, i - 1), seqs[i]) = InObject(ms, i)
  BY PartFed
<1>4. seqs[1] = seqs[1] /\ \A i \in 1 .. n : seqs[i] \in Seq(T)
  <2> HIDE DEF seqs, T
  <2> QED
    BY <1>1, <1>2, ElementOfSeq
<1> HIDE DEF seqs, T, p
<1>5. /\ \A i \in 0 .. n : FlatTo(seqs, i) \in Seq(T)
      /\ \A i \in 1 .. n : FlatTo(seqs, i) = FlatTo(seqs, i - 1) \o seqs[i]
      /\ FlattenSeq(seqs) = FlatTo(seqs, n)
  <2>1. /\ \A i \in 0 .. Len(seqs) : FlatTo(seqs, i) \in Seq(T)
        /\ \A i \in 1 .. Len(seqs) : FlatTo(seqs, i) = FlatTo(seqs, i - 1) \o seqs[i]
        /\ FlattenSeq(seqs) = FlatTo(seqs, Len(seqs))
    BY <1>2, FlatSteps
  <2> QED
    BY <1>2, <2>1
<1> HIDE DEF n
<1>6. 0 \in D
  <2>1. FlatTo(seqs, 0) = <<>>
    BY DEF FlatTo
  <2>2. Fed(p, <<>>) = p
    BY FedOne
  <2>3. Fed(p, FlatTo(seqs, 0)) = InObject(ms, 0)
    BY <2>1, <2>2 DEF p
  <2> QED
    BY <1>1, <2>3
<1>7. ASSUME NEW i \in 0 .. n - 1, i \in D
      PROVE  i + 1 \in D
  <2>1. i + 1 \in 1 .. n /\ i + 1 \in 0 .. n /\ (i + 1) - 1 = i /\ i \in 0 .. n
    BY <1>1
  <2>2. FlatTo(seqs, i + 1) = FlatTo(seqs, i) \o seqs[i + 1]
    BY <1>5, <2>1
  <2>3. FlatTo(seqs, i) \in Seq(T) /\ seqs[i + 1] \in Seq(T)
    BY <1>4, <1>5, <2>1
  <2>4. Fed(p, FlatTo(seqs, i) \o seqs[i + 1]) = Fed(Fed(p, FlatTo(seqs, i)), seqs[i + 1])
    BY <2>3, FedBoth
  <2>5. Fed(InObject(ms, i), seqs[i + 1]) = InObject(ms, i + 1)
    BY <1>3, <2>1
  <2>6. Fed(p, FlatTo(seqs, i)) = InObject(ms, i)
    BY <1>7
  <2>7. Fed(p, FlatTo(seqs, i + 1)) = InObject(ms, i + 1)
    BY <2>2, <2>4, <2>5, <2>6
  <2> QED
    BY <2>1, <2>7
<1> HIDE DEF D
<1>8. \A i \in 0 .. n : i \in D
  BY <1>1, <1>6, <1>7, UpTo
<1>9. n \in D /\ n \in 0 .. n
  BY <1>1, <1>8
<1>10. Fed(p, FlatTo(seqs, n)) = InObject(ms, n)
  BY <1>9 DEF D
<1> QED
  BY <1>5, <1>9, <1>10 DEF n, seqs, T, p

\* cJSON_Parse after cJSON_Print: the parser gets back every name, every string and every
\* bracket that the printer wrote, and every number up to its digits, from whatever object of
\* numbers, strings and objects of one string; a text whose last brace is cut off gives NULL.
THEOREM ObjectComesBack ==
    ASSUME NEW S, S \subseteq Nat, Bytes \ {0} \subseteq S, NEW ms, MemberList(S, ms)
    PROVE  /\ PrintText(Object(ms)) \in Seq(Tokens(S))
           /\ Front(PrintText(Object(ms))) \in Seq(Tokens(S))
           /\ Parse(PrintText(Object(ms))) = Object(Returned(ms))
           /\ Parse(Front(PrintText(Object(ms)))) = NullItem
<1> DEFINE T == Tokens(S)
           n == Len(ms)
           flat == FlattenSeq(OuterParts(ms))
           open == <<Mark("{")>>
           shut == Mark("}")
           most == open \o flat
           text == PrintText(Object(ms))
           p == InObject(ms, n)
<1>1. n \in Nat
  BY DEF MemberList
<1>2. flat \in Seq(T) /\ Fed(InObject(ms, 0), flat) = p
  BY MembersFed
<1>3. open \in Seq(T) /\ <<shut>> \in Seq(T) /\ shut \in T
  <2>1. "{" \in Kinds /\ "}" \in Kinds
    BY DEF Kinds
  <2>2. Mark("{") \in T /\ Mark("}") \in T
    BY <2>1, TokensAre
  <2> QED
    BY <2>2, TuplesTyped
<1>4. text = open \o flat \o <<shut>>
  BY PrintTextIs
<1>5. Fed(Start, open) = InObject(ms, 0)
  <2> DEFINE st == <<>>
             level == Level("Object")
             L == {level}
  <2>1. Fed(Start, open) = Feed(Start, Mark("{"))
    BY FedOne
  <2>2. Start = Parser(st, "value", NullItem)
    BY DEF Start
  <2>3. st \in Seq(L) /\ Len(st) = 0
    BY EmptySeq
  <2>4. Len(st) < NestingLimit
    BY <2>3, NestingAssumption
  <2>5. SoFar(ms, 0) = level
    BY DEF SoFar, Level
  <2> HIDE DEF st, L
  <2>6. Feed(Parser(st, "value", NullItem), Mark("{")) =
        Parser(Append(st, level), "first", NullItem)
    BY <2>3, <2>4, OpensFed
  <2>7. InObject(ms, 0) = Parser(Append(st, level), "first", NullItem)
    BY <2>5 DEF InObject, st
  <2> QED
    BY <2>1, <2>2, <2>6, <2>7
<1>6. Feed(p, shut) = Parser(<<>>, "nothing", Object(Returned(ms)))
  <2> DEFINE st == <<>>
             level == SoFar(ms, n)
             L == {level}
             e == IF n = 0 THEN "first" ELSE IF n < Len(ms) THEN "member" ELSE "end"
             q == Parser(st, "value", NullItem)
  <2>1. st \in Seq(L)
    BY EmptySeq
  <2>2. level.type = "Object" /\ level.members = Returned(ms)
    BY DEF SoFar, Returned
  <2>3. e = "first" \/ e = "end"
    BY <1>1
  <2>4. p = Parser(Append(st, level), e, NullItem)
    BY DEF InObject
  <2>5. q.stack = <<>>
    BY DEF Parser
  <2> HIDE DEF p, level, e, L
  <2>6. Feed(Parser(Append(st, level), e, NullItem), shut) = Complete(q, Object(level.members))
    <3> HIDE DEF st
    <3>1. level.type = "Object"
      BY <2>2
    <3>2. /\ Feed(Parser(Append(st, level), "first", NullItem), Mark("}")) =
             Complete(Parser(st, "value", NullItem), Object(level.members))
          /\ Feed(Parser(Append(st, level), "end", NullItem), Mark("}")) =
             Complete(Parser(st, "value", NullItem), Object(level.members))
      BY <2>1, <3>1, ClosesFed
    <3> QED
      BY <2>3, <3>2
  <2> HIDE DEF q
  <2>7. Complete(q, Object(level.members)) = Parser(<<>>, "nothing", Object(level.members))
    BY <2>5 DEF Complete
  <2> QED
    BY <2>2, <2>4, <2>6, <2>7
<1>7. p.expect # "nothing"
  <2> DEFINE e == IF n = 0 THEN "first" ELSE IF n < Len(ms) THEN "member" ELSE "end"
  <2>1. p.expect = e
    BY DEF InObject, Parser
  <2> QED
    BY <2>1
<1> HIDE DEF T, n, flat, open, shut, text, p
<1>8. most \in Seq(T) /\ Fed(Start, most) = p
  <2>1. Fed(Start, open \o flat) = Fed(Fed(Start, open), flat)
    BY <1>2, <1>3, FedBoth
  <2> QED
    BY <1>2, <1>3, <1>5, <2>1, ConcatProperties
<1> HIDE DEF most
<1>9. text = Append(most, shut) /\ text \in Seq(T)
  <2>1. most \o <<shut>> = Append(most, shut)
    BY <1>3, <1>8, AppendIsConcat
  <2>2. text = most \o <<shut>>
    BY <1>4 DEF most
  <2>3. most \o <<shut>> \in Seq(T)
    BY <1>3, <1>8, ConcatProperties
  <2> QED
    BY <2>1, <2>2, <2>3
<1>10. Front(text) = most
  BY <1>8, <1>9, StackIs
<1>11. Fed(Start, text) = Parser(<<>>, "nothing", Object(Returned(ms)))
  <2>1. Fed(Start, most \o <<shut>>) = Fed(Fed(Start, most), <<shut>>)
    BY <1>3, <1>8, FedBoth
  <2>2. Fed(p, <<shut>>) = Feed(p, shut)
    BY FedOne
  <2> QED
    BY <1>4, <1>6, <1>8, <2>1, <2>2 DEF most
<1>12. Parse(text) = Object(Returned(ms))
  <2>1. Fed(Start, text).expect = "nothing" /\ Fed(Start, text).item = Object(Returned(ms))
    BY <1>11, ParserFields
  <2> QED
    BY <2>1, ParseIs
<1>13. Parse(Front(text)) = NullItem
  BY <1>7, <1>8, <1>10, ParseIs
<1> QED
  BY <1>8, <1>9, <1>10, <1>12, <1>13 DEF text, T

\* A text of nothing is nothing.
LEMMA ParseNothing ==
    Parse(<<>>) = NullItem
<1>1. Fed(Start, <<>>) = Start
  BY FedOne
<1>2. Start.expect = "value"
  BY DEF Start, Parser
<1> QED
  BY <1>1, <1>2, ParseIs
-----------------------------------------------------------------------------
(* The buffer that cJSON prints into *)

\* The buffers after each chunk, and the texts up to each.
Buffers(b, s) ==
    CHOOSE f : f = [k \in 0 .. Len(s) |-> IF k = 0 THEN b ELSE Step(f[k - 1], s[k])]

Said(s) ==
    CHOOSE f : f = [k \in 0 .. Len(s) |-> IF k = 0 THEN <<>> ELSE f[k - 1] \o Body(s[k])]

LEMMA PrintIntoIs ==
    ASSUME NEW b, NEW s
    PROVE  PrintInto(b, s) = Buffers(b, s)[Len(s)]
BY DEF PrintInto, Buffers

LEMMA PlainlyIs ==
    ASSUME NEW s
    PROVE  Plainly(s) = Said(s)[Len(s)]
BY DEF Plainly, Said

LEMMA BuffersExist ==
    ASSUME NEW b, NEW s, Len(s) \in Nat
    PROVE  /\ Buffers(b, s)[0] = b
           /\ \A k \in 1 .. Len(s) : Buffers(b, s)[k] = Step(Buffers(b, s)[k - 1], s[k])
<1> DEFINE T == {n \in Nat : \E p : p = [k \in 0 .. n |-> IF k = 0 THEN b ELSE Step(p[k - 1], s[k])]}
<1>1. 0 \in T
  <2> DEFINE p == [k \in 0 .. 0 |-> b]
  <2>1. p = [k \in 0 .. 0 |-> IF k = 0 THEN b ELSE Step(p[k - 1], s[k])]
    OBVIOUS
  <2> HIDE DEF p
  <2> QED
    BY <2>1
<1>2. ASSUME NEW n \in Nat, n \in T
      PROVE  n + 1 \in T
  <2>1. PICK p : p = [k \in 0 .. n |-> IF k = 0 THEN b ELSE Step(p[k - 1], s[k])]
    BY <1>2
  <2> DEFINE q == [k \in 0 .. n + 1 |-> IF k = n + 1 THEN Step(p[n], s[n + 1]) ELSE p[k]]
  <2>2. q = [k \in 0 .. n + 1 |-> IF k = 0 THEN b ELSE Step(q[k - 1], s[k])]
    <3> SUFFICES ASSUME NEW k \in 0 .. n + 1
                 PROVE  q[k] = IF k = 0 THEN b ELSE Step(q[k - 1], s[k])
      OBVIOUS
    <3>1. CASE k = n + 1
      <4>1. q[k] = Step(p[n], s[n + 1]) /\ q[k - 1] = p[n] /\ k # 0
        BY <3>1
      <4> QED
        BY <3>1, <4>1
    <3>2. CASE k # n + 1
      <4>1. k \in 0 .. n /\ q[k] = p[k] /\ (k # 0 => q[k - 1] = p[k - 1])
        BY <3>2
      <4> HIDE DEF q
      <4>2. p[k] = IF k = 0 THEN b ELSE Step(p[k - 1], s[k])
        BY <2>1, <4>1
      <4> QED
        BY <4>1, <4>2
    <3> QED
      BY <3>1, <3>2
  <2> HIDE DEF q
  <2> QED
    BY <2>2
<1> HIDE DEF T
<1>3. Len(s) \in T
  BY <1>1, <1>2, Upward
<1> DEFINE f == Buffers(b, s)
<1>4. f = [k \in 0 .. Len(s) |-> IF k = 0 THEN b ELSE Step(f[k - 1], s[k])]
  BY <1>3 DEF T, Buffers
<1> HIDE DEF f
<1>5. f[0] = b /\ \A k \in 1 .. Len(s) : f[k] = Step(f[k - 1], s[k])
  BY <1>4
<1> QED
  BY <1>5 DEF f

LEMMA SaidExists ==
    ASSUME NEW s, Len(s) \in Nat
    PROVE  /\ Said(s)[0] = <<>>
           /\ \A k \in 1 .. Len(s) : Said(s)[k] = Said(s)[k - 1] \o Body(s[k])
<1> DEFINE T == {n \in Nat : \E p : p = [k \in 0 .. n |-> IF k = 0 THEN <<>> ELSE p[k - 1] \o Body(s[k])]}
<1>1. 0 \in T
  <2> DEFINE p == [k \in 0 .. 0 |-> <<>>]
  <2>1. p = [k \in 0 .. 0 |-> IF k = 0 THEN <<>> ELSE p[k - 1] \o Body(s[k])]
    OBVIOUS
  <2> HIDE DEF p
  <2> QED
    BY <2>1
<1>2. ASSUME NEW n \in Nat, n \in T
      PROVE  n + 1 \in T
  <2>1. PICK p : p = [k \in 0 .. n |-> IF k = 0 THEN <<>> ELSE p[k - 1] \o Body(s[k])]
    BY <1>2
  <2> DEFINE q == [k \in 0 .. n + 1 |-> IF k = n + 1 THEN p[n] \o Body(s[n + 1]) ELSE p[k]]
  <2>2. q = [k \in 0 .. n + 1 |-> IF k = 0 THEN <<>> ELSE q[k - 1] \o Body(s[k])]
    <3> SUFFICES ASSUME NEW k \in 0 .. n + 1
                 PROVE  q[k] = IF k = 0 THEN <<>> ELSE q[k - 1] \o Body(s[k])
      OBVIOUS
    <3>1. CASE k = n + 1
      <4>1. q[k] = p[n] \o Body(s[n + 1]) /\ q[k - 1] = p[n] /\ k # 0
        BY <3>1
      <4> QED
        BY <3>1, <4>1
    <3>2. CASE k # n + 1
      <4>1. k \in 0 .. n /\ q[k] = p[k] /\ (k # 0 => q[k - 1] = p[k - 1])
        BY <3>2
      <4> HIDE DEF q
      <4>2. p[k] = IF k = 0 THEN <<>> ELSE p[k - 1] \o Body(s[k])
        BY SMTT(40), <2>1, <4>1
      <4> QED
        BY <4>1, <4>2
    <3> QED
      BY <3>1, <3>2
  <2> HIDE DEF q
  <2> QED
    BY <2>2
<1> HIDE DEF T
<1>3. Len(s) \in T
  BY <1>1, <1>2, Upward
<1> DEFINE f == Said(s)
<1>4. f = [k \in 0 .. Len(s) |-> IF k = 0 THEN <<>> ELSE f[k - 1] \o Body(s[k])]
  BY <1>3 DEF T, Said
<1> HIDE DEF f
<1>5. f[0] = <<>> /\ \A k \in 1 .. Len(s) : f[k] = f[k - 1] \o Body(s[k])
  BY <1>4
<1> QED
  BY <1>5 DEF f

ChunkOf  == [needed : Int, text : Seq(Int), forward : Int]
BufferOf == [bytes : Seq(Int), offset : Nat, noalloc : BOOLEAN, reallocate : BOOLEAN,
             ok : BOOLEAN, fault : BOOLEAN]

\* The text of a chunk is what it says, and then perhaps the end of a string.
LEMMA BodyIs ==
    ASSUME NEW c \in ChunkOf
    PROVE  /\ Body(c) \in Seq(Int) /\ Len(Body(c)) \in Nat /\ c.text \in Seq(Int)
           /\ Len(c.text) = Len(Body(c)) + IF Ends(c.text) THEN 1 ELSE 0
           /\ \A i \in 1 .. Len(Body(c)) : c.text[i] = Body(c)[i]
           /\ Ends(c.text) => c.text[Len(Body(c)) + 1] = Nul
<1> DEFINE t == c.text
           l == Len(t)
<1>1. t \in Seq(Int)
  BY DEF ChunkOf
<1>2. l \in Nat /\ \A i \in 1 .. l : t[i] \in Int
  BY <1>1, LenProperties
<1>3. CASE Ends(t)
  <2>1. t # <<>> /\ t[l] = Nul
    BY <1>3 DEF Ends
  <2>2. l >= 1
    <3>1. l # 0
      BY <1>1, <2>1, EmptySeq
    <3> QED
      BY <1>2, <3>1
  <2> DEFINE s == SubSeq(t, 1, l - 1)
  <2>3. Body(c) = s
    BY <1>3 DEF Body
  <2>4. s \in Seq(Int) /\ Len(s) = l - 1 /\ \A i \in 1 .. l - 1 : s[i] = t[i]
    <3> HIDE DEF t, l
    <3>1. 1 \in Int /\ l - 1 \in Int /\ \A i \in 1 .. l - 1 : t[i] \in Int
      BY <1>2
    <3>2. /\ s \in Seq(Int) /\ Len(s) = IF 1 <= l - 1 THEN (l - 1) - 1 + 1 ELSE 0
          /\ \A i \in 1 .. (l - 1) - 1 + 1 : s[i] = t[1 + i - 1]
      BY <3>1, SubSeqProperties
    <3> HIDE DEF s
    <3> QED
      BY <1>2, <2>2, <3>2
  <2> HIDE DEF t, l, s
  <2>5. Len(s) + 1 = l
    BY <1>2, <2>4
  <2> DEFINE d == Body(c)
  <2>6. /\ d \in Seq(Int) /\ Len(d) = l - 1 /\ \A i \in 1 .. l - 1 : t[i] = d[i]
        /\ t[(l - 1) + 1] = Nul
    <3>1. (l - 1) + 1 = l
      BY <1>2
    <3> QED
      BY <2>1, <2>3, <2>4, <3>1
  <2> HIDE DEF d
  <2>7. /\ Len(d) \in Nat /\ l = Len(d) + 1
        /\ \A i \in 1 .. Len(d) : t[i] = d[i]
        /\ t[Len(d) + 1] = Nul
    BY <1>2, <2>2, <2>6
  <2> QED
    BY <1>1, <1>3, <2>6, <2>7 DEF d, t, l
<1>4. CASE ~Ends(t)
  <2>1. Body(c) = t
    BY <1>4 DEF Body
  <2> QED
    BY <1>1, <1>2, <1>4, <2>1
<1> QED
  BY <1>3, <1>4

LEMMA JunkIs ==
    ASSUME NEW n \in Nat
    PROVE  JunkBytes(n) \in Seq(Int) /\ Len(JunkBytes(n)) = n
<1>1. JunkBytes(n) \in [1 .. n -> Int]
  BY DEF JunkBytes, Junk
<1> QED
  BY <1>1

LEMMA JoinedIs ==
    ASSUME NEW S, NEW s \in Seq(S), NEW t \in Seq(S)
    PROVE  /\ s \o t \in Seq(S) /\ Len(s \o t) = Len(s) + Len(t)
           /\ \A i \in 1 .. Len(s) : (s \o t)[i] = s[i]
           /\ \A i \in 1 .. Len(t) : (s \o t)[Len(s) + i] = t[i]
<1> DEFINE m == Len(s)
           n == Len(t)
           r == s \o t
<1>1. m \in Nat /\ n \in Nat
  BY LenProperties
<1>2. /\ r \in Seq(S) /\ Len(r) = m + n
      /\ \A i \in 1 .. m + n : r[i] = IF i <= m THEN s[i] ELSE t[i - m]
  BY ConcatProperties
<1> HIDE DEF m, n, r
<1>3. ASSUME NEW i \in 1 .. m
      PROVE  r[i] = s[i]
  <2>1. i \in 1 .. m + n /\ i <= m
    BY <1>1
  <2> QED
    BY <1>2, <2>1
<1>4. ASSUME NEW i \in 1 .. n
      PROVE  r[m + i] = t[i]
  <2>1. m + i \in 1 .. m + n /\ ~(m + i <= m) /\ (m + i) - m = i
    BY <1>1
  <2> QED
    BY <1>2, <2>1
<1> QED
  BY <1>2, <1>3, <1>4 DEF m, n, r

\* A larger buffer has what was there up to the offset.
LEMMA GrownIs ==
    ASSUME NEW b \in BufferOf, NEW size \in Nat, Len(b.bytes) <= size,
           b.offset < Len(b.bytes) \/ (b.offset = 0 /\ b.reallocate), NEW n, n = Grown(b, size)
    PROVE  /\ n \in BufferOf /\ Len(n.bytes) = size
           /\ n.offset = b.offset /\ n.noalloc = b.noalloc /\ n.reallocate = b.reallocate
           /\ n.ok = b.ok /\ n.fault = b.fault
           /\ \A i \in 1 .. b.offset : n.bytes[i] = b.bytes[i]
<1> DEFINE s == b.bytes
           l == Len(s)
           o == b.offset
           kept == IF b.reallocate THEN l ELSE o + 1
           front == SubSeq(s, 1, kept)
           rest == JunkBytes(size - kept)
<1>1. s \in Seq(Int) /\ o \in Nat
  BY DEF BufferOf
<1>2. l \in Nat /\ \A i \in 1 .. l : s[i] \in Int
  BY <1>1, LenProperties
<1>3. kept \in Nat /\ o <= kept /\ kept <= l /\ size - kept \in Nat
  <2> HIDE DEF s, l, o
  <2>1. l <= size /\ (o < l \/ (o = 0 /\ b.reallocate))
    BY DEF s, l, o
  <2> QED
    BY <1>1, <1>2, <2>1
<1>4. front \in Seq(Int) /\ Len(front) = kept /\ \A i \in 1 .. kept : front[i] = s[i]
  <2> HIDE DEF s, l, o, kept
  <2>1. 1 \in Int /\ kept \in Int /\ \A i \in 1 .. kept : s[i] \in Int
    BY <1>2, <1>3
  <2>2. /\ front \in Seq(Int) /\ Len(front) = IF 1 <= kept THEN kept - 1 + 1 ELSE 0
        /\ \A i \in 1 .. kept - 1 + 1 : front[i] = s[1 + i - 1]
    BY <2>1, SubSeqProperties
  <2> HIDE DEF front
  <2> QED
    BY <1>3, <2>2
<1>5. rest \in Seq(Int) /\ Len(rest) = size - kept
  BY <1>3, JunkIs
<1>6. n = [b EXCEPT !.fault = b.fault \/ kept > l, !.bytes = front \o rest]
  BY DEF Grown
<1> HIDE DEF s, l, o, kept, front, rest
<1>7. /\ front \o rest \in Seq(Int) /\ Len(front \o rest) = size
      /\ \A i \in 1 .. o : (front \o rest)[i] = s[i]
  <2> DEFINE r == front \o rest
             m == size - kept
  <2>1. Len(front) = kept /\ Len(rest) = m
    BY <1>4, <1>5
  <2> HIDE DEF m
  <2>0. front \in Seq(Int) /\ rest \in Seq(Int) /\ r = front \o rest
    BY <1>4, <1>5
  <2> HIDE DEF r
  <2>2. /\ r \in Seq(Int) /\ Len(r) = kept + m
        /\ \A i \in 1 .. kept : r[i] = front[i]
    BY ONLY <2>1, <2>0, JoinedIs
  <2>3. kept + m = size
    BY <1>3 DEF m
  <2>4. \A i \in 1 .. o : i \in 1 .. kept
    BY <1>1, <1>3
  <2>5. Len(r) = size /\ \A i \in 1 .. o : r[i] = s[i]
    BY <1>4, <2>2, <2>3, <2>4
  <2> QED
    BY <2>2, <2>5 DEF r
<1>8. (b.fault \/ kept > l) = b.fault
  <2>1. ~(kept > l)
    BY <1>2, <1>3
  <2>2. b.fault \in BOOLEAN
    BY DEF BufferOf
  <2> QED
    BY <2>1, <2>2
<1> DEFINE r == front \o rest
<1>9. n = [b EXCEPT !.fault = b.fault, !.bytes = r]
  BY <1>6, <1>8
<1> HIDE DEF r
<1>10. /\ n \in BufferOf /\ n.bytes = r /\ n.offset = b.offset /\ n.noalloc = b.noalloc
       /\ n.reallocate = b.reallocate /\ n.ok = b.ok /\ n.fault = b.fault
  <2>1. r \in Seq(Int)
    BY <1>7 DEF r
  <2> QED
    BY <1>9, <2>1 DEF BufferOf
<1> QED
  BY <1>7, <1>10 DEF r, s, o

\* There is room for a byte behind the offset, or there is no buffer yet and none is copied.
Room(b) ==
    \/ b.offset < Len(b.bytes)
    \/ Len(b.bytes) = 0 /\ b.offset = 0 /\ (b.noalloc \/ b.reallocate)

\* ensure makes room for what is needed and one byte more, and keeps what has been written; it
\* fails only for a size beyond int, or beyond a given buffer.
LEMMA EnsureGives ==
    ASSUME NEW b \in BufferOf, b.ok, Room(b), NEW needed \in Nat, NEW n, n = Ensure(b, needed)
    PROVE  /\ n \in BufferOf
           /\ n.offset = b.offset /\ n.noalloc = b.noalloc /\ n.reallocate = b.reallocate
           /\ n.fault = b.fault
           /\ n.ok => /\ needed + b.offset + 1 <= Len(n.bytes)
                      /\ \A i \in 1 .. b.offset : n.bytes[i] = b.bytes[i]
           /\ b.noalloc => n.bytes = b.bytes
           /\ /\ needed + b.offset + 1 <= SizeLimit
              /\ b.noalloc => needed + b.offset + 1 <= Len(b.bytes)
              => n.ok
<1> DEFINE size == needed + b.offset + 1
           l == Len(b.bytes)
<1>1. /\ b.offset \in Nat /\ l \in Nat /\ size \in Nat /\ SizeLimit \in Nat
      /\ size > needed /\ size >= b.offset
  BY SizeAssumption DEF BufferOf
<1>2. ~(l > 0 /\ b.offset >= l)
  BY <1>1 DEF Room
<1>3. \/ n = Refused(b) /\ ~(size <= SizeLimit /\ (b.noalloc => size <= l))
      \/ n = b /\ size <= l
      \/ /\ ~b.noalloc /\ ~(size <= l)
         /\ n = Grown(b, 2 * size) \/ (n = Grown(b, SizeLimit) /\ size <= SizeLimit)
  <2> HIDE DEF l
  <2>1. n = IF needed > SizeLimit THEN Refused(b)
            ELSE IF size <= l THEN b
            ELSE IF b.noalloc THEN Refused(b)
            ELSE IF size <= SizeLimit \div 2 THEN Grown(b, 2 * size)
            ELSE IF size <= SizeLimit THEN Grown(b, SizeLimit)
            ELSE Refused(b)
    BY <1>2 DEF Ensure, l
  <2>2. needed > SizeLimit => ~(size <= SizeLimit)
    BY <1>1
  <2> HIDE DEF size
  <2> QED
    BY <2>1, <2>2
<1>4. CASE n = Refused(b) /\ ~(size <= SizeLimit /\ (b.noalloc => size <= l))
  <2>1. /\ n \in BufferOf /\ n.bytes = b.bytes /\ n.offset = b.offset /\ n.noalloc = b.noalloc
        /\ n.reallocate = b.reallocate /\ n.ok = FALSE /\ n.fault = b.fault
    BY <1>4 DEF Refused, BufferOf
  <2> QED
    BY <1>4, <2>1
<1>5. CASE n = b /\ size <= l
  BY <1>5
<1>6. ASSUME NEW m \in Nat, size <= m, n = Grown(b, m), ~b.noalloc, ~(size <= l)
      PROVE  /\ n \in BufferOf
             /\ n.offset = b.offset /\ n.noalloc = b.noalloc /\ n.reallocate = b.reallocate
             /\ n.fault = b.fault
             /\ n.ok => /\ needed + b.offset + 1 <= Len(n.bytes)
                        /\ \A i \in 1 .. b.offset : n.bytes[i] = b.bytes[i]
             /\ b.noalloc => n.bytes = b.bytes
             /\ n.ok
  <2>1. l <= m
    BY <1>1, <1>6
  <2>2. b.offset < l \/ (b.offset = 0 /\ b.reallocate)
    BY <1>6 DEF Room
  <2>3. /\ n \in BufferOf /\ Len(n.bytes) = m
        /\ n.offset = b.offset /\ n.noalloc = b.noalloc /\ n.reallocate = b.reallocate
        /\ n.ok = b.ok /\ n.fault = b.fault
        /\ \A i \in 1 .. b.offset : n.bytes[i] = b.bytes[i]
    BY ZenonT(40), <1>6, <2>1, <2>2, GrownIs
  <2> QED
    BY <1>6, <2>3
<1>7. 2 * size \in Nat /\ size <= 2 * size
  BY <1>1
<1> HIDE DEF size, l
<1>8. CASE /\ ~b.noalloc /\ ~(size <= l)
           /\ n = Grown(b, 2 * size) \/ (n = Grown(b, SizeLimit) /\ size <= SizeLimit)
  <2>1. \E m \in Nat : size <= m /\ n = Grown(b, m)
    BY <1>1, <1>7, <1>8
  <2>2. PICK m \in Nat : size <= m /\ n = Grown(b, m)
    BY <2>1
  <2> QED
    BY <1>6, <1>8, <2>2
<1> QED
  BY <1>3, <1>4, <1>5, <1>8

\* Writing a text changes nothing before it, and the length of the buffer neither.
LEMMA PutGives ==
    ASSUME NEW b \in BufferOf, b.ok, NEW text \in Seq(Int), NEW forward \in Nat,
           b.offset + Len(text) <= Len(b.bytes)
    PROVE  LET n == Put(b, text, forward)
           IN  /\ n \in BufferOf
               /\ n.offset = b.offset + forward /\ n.noalloc = b.noalloc
               /\ n.reallocate = b.reallocate /\ n.fault = b.fault /\ n.ok
               /\ Len(n.bytes) = Len(b.bytes)
               /\ \A i \in 1 .. b.offset : n.bytes[i] = b.bytes[i]
               /\ \A i \in 1 .. Len(text) : n.bytes[b.offset + i] = text[i]
<1> DEFINE s == b.bytes
           l == Len(s)
           o == b.offset
           t == Len(text)
           front == SubSeq(s, 1, o)
           rest == SubSeq(s, o + t + 1, l)
           most == front \o text
           all == most \o rest
           n == Put(b, text, forward)
<1>1. s \in Seq(Int) /\ o \in Nat
  BY DEF BufferOf
<1>2. l \in Nat /\ t \in Nat /\ o + t <= l /\ \A i \in 1 .. l : s[i] \in Int
  BY <1>1, LenProperties
<1>3. n = [b EXCEPT !.fault = b.fault \/ o + t > l, !.bytes = all, !.offset = o + forward]
  BY DEF Put
<1> HIDE DEF s, l, o, t, n
<1>4. front \in Seq(Int) /\ Len(front) = o /\ \A i \in 1 .. o : front[i] = s[i]
  <2>1. 1 \in Int /\ o \in Int /\ \A i \in 1 .. o : s[i] \in Int
    BY <1>1, <1>2
  <2>2. /\ front \in Seq(Int) /\ Len(front) = IF 1 <= o THEN o - 1 + 1 ELSE 0
        /\ \A i \in 1 .. o - 1 + 1 : front[i] = s[1 + i - 1]
    BY <2>1, SubSeqProperties
  <2> HIDE DEF front
  <2> QED
    BY <1>1, <2>2
<1>5. rest \in Seq(Int) /\ Len(rest) = l - (o + t)
  <2>1. o + t + 1 \in Int /\ l \in Int /\ \A i \in o + t + 1 .. l : s[i] \in Int
    BY <1>1, <1>2
  <2>2. rest \in Seq(Int) /\ Len(rest) = IF o + t + 1 <= l THEN l - (o + t + 1) + 1 ELSE 0
    BY <2>1, SubSeqProperties
  <2> HIDE DEF rest
  <2> QED
    BY <1>1, <1>2, <2>2
<1> HIDE DEF front, rest
<1>6. /\ most \in Seq(Int) /\ Len(most) = o + t
      /\ \A i \in 1 .. o : most[i] = s[i]
      /\ \A i \in 1 .. t : most[o + i] = text[i]
  <2>1. /\ most \in Seq(Int) /\ Len(most) = Len(front) + Len(text)
        /\ \A i \in 1 .. Len(front) : most[i] = front[i]
        /\ \A i \in 1 .. Len(text) : most[Len(front) + i] = text[i]
    BY <1>4, JoinedIs
  <2> HIDE DEF most
  <2> QED
    BY <1>4, <2>1 DEF t
<1> HIDE DEF most
<1>7. /\ all \in Seq(Int) /\ Len(all) = l
      /\ \A i \in 1 .. o + t : all[i] = most[i]
  <2>1. /\ all \in Seq(Int) /\ Len(all) = Len(most) + Len(rest)
        /\ \A i \in 1 .. Len(most) : all[i] = most[i]
    <3>1. most \in Seq(Int) /\ rest \in Seq(Int)
      BY <1>5, <1>6
    <3> QED
      BY ONLY <3>1, JoinedIs
  <2>2. (o + t) + (l - (o + t)) = l
    BY <1>1, <1>2
  <2> HIDE DEF all
  <2> QED
    BY <1>5, <1>6, <2>1, <2>2
<1> HIDE DEF all
<1>8. /\ \A i \in 1 .. o : all[i] = s[i]
      /\ \A i \in 1 .. t : all[o + i] = text[i]
  <2>1. \A i \in 1 .. o : i \in 1 .. o + t
    BY <1>1, <1>2
  <2>2. \A i \in 1 .. t : o + i \in 1 .. o + t
    BY <1>1, <1>2
  <2> QED
    BY <1>6, <1>7, <2>1, <2>2
<1>9. (b.fault \/ o + t > l) = b.fault
  <2>1. ~(o + t > l)
    BY <1>1, <1>2
  <2>2. b.fault \in BOOLEAN
    BY DEF BufferOf
  <2> QED
    BY <2>1, <2>2
<1>10. n = [b EXCEPT !.fault = b.fault, !.bytes = all, !.offset = o + forward]
  BY <1>3, <1>9
<1>11. /\ n \in BufferOf /\ n.bytes = all /\ n.offset = o + forward
       /\ n.noalloc = b.noalloc /\ n.reallocate = b.reallocate /\ n.ok = b.ok /\ n.fault = b.fault
  <2>1. all \in Seq(Int) /\ o + forward \in Nat
    BY <1>1, <1>7
  <2> QED
    BY <1>10, <2>1 DEF BufferOf
<1> QED
  BY <1>7, <1>8, <1>11 DEF s, l, o, t, n

\* The first place of a sequence at which something holds.
LEMMA FirstNul ==
    ASSUME NEW s, NEW k \in 1 .. Len(s), Len(s) \in Nat, s[k] = Nul,
           \A i \in 1 .. k - 1 : s[i] \notin {Nul, Junk}
    PROVE  /\ SelectInSeq(s, LAMBDA x : x \in {Nul, Junk}) = k
           /\ SelectInSeq(s, LAMBDA x : x = Nul) = k
<1> DEFINE I == {i \in 1 .. Len(s) : s[i] \in {Nul, Junk}}
           J == {i \in 1 .. Len(s) : s[i] = Nul}
<1>1. \A i \in I : k <= i
  BY DEF Nul, Junk
<1>2. \A i \in J : k <= i
  BY DEF Nul, Junk
<1>3. k \in I /\ k \in J
  OBVIOUS
<1>4. \A i \in I \cup J : i \in Int
  OBVIOUS
<1> HIDE DEF I, J
<1>5. Min(I) = k
  <2>1. \A x \in I : (\A y \in I : x <= y) => x = k
    BY <1>1, <1>3, <1>4
  <2> QED
    BY <1>1, <1>3, <2>1 DEF Min
<1>6. Min(J) = k
  <2>1. \A x \in J : (\A y \in J : x <= y) => x = k
    BY <1>2, <1>3, <1>4
  <2> QED
    BY <1>2, <1>3, <2>1 DEF Min
<1>7. I # {} /\ J # {}
  BY <1>3
<1>8. SelectInSeq(s, LAMBDA x : x \in {Nul, Junk}) = IF I # {} THEN Min(I) ELSE 0
  BY DEF SelectInSeq, I
<1>9. SelectInSeq(s, LAMBDA x : x = Nul) = IF J # {} THEN Min(J) ELSE 0
  BY DEF SelectInSeq, J
<1> QED
  BY <1>5, <1>6, <1>7, <1>8, <1>9

\* update_offset moves behind the string that begins at the offset.
LEMMA UpdateGives ==
    ASSUME NEW b \in BufferOf, b.ok, NEW m \in Nat, b.offset + m + 1 <= Len(b.bytes),
           b.bytes[b.offset + m + 1] = Nul,
           \A i \in 1 .. m : b.bytes[b.offset + i] \notin {Nul, Junk},
           NEW n, n = UpdateOffset(b)
    PROVE  /\ n \in BufferOf /\ n.offset = b.offset + m /\ n.bytes = b.bytes
           /\ n.noalloc = b.noalloc /\ n.reallocate = b.reallocate /\ n.fault = b.fault /\ n.ok
<1> DEFINE s == b.bytes
           l == Len(s)
           o == b.offset
           rest == SubSeq(s, o + 1, l)
<1>1. s \in Seq(Int) /\ o \in Nat
  BY DEF BufferOf
<1>2. l \in Nat /\ o + m + 1 <= l /\ \A i \in 1 .. l : s[i] \in Int
  BY <1>1, LenProperties
<1>3. s[o + m + 1] = Nul /\ \A i \in 1 .. m : s[o + i] \notin {Nul, Junk}
  OBVIOUS
<1> HIDE DEF s, l, o
<1>4. rest \in Seq(Int) /\ Len(rest) = l - o /\ \A i \in 1 .. l - o : rest[i] = s[o + i]
  <2>1. o + 1 \in Int /\ l \in Int /\ \A i \in o + 1 .. l : s[i] \in Int
    BY <1>1, <1>2
  <2>2. /\ rest \in Seq(Int) /\ Len(rest) = IF o + 1 <= l THEN l - (o + 1) + 1 ELSE 0
        /\ \A i \in 1 .. l - (o + 1) + 1 : rest[i] = s[o + 1 + i - 1]
    BY <2>1, SubSeqProperties
  <2> HIDE DEF rest
  <2>3. l - (o + 1) + 1 = l - o /\ \A i \in 1 .. l - o : o + 1 + i - 1 = o + i
    BY <1>1, <1>2
  <2> QED
    BY <1>1, <1>2, <2>2, <2>3
<1> HIDE DEF rest
<1>5. /\ m + 1 \in 1 .. Len(rest) /\ Len(rest) \in Nat /\ rest[m + 1] = Nul
      /\ \A i \in 1 .. (m + 1) - 1 : rest[i] \notin {Nul, Junk}
  <2>1. m + 1 \in 1 .. l - o /\ l - o \in Nat /\ o + (m + 1) = o + m + 1
    BY <1>1, <1>2
  <2>2. \A i \in 1 .. (m + 1) - 1 : i \in 1 .. l - o /\ i \in 1 .. m
    BY <1>1, <1>2
  <2> QED
    BY <1>3, <1>4, <2>1, <2>2
<1>6. SelectInSeq(rest, LAMBDA x : x \in {Nul, Junk}) = m + 1
  BY <1>5, FirstNul
<1>7. RestLength(b) = m
  <2>1. rest[m + 1] # Junk /\ m + 1 # 0 /\ (m + 1) - 1 = m
    BY <1>5 DEF Nul, Junk
  <2> QED
    BY <1>6, <2>1 DEF RestLength, rest, s, l, o
<1>8. n = [b EXCEPT !.offset = o + m]
  <2>1. ~(m < 0)
    OBVIOUS
  <2> QED
    BY <1>7, <2>1 DEF UpdateOffset, o
<1> DEFINE v == o + m
<1>9. v \in Nat /\ n = [b EXCEPT !.offset = v]
  BY <1>1, <1>8
<1> HIDE DEF v
<1>10. /\ n \in BufferOf /\ n.offset = v /\ n.bytes = b.bytes
       /\ n.noalloc = b.noalloc /\ n.reallocate = b.reallocate /\ n.fault = b.fault
       /\ n.ok = b.ok
  BY <1>9 DEF BufferOf
<1> QED
  BY <1>10 DEF v, o

\* What has been printed after k chunks: the text is there, the offset at its end or, if
\* update_offset is next, before the last chunk.
PrintedSoFar(s, k, b, t) ==
    /\ Room(b)
    /\ Len(t) <= Len(b.bytes) /\ b.offset <= Len(t)
    /\ \A i \in 1 .. Len(t) : b.bytes[i] = t[i]
    /\ b.offset < Len(t) => k = Len(s) \/ s[k + 1] = Update
    /\ k > 0 /\ (s[k] = Update \/ Ends(s[k].text)) =>
          Len(t) + 1 <= Len(b.bytes) /\ b.bytes[Len(t) + 1] = Nul

\* A text and a chunk behind it.
LEMMA TextGrows ==
    ASSUME NEW t \in Seq(Int), \A i \in 1 .. Len(t) : t[i] \notin {Nul, Junk},
           NEW c \in ChunkOf, c = Update \/ \A i \in 1 .. Len(Body(c)) : Body(c)[i] \notin {Nul, Junk}
    PROVE  LET u == t \o Body(c)
           IN  /\ u \in Seq(Int) /\ Len(u) = Len(t) + Len(Body(c))
               /\ \A i \in 1 .. Len(u) : u[i] \notin {Nul, Junk}
               /\ \A i \in 1 .. Len(t) : u[i] = t[i]
               /\ \A i \in 1 .. Len(Body(c)) : u[Len(t) + i] = Body(c)[i]
               /\ c = Update => u = t
<1> DEFINE d == Body(c)
           l == Len(t)
           n == Len(d)
           u == t \o Body(c)
<1>1. d \in Seq(Int) /\ n \in Nat /\ l \in Nat
  BY BodyIs, LenProperties
<1>2. c = Update => d = <<>> /\ n = 0
  BY DEF Body, Update, Chunk, Ends
<1>3. \A i \in 1 .. n : d[i] \notin {Nul, Junk}
  <2>1. CASE c = Update
    <3>1. n = 0
      BY <1>2, <2>1
    <3> HIDE DEF n, d
    <3> QED
      BY <3>1
  <2> QED
    BY <2>1
<1>4. u = t \o d
  OBVIOUS
<1> HIDE DEF d, u
<1>5. /\ u \in Seq(Int) /\ Len(u) = l + n
      /\ \A i \in 1 .. l : u[i] = t[i]
      /\ \A i \in 1 .. n : u[l + i] = d[i]
  BY <1>1, <1>4, JoinedIs
<1> HIDE DEF l, n
<1>6. ASSUME NEW i \in 1 .. l + n
      PROVE  u[i] \notin {Nul, Junk}
  <2>1. CASE i <= l
    <3>1. i \in 1 .. l
      BY <1>1, <2>1
    <3>2. t[i] \notin {Nul, Junk}
      BY <3>1 DEF l
    <3> QED
      BY <1>5, <3>1, <3>2
  <2>2. CASE ~(i <= l)
    <3>1. i - l \in 1 .. n /\ l + (i - l) = i
      BY <1>1, <2>2
    <3>2. u[l + (i - l)] = d[i - l] /\ d[i - l] \notin {Nul, Junk}
      BY <1>3, <1>5, <3>1
    <3> QED
      BY <3>1, <3>2
  <2> QED
    BY <2>1, <2>2
<1>7. c = Update => u = t
  <2> SUFFICES ASSUME c = Update
               PROVE  u = t
    OBVIOUS
  <2>1. u = t \o <<>>
    BY <1>2, <1>4
  <2> QED
    BY <2>1, ConcatEmptySeq
<1> QED
  BY <1>5, <1>6, <1>7 DEF d, l, n, u

\* One chunk more.
LEMMA StepFollows ==
    ASSUME NEW s \in Seq(ChunkOf), Orderly(s), NEW k \in 0 .. Len(s) - 1, NEW b \in BufferOf,
           NEW t \in Seq(Int), \A i \in 1 .. Len(t) : t[i] \notin {Nul, Junk},
           b.ok => PrintedSoFar(s, k, b, t)
    PROVE  LET n == Step(b, s[k + 1])
               u == t \o Body(s[k + 1])
           IN  /\ n \in BufferOf
               /\ n.noalloc = b.noalloc /\ n.reallocate = b.reallocate /\ n.fault = b.fault
               /\ b.noalloc => Len(n.bytes) = Len(b.bytes)
               /\ n.ok => PrintedSoFar(s, k + 1, n, u)
               /\ /\ b.ok /\ Len(u) + 2 <= SizeLimit
                  /\ b.noalloc => Len(u) + 2 <= Len(b.bytes)
                  => n.ok
<1> DEFINE c == s[k + 1]
           n == Step(b, c)
           u == t \o Body(c)
           d == Body(c)
           l == Len(t)
           w == Len(d)
           S == Len(s)
           o == b.offset
<1>0. S \in Nat /\ k \in Nat /\ k + 1 \in 1 .. S /\ k + 1 > 0 /\ (k + 1) - 1 = k
  BY LenProperties
<1>1. c \in ChunkOf
  BY <1>0
<1>2. IF c = Update THEN k + 1 > 1 /\ Ends(s[k].text)
      ELSE /\ c.needed \in {w, w + 1}
           /\ \A i \in 1 .. w : d[i] \notin {Nul, Junk}
           /\ \/ c.forward = w
              \/ /\ c.forward = 0 /\ Ends(c.text)
                 /\ k + 1 < S => s[k + 1 + 1] = Update
  BY <1>0 DEF Orderly
<1>3. /\ u \in Seq(Int) /\ Len(u) = l + w /\ \A i \in 1 .. Len(u) : u[i] \notin {Nul, Junk}
      /\ \A i \in 1 .. l : u[i] = t[i]
      /\ \A i \in 1 .. w : u[l + i] = d[i]
      /\ c = Update => u = t
  <2>1. c = Update \/ \A i \in 1 .. Len(Body(c)) : Body(c)[i] \notin {Nul, Junk}
    BY <1>2
  <2>2. \A i \in 1 .. Len(t) : t[i] \notin {Nul, Junk}
    OBVIOUS
  <2>3. t \in Seq(Int)
    OBVIOUS
  <2> HIDE DEF c
  <2> QED
    BY ONLY <1>1, <2>1, <2>2, <2>3, TextGrows
<1>4. /\ d \in Seq(Int) /\ w \in Nat /\ c.text \in Seq(Int)
      /\ Len(c.text) = w + IF Ends(c.text) THEN 1 ELSE 0
      /\ \A i \in 1 .. w : c.text[i] = d[i]
      /\ Ends(c.text) => c.text[w + 1] = Nul
  BY <1>1, BodyIs
<1>5. l \in Nat /\ o \in Nat /\ Len(b.bytes) \in Nat
  BY LenProperties DEF BufferOf
<1>6. b.ok => /\ Room(b) /\ l <= Len(b.bytes) /\ o <= l
              /\ \A i \in 1 .. l : b.bytes[i] = t[i]
              /\ o < l => k = S \/ c = Update
              /\ k > 0 /\ (s[k] = Update \/ Ends(s[k].text)) =>
                    l + 1 <= Len(b.bytes) /\ b.bytes[l + 1] = Nul
  BY DEF PrintedSoFar
<1>10. n = Step(b, c) /\ u = t \o Body(c) /\ c = s[k + 1]
  OBVIOUS
<1> HIDE DEF c, n, u, d, w, S, l, o
<1> SUFFICES /\ n \in BufferOf
             /\ n.noalloc = b.noalloc /\ n.reallocate = b.reallocate /\ n.fault = b.fault
             /\ b.noalloc => Len(n.bytes) = Len(b.bytes)
             /\ n.ok => PrintedSoFar(s, k + 1, n, u)
             /\ /\ b.ok /\ Len(u) + 2 <= SizeLimit
                /\ b.noalloc => Len(u) + 2 <= Len(b.bytes)
                => n.ok
  BY DEF c, n, u
<1>7. CASE ~b.ok
  <2>1. n = b
    BY <1>7, <1>10 DEF Step, UpdateOffset, Put, Ensure
  <2> QED
    BY <1>7, <2>1
<1>8. CASE b.ok /\ c = Update
  <2>1. n = UpdateOffset(b) /\ u = t
    BY <1>3, <1>8, <1>10 DEF Step
  <2>2. l + 1 <= Len(b.bytes) /\ b.bytes[l + 1] = Nul
    BY <1>0, <1>2, <1>6, <1>8
  <2> DEFINE m == l - o
  <2>3. m \in Nat /\ o + m = l /\ o + m + 1 = l + 1
    BY <1>5, <1>6, <1>8
  <2>4. \A i \in 1 .. m : b.bytes[o + i] \notin {Nul, Junk}
    <3> SUFFICES ASSUME NEW i \in 1 .. m
                 PROVE  b.bytes[o + i] \notin {Nul, Junk}
      OBVIOUS
    <3>1. o + i \in 1 .. l
      BY <1>5, <2>3
    <3>2. b.bytes[o + i] = t[o + i]
      BY <1>6, <1>8, <3>1
    <3> QED
      BY <3>1, <3>2 DEF l
  <2> HIDE DEF m
  <2>5. b.offset + m + 1 <= Len(b.bytes) /\ b.bytes[b.offset + m + 1] = Nul
    BY <2>2, <2>3 DEF o
  <2>6. \A i \in 1 .. m : b.bytes[b.offset + i] \notin {Nul, Junk}
    BY <2>4 DEF o
  <2>7. /\ n \in BufferOf /\ n.offset = b.offset + m /\ n.bytes = b.bytes
        /\ n.noalloc = b.noalloc /\ n.reallocate = b.reallocate /\ n.fault = b.fault /\ n.ok
    BY <1>8, <2>1, <2>3, <2>5, <2>6, UpdateGives
  <2>8. n.offset = l
    BY <2>3, <2>7 DEF o
  <2>9. Room(n)
    BY <1>5, <2>2, <2>7, <2>8 DEF Room
  <2>10. PrintedSoFar(s, k + 1, n, u)
    <3>1. ~(n.offset < Len(u)) /\ n.offset <= Len(u) /\ Len(u) = l
      BY <1>5, <2>1, <2>8 DEF l
    <3>2. \A i \in 1 .. Len(u) : n.bytes[i] = u[i]
      BY <1>6, <1>8, <2>1, <2>7 DEF l
    <3> QED
      BY <1>6, <1>8, <2>2, <2>7, <2>9, <3>1, <3>2 DEF PrintedSoFar
  <2> QED
    BY <2>7, <2>10
<1>9. CASE b.ok /\ c # Update
  <2>0. k # S
    BY <1>0
  <2>1. o = l
    BY <1>5, <1>6, <1>9, <2>0
  <2>2. /\ c.needed \in {w, w + 1}
        /\ \/ c.forward = w
           \/ /\ c.forward = 0 /\ Ends(c.text)
              /\ k + 1 < S => s[k + 1 + 1] = Update
    BY <1>2, <1>9
  <2> DEFINE e == Ensure(b, c.needed)
  <2>3. n = Put(e, c.text, c.forward)
    BY <1>9, <1>10 DEF Step
  <2>4. c.needed \in Nat /\ c.forward \in Nat
    BY <1>4, <2>2
  <2>5. /\ e \in BufferOf
        /\ e.offset = b.offset /\ e.noalloc = b.noalloc /\ e.reallocate = b.reallocate
        /\ e.fault = b.fault
        /\ e.ok => /\ c.needed + b.offset + 1 <= Len(e.bytes)
                   /\ \A i \in 1 .. b.offset : e.bytes[i] = b.bytes[i]
        /\ b.noalloc => e.bytes = b.bytes
        /\ /\ c.needed + b.offset + 1 <= SizeLimit
           /\ b.noalloc => c.needed + b.offset + 1 <= Len(b.bytes)
           => e.ok
    BY <1>6, <1>9, <2>4, EnsureGives
  <2> HIDE DEF e
  <2>6. ASSUME Len(u) + 2 <= SizeLimit, b.noalloc => Len(u) + 2 <= Len(b.bytes)
        PROVE  e.ok
    <3>1. c.needed + b.offset + 1 <= Len(u) + 2
      BY <1>3, <1>4, <1>5, <2>1, <2>2 DEF o
    <3>2. /\ c.needed + b.offset + 1 \in Nat /\ Len(u) + 2 \in Nat /\ SizeLimit \in Nat
          /\ Len(b.bytes) \in Nat
      <4>1. Len(u) \in Nat /\ b.offset \in Nat
        BY <1>3, <1>4, <1>5 DEF o
      <4> QED
        BY <1>5, <2>4, <4>1, SizeAssumption
    <3> QED
      BY <2>5, <2>6, <3>1, <3>2
  <2>7. CASE ~e.ok
    <3>1. n = e
      BY <2>3, <2>7 DEF Put
    <3> QED
      BY <2>5, <2>6, <2>7, <3>1
  <2>8. CASE e.ok
    <3>1. e.offset = l /\ Len(e.bytes) \in Nat /\ c.needed + l + 1 <= Len(e.bytes)
      <4>1. e.offset = l /\ c.needed + l + 1 <= Len(e.bytes)
        BY <2>1, <2>5, <2>8 DEF o
      <4>2. e.bytes \in Seq(Int)
        BY <2>5 DEF BufferOf
      <4> QED
        BY <4>1, <4>2, LenProperties
    <3>2. l + Len(c.text) <= Len(e.bytes) /\ l + w + 1 <= Len(e.bytes)
      BY SMTT(40), <1>4, <1>5, <2>2, <3>1
    <3>3. e.offset + Len(c.text) <= Len(e.bytes)
      BY <3>1, <3>2
    <3>4. /\ n \in BufferOf
          /\ n.offset = e.offset + c.forward /\ n.noalloc = e.noalloc
          /\ n.reallocate = e.reallocate /\ n.fault = e.fault /\ n.ok
          /\ Len(n.bytes) = Len(e.bytes)
          /\ \A i \in 1 .. e.offset : n.bytes[i] = e.bytes[i]
          /\ \A i \in 1 .. Len(c.text) : n.bytes[e.offset + i] = c.text[i]
      <4>1. e \in BufferOf /\ c.text \in Seq(Int) /\ c.forward \in Nat
        BY <1>4, <2>4, <2>5
      <4>2. e.ok /\ e.offset + Len(c.text) <= Len(e.bytes)
        BY <2>8, <3>3
      <4> DEFINE x == c.text
                 f == c.forward
      <4>3. /\ e \in BufferOf /\ x \in Seq(Int) /\ f \in Nat /\ e.ok
            /\ e.offset + Len(x) <= Len(e.bytes) /\ n = Put(e, x, f)
        BY <2>3, <4>1, <4>2
      <4> HIDE DEF x, f
      <4>4. LET y == Put(e, x, f)
            IN  /\ y \in BufferOf
                /\ y.offset = e.offset + f /\ y.noalloc = e.noalloc
                /\ y.reallocate = e.reallocate /\ y.fault = e.fault /\ y.ok
                /\ Len(y.bytes) = Len(e.bytes)
                /\ \A i \in 1 .. e.offset : y.bytes[i] = e.bytes[i]
                /\ \A i \in 1 .. Len(x) : y.bytes[e.offset + i] = x[i]
        BY ONLY SMTT(40), <4>3, PutGives
      <4> QED
        BY <4>3, <4>4 DEF x, f
    <3>5. /\ n.offset = l + c.forward /\ n.offset <= l + w /\ l + w = Len(u)
          /\ n.offset < Len(n.bytes) /\ Len(u) <= Len(n.bytes)
      <4>1. c.forward \in Nat /\ c.forward <= w
        BY <1>4, <2>2, <2>4
      <4>2. n.offset = l + c.forward
        BY <3>1, <3>4
      <4>3. l + w = Len(u)
        BY <1>3
      <4>4. Len(n.bytes) = Len(e.bytes)
        BY <3>4
      <4>5. /\ w \in Nat /\ l \in Nat /\ Len(e.bytes) \in Nat
            /\ l + w + 1 <= Len(e.bytes)
        BY <1>4, <1>5, <3>1, <3>2
      <4>6. l + c.forward <= l + w /\ l + c.forward < Len(e.bytes) /\ l + w <= Len(e.bytes)
        BY ONLY <4>1, <4>5
      <4> QED
        BY ONLY <4>2, <4>3, <4>4, <4>6
    <3>6. /\ \A i \in 1 .. l : n.bytes[i] = u[i]
          /\ \A i \in 1 .. w : n.bytes[l + i] = u[l + i]
          /\ Ends(c.text) => n.bytes[l + w + 1] = Nul
      <4>1. \A i \in 1 .. l : n.bytes[i] = u[i]
        <5> SUFFICES ASSUME NEW i \in 1 .. l
                     PROVE  n.bytes[i] = u[i]
          OBVIOUS
        <5>1. n.bytes[i] = e.bytes[i]
          BY <3>1, <3>4
        <5>2. e.bytes[i] = b.bytes[i]
          BY <2>1, <2>5, <2>8 DEF o
        <5>3. b.bytes[i] = t[i] /\ u[i] = t[i]
          BY <1>3, <1>6, <1>9
        <5> QED
          BY <5>1, <5>2, <5>3
      <4>2. \A i \in 1 .. w : i \in 1 .. Len(c.text)
        BY <1>4
      <4>3. \A i \in 1 .. w : n.bytes[l + i] = u[l + i]
        <5> SUFFICES ASSUME NEW i \in 1 .. w
                     PROVE  n.bytes[l + i] = u[l + i]
          OBVIOUS
        <5>1. n.bytes[l + i] = c.text[i]
          BY <3>1, <3>4, <4>2
        <5>2. c.text[i] = d[i] /\ u[l + i] = d[i]
          BY <1>3, <1>4
        <5> QED
          BY <5>1, <5>2
      <4>4. ASSUME Ends(c.text)
            PROVE  n.bytes[l + w + 1] = Nul
        <5>1. w + 1 \in 1 .. Len(c.text) /\ l + (w + 1) = l + w + 1
          BY <1>4, <1>5, <4>4
        <5> QED
          BY <1>4, <3>1, <3>4, <4>4, <5>1
      <4> QED
        BY <4>1, <4>3, <4>4
    <3>7. \A i \in 1 .. Len(u) : n.bytes[i] = u[i]
      <4> SUFFICES ASSUME NEW i \in 1 .. Len(u)
                   PROVE  n.bytes[i] = u[i]
        OBVIOUS
      <4>1. i \in 1 .. l \/ (i - l \in 1 .. w /\ l + (i - l) = i)
        BY <1>4, <1>5, <3>5
      <4> QED
        BY <3>6, <4>1
    <3>8. n.offset < Len(u) => k + 1 = S \/ s[k + 1 + 1] = Update
      <4>1. n.offset < Len(u) => c.forward # w
        BY <1>4, <1>5, <3>5
      <4>2. k + 1 < S \/ k + 1 = S
        BY <1>0
      <4> QED
        BY <2>2, <4>1, <4>2
    <3>9. Ends(c.text) => Len(u) + 1 <= Len(n.bytes) /\ n.bytes[Len(u) + 1] = Nul
      BY <3>2, <3>4, <3>5, <3>6
    <3>10. Room(n)
      BY <3>5 DEF Room
    <3>11. PrintedSoFar(s, k + 1, n, u)
      BY <1>9, <1>10, <3>5, <3>7, <3>8, <3>9, <3>10 DEF PrintedSoFar, S
    <3>12. b.noalloc => Len(n.bytes) = Len(b.bytes)
      BY <2>5, <3>4
    <3> QED
      BY <2>5, <3>4, <3>11, <3>12
  <2> QED
    BY <2>7, <2>8
<1> QED
  BY <1>7, <1>8, <1>9

\* The texts up to each chunk grow to what is printed in the end, and have no end of a string.
LEMMA SaidGrows ==
    ASSUME NEW s \in Seq(ChunkOf), Orderly(s)
    PROVE  /\ \A k \in 0 .. Len(s) :
                 /\ Said(s)[k] \in Seq(Int)
                 /\ \A i \in 1 .. Len(Said(s)[k]) : Said(s)[k][i] \notin {Nul, Junk}
                 /\ Len(Said(s)[k]) <= Len(Plainly(s))
           /\ Plainly(s) \in Seq(Int)
<1> DEFINE S == Len(s)
           t == Said(s)
           T == {k \in 0 .. S : /\ t[k] \in Seq(Int)
                                /\ \A i \in 1 .. Len(t[k]) : t[k][i] \notin {Nul, Junk}}
           U == {k \in 0 .. S : Len(t[k]) <= Len(t[S])}
<1>1. S \in Nat
  BY LenProperties
<1>2. t[0] = <<>> /\ \A k \in 1 .. S : t[k] = t[k - 1] \o Body(s[k])
  BY <1>1, SaidExists
<1>3. \A k \in 1 .. S : /\ s[k] \in ChunkOf
                        /\ s[k] = Update \/ \A i \in 1 .. Len(Body(s[k])) :
                                               Body(s[k])[i] \notin {Nul, Junk}
  BY <1>1 DEF Orderly
<1> HIDE DEF S, t
<1>4. 0 \in T
  <2>1. 0 \in 0 .. S /\ Len(t[0]) = 0 /\ t[0] \in Seq(Int)
    BY <1>1, <1>2
  <2> QED
    BY <2>1
<1>5. ASSUME NEW k \in 0 .. S - 1, k \in T
      PROVE  k + 1 \in T /\ Len(t[k]) <= Len(t[k + 1])
  <2>1. k + 1 \in 1 .. S /\ (k + 1) - 1 = k /\ k + 1 \in 0 .. S
    BY <1>1
  <2> DEFINE v == t[k]
             c == s[k + 1]
             u == v \o Body(c)
  <2>2. t[k + 1] = u
    BY <1>2, <2>1
  <2>3. /\ v \in Seq(Int) /\ c \in ChunkOf /\ \A i \in 1 .. Len(v) : v[i] \notin {Nul, Junk}
        /\ c = Update \/ \A i \in 1 .. Len(Body(c)) : Body(c)[i] \notin {Nul, Junk}
    BY <1>3, <1>5, <2>1
  <2> HIDE DEF v, c
  <2>4. /\ u \in Seq(Int) /\ Len(u) = Len(v) + Len(Body(c))
        /\ \A i \in 1 .. Len(u) : u[i] \notin {Nul, Junk}
    BY ONLY <2>3, TextGrows
  <2>5. Len(v) \in Nat /\ Len(Body(c)) \in Nat
    BY <2>3, BodyIs, LenProperties
  <2> HIDE DEF u
  <2>6. Len(v) <= Len(u)
    BY <2>4, <2>5
  <2> QED
    BY <2>1, <2>2, <2>4, <2>6 DEF v
<1>6. \A k \in 0 .. S : k \in T
  <2> HIDE DEF T
  <2> QED
    BY <1>1, <1>4, <1>5, UpTo
<1>7. \A k \in 0 .. S : k \in U
  <2>1. S \in U
    <3>1. Len(t[S]) \in Nat /\ S \in 0 .. S
      BY <1>1, <1>6, LenProperties
    <3> QED
      BY <3>1
  <2>2. ASSUME NEW k \in 1 .. S, k \in U
        PROVE  k - 1 \in U
    <3>1. k - 1 \in 0 .. S - 1 /\ (k - 1) + 1 = k /\ k - 1 \in 0 .. S /\ k \in 0 .. S /\ S \in 0 .. S
      BY <1>1
    <3>2. Len(t[k - 1]) <= Len(t[k])
      BY <1>5, <1>6, <3>1
    <3>3. Len(t[k]) <= Len(t[S])
      BY <2>2
    <3>4. /\ t[k - 1] \in Seq(Int) /\ t[k] \in Seq(Int) /\ t[S] \in Seq(Int)
      BY <1>6, <3>1
    <3>5. Len(t[k - 1]) \in Nat /\ Len(t[k]) \in Nat /\ Len(t[S]) \in Nat
      BY <3>4, LenProperties
    <3>6. Len(t[k - 1]) <= Len(t[S])
      BY <3>2, <3>3, <3>5
    <3> QED
      BY <3>1, <3>6
  <2> HIDE DEF U
  <2> QED
    BY <1>1, <2>1, <2>2, Downward
<1>8. Plainly(s) = t[S]
  BY PlainlyIs DEF t, S
<1>9. S \in 0 .. S
  BY <1>1
<1> QED
  BY <1>6, <1>7, <1>8, <1>9 DEF t, S

\* Whatever the printers of cJSON write, and into a buffer of whatever length, whether it may
\* grow and how: no byte outside of it is touched and none is read that was not written.  The
\* caller gets the whole text, every piece of it in its place, or the call fails; and it fails
\* only for a size beyond int, or in a given buffer with less than two bytes to spare.  A buffer
\* that malloc makes grow must not have length 0.
THEOREM PrintsWithinBuffer ==
    ASSUME NEW s \in Seq(ChunkOf), Orderly(s), NEW length \in Nat, NEW noalloc \in BOOLEAN,
           NEW reallocate \in BOOLEAN, length > 0 \/ noalloc \/ reallocate,
           NEW p, p = PrintInto(Buffer(length, noalloc, reallocate), s)
    PROVE  /\ ~p.fault
           /\ p.ok => Printed(p) = Plainly(s)
           /\ /\ Len(Plainly(s)) + 2 <= SizeLimit
              /\ noalloc => Len(Plainly(s)) + 2 <= length
              => p.ok
<1> DEFINE S == Len(s)
           t == Said(s)
           f == Buffers(Buffer(length, noalloc, reallocate), s)
           text == Plainly(s)
           Fits == Len(text) + 2 <= SizeLimit /\ (noalloc => Len(text) + 2 <= length)
           Good(k) == /\ f[k] \in BufferOf
                      /\ f[k].noalloc = noalloc /\ f[k].fault = FALSE
                      /\ noalloc => Len(f[k].bytes) = length
                      /\ f[k].ok => PrintedSoFar(s, k, f[k], t[k])
                      /\ Fits => f[k].ok
           T == {k \in 0 .. S : Good(k)}
<1>1. S \in Nat /\ S >= 1 /\ Ends(s[S].text)
  <2>1. S \in Nat /\ S # 0
    BY EmptySeq, LenProperties DEF Orderly
  <2> QED
    BY <2>1 DEF Orderly
<1>2. f[0] = Buffer(length, noalloc, reallocate) /\ \A k \in 1 .. S : f[k] = Step(f[k - 1], s[k])
  BY <1>1, BuffersExist
<1>3. t[0] = <<>> /\ \A k \in 1 .. S : t[k] = t[k - 1] \o Body(s[k])
  BY <1>1, SaidExists
<1>4. /\ \A k \in 0 .. S : /\ t[k] \in Seq(Int)
                           /\ \A i \in 1 .. Len(t[k]) : t[k][i] \notin {Nul, Junk}
                           /\ Len(t[k]) <= Len(text)
      /\ text \in Seq(Int)
  BY SaidGrows
<1>5. p = f[S] /\ text = t[S]
  BY PrintIntoIs, PlainlyIs
<1> HIDE DEF S, t, f, text
<1>6. 0 \in T
  <2>1. 0 \in 0 .. S
    BY <1>1
  <2>2. /\ f[0].bytes = JunkBytes(length) /\ f[0].offset = 0 /\ f[0].noalloc = noalloc
        /\ f[0].reallocate = reallocate /\ f[0].ok = TRUE /\ f[0].fault = FALSE
        /\ f[0] = [bytes |-> f[0].bytes, offset |-> 0, noalloc |-> noalloc,
                   reallocate |-> reallocate, ok |-> TRUE, fault |-> FALSE]
    BY <1>2 DEF Buffer
  <2>3. f[0].bytes \in Seq(Int) /\ Len(f[0].bytes) = length
    BY <2>2, JunkIs
  <2>4. f[0] \in BufferOf
    <3> DEFINE x == f[0].bytes
    <3>1. x \in Seq(Int)
      BY <2>3
    <3>2. f[0] = [bytes |-> x, offset |-> 0, noalloc |-> noalloc,
                  reallocate |-> reallocate, ok |-> TRUE, fault |-> FALSE]
      BY <2>2
    <3> HIDE DEF x
    <3>3. [bytes |-> x, offset |-> 0, noalloc |-> noalloc,
           reallocate |-> reallocate, ok |-> TRUE, fault |-> FALSE] \in BufferOf
      BY <3>1 DEF BufferOf
    <3> QED
      BY <3>2, <3>3
  <2>5. Room(f[0])
    <3>1. length > 0 \/ (length = 0 /\ (noalloc \/ reallocate))
      OBVIOUS
    <3> QED
      BY <2>2, <2>3, <3>1 DEF Room
  <2>6. Len(t[0]) = 0
    BY <1>3
  <2>7. PrintedSoFar(s, 0, f[0], t[0])
    BY <2>2, <2>3, <2>5, <2>6 DEF PrintedSoFar
  <2> QED
    BY <2>1, <2>2, <2>3, <2>4, <2>7
<1>7. ASSUME NEW k \in 0 .. S - 1, k \in T
      PROVE  k + 1 \in T
  <2>1. k + 1 \in 1 .. S /\ (k + 1) - 1 = k /\ k \in 0 .. S /\ k + 1 \in 0 .. S
    BY <1>1
  <2> DEFINE b == f[k]
             v == t[k]
             c == s[k + 1]
             n == f[k + 1]
             u == t[k + 1]
  <2>2. n = Step(b, c) /\ u = v \o Body(c)
    BY <1>2, <1>3, <2>1
  <2>3. Good(k)
    BY <1>7
  <2>4. v \in Seq(Int) /\ \A i \in 1 .. Len(v) : v[i] \notin {Nul, Junk}
    BY <1>4, <2>1
  <2>5. /\ u \in Seq(Int) /\ Len(u) <= Len(text)
    BY <1>4, <2>1
  <2>6. b \in BufferOf /\ (b.ok => PrintedSoFar(s, k, b, v))
    BY <2>3
  <2>7. k \in 0 .. Len(s) - 1 /\ c = s[k + 1]
    BY DEF S
  <2> HIDE DEF b, v, c, n, u
  <2>8. /\ n \in BufferOf
        /\ n.noalloc = b.noalloc /\ n.reallocate = b.reallocate /\ n.fault = b.fault
        /\ b.noalloc => Len(n.bytes) = Len(b.bytes)
        /\ n.ok => PrintedSoFar(s, k + 1, n, u)
        /\ /\ b.ok /\ Len(u) + 2 <= SizeLimit
           /\ b.noalloc => Len(u) + 2 <= Len(b.bytes)
           => n.ok
    BY <2>2, <2>4, <2>6, <2>7, StepFollows
  <2>9. /\ b.noalloc = noalloc /\ b.fault = FALSE
        /\ noalloc => Len(b.bytes) = length
        /\ Fits => b.ok
    BY <2>3 DEF b
  <2>10. ASSUME Fits
         PROVE  n.ok
    <3>1. Len(u) \in Nat /\ Len(text) \in Nat /\ SizeLimit \in Nat
      BY <1>4, <2>5, LenProperties, SizeAssumption
    <3>2. Len(u) + 2 <= SizeLimit /\ (noalloc => Len(u) + 2 <= length)
      BY <2>5, <2>10, <3>1
    <3> HIDE DEF Fits
    <3> QED
      BY <2>8, <2>9, <2>10, <3>2
  <2> HIDE DEF Fits
  <2>11. /\ n \in BufferOf
         /\ n.noalloc = noalloc /\ n.fault = FALSE
         /\ noalloc => Len(n.bytes) = length
         /\ n.ok => PrintedSoFar(s, k + 1, n, u)
         /\ Fits => n.ok
    BY <2>8, <2>9, <2>10
  <2> QED
    BY <2>1, <2>11 DEF n, u
<1>8. S \in T
  <2> HIDE DEF T
  <2>1. \A k \in 0 .. S : k \in T
    BY <1>1, <1>6, <1>7, UpTo
  <2> QED
    BY <1>1, <2>1
<1>9. ~p.fault /\ (Fits => p.ok)
  <2> HIDE DEF Fits
  <2> QED
    BY <1>5, <1>8
<1>10. ASSUME p.ok
       PROVE  Printed(p) = text
  <2> DEFINE l == Len(text)
             B == p.bytes
  <2>1. PrintedSoFar(s, S, p, text) /\ p \in BufferOf
    <3> HIDE DEF Fits
    <3> QED
      BY <1>5, <1>8, <1>10
  <2>2. l \in Nat /\ B \in Seq(Int)
    BY <1>4, <2>1, LenProperties DEF BufferOf
  <2>3. /\ \A i \in 1 .. l : B[i] = text[i]
        /\ l + 1 <= Len(B) /\ B[l + 1] = Nul
    BY <1>1, <2>1 DEF PrintedSoFar
  <2>4. Len(B) \in Nat /\ \A i \in 1 .. Len(B) : B[i] \in Int
    BY <2>2, LenProperties
  <2>5. \A i \in 1 .. l : text[i] \notin {Nul, Junk} /\ text[i] \in Int
    <3>1. S \in 0 .. S
      BY <1>1
    <3>2. \A i \in 1 .. l : text[i] \notin {Nul, Junk}
      BY <1>4, <1>5, <3>1
    <3>3. \A i \in 1 .. l : text[i] \in Int
      BY <1>4, LenProperties
    <3> QED
      BY <3>2, <3>3
  <2> HIDE DEF B, l
  <2>6. /\ l + 1 \in 1 .. Len(B)
        /\ \A i \in 1 .. (l + 1) - 1 : B[i] \notin {Nul, Junk}
    BY <2>2, <2>3, <2>4, <2>5
  <2>7. SelectInSeq(B, LAMBDA x : x = Nul) = l + 1
    BY <2>3, <2>4, <2>6, FirstNul
  <2>8. Printed(p) = SubSeq(B, 1, l)
    <3>1. (l + 1) - 1 = l
      BY <2>2
    <3> QED
      BY <2>7, <3>1 DEF Printed, B
  <2> DEFINE z == SubSeq(B, 1, l)
  <2>9. z \in Seq(Int) /\ Len(z) = l /\ \A i \in 1 .. l : z[i] = B[i]
    <3>1. 1 \in Int /\ l \in Int /\ \A i \in 1 .. l : B[i] \in Int
      BY <2>2, <2>3, <2>5
    <3>2. /\ z \in Seq(Int) /\ Len(z) = IF 1 <= l THEN l - 1 + 1 ELSE 0
          /\ \A i \in 1 .. l - 1 + 1 : z[i] = B[1 + i - 1]
      BY <3>1, SubSeqProperties
    <3> HIDE DEF z
    <3> QED
      BY <2>2, <3>2
  <2> HIDE DEF z
  <2>10. z = text
    <3>1. z \in Seq(Int) /\ text \in Seq(Int) /\ Len(z) = Len(text)
      BY <1>4, <2>9 DEF l
    <3>2. \A i \in 1 .. Len(z) : z[i] = text[i]
      BY <2>3, <2>9
    <3> QED
      BY ONLY <3>1, <3>2, SeqEqual
  <2> QED
    BY <2>8, <2>10 DEF z
<1> QED
  BY <1>9, <1>10 DEF text
=============================================================================
