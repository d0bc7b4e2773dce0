--------------------------- MODULE ItemListProofs ---------------------------
(***************************************************************************)
(* What cJSON does to the pointers of items, for every memory and lists of *)
(* every length: each call that links, cuts off or exchanges an item makes *)
(* of a list the sequence it should, and leaves all other lists as they    *)
(* are.                                                                    *)
(***************************************************************************)
EXTENDS ItemList, SequenceTheorems, FiniteSetTheorems, WellFoundedInduction, TLAPS

Pointers == Cells \cup {NULL}
ItemsOf  == [next : Pointers, prev : Pointers, child : Pointers,
             isref : BOOLEAN, const : BOOLEAN, name : Keys \cup {NoName}, text : BOOLEAN]

\* A memory of items.
Memory(m) ==
    /\ m = [items |-> m.items, strings |-> m.strings]
    /\ Live(m) \subseteq Cells
    /\ m.items \in [Live(m) -> ItemsOf]

\* One pointer of one item.
WithNext(m, x, v)  == [m EXCEPT !.items[x].next = v]
WithPrev(m, x, v)  == [m EXCEPT !.items[x].prev = v]
WithChild(m, x, v) == [m EXCEPT !.items[x].child = v]

\* m and n are the same but for next, prev and child.
Alike(m, n) ==
    /\ Live(n) = Live(m) /\ n.strings = m.strings
    /\ \A y \in Live(m) : /\ n.items[y].isref = m.items[y].isref
                          /\ n.items[y].const = m.items[y].const
                          /\ n.items[y].name = m.items[y].name
                          /\ n.items[y].text = m.items[y].text

\* n is m but for that pointer.
SetsNext(m, n, x, v) ==
    /\ Memory(n) /\ Alike(m, n) /\ Live(n) = Live(m)
    /\ \A y \in Live(m) :
          /\ n.items[y].next = IF y = x THEN v ELSE m.items[y].next
          /\ n.items[y].prev = m.items[y].prev
          /\ n.items[y].child = m.items[y].child

SetsPrev(m, n, x, v) ==
    /\ Memory(n) /\ Alike(m, n) /\ Live(n) = Live(m)
    /\ \A y \in Live(m) :
          /\ n.items[y].next = m.items[y].next
          /\ n.items[y].prev = IF y = x THEN v ELSE m.items[y].prev
          /\ n.items[y].child = m.items[y].child

SetsChild(m, n, x, v) ==
    /\ Memory(n) /\ Alike(m, n) /\ Live(n) = Live(m)
    /\ \A y \in Live(m) :
          /\ n.items[y].next = m.items[y].next
          /\ n.items[y].prev = m.items[y].prev
          /\ n.items[y].child = IF y = x THEN v ELSE m.items[y].child

\* What the three do.
LEMMA WithNextIs ==
    ASSUME NEW m, Memory(m), NEW x \in Live(m), NEW v \in Pointers,
           NEW n, n = WithNext(m, x, v)
    PROVE  SetsNext(m, n, x, v)
<1> DEFINE i == [m.items EXCEPT ![x] = [m.items[x] EXCEPT !.next = v]]
<1>1. n = [items |-> i, strings |-> m.strings]
  BY DEF WithNext, Memory
<1>2. m.items \in [Live(m) -> ItemsOf]
  BY DEF Memory
<1>3. m.items[x] \in ItemsOf
  BY <1>2
<1>4. [m.items[x] EXCEPT !.next = v] \in ItemsOf
  BY <1>3 DEF ItemsOf
<1>5. i \in [Live(m) -> ItemsOf] /\ DOMAIN i = Live(m)
  BY <1>2, <1>4
<1>6. n.items = i /\ n.strings = m.strings
  BY <1>1
<1>7. /\ \A y \in Live(m) : y # x => i[y] = m.items[y]
      /\ i[x] = [m.items[x] EXCEPT !.next = v]
  BY <1>2
<1>8. /\ i[x].next = v /\ i[x].prev = m.items[x].prev /\ i[x].child = m.items[x].child
      /\ i[x].isref = m.items[x].isref /\ i[x].const = m.items[x].const
      /\ i[x].name = m.items[x].name /\ i[x].text = m.items[x].text
  BY <1>3, <1>7 DEF ItemsOf
<1> HIDE DEF i
<1>9. Live(n) = Live(m)
  BY <1>5, <1>6 DEF Live
<1>10. Memory(n)
  BY <1>1, <1>5, <1>6, <1>9 DEF Memory
<1>11. Alike(m, n)
  BY <1>6, <1>7, <1>8, <1>9 DEF Alike
<1>12. \A y \in Live(m) :
          /\ n.items[y].next = IF y = x THEN v ELSE m.items[y].next
          /\ n.items[y].prev = m.items[y].prev
          /\ n.items[y].child = m.items[y].child
  BY <1>6, <1>7, <1>8
<1> QED
  BY <1>9, <1>10, <1>11, <1>12 DEF SetsNext

LEMMA WithPrevIs ==
    ASSUME NEW m, Memory(m), NEW x \in Live(m), NEW v \in Pointers,
           NEW n, n = WithPrev(m, x, v)
    PROVE  SetsPrev(m, n, x, v)
<1> DEFINE i == [m.items EXCEPT ![x] = [m.items[x] EXCEPT !.prev = v]]
<1>1. n = [items |-> i, strings |-> m.strings]
  BY DEF WithPrev, Memory
<1>2. m.items \in [Live(m) -> ItemsOf]
  BY DEF Memory
<1>3. m.items[x] \in ItemsOf
  BY <1>2
<1>4. [m.items[x] EXCEPT !.prev = v] \in ItemsOf
  BY <1>3 DEF ItemsOf
<1>5. i \in [Live(m) -> ItemsOf] /\ DOMAIN i = Live(m)
  BY <1>2, <1>4
<1>6. n.items = i /\ n.strings = m.strings
  BY <1>1
<1>7. /\ \A y \in Live(m) : y # x => i[y] = m.items[y]
      /\ i[x] = [m.items[x] EXCEPT !.prev = v]
  BY <1>2
<1>8. /\ i[x].next = m.items[x].next /\ i[x].prev = v /\ i[x].child = m.items[x].child
      /\ i[x].isref = m.items[x].isref /\ i[x].const = m.items[x].const
      /\ i[x].name = m.items[x].name /\ i[x].text = m.items[x].text
  BY <1>3, <1>7 DEF ItemsOf
<1> HIDE DEF i
<1>9. Live(n) = Live(m)
  BY <1>5, <1>6 DEF Live
<1>10. Memory(n)
  BY <1>1, <1>5, <1>6, <1>9 DEF Memory
<1>11. Alike(m, n)
  BY <1>6, <1>7, <1>8, <1>9 DEF Alike
<1>12. \A y \in Live(m) :
          /\ n.items[y].next = m.items[y].next
          /\ n.items[y].prev = IF y = x THEN v ELSE m.items[y].prev
          /\ n.items[y].child = m.items[y].child
  BY <1>6, <1>7, <1>8
<1> QED
  BY <1>9, <1>10, <1>11, <1>12 DEF SetsPrev

LEMMA WithChildIs ==
    ASSUME NEW m, Memory(m), NEW x \in Live(m), NEW v \in Pointers,
           NEW n, n = WithChild(m, x, v)
    PROVE  SetsChild(m, n, x, v)
<1> DEFINE i == [m.items EXCEPT ![x] = [m.items[x] EXCEPT !.child = v]]
<1>1. n = [items |-> i, strings |-> m.strings]
  BY DEF WithChild, Memory
<1>2. m.items \in [Live(m) -> ItemsOf]
  BY DEF Memory
<1>3. m.items[x] \in ItemsOf
  BY <1>2
<1>4. [m.items[x] EXCEPT !.child = v] \in ItemsOf
  BY <1>3 DEF ItemsOf
<1>5. i \in [Live(m) -> ItemsOf] /\ DOMAIN i = Live(m)
  BY <1>2, <1>4
<1>6. n.items = i /\ n.strings = m.strings
  BY <1>1
<1>7. /\ \A y \in Live(m) : y # x => i[y] = m.items[y]
      /\ i[x] = [m.items[x] EXCEPT !.child = v]
  BY <1>2
<1>8. /\ i[x].next = m.items[x].next /\ i[x].prev = m.items[x].prev /\ i[x].child = v
      /\ i[x].isref = m.items[x].isref /\ i[x].const = m.items[x].const
      /\ i[x].name = m.items[x].name /\ i[x].text = m.items[x].text
  BY <1>3, <1>7 DEF ItemsOf
<1> HIDE DEF i
<1>9. Live(n) = Live(m)
  BY <1>5, <1>6 DEF Live
<1>10. Memory(n)
  BY <1>1, <1>5, <1>6, <1>9 DEF Memory
<1>11. Alike(m, n)
  BY <1>6, <1>7, <1>8, <1>9 DEF Alike
<1>12. \A y \in Live(m) :
          /\ n.items[y].next = m.items[y].next
          /\ n.items[y].prev = m.items[y].prev
          /\ n.items[y].child = IF y = x THEN v ELSE m.items[y].child
  BY <1>6, <1>7, <1>8
<1> QED
  BY <1>9, <1>10, <1>11, <1>12 DEF SetsChild

-----------------------------------------------------------------------------
(* Lists *)

\* The items of s, linked one after the other, with c as pointer to the first.
IsList(m, c, s) ==
    /\ s \in Seq(Live(m)) /\ IsInjective(s)
    /\ c = IF s = <<>> THEN NULL ELSE s[1]
    /\ \A k \in 1 .. Len(s) :
          /\ m.items[s[k]].next = IF k = Len(s) THEN NULL ELSE s[k + 1]
          /\ m.items[s[k]].prev = s[IF k = 1 THEN Len(s) ELSE k - 1]

\* Between m and n nothing has changed but the first elements of parents and the links of cells.
Only(m, n, parents, cells) ==
    /\ Alike(m, n)
    /\ \A y \in Live(m) :
          /\ y \notin parents => n.items[y].child = m.items[y].child
          /\ y \notin cells => /\ n.items[y].next = m.items[y].next
                               /\ n.items[y].prev = m.items[y].prev

LEMMA InjectiveIs ==
    ASSUME NEW S, NEW s \in Seq(S)
    PROVE  IsInjective(s) <=> \A j, k \in 1 .. Len(s) : s[j] = s[k] => j = k
BY DEF IsInjective

\* Sequences of different items: one more, one less, one in between, another one.
LEMMA AppendIs ==
    ASSUME NEW S, NEW s \in Seq(S), IsInjective(s), NEW i \in S,
           \A k \in 1 .. Len(s) : s[k] # i
    PROVE  /\ Append(s, i) \in Seq(S) /\ Len(Append(s, i)) = Len(s) + 1
           /\ Append(s, i)[Len(s) + 1] = i /\ Append(s, i) # <<>>
           /\ \A k \in 1 .. Len(s) : Append(s, i)[k] = s[k]
           /\ IsInjective(Append(s, i))
<1> DEFINE t == Append(s, i)
           l == Len(s)
<1>1. l \in Nat /\ \A j, k \in 1 .. l : s[j] = s[k] => j = k
  BY InjectiveIs
<1>2. /\ t \in Seq(S) /\ Len(t) = l + 1 /\ t[l + 1] = i
      /\ \A k \in 1 .. l : t[k] = s[k]
  OBVIOUS
<1>3. t # <<>>
  BY <1>1, <1>2
<1> HIDE DEF t, l
<1>4. ASSUME NEW j \in 1 .. l + 1, NEW k \in 1 .. l + 1, t[j] = t[k]
      PROVE  j = k
  <2>1. \A x \in 1 .. l + 1 : x = l + 1 \/ x \in 1 .. l
    BY <1>1
  <2>2. \A x \in 1 .. l : s[x] # i
    BY DEF l
  <2> QED
    BY <1>1, <1>2, <1>4, <2>1, <2>2
<1>5. IsInjective(t)
  BY <1>2, <1>4, InjectiveIs
<1> QED
  BY <1>2, <1>3, <1>5 DEF t, l

LEMMA ReplaceIs ==
    ASSUME NEW S, NEW s \in Seq(S), IsInjective(s), NEW i \in S,
           \A k \in 1 .. Len(s) : s[k] # i, NEW h \in 1 .. Len(s),
           NEW t, t = [s EXCEPT ![h] = i]
    PROVE  /\ t \in Seq(S) /\ Len(t) = Len(s) /\ IsInjective(t) /\ t[h] = i
           /\ \A k \in 1 .. Len(s) : k # h => t[k] = s[k]
<1> DEFINE l == Len(s)
<1>1. l \in Nat /\ (\A j, k \in 1 .. l : s[j] = s[k] => j = k) /\ \A k \in 1 .. l : s[k] # i
  BY InjectiveIs
<1>2. t \in Seq(S) /\ Len(t) = l /\ \A k \in 1 .. l : t[k] = IF k = h THEN i ELSE s[k]
  BY ExceptSeq
<1> HIDE DEF l
<1>3. ASSUME NEW j \in 1 .. l, NEW k \in 1 .. l, t[j] = t[k]
      PROVE  j = k
  <2>1. t[j] = (IF j = h THEN i ELSE s[j]) /\ t[k] = (IF k = h THEN i ELSE s[k])
    BY <1>2
  <2>2. s[j] # i /\ s[k] # i /\ (s[j] = s[k] => j = k)
    BY <1>1
  <2> QED
    BY <1>3, <2>1, <2>2
<1>4. IsInjective(t)
  <2>1. \A j, k \in 1 .. Len(t) : t[j] = t[k] => j = k
    BY <1>2, <1>3
  <2>2. t \in Seq(S)
    BY <1>2
  <2> QED
    BY ONLY <2>1, <2>2, InjectiveIs
<1> QED
  BY <1>2, <1>4 DEF l

LEMMA RemoveAtIs ==
    ASSUME NEW S, NEW s \in Seq(S), IsInjective(s), NEW h \in 1 .. Len(s),
           NEW t, t = RemoveAt(s, h)
    PROVE  /\ t \in Seq(S) /\ Len(t) = Len(s) - 1 /\ IsInjective(t)
           /\ \A k \in 1 .. Len(s) - 1 : t[k] = s[IF k < h THEN k ELSE k + 1]
<1> DEFINE l == Len(s)
           a == SubSeq(s, 1, h - 1)
           b == SubSeq(s, h + 1, l)
<1>1. l \in Nat /\ h \in Nat /\ h >= 1 /\ h <= l /\ \A j, k \in 1 .. l : s[j] = s[k] => j = k
  BY InjectiveIs
<1>2. /\ a \in Seq(S) /\ Len(a) = h - 1 /\ \A k \in 1 .. h - 1 : a[k] = s[k]
  <2>1. \A k \in 1 .. h - 1 : s[k] \in S
    BY <1>1
  <2>2. h - 1 \in Int
    BY <1>1
  <2> QED
    BY <1>1, <2>1, <2>2, SubSeqProperties
<1>3. /\ b \in Seq(S) /\ Len(b) = l - h /\ \A k \in 1 .. l - h : b[k] = s[h + k]
  <2>1. \A k \in h + 1 .. l : s[k] \in S
    BY <1>1
  <2>2. h + 1 \in Int /\ l \in Int
    BY <1>1
  <2>3. /\ b \in Seq(S) /\ Len(b) = IF h + 1 <= l THEN l - (h + 1) + 1 ELSE 0
        /\ \A k \in 1 .. l - (h + 1) + 1 : b[k] = s[(h + 1) + k - 1]
    BY <2>1, <2>2, SubSeqProperties
  <2>4. \A k \in 1 .. l - h : k \in 1 .. l - (h + 1) + 1 /\ (h + 1) + k - 1 = h + k
    BY <1>1
  <2> HIDE DEF b, l
  <2>5. Len(b) = l - h
    BY <1>1, <2>3
  <2> QED
    BY <2>3, <2>4, <2>5
<1>4. t = a \o b
  BY DEF RemoveAt
<1> HIDE DEF a, b
<1>5. /\ t \in Seq(S) /\ Len(t) = Len(a) + Len(b)
      /\ \A k \in 1 .. Len(a) + Len(b) : t[k] = IF k <= Len(a) THEN a[k] ELSE b[k - Len(a)]
  <2>1. /\ a \o b \in Seq(S) /\ Len(a \o b) = Len(a) + Len(b)
        /\ \A k \in 1 .. Len(a) + Len(b) :
              (a \o b)[k] = IF k <= Len(a) THEN a[k] ELSE b[k - Len(a)]
    <3>1. a \in Seq(S) /\ b \in Seq(S)
      BY <1>2, <1>3
    <3> QED
      BY ONLY <3>1, ConcatProperties
  <2> QED
    BY <1>4, <2>1
<1> HIDE DEF l
<1>6. Len(a) + Len(b) = l - 1
  BY <1>1, <1>2, <1>3
<1>7. ASSUME NEW k \in 1 .. l - 1
      PROVE  t[k] = s[IF k < h THEN k ELSE k + 1]
  <2>1. CASE k < h
    <3>1. k \in 1 .. h - 1 /\ k <= Len(a)
      BY <1>1, <1>2, <2>1
    <3> QED
      BY <1>2, <1>5, <1>6, <2>1, <3>1
  <2>2. CASE ~(k < h)
    <3>1. k - (h - 1) \in 1 .. l - h /\ h + (k - (h - 1)) = k + 1 /\ ~(k <= h - 1)
      BY <1>1, <2>2
    <3>2. t[k] = b[k - (h - 1)]
      BY <1>2, <1>5, <1>6, <3>1
    <3>3. b[k - (h - 1)] = s[h + (k - (h - 1))]
      BY <1>3, <3>1
    <3> QED
      BY <2>2, <3>1, <3>2, <3>3
  <2> QED
    BY <2>1, <2>2
<1>8. \A j, k \in 1 .. l - 1 : t[j] = t[k] => j = k
  <2> SUFFICES ASSUME NEW j \in 1 .. l - 1, NEW k \in 1 .. l - 1, t[j] = t[k]
               PROVE  j = k
    OBVIOUS
  <2> DEFINE x == IF j < h THEN j ELSE j + 1
             y == IF k < h THEN k ELSE k + 1
  <2>1. x \in 1 .. l /\ y \in 1 .. l
    BY <1>1
  <2>2. s[x] = s[y]
    BY <1>7
  <2>3. x = y
    <3> HIDE DEF x, y
    <3> QED
      BY <1>1, <2>1, <2>2
  <2> QED
    BY <1>1, <2>3
<1>9. IsInjective(t)
  BY <1>5, <1>6, <1>8, InjectiveIs
<1> QED
  BY <1>5, <1>6, <1>7, <1>9 DEF l

LEMMA IsListIs ==
    ASSUME NEW m, NEW c, NEW s, IsList(m, c, s)
    PROVE  /\ s \in Seq(Live(m)) /\ Len(s) \in Nat
           /\ \A k \in 1 .. Len(s) : s[k] \in Live(m)
           /\ \A j, k \in 1 .. Len(s) : s[j] = s[k] => j = k
           /\ c = IF s = <<>> THEN NULL ELSE s[1]
           /\ \A k \in 1 .. Len(s) :
                 /\ m.items[s[k]].next = IF k = Len(s) THEN NULL ELSE s[k + 1]
                 /\ m.items[s[k]].prev = s[IF k = 1 THEN Len(s) ELSE k - 1]
           /\ s # <<>> <=> 1 \in 1 .. Len(s)
<1>1. s \in Seq(Live(m)) /\ IsInjective(s)
  BY DEF IsList
<1>2. \A j, k \in 1 .. Len(s) : s[j] = s[k] => j = k
  BY <1>1, InjectiveIs
<1>3. Len(s) \in Nat /\ (\A k \in 1 .. Len(s) : s[k] \in Live(m)) /\ (s # <<>> <=> 1 \in 1 .. Len(s))
  BY <1>1
<1> QED
  BY <1>1, <1>2, <1>3 DEF IsList

\* A list of which no item has been touched is there as before.
LEMMA OthersStay ==
    ASSUME NEW m, NEW n, NEW parents, NEW cells, Only(m, n, parents, cells),
           NEW c, NEW t, IsList(m, c, t), ToSet(t) \cap cells = {}
    PROVE  IsList(n, c, t)
<1>1. Live(n) = Live(m)
  BY DEF Only, Alike
<1>2. \A k \in 1 .. Len(t) : t[k] \in Live(m) /\ t[k] \notin cells
  <2>1. DOMAIN t = 1 .. Len(t) /\ \A k \in 1 .. Len(t) : t[k] \in Live(m)
    BY IsListIs, LenProperties DEF IsList
  <2> QED
    BY <2>1 DEF ToSet
<1>3. \A k \in 1 .. Len(t) : /\ n.items[t[k]].next = m.items[t[k]].next
                             /\ n.items[t[k]].prev = m.items[t[k]].prev
  BY <1>2 DEF Only
<1> QED
  BY <1>1, <1>3 DEF IsList

-----------------------------------------------------------------------------
(* Adding *)

LEMMA NotNull ==
    ASSUME NEW m, Memory(m)
    PROVE  NULL \notin Live(m) /\ Live(m) \subseteq Pointers /\ NULL \in Pointers
           /\ \A y \in Live(m) : /\ m.items[y].next \in Pointers /\ m.items[y].prev \in Pointers
                                 /\ m.items[y].child \in Pointers
BY ItemListAssumption DEF Memory, Pointers, ItemsOf

\* What add_item_to_array does to the pointers: without elements, and with some.
LEMMA AddFirstIs ==
    ASSUME NEW m, Memory(m), NEW p \in Live(m), NEW i \in Live(m), m.items[p].child = NULL,
           NEW n, n = AddItemToArray(m, p, i)
    PROVE  /\ Memory(n) /\ Alike(m, n)
           /\ \A y \in Live(m) :
                 /\ n.items[y].next = IF y = i THEN NULL ELSE m.items[y].next
                 /\ n.items[y].prev = IF y = i THEN i ELSE m.items[y].prev
                 /\ n.items[y].child = IF y = p THEN i ELSE m.items[y].child
<1> DEFINE a == WithChild(m, p, i)
           b == WithPrev(a, i, i)
<1>1. n = WithNext(b, i, NULL)
  BY DEF AddItemToArray, WithChild, WithPrev, WithNext
<1>2. i \in Pointers /\ NULL \in Pointers
  BY NotNull
<1>3. SetsChild(m, a, p, i)
  BY <1>2, WithChildIs
<1>4. Memory(a) /\ i \in Live(a)
  BY <1>3 DEF SetsChild
<1>5. SetsPrev(a, b, i, i)
  BY <1>2, <1>4, WithPrevIs
<1>6. Memory(b) /\ i \in Live(b)
  BY <1>4, <1>5 DEF SetsPrev
<1>7. SetsNext(b, n, i, NULL)
  BY <1>1, <1>2, <1>6, WithNextIs
<1> HIDE DEF a, b
<1>8. Alike(m, n)
  BY <1>3, <1>5, <1>7 DEF SetsChild, SetsPrev, SetsNext, Alike
<1> QED
  BY <1>3, <1>5, <1>7, <1>8 DEF SetsChild, SetsPrev, SetsNext

LEMMA AddLastIs ==
    ASSUME NEW m, Memory(m), NEW p \in Live(m), NEW i \in Live(m),
           NEW first \in Live(m), first = m.items[p].child,
           NEW last \in Live(m), last = m.items[first].prev,
           NEW n, n = AddItemToArray(m, p, i)
    PROVE  /\ Memory(n) /\ Alike(m, n)
           /\ \A y \in Live(m) :
                 /\ n.items[y].next = IF y = last THEN i ELSE m.items[y].next
                 /\ n.items[y].prev = IF y = first THEN i
                                      ELSE IF y = i THEN last ELSE m.items[y].prev
                 /\ n.items[y].child = m.items[y].child
<1> DEFINE a == WithNext(m, last, i)
           b == WithPrev(a, i, last)
<1>1. n = WithPrev(b, first, i)
  <2>1. first # NULL /\ last # NULL
    BY NotNull
  <2>2. b = SuffixObject(m, last, i)
    BY SMTT(40) DEF SuffixObject, WithPrev, WithNext
  <2>3. n = [SuffixObject(m, last, i) EXCEPT !.items[first].prev = i]
    BY <2>1 DEF AddItemToArray
  <2> QED
    BY <2>2, <2>3 DEF WithPrev
<1>2. i \in Pointers /\ last \in Pointers
  BY NotNull
<1>3. SetsNext(m, a, last, i)
  BY SMTT(40), <1>2, WithNextIs
<1>4. Memory(a) /\ i \in Live(a) /\ first \in Live(a)
  BY <1>3 DEF SetsNext
<1>5. SetsPrev(a, b, i, last)
  BY SMTT(40), <1>2, <1>4, WithPrevIs
<1>6. Memory(b) /\ first \in Live(b)
  BY ZenonT(40), <1>4, <1>5 DEF SetsPrev
<1>7. SetsPrev(b, n, first, i)
  BY <1>1, <1>2, <1>6, WithPrevIs
<1> HIDE DEF a, b
<1>8. Alike(m, n)
  BY <1>3, <1>5, <1>7 DEF SetsPrev, SetsNext, Alike
<1> QED
  BY SMTT(40), <1>3, <1>5, <1>7, <1>8 DEF SetsPrev, SetsNext

\* add_item_to_array makes of any list the one with the item at its end, and touches nothing
\* else; the item must not be linked to others.
THEOREM AddAppends ==
    ASSUME NEW m, Memory(m), NEW p \in Live(m), NEW i \in Live(m), m.items[i].next = NULL,
           NEW s, IsList(m, m.items[p].child, s), i \notin ToSet(s),
           NEW n, n = AddItemToArray(m, p, i)
    PROVE  /\ Memory(n) /\ Only(m, n, {p}, ToSet(s) \cup {i})
           /\ IsList(n, n.items[p].child, Append(s, i))
<1> DEFINE t == Append(s, i)
           l == Len(s)
<1>0. IsInjective(s)
  BY DEF IsList
<1>1. /\ s \in Seq(Live(m)) /\ l \in Nat
      /\ \A k \in 1 .. l : s[k] \in Live(m) /\ s[k] # i
      /\ \A j, k \in 1 .. l : s[j] = s[k] => j = k
      /\ m.items[p].child = IF s = <<>> THEN NULL ELSE s[1]
      /\ \A k \in 1 .. l :
            /\ m.items[s[k]].next = IF k = l THEN NULL ELSE s[k + 1]
            /\ m.items[s[k]].prev = s[IF k = 1 THEN l ELSE k - 1]
      /\ \A k \in 1 .. l : s[k] \in ToSet(s)
  <2>1. \A k \in 1 .. l : s[k] \in ToSet(s)
    BY IsListIs, LenProperties DEF ToSet
  <2>2. /\ s \in Seq(Live(m)) /\ l \in Nat
        /\ \A k \in 1 .. l : s[k] \in Live(m)
        /\ \A j, k \in 1 .. l : s[j] = s[k] => j = k
        /\ m.items[p].child = IF s = <<>> THEN NULL ELSE s[1]
        /\ \A k \in 1 .. l :
              /\ m.items[s[k]].next = IF k = l THEN NULL ELSE s[k + 1]
              /\ m.items[s[k]].prev = s[IF k = 1 THEN l ELSE k - 1]
    BY IsListIs
  <2> HIDE DEF l
  <2>3. \A k \in 1 .. l : s[k] # i
    BY <2>1
  <2> QED
    BY <2>1, <2>2, <2>3
<1>2. /\ t \in Seq(Live(m)) /\ Len(t) = l + 1 /\ t[l + 1] = i /\ t # <<>>
      /\ \A k \in 1 .. l : t[k] = s[k]
      /\ IsInjective(t)
  BY <1>0, <1>1, AppendIs
<1>4. CASE s = <<>>
  <2>1. l = 0 /\ m.items[p].child = NULL
    BY <1>1, <1>4
  <2>2. /\ Memory(n) /\ Alike(m, n)
        /\ \A y \in Live(m) :
              /\ n.items[y].next = IF y = i THEN NULL ELSE m.items[y].next
              /\ n.items[y].prev = IF y = i THEN i ELSE m.items[y].prev
              /\ n.items[y].child = IF y = p THEN i ELSE m.items[y].child
    BY <2>1, AddFirstIs
  <2> HIDE DEF t, l
  <2>3. Only(m, n, {p}, ToSet(s) \cup {i})
    BY <2>2 DEF Only
  <2>4. IsList(n, n.items[p].child, t)
    <3>1. Live(n) = Live(m)
      BY <2>2 DEF Alike
    <3>2. n.items[p].child = t[1] /\ t[1] = i
      BY <1>2, <2>1, <2>2
    <3>3. n.items[i].next = NULL /\ n.items[i].prev = i
      BY <2>2
    <3> QED
      BY <1>2, <2>1, <3>1, <3>2, <3>3 DEF IsList
  <2> QED
    BY <2>2, <2>3, <2>4 DEF t
<1>5. CASE s # <<>>
  <2> DEFINE first == s[1]
             last  == s[l]
  <2>1. 1 \in 1 .. l /\ l \in 1 .. l
    BY <1>1, <1>5
  <2>2. /\ first \in Live(m) /\ first = m.items[p].child
        /\ last \in Live(m) /\ last = m.items[first].prev
    BY <1>1, <1>5, <2>1
  <2>3. /\ Memory(n) /\ Alike(m, n)
        /\ \A y \in Live(m) :
              /\ n.items[y].next = IF y = last THEN i ELSE m.items[y].next
              /\ n.items[y].prev = IF y = first THEN i
                                   ELSE IF y = i THEN last ELSE m.items[y].prev
              /\ n.items[y].child = m.items[y].child
    <3> HIDE DEF first, last
    <3> QED
      BY <2>2, AddLastIs
  <2>9. first # i /\ last # i
    BY <1>1, <2>1
  <2> HIDE DEF t, l
  <2>4. Only(m, n, {p}, ToSet(s) \cup {i})
    BY <1>1, <2>1, <2>3 DEF Only
  <2>5. \A k \in 1 .. l + 1 :
           /\ n.items[t[k]].next = IF k = l + 1 THEN NULL ELSE t[k + 1]
           /\ n.items[t[k]].prev = t[IF k = 1 THEN l + 1 ELSE k - 1]
    <3> SUFFICES ASSUME NEW k \in 1 .. l + 1
                 PROVE  /\ n.items[t[k]].next = IF k = l + 1 THEN NULL ELSE t[k + 1]
                        /\ n.items[t[k]].prev = t[IF k = 1 THEN l + 1 ELSE k - 1]
      OBVIOUS
    <3>1. CASE k = l + 1
      <4>1. t[k] = i /\ k # 1 /\ k - 1 = l /\ t[l] = last
        BY <1>1, <1>2, <2>1, <3>1
      <4> QED
        BY <2>3, <2>9, <3>1, <4>1
    <3>2. CASE k # l + 1
      <4>1. k \in 1 .. l /\ t[k] = s[k] /\ s[k] \in Live(m) /\ s[k] # i
        BY <1>1, <1>2, <3>2
      <4>2. n.items[t[k]].next = t[k + 1]
        <5>1. CASE k = l
          BY <1>2, <2>3, <4>1, <5>1
        <5>2. CASE k # l
          <6>1. k + 1 \in 1 .. l /\ s[k] # last /\ t[k + 1] = s[k + 1]
            BY <1>1, <1>2, <2>1, <4>1, <5>2
          <6>2. m.items[s[k]].next = s[k + 1]
            BY <1>1, <4>1, <5>2
          <6>3. n.items[s[k]].next = m.items[s[k]].next
            BY <2>3, <4>1, <6>1
          <6> QED
            BY <4>1, <6>1, <6>2, <6>3
        <5> QED
          BY <5>1, <5>2
      <4>3. n.items[t[k]].prev = t[IF k = 1 THEN l + 1 ELSE k - 1]
        <5>1. CASE k = 1
          BY <1>2, <2>3, <4>1, <5>1
        <5>2. CASE k # 1
          <6>1. k - 1 \in 1 .. l /\ s[k] # first /\ t[k - 1] = s[k - 1]
            BY <1>1, <1>2, <2>1, <4>1, <5>2
          <6>2. m.items[s[k]].prev = s[k - 1]
            BY <1>1, <4>1, <5>2
          <6>3. n.items[s[k]].prev = m.items[s[k]].prev
            BY <2>3, <4>1, <6>1
          <6> QED
            BY <4>1, <5>2, <6>1, <6>2, <6>3
        <5> QED
          BY <5>1, <5>2
      <4> QED
        BY <3>2, <4>2, <4>3
    <3> QED
      BY <3>1, <3>2
  <2>6. Live(n) = Live(m)
    BY <2>3 DEF Alike
  <2>7. n.items[p].child = t[1]
    BY <1>2, <2>1, <2>2, <2>3
  <2>8. IsList(n, n.items[p].child, t)
    BY <1>2, <2>5, <2>6, <2>7 DEF IsList
  <2> QED
    BY <2>3, <2>4, <2>8 DEF t
<1> QED
  BY <1>4, <1>5

-----------------------------------------------------------------------------
(* Cutting off *)

\* What cJSON_DetachItemViaPointer does to the pointers, called with an element of p.
LEMMA DetachSets ==
    ASSUME NEW m, Memory(m), NEW p \in Live(m), NEW i \in Live(m),
           NEW first \in Live(m), first = m.items[p].child,
           NEW before \in Live(m), before = m.items[i].prev,
           NEW after \in Live(m) \cup {NULL}, after = m.items[i].next,
           NEW n, n = Detach(m, p, i)
    PROVE  /\ Memory(n) /\ Alike(m, n)
           /\ \A y \in Live(m) :
                 /\ n.items[y].next = IF y = i THEN NULL
                                      ELSE IF i # first /\ y = before THEN after
                                      ELSE m.items[y].next
                 /\ n.items[y].prev = IF y = i THEN NULL
                                      ELSE IF after # NULL /\ y = after THEN before
                                      ELSE IF i # first /\ after = NULL /\ y = first THEN before
                                      ELSE m.items[y].prev
                 /\ n.items[y].child = IF i = first /\ y = p THEN after ELSE m.items[y].child
<1> DEFINE a == IF i # first THEN WithNext(m, before, after) ELSE m
           b == IF after # NULL THEN WithPrev(a, after, before) ELSE a
           c == IF i = first THEN WithChild(b, p, after)
                ELSE IF after = NULL THEN WithPrev(b, first, before)
                ELSE b
           d == WithPrev(c, i, NULL)
<1>1. n = WithNext(d, i, NULL)
  <2> DEFINE forward == IF i # m.items[p].child
                        THEN [m EXCEPT !.items[m.items[i].prev].next = m.items[i].next] ELSE m
             back == IF m.items[i].next # NULL
                     THEN [forward EXCEPT !.items[m.items[i].next].prev = m.items[i].prev]
                     ELSE forward
             parent == IF i = m.items[p].child
                       THEN [back EXCEPT !.items[p].child = m.items[i].next]
                       ELSE IF m.items[i].next = NULL
                       THEN [back EXCEPT !.items[m.items[p].child].prev = m.items[i].prev]
                       ELSE back
  <2>1. n = [parent EXCEPT !.items[i].prev = NULL, !.items[i].next = NULL]
    BY DEF Detach
  <2>2. a = forward
    BY DEF WithNext
  <2> HIDE DEF a, forward
  <2>3. b = back
    BY <2>2 DEF WithPrev
  <2> HIDE DEF b, back
  <2>4. c = parent
    BY <2>3 DEF WithPrev, WithChild
  <2> HIDE DEF c, parent
  <2> QED
    BY SMTT(40), <2>1, <2>4 DEF WithPrev, WithNext
<1>2. before \in Pointers /\ after \in Pointers /\ NULL \in Pointers /\ NULL \notin Live(m)
  BY NotNull
<1>3. \A x : Alike(x, x)
  BY SMTT(40) DEF Alike
<1>4. /\ Memory(a) /\ Live(a) = Live(m) /\ Alike(m, a)
      /\ \A y \in Live(m) :
            /\ a.items[y].next = IF i # first /\ y = before THEN after ELSE m.items[y].next
            /\ a.items[y].prev = m.items[y].prev
            /\ a.items[y].child = m.items[y].child
  <2>1. CASE i # first
    <3>1. SetsNext(m, a, before, after)
      BY <1>2, <2>1, WithNextIs
    <3> HIDE DEF a
    <3> QED
      BY <2>1, <3>1 DEF SetsNext
  <2>2. CASE i = first
    <3>1. a = m
      BY SMTT(40), <2>2
    <3> HIDE DEF a
    <3> QED
      BY <1>3, <2>2, <3>1
  <2> QED
    BY <2>1, <2>2
<1> HIDE DEF a
<1>5. /\ Memory(b) /\ Live(b) = Live(m) /\ Alike(a, b)
      /\ \A y \in Live(m) :
            /\ b.items[y].next = a.items[y].next
            /\ b.items[y].prev = IF after # NULL /\ y = after THEN before ELSE a.items[y].prev
            /\ b.items[y].child = a.items[y].child
  <2>1. CASE after # NULL
    <3>1. after \in Live(a)
      BY <1>4, <2>1
    <3>2. SetsPrev(a, b, after, before)
      BY <1>2, <1>4, <2>1, <3>1, WithPrevIs
    <3> HIDE DEF b
    <3> QED
      BY <1>4, <2>1, <3>2 DEF SetsPrev
  <2>2. CASE after = NULL
    <3>1. b = a
      BY SMTT(40), <2>2
    <3> HIDE DEF b
    <3> QED
      BY <1>3, <1>4, <2>2, <3>1
  <2> QED
    BY <2>1, <2>2
<1> HIDE DEF b
<1>6. /\ Memory(c) /\ Live(c) = Live(m) /\ Alike(b, c)
      /\ \A y \in Live(m) :
            /\ c.items[y].next = b.items[y].next
            /\ c.items[y].prev = IF i # first /\ after = NULL /\ y = first THEN before
                                 ELSE b.items[y].prev
            /\ c.items[y].child = IF i = first /\ y = p THEN after ELSE b.items[y].child
  <2>0. p \in Live(b) /\ first \in Live(b)
    BY <1>5
  <2>1. CASE i = first
    <3>1. SetsChild(b, c, p, after)
      BY <1>2, <1>5, <2>0, <2>1, WithChildIs
    <3> HIDE DEF c
    <3> QED
      BY <1>5, <2>1, <3>1 DEF SetsChild
  <2>2. CASE i # first /\ after = NULL
    <3>1. SetsPrev(b, c, first, before)
      BY <1>2, <1>5, <2>0, <2>2, WithPrevIs
    <3> HIDE DEF c
    <3> QED
      BY <1>5, <2>2, <3>1 DEF SetsPrev
  <2>3. CASE i # first /\ after # NULL
    <3>1. c = b
      BY <2>3
    <3> HIDE DEF c
    <3> QED
      BY <1>3, <1>5, <2>3, <3>1
  <2> QED
    BY <2>1, <2>2, <2>3
<1> HIDE DEF c
<1>7. Memory(c) /\ i \in Live(c)
  BY <1>6
<1>8. SetsPrev(c, d, i, NULL)
  BY <1>2, <1>7, WithPrevIs
<1>9. Memory(d) /\ i \in Live(d)
  BY <1>7, <1>8 DEF SetsPrev
<1>10. SetsNext(d, n, i, NULL)
  BY <1>1, <1>2, <1>9, WithNextIs
<1> HIDE DEF d
<1>11. Alike(m, n)
  <2>1. Alike(a, b) /\ Alike(m, a) /\ Alike(b, c) /\ Alike(c, d) /\ Alike(d, n)
    BY <1>4, <1>5, <1>6, <1>8, <1>10 DEF SetsPrev, SetsNext
  <2> QED
    BY <2>1 DEF Alike
<1>12. Live(d) = Live(m) /\ Live(n) = Live(m) /\ Memory(n)
  BY <1>6, <1>8, <1>10 DEF SetsPrev, SetsNext
<1>13. \A y \in Live(m) :
          /\ n.items[y].next = IF y = i THEN NULL ELSE c.items[y].next
          /\ n.items[y].prev = IF y = i THEN NULL ELSE c.items[y].prev
          /\ n.items[y].child = c.items[y].child
  BY <1>6, <1>8, <1>10, <1>12 DEF SetsPrev, SetsNext
<1>14. ASSUME NEW y \in Live(m)
       PROVE  /\ n.items[y].next = IF y = i THEN NULL
                                   ELSE IF i # first /\ y = before THEN after
                                   ELSE m.items[y].next
              /\ n.items[y].prev = IF y = i THEN NULL
                                   ELSE IF after # NULL /\ y = after THEN before
                                   ELSE IF i # first /\ after = NULL /\ y = first THEN before
                                   ELSE m.items[y].prev
              /\ n.items[y].child = IF i = first /\ y = p THEN after ELSE m.items[y].child
  <2>1. n.items[y].next = IF y = i THEN NULL
                          ELSE IF i # first /\ y = before THEN after
                          ELSE m.items[y].next
    BY <1>4, <1>5, <1>6, <1>13
  <2>2. n.items[y].child = IF i = first /\ y = p THEN after ELSE m.items[y].child
    BY <1>4, <1>5, <1>6, <1>13
  <2>3. n.items[y].prev = IF y = i THEN NULL
                          ELSE IF after # NULL /\ y = after THEN before
                          ELSE IF i # first /\ after = NULL /\ y = first THEN before
                          ELSE m.items[y].prev
    BY <1>4, <1>5, <1>6, <1>13
  <2> QED
    BY <2>1, <2>2, <2>3
<1> QED
  BY <1>11, <1>12, <1>14

\* cJSON_DetachItemViaPointer, called with any element, takes it out of the list and nothing
\* else: the first, the last and the only one as well.  The item is linked to nothing afterwards.
THEOREM DetachRemoves ==
    ASSUME NEW m, Memory(m), NEW p \in Live(m), NEW s, IsList(m, m.items[p].child, s),
           NEW h \in 1 .. Len(s), NEW n, n = Detach(m, p, s[h])
    PROVE  /\ Memory(n) /\ Only(m, n, {p}, ToSet(s))
           /\ IsList(n, n.items[p].child, RemoveAt(s, h))
           /\ n.items[s[h]].next = NULL /\ n.items[s[h]].prev = NULL
<1> DEFINE t == RemoveAt(s, h)
           l == Len(s)
           i == s[h]
           first == s[1]
           before == s[IF h = 1 THEN l ELSE h - 1]
           after == IF h = l THEN NULL ELSE s[h + 1]
<1>1. /\ s \in Seq(Live(m)) /\ l \in Nat /\ h \in Nat /\ 1 <= h /\ h <= l
      /\ \A k \in 1 .. l : s[k] \in Live(m)
      /\ \A j, k \in 1 .. l : s[j] = s[k] => j = k
      /\ m.items[p].child = first
      /\ \A k \in 1 .. l :
            /\ m.items[s[k]].next = IF k = l THEN NULL ELSE s[k + 1]
            /\ m.items[s[k]].prev = s[IF k = 1 THEN l ELSE k - 1]
  <2>1. s # <<>>
    BY IsListIs
  <2> QED
    BY <2>1, IsListIs
<1>2. \A k \in 1 .. l : s[k] \in ToSet(s)
  BY <1>1, LenProperties DEF ToSet
<1>3. NULL \notin Live(m)
  BY NotNull
<1>4. /\ i \in Live(m) /\ first \in Live(m) /\ before \in Live(m)
      /\ before \in ToSet(s) /\ first \in ToSet(s) /\ i \in ToSet(s)
      /\ after \in Live(m) \cup {NULL} /\ (after # NULL => after \in ToSet(s))
      /\ m.items[i].prev = before /\ m.items[i].next = after
      /\ (i = first <=> h = 1) /\ (after = NULL <=> h = l)
  <2>1. 1 \in 1 .. l /\ h \in 1 .. l
    BY <1>1
  <2>2. (IF h = 1 THEN l ELSE h - 1) \in 1 .. l
    BY <1>1
  <2>3. h # l => h + 1 \in 1 .. l
    BY <1>1
  <2>4. i \in Live(m) /\ first \in Live(m) /\ i \in ToSet(s) /\ first \in ToSet(s)
    BY <1>1, <1>2, <2>1
  <2>5. before \in Live(m) /\ before \in ToSet(s)
    <3> DEFINE k == IF h = 1 THEN l ELSE h - 1
    <3> HIDE DEF k, l
    <3> QED
      BY <1>1, <1>2, <2>2 DEF k
  <2>6. after \in Live(m) \cup {NULL} /\ (after # NULL => after \in ToSet(s)) /\ (after = NULL <=> h = l)
    BY <1>1, <1>2, <1>3, <2>3
  <2>7. i = first <=> h = 1
    BY <1>1, <2>1
  <2>8. m.items[i].prev = before /\ m.items[i].next = after
    BY <1>1
  <2> QED
    BY <2>4, <2>5, <2>6, <2>7, <2>8
<1>5. /\ Memory(n) /\ Alike(m, n)
      /\ \A y \in Live(m) :
            /\ n.items[y].next = IF y = i THEN NULL
                                 ELSE IF i # first /\ y = before THEN after
                                 ELSE m.items[y].next
            /\ n.items[y].prev = IF y = i THEN NULL
                                 ELSE IF after # NULL /\ y = after THEN before
                                 ELSE IF i # first /\ after = NULL /\ y = first THEN before
                                 ELSE m.items[y].prev
            /\ n.items[y].child = IF i = first /\ y = p THEN after ELSE m.items[y].child
  <2>1. n = Detach(m, p, i)
    OBVIOUS
  <2> HIDE DEF i, first, before, after
  <2>2. first = m.items[p].child /\ before = m.items[i].prev /\ after = m.items[i].next
    BY <1>1, <1>4
  <2> QED
    BY <1>4, <2>1, <2>2, DetachSets
<1>6. /\ t \in Seq(Live(m)) /\ Len(t) = l - 1 /\ IsInjective(t)
      /\ \A k \in 1 .. l - 1 : k < h => t[k] = s[k]
      /\ \A k \in 1 .. l - 1 : ~(k < h) => t[k] = s[k + 1]
  <2>1. IsInjective(s)
    BY DEF IsList
  <2>2. /\ t \in Seq(Live(m)) /\ Len(t) = l - 1 /\ IsInjective(t)
        /\ \A k \in 1 .. l - 1 : t[k] = s[IF k < h THEN k ELSE k + 1]
    <3>1. s \in Seq(Live(m)) /\ h \in 1 .. Len(s)
      BY <1>1
    <3> QED
      BY ONLY <2>1, <3>1, RemoveAtIs
  <2> HIDE DEF t, l
  <2>3. ASSUME NEW k \in 1 .. l - 1, k < h
        PROVE  t[k] = s[k]
    BY <2>2, <2>3
  <2>4. ASSUME NEW k \in 1 .. l - 1, ~(k < h)
        PROVE  t[k] = s[k + 1]
    BY <2>2, <2>4
  <2> QED
    BY <2>2, <2>3, <2>4
<1>7. Live(n) = Live(m)
  BY <1>5 DEF Alike
<1>8. Only(m, n, {p}, ToSet(s))
  <2> HIDE DEF i, first, before, after
  <2> QED
    BY <1>4, <1>5 DEF Only
<1>9. n.items[i].next = NULL /\ n.items[i].prev = NULL
  <2> HIDE DEF i, first, before, after
  <2> QED
    BY <1>4, <1>5
<1>10. n.items[p].child = IF t = <<>> THEN NULL ELSE t[1]
  <2>1. n.items[p].child = IF h = 1 THEN after ELSE first
    <3> HIDE DEF i, first, before, after
    <3> QED
      BY <1>1, <1>4, <1>5
  <2>2. t = <<>> <=> l = 1
    <3> HIDE DEF t, l
    <3> QED
      BY <1>1, <1>6
  <2>3. l # 1 => t[1] = IF h = 1 THEN s[2] ELSE first
    <3> HIDE DEF t, l
    <3>1. l # 1 => 1 \in 1 .. l - 1 /\ 1 + 1 = 2 /\ (1 < h <=> h # 1)
      BY <1>1
    <3> QED
      BY <1>6, <3>1
  <2>4. h = 1 => after = IF l = 1 THEN NULL ELSE s[2]
    <3>1. h = 1 => h + 1 = 2
      OBVIOUS
    <3> QED
      BY <3>1
  <2>5. l = 1 => h = 1
    BY <1>1
  <2> HIDE DEF t, after, first, l
  <2> QED
    BY <2>1, <2>2, <2>3, <2>4, <2>5
<1>11. ASSUME NEW k \in 1 .. l - 1
       PROVE  n.items[t[k]].next = IF k = l - 1 THEN NULL ELSE t[k + 1]
  <2>1. CASE k < h
    <3>0. k \in 1 .. l /\ h \in 1 .. l /\ k # h
      BY <1>1, <2>1
    <3>1. k \in 1 .. l /\ h \in 1 .. l /\ k # h /\ t[k] = s[k] /\ s[k] # i /\ s[k] \in Live(m)
      BY <1>1, <1>6, <2>1, <3>0
    <3>2. CASE k = h - 1
      <4>1. s[k] = before /\ i # first
        BY <1>1, <1>4, <2>1, <3>2
      <4>2. n.items[s[k]].next = after
        <5> HIDE DEF i, first, before, after
        <5> QED
          BY <1>5, <3>1, <4>1
      <4>3. k = l - 1 <=> h = l
        BY <1>1, <3>2
      <4>4. k # l - 1 => t[k + 1] = s[h + 1]
        <5>1. k # l - 1 => k + 1 \in 1 .. l - 1 /\ ~(k + 1 < h) /\ (k + 1) + 1 = h + 1
          BY <1>1, <3>2
        <5> QED
          BY <1>6, <5>1
      <4> QED
        BY <3>1, <4>2, <4>3, <4>4
    <3>3. CASE k # h - 1
      <4>1. k + 1 < h /\ k + 1 \in 1 .. l - 1 /\ k # l - 1 /\ k # l /\ h - 1 \in 1 .. l /\ h # 1
        BY <1>1, <2>1, <3>3
      <4>2. s[k] # before
        BY <1>1, <3>1, <3>3, <4>1
      <4>3. n.items[s[k]].next = m.items[s[k]].next
        <5> HIDE DEF i, first, before, after
        <5> QED
          BY <1>5, <3>1, <4>2
      <4>4. m.items[s[k]].next = s[k + 1]
        BY <1>1, <3>1, <4>1
      <4>5. t[k + 1] = s[k + 1]
        BY <1>6, <4>1
      <4> QED
        BY <3>1, <4>1, <4>3, <4>4, <4>5
    <3> QED
      BY <3>2, <3>3
  <2>2. CASE ~(k < h)
    <3>1. k + 1 \in 1 .. l /\ h \in 1 .. l /\ k + 1 # h /\ t[k] = s[k + 1]
      BY <1>1, <1>6, <2>2
    <3>2. s[k + 1] # i /\ s[k + 1] \in Live(m)
      BY <1>1, <3>1
    <3>3. i # first => s[k + 1] # before
      <4>1. h # 1 => h - 1 \in 1 .. l /\ h - 1 # k + 1
        BY <1>1, <2>2
      <4> QED
        BY <1>1, <1>4, <3>1, <4>1
    <3>4. n.items[s[k + 1]].next = m.items[s[k + 1]].next
      <4> DEFINE y == s[k + 1]
      <4> HIDE DEF i, first, before, after, y
      <4> QED
        BY <1>5, <3>2, <3>3 DEF y
    <3>5. m.items[s[k + 1]].next = IF k + 1 = l THEN NULL ELSE s[(k + 1) + 1]
      BY <1>1, <3>1
    <3>6. k # l - 1 => t[k + 1] = s[(k + 1) + 1]
      <4>1. k # l - 1 => k + 1 \in 1 .. l - 1 /\ ~(k + 1 < h)
        BY <1>1, <2>2
      <4> QED
        BY <1>6, <4>1
    <3>7. k = l - 1 <=> k + 1 = l
      BY <1>1
    <3> QED
      BY <3>1, <3>4, <3>5, <3>6, <3>7
  <2> QED
    BY <2>1, <2>2
<1>12. ASSUME NEW k \in 1 .. l - 1
       PROVE  n.items[t[k]].prev = t[IF k = 1 THEN l - 1 ELSE k - 1]
  <2>1. CASE k < h
    <3>1. /\ k \in 1 .. l /\ h \in 1 .. l /\ k # h /\ t[k] = s[k] /\ s[k] # i /\ s[k] \in Live(m)
          /\ h # 1 /\ i # first
      <4>1. k \in 1 .. l /\ h \in 1 .. l /\ k # h /\ h # 1
        BY <1>1, <2>1
      <4>2. t[k] = s[k]
        BY <1>6, <2>1
      <4>3. s[k] # i /\ s[k] \in Live(m)
        BY <1>1, <4>1
      <4> QED
        BY <1>4, <4>1, <4>2, <4>3
    <3>2. after # NULL => s[k] # after
      <4>1. h # l => h + 1 \in 1 .. l /\ h + 1 # k
        BY <1>1, <2>1
      <4> QED
        BY <1>1, <1>4, <3>1, <4>1
    <3>3. CASE k = 1 /\ h = l
      <4>1. s[k] = first /\ after = NULL
        BY <1>4, <3>3
      <4>2. n.items[s[k]].prev = before
        <5> HIDE DEF i, first, before, after
        <5> QED
          BY <1>5, <3>1, <4>1
      <4>3. l - 1 \in 1 .. l - 1 /\ l - 1 < h
        BY <1>1, <2>1, <3>3
      <4>4. t[l - 1] = s[l - 1] /\ before = s[l - 1]
        BY <1>6, <3>1, <3>3, <4>3
      <4> QED
        BY <3>1, <3>3, <4>2, <4>4
    <3>4. CASE k = 1 /\ h # l
      <4>1. after # NULL
        BY <1>4, <3>4
      <4>2. n.items[s[k]].prev = m.items[s[k]].prev
        <5> HIDE DEF i, first, before, after
        <5> QED
          BY <1>5, <3>1, <3>2, <4>1
      <4>3. l - 1 \in 1 .. l - 1 /\ ~(l - 1 < h) /\ (l - 1) + 1 = l
        BY <1>1, <2>1, <3>4
      <4>4. t[l - 1] = s[l] /\ m.items[s[k]].prev = s[l]
        BY <1>1, <1>6, <3>1, <3>4, <4>3
      <4> QED
        BY <3>1, <3>4, <4>2, <4>4
    <3>5. CASE k # 1
      <4>1. s[k] # first
        <5>1. 1 \in 1 .. l
          BY <1>1
        <5> QED
          BY <1>1, <3>1, <3>5, <5>1
      <4>2. n.items[s[k]].prev = m.items[s[k]].prev
        <5> HIDE DEF i, first, before, after
        <5> QED
          BY <1>5, <3>1, <3>2, <4>1
      <4>3. k - 1 \in 1 .. l - 1 /\ k - 1 < h
        BY <1>1, <2>1, <3>5
      <4>4. t[k - 1] = s[k - 1] /\ m.items[s[k]].prev = s[k - 1]
        BY <1>1, <1>6, <3>1, <3>5, <4>3
      <4> QED
        BY <3>1, <3>5, <4>2, <4>4
    <3> QED
      BY <3>3, <3>4, <3>5
  <2>2. CASE ~(k < h)
    <3>1. k + 1 \in 1 .. l /\ h \in 1 .. l /\ k + 1 # h /\ t[k] = s[k + 1] /\ h # l
      <4>1. k + 1 \in 1 .. l /\ h \in 1 .. l /\ k + 1 # h /\ h # l
        BY <1>1, <2>2
      <4> QED
        BY <1>6, <2>2, <4>1
    <3>2. s[k + 1] # i /\ s[k + 1] \in Live(m) /\ after # NULL
      BY <1>1, <1>4, <3>1
    <3>3. CASE k = h
      <4>1. s[k + 1] = after
        BY <3>1, <3>3
      <4>2. n.items[s[k + 1]].prev = before
        <5> DEFINE y == s[k + 1]
        <5> HIDE DEF i, first, before, after, y
        <5> QED
          BY <1>5, <3>2, <4>1 DEF y
      <4>3. CASE k = 1
        <5>1. l - 1 \in 1 .. l - 1 /\ ~(l - 1 < h) /\ (l - 1) + 1 = l
          BY <1>1, <3>1, <3>3, <4>3
        <5>2. t[l - 1] = s[l] /\ before = s[l]
          BY <1>6, <3>3, <4>3, <5>1
        <5> QED
          BY <3>1, <4>2, <4>3, <5>2
      <4>4. CASE k # 1
        <5>1. k - 1 \in 1 .. l - 1 /\ k - 1 < h
          BY <1>1, <3>3, <4>4
        <5>2. t[k - 1] = s[k - 1] /\ before = s[k - 1]
          BY <1>6, <3>3, <4>4, <5>1
        <5> QED
          BY <3>1, <4>2, <4>4, <5>2
      <4> QED
        BY <4>3, <4>4
    <3>4. CASE k # h
      <4>1. k + 1 # 1 /\ k + 1 # h + 1 /\ h + 1 \in 1 .. l /\ 1 \in 1 .. l /\ k # 1
            /\ (k + 1) - 1 = k
        BY <1>1, <2>2, <3>1, <3>4
      <4>2. s[k + 1] # after /\ s[k + 1] # first
        BY <1>1, <3>1, <4>1
      <4>3. n.items[s[k + 1]].prev = m.items[s[k + 1]].prev
        <5> DEFINE y == s[k + 1]
        <5> HIDE DEF i, first, before, after, y
        <5> QED
          BY <1>5, <3>2, <4>2 DEF y
      <4>4. m.items[s[k + 1]].prev = s[k]
        BY <1>1, <3>1, <4>1
      <4>5. k - 1 \in 1 .. l - 1 /\ ~(k - 1 < h) /\ (k - 1) + 1 = k
        BY <1>1, <2>2, <3>4
      <4>6. t[k - 1] = s[k]
        BY <1>6, <4>5
      <4> QED
        BY <3>1, <4>1, <4>3, <4>4, <4>6
    <3> QED
      BY <3>3, <3>4
  <2> QED
    BY <2>1, <2>2
<1>13. IsList(n, n.items[p].child, t)
  <2> HIDE DEF t, l
  <2> QED
    BY <1>6, <1>7, <1>10, <1>11, <1>12 DEF IsList
<1> QED
  BY <1>5, <1>8, <1>9, <1>13

-----------------------------------------------------------------------------
(* Walking along *)

\* Induction over the natural numbers, for a set instead of a predicate.
LEMMA UpwardInSet ==
    ASSUME NEW T, 0 \in T, \A n \in Nat : n \in T => n + 1 \in T
    PROVE  \A n \in Nat : n \in T
<1> DEFINE B == {n \in Nat : n \notin T}
           R == {r \in Nat \X Nat : r[1] < r[2]}
<1> SUFFICES ASSUME B # {}
             PROVE  FALSE
  OBVIOUS
<1>1. IsWellFoundedOn(R, Nat)
  BY NatLessThanWellFounded DEF OpToRel
<1>2. B \subseteq Nat
  OBVIOUS
<1> HIDE DEF R
<1>3. PICK x \in B : \A y \in B : ~(<<y, x>> \in R)
  <2> HIDE DEF B
  <2> QED
    BY <1>1, <1>2, WFMin
<1>4. x \in Nat /\ x # 0 /\ x \notin T
  OBVIOUS
<1>5. x - 1 \in Nat /\ x - 1 < x /\ (x - 1) + 1 = x
  BY <1>4
<1>6. x - 1 \notin B
  <2>1. <<x - 1, x>> \in R
    BY <1>4, <1>5 DEF R
  <2> QED
    BY <1>3, <2>1
<1> QED
  BY <1>4, <1>5, <1>6

\* What is seen from every pointer in at most k turns.
Walks(m, k) ==
    CHOOSE from : from =
        [n \in 0 .. k |->
            [x \in Cells \cup {NULL} |->
                IF x = NULL \/ n = 0 THEN <<>>
                ELSE <<x>> \o IF x \in Live(m) THEN from[n - 1][m.items[x].next] ELSE <<>>]]

LEMMA ChainIs ==
    ASSUME NEW m, NEW c
    PROVE  Chain(m, c) = Walks(m, Cardinality(Cells) + 1)[Cardinality(Cells) + 1][c]
BY DEF Chain, Walks

\* One turn more, from what was seen before.
Turn(m, f) ==
    [x \in Cells \cup {NULL} |->
        IF x = NULL THEN <<>> ELSE <<x>> \o IF x \in Live(m) THEN f[m.items[x].next] ELSE <<>>]

LEMMA WalksExist ==
    ASSUME NEW m, NEW k \in Nat
    PROVE  /\ Walks(m, k)[0] = [x \in Cells \cup {NULL} |-> <<>>]
           /\ \A n \in 1 .. k : Walks(m, k)[n] = Turn(m, Walks(m, k)[n - 1])
<1> DEFINE none == [x \in Cells \cup {NULL} |-> <<>>]
           Next(g, j) == [n \in 0 .. j |-> IF n = 0 THEN none ELSE Turn(m, g[n - 1])]
           T == {j \in Nat : \E f : f = Next(f, j)}
<1>1. \A f, j : Next(f, j) =
          [n \in 0 .. j |->
              [x \in Cells \cup {NULL} |->
                  IF x = NULL \/ n = 0 THEN <<>>
                  ELSE <<x>> \o IF x \in Live(m) THEN f[n - 1][m.items[x].next] ELSE <<>>]]
  BY DEF Turn
<1> HIDE DEF none
<1>2. 0 \in T
  <2> DEFINE f == [n \in 0 .. 0 |-> none]
  <2>1. f = Next(f, 0)
    OBVIOUS
  <2> HIDE DEF f, Next
  <2> QED
    BY <2>1
<1>3. ASSUME NEW j \in Nat, j \in T
      PROVE  j + 1 \in T
  <2>1. PICK f : f = Next(f, j)
    BY <1>3
  <2> DEFINE g == [n \in 0 .. j + 1 |-> IF n = j + 1 THEN Turn(m, f[j]) ELSE f[n]]
  <2>2. g = Next(g, j + 1)
    <3> SUFFICES ASSUME NEW n \in 0 .. j + 1
                 PROVE  g[n] = IF n = 0 THEN none ELSE Turn(m, g[n - 1])
      OBVIOUS
    <3>1. CASE n = j + 1
      <4>1. g[n] = Turn(m, f[j]) /\ g[n - 1] = f[j] /\ n # 0
        BY <3>1
      <4> QED
        BY <4>1
    <3>2. CASE n # j + 1
      <4>1. n \in 0 .. j /\ g[n] = f[n] /\ (n # 0 => g[n - 1] = f[n - 1])
        BY <3>2
      <4> HIDE DEF g
      <4>2. f[n] = IF n = 0 THEN none ELSE Turn(m, f[n - 1])
        BY <2>1, <4>1
      <4> QED
        BY <4>1, <4>2
    <3> QED
      BY <3>1, <3>2
  <2> HIDE DEF g, Next
  <2> QED
    BY <2>2
<1> HIDE DEF T
<1>4. k \in T
  BY <1>2, <1>3, UpwardInSet
<1> DEFINE w == Walks(m, k)
<1>5. w = Next(w, k)
  <2> DEFINE Wanted(g) ==
                 [n \in 0 .. k |->
                     [x \in Cells \cup {NULL} |->
                         IF x = NULL \/ n = 0 THEN <<>>
                         ELSE <<x>> \o IF x \in Live(m) THEN g[n - 1][m.items[x].next] ELSE <<>>]]
  <2>1. \A f : Next(f, k) = Wanted(f)
    BY <1>1
  <2>2. \E f : f = Wanted(f)
    <3> HIDE DEF Next, Wanted
    <3>1. \E f : f = Next(f, k)
      BY <1>4 DEF T
    <3> QED
      BY <2>1, <3>1
  <2>3. w = Wanted(w)
    BY <2>2 DEF Walks
  <2> HIDE DEF w, Next, Wanted
  <2> QED
    BY <2>1, <2>3
<1> HIDE DEF w
<1>6. w[0] = none /\ \A n \in 1 .. k : w[n] = Turn(m, w[n - 1])
  BY <1>5
<1> QED
  BY <1>6 DEF w, none

\* A list has no more items than there are cells.
LEMMA ListIsShort ==
    ASSUME NEW m, Memory(m), NEW c, NEW s, IsList(m, c, s)
    PROVE  Cardinality(Cells) \in Nat /\ Len(s) \in Nat /\ Len(s) <= Cardinality(Cells)
<1>1. IsFiniteSet(Cells) /\ Live(m) \subseteq Cells
  BY ItemListAssumption DEF Memory
<1>2. s \in [1 .. Len(s) -> Cells] /\ Len(s) \in Nat
  BY SMTT(40), <1>1, IsListIs, LenProperties
<1>3. s \in Injection(1 .. Len(s), Cells)
  BY <1>2 DEF Injection, IsList
<1>4. Cardinality(1 .. Len(s)) <= Cardinality(Cells)
  BY <1>1, <1>3, FS_Injection
<1>5. Cardinality(1 .. Len(s)) = Len(s)
  <2> DEFINE l == Len(s)
  <2>1. l \in Int /\ 1 \in Int /\ (1 > l => l = 0) /\ l - 1 + 1 = l
    BY <1>2
  <2> HIDE DEF l
  <2>2. Cardinality(1 .. l) = IF 1 > l THEN 0 ELSE l - 1 + 1
    BY ONLY <2>1, FS_Interval
  <2> QED
    BY <2>1, <2>2 DEF l
<1>6. Cardinality(Cells) \in Nat
  BY <1>1, FS_CardinalityType
<1> QED
  BY <1>2, <1>4, <1>5, <1>6

\* The loops over the elements of a list see all of them, in their order, and end.
THEOREM WalkFindsAll ==
    ASSUME NEW m, Memory(m), NEW c, NEW s, IsList(m, c, s)
    PROVE  Chain(m, c) = s
<1> DEFINE l == Len(s)
           C == Cardinality(Cells)
           w == Walks(m, C + 1)
           At(j) == IF j <= l THEN s[j] ELSE NULL
           T == {n \in Nat : n <= C + 1 => \A j \in 1 .. l + 1 :
                     l - j + 1 <= n => w[n][At(j)] = SubSeq(s, j, l)}
<1>1. C \in Nat /\ l \in Nat /\ l <= C
  BY ListIsShort
<1>2. /\ w[0] = [x \in Cells \cup {NULL} |-> <<>>]
      /\ \A n \in 1 .. C + 1 : w[n] = Turn(m, w[n - 1])
  BY <1>1, WalksExist
<1>3. /\ s \in Seq(Live(m)) /\ NULL \notin Live(m) /\ Live(m) \subseteq Cells
      /\ \A k \in 1 .. l : s[k] \in Live(m)
      /\ c = IF s = <<>> THEN NULL ELSE s[1]
      /\ \A k \in 1 .. l : m.items[s[k]].next = IF k = l THEN NULL ELSE s[k + 1]
  BY IsListIs, NotNull DEF Memory
<1> HIDE DEF w, C, l
<1>4. SubSeq(s, l + 1, l) = <<>>
  BY <1>1, SubSeqEmpty
<1>5. \A j \in 1 .. l : SubSeq(s, j, l) = <<s[j]>> \o SubSeq(s, j + 1, l)
  <2> SUFFICES ASSUME NEW j \in 1 .. l
               PROVE  SubSeq(s, j, l) = <<s[j]>> \o SubSeq(s, j + 1, l)
    OBVIOUS
  <2>1. j \in 1 .. Len(s) /\ l \in j .. Len(s)
    BY <1>1 DEF l
  <2> QED
    BY <1>3, <2>1, SubSeqRecursiveFirst
<1>6. At(l + 1) = NULL /\ (\A j \in 1 .. l : At(j) = s[j])
  BY <1>1
<1>7. 0 \in T
  <2>1. \A j \in 1 .. l + 1 : l - j + 1 <= 0 => j = l + 1
    BY <1>1
  <2>2. w[0][NULL] = <<>>
    BY <1>2
  <2> HIDE DEF At
  <2> QED
    BY <1>4, <1>6, <2>1, <2>2
<1>8. ASSUME NEW n \in Nat, n \in T
      PROVE  n + 1 \in T
  <2> SUFFICES ASSUME n + 1 <= C + 1, NEW j \in 1 .. l + 1, l - j + 1 <= n + 1
               PROVE  w[n + 1][At(j)] = SubSeq(s, j, l)
    OBVIOUS
  <2>1. n + 1 \in 1 .. C + 1 /\ (n + 1) - 1 = n /\ n <= C + 1
    BY <1>1
  <2>2. w[n + 1] = Turn(m, w[n])
    BY <1>2, <2>1
  <2>3. CASE j = l + 1
    <3>1. w[n + 1][NULL] = <<>>
      BY <2>2 DEF Turn
    <3> QED
      BY <1>4, <1>6, <2>3, <3>1
  <2>4. CASE j # l + 1
    <3>1. j \in 1 .. l /\ j + 1 \in 1 .. l + 1 /\ l - (j + 1) + 1 <= n
      BY <1>1, <2>4
    <3>2. m.items[s[j]].next = At(j + 1)
      <4>1. m.items[s[j]].next = IF j = l THEN NULL ELSE s[j + 1]
        BY <1>3, <3>1
      <4>2. j + 1 <= l <=> j # l
        BY <1>1, <3>1
      <4> QED
        BY <4>1, <4>2
    <3>3. w[n][At(j + 1)] = SubSeq(s, j + 1, l)
      BY <1>8, <2>1, <3>1
    <3> HIDE DEF At
    <3>4. s[j] \in Live(m) /\ s[j] \in Cells \cup {NULL} /\ s[j] # NULL
      BY SMTT(40), <1>3, <3>1
    <3>5. w[n + 1][s[j]] = <<s[j]>> \o w[n][m.items[s[j]].next]
      BY <2>2, <3>4 DEF Turn
    <3> QED
      BY <1>5, <1>6, <3>1, <3>2, <3>3, <3>5
  <2> QED
    BY <2>3, <2>4
<1> HIDE DEF T
<1>9. C + 1 \in T
  BY <1>1, <1>7, <1>8, UpwardInSet
<1>10. w[C + 1][At(1)] = SubSeq(s, 1, l)
  <2>1. 1 \in 1 .. l + 1 /\ l - 1 + 1 <= C + 1 /\ C + 1 <= C + 1
    BY <1>1
  <2> QED
    BY <1>9, <2>1 DEF T
<1>11. At(1) = c
  <2>1. s = <<>> <=> ~(1 <= l)
    BY <1>1, <1>3 DEF l
  <2> QED
    BY <1>3, <2>1
<1>12. SubSeq(s, 1, l) = s
  BY <1>3, SubSeqFull DEF l
<1> HIDE DEF At
<1> QED
  BY <1>10, <1>11, <1>12, ChainIs DEF w, C

-----------------------------------------------------------------------------
(* Inserting *)

LEMMA InsertAtIs ==
    ASSUME NEW S, NEW s \in Seq(S), IsInjective(s), NEW i \in S,
           \A k \in 1 .. Len(s) : s[k] # i, NEW h \in 1 .. Len(s),
           NEW t, t = InsertAt(s, h, i)
    PROVE  /\ t \in Seq(S) /\ Len(t) = Len(s) + 1 /\ IsInjective(t) /\ t[h] = i
           /\ \A k \in 1 .. Len(s) : k < h => t[k] = s[k]
           /\ \A k \in 1 .. Len(s) : ~(k < h) => t[k + 1] = s[k]
<1> DEFINE l == Len(s)
           a == SubSeq(s, 1, h - 1)
           b == <<i>>
           c == SubSeq(s, h, l)
<1>1. /\ l \in Nat /\ h \in Nat /\ h >= 1 /\ h <= l
      /\ (\A j, k \in 1 .. l : s[j] = s[k] => j = k) /\ \A k \in 1 .. l : s[k] # i
  BY InjectiveIs
<1>2. /\ a \in Seq(S) /\ Len(a) = h - 1 /\ \A k \in 1 .. h - 1 : a[k] = s[k]
  <2>1. \A k \in 1 .. h - 1 : s[k] \in S
    BY <1>1
  <2>2. h - 1 \in Int
    BY <1>1
  <2> QED
    BY <1>1, <2>1, <2>2, SubSeqProperties
<1>3. /\ c \in Seq(S) /\ Len(c) = l - h + 1 /\ \A k \in 1 .. l - h + 1 : c[k] = s[h + k - 1]
  <2>1. \A k \in h .. l : s[k] \in S
    BY <1>1
  <2>2. h \in Int /\ l \in Int
    BY <1>1
  <2> QED
    BY <1>1, <2>1, <2>2, SubSeqProperties
<1>4. b \in Seq(S) /\ Len(b) = 1 /\ b[1] = i
  OBVIOUS
<1>5. t = (a \o b) \o c
  BY DEF InsertAt
<1> HIDE DEF a, b, c
<1>6. /\ a \o b \in Seq(S) /\ Len(a \o b) = h
      /\ \A k \in 1 .. h : (a \o b)[k] = IF k <= h - 1 THEN a[k] ELSE b[k - (h - 1)]
  <2>1. /\ a \o b \in Seq(S) /\ Len(a \o b) = Len(a) + Len(b)
        /\ \A k \in 1 .. Len(a) + Len(b) :
              (a \o b)[k] = IF k <= Len(a) THEN a[k] ELSE b[k - Len(a)]
    <3>1. a \in Seq(S) /\ b \in Seq(S)
      BY <1>2, <1>4
    <3> QED
      BY ONLY <3>1, ConcatProperties
  <2>2. Len(a) + Len(b) = h /\ Len(a) = h - 1
    BY <1>1, <1>2, <1>4
  <2> QED
    BY <2>1, <2>2
<1> DEFINE d == a \o b
<1>7. \A k \in 1 .. h : d[k] = IF k <= h - 1 THEN s[k] ELSE i
  <2> SUFFICES ASSUME NEW k \in 1 .. h
               PROVE  d[k] = IF k <= h - 1 THEN s[k] ELSE i
    OBVIOUS
  <2>1. k <= h - 1 => k \in 1 .. h - 1
    BY <1>1
  <2>2. ~(k <= h - 1) => k - (h - 1) = 1
    BY <1>1
  <2>3. d[k] = IF k <= h - 1 THEN a[k] ELSE b[k - (h - 1)]
    BY <1>6
  <2> HIDE DEF d
  <2> QED
    BY <1>2, <1>4, <2>1, <2>2, <2>3
<1>8. d \in Seq(S) /\ Len(d) = h
  BY <1>6
<1> HIDE DEF d
<1>9. /\ t \in Seq(S) /\ Len(t) = Len(d) + Len(c)
      /\ \A k \in 1 .. Len(d) + Len(c) : t[k] = IF k <= Len(d) THEN d[k] ELSE c[k - Len(d)]
  <2>1. /\ d \o c \in Seq(S) /\ Len(d \o c) = Len(d) + Len(c)
        /\ \A k \in 1 .. Len(d) + Len(c) :
              (d \o c)[k] = IF k <= Len(d) THEN d[k] ELSE c[k - Len(d)]
    BY ONLY <1>3, <1>8, ConcatProperties
  <2>2. t = d \o c
    BY <1>5 DEF d
  <2> QED
    BY <2>1, <2>2
<1> HIDE DEF l
<1>10. Len(d) + Len(c) = l + 1 /\ Len(d) = h
  BY <1>1, <1>3, <1>8
<1>11. \A k \in 1 .. l + 1 : t[k] = IF k <= h THEN d[k] ELSE c[k - h]
  BY <1>9, <1>10
<1>12. ASSUME NEW k \in 1 .. l, k < h
       PROVE  t[k] = s[k]
  <2>1. k \in 1 .. l + 1 /\ k \in 1 .. h /\ k <= h /\ k <= h - 1
    BY <1>1, <1>12
  <2> QED
    BY <1>7, <1>11, <2>1
<1>13. t[h] = i
  <2>1. h \in 1 .. l + 1 /\ h \in 1 .. h /\ h <= h /\ ~(h <= h - 1)
    BY <1>1
  <2> QED
    BY <1>7, <1>11, <2>1
<1>14. ASSUME NEW k \in 1 .. l, ~(k < h)
       PROVE  t[k + 1] = s[k]
  <2>1. /\ k + 1 \in 1 .. l + 1 /\ ~(k + 1 <= h) /\ (k + 1) - h \in 1 .. l - h + 1
        /\ h + ((k + 1) - h) - 1 = k
    BY <1>1, <1>14
  <2>2. t[k + 1] = c[(k + 1) - h]
    BY <1>11, <2>1
  <2>3. c[(k + 1) - h] = s[h + ((k + 1) - h) - 1]
    BY <1>3, <2>1 DEF l
  <2> QED
    BY <2>1, <2>2, <2>3
<1>15. ASSUME NEW j \in 1 .. l + 1, NEW k \in 1 .. l + 1, t[j] = t[k]
       PROVE  j = k
  <2> DEFINE Old(x) == IF x < h THEN x ELSE x - 1
  <2>1. ASSUME NEW x \in 1 .. l + 1, x # h
        PROVE  Old(x) \in 1 .. l /\ t[x] = s[Old(x)]
    <3>1. CASE x < h
      <4>1. x \in 1 .. l
        BY <1>1, <3>1
      <4> QED
        BY <1>12, <3>1, <4>1
    <3>2. CASE ~(x < h)
      <4>1. x - 1 \in 1 .. l /\ ~(x - 1 < h) /\ (x - 1) + 1 = x
        BY <1>1, <2>1, <3>2
      <4>2. t[(x - 1) + 1] = s[x - 1]
        BY <1>14, <4>1
      <4> QED
        BY <3>2, <4>1, <4>2
    <3> QED
      BY <3>1, <3>2
  <2>2. \A x, y \in 1 .. l + 1 : x # h /\ y # h /\ Old(x) = Old(y) => x = y
    BY <1>1
  <2> HIDE DEF Old
  <2>3. CASE j = h /\ k = h
    BY <2>3
  <2>4. CASE j = h /\ k # h
    <3>1. t[k] # i
      BY <1>1, <2>1, <2>4
    <3> QED
      BY <1>13, <1>15, <2>4, <3>1
  <2>5. CASE j # h /\ k = h
    <3>1. t[j] # i
      BY <1>1, <2>1, <2>5
    <3> QED
      BY <1>13, <1>15, <2>5, <3>1
  <2>6. CASE j # h /\ k # h
    <3>1. s[Old(j)] = s[Old(k)] /\ Old(j) \in 1 .. l /\ Old(k) \in 1 .. l
      BY <1>15, <2>1, <2>6
    <3>2. Old(j) = Old(k)
      BY <1>1, <3>1
    <3> QED
      BY <2>2, <2>6, <3>2
  <2> QED
    BY <2>3, <2>4, <2>5, <2>6
<1>16. Len(t) = l + 1 /\ t \in Seq(S)
  BY <1>9, <1>10
<1>17. IsInjective(t)
  <2>1. \A j, k \in 1 .. Len(t) : t[j] = t[k] => j = k
    BY <1>15, <1>16
  <2> QED
    BY ONLY <1>16, <2>1, InjectiveIs
<1> QED
  BY <1>12, <1>13, <1>14, <1>16, <1>17 DEF l

\* What cJSON_InsertItemInArray does to the pointers where there is an element at the position.
LEMMA InsertSets ==
    ASSUME NEW m, Memory(m), NEW p \in Live(m), NEW i \in Live(m), NEW which,
           NEW after \in Live(m), after = GetArrayItem(m, p, which),
           NEW before \in Live(m), before = m.items[after].prev,
           NEW n, n = Insert(m, p, which, i)
    PROVE  /\ Memory(n) /\ Alike(m, n)
           /\ \A y \in Live(m) :
                 /\ n.items[y].next = IF after # m.items[p].child /\ y = before THEN i
                                      ELSE IF y = i THEN after ELSE m.items[y].next
                 /\ n.items[y].prev = IF y = after THEN i
                                      ELSE IF y = i THEN before ELSE m.items[y].prev
                 /\ n.items[y].child = IF after = m.items[p].child /\ y = p THEN i ELSE m.items[y].child
<1> DEFINE first == m.items[p].child
           a == WithNext(m, i, after)
           b == WithPrev(a, i, before)
           c == WithPrev(b, after, i)
<1>1. n = IF after = first THEN WithChild(c, p, i) ELSE WithNext(c, before, i)
  <2>1. after # NULL
    BY NotNull
  <2> DEFINE linked == [m EXCEPT !.items[i].next = after, !.items[i].prev = before,
                                 !.items[after].prev = i]
  <2>2. c = linked
    BY DEF WithNext, WithPrev
  <2>3. n = IF after = first THEN [linked EXCEPT !.items[p].child = i]
            ELSE [linked EXCEPT !.items[before].next = i]
    BY <2>1 DEF Insert
  <2> HIDE DEF linked, c
  <2> QED
    BY <2>2, <2>3 DEF WithChild, WithNext
<1>2. i \in Pointers /\ before \in Pointers /\ after \in Pointers
  BY NotNull
<1>3. SetsNext(m, a, i, after)
  BY <1>2, WithNextIs
<1>4. Memory(a) /\ i \in Live(a) /\ Live(a) = Live(m)
  BY <1>3 DEF SetsNext
<1>5. SetsPrev(a, b, i, before)
  BY <1>2, <1>4, WithPrevIs
<1>6. Memory(b) /\ after \in Live(b) /\ Live(b) = Live(m)
  BY <1>4, <1>5 DEF SetsPrev
<1>7. SetsPrev(b, c, after, i)
  BY SMTT(40), <1>2, <1>6, WithPrevIs
<1>8. Memory(c) /\ p \in Live(c) /\ before \in Live(c) /\ Live(c) = Live(m)
  BY <1>6, <1>7 DEF SetsPrev
<1> HIDE DEF a, b, c
<1>9. Alike(m, c)
  <2>1. Alike(m, a) /\ Alike(a, b) /\ Alike(b, c)
    BY <1>3, <1>5, <1>7 DEF SetsPrev, SetsNext
  <2> QED
    BY <2>1 DEF Alike
<1>10. \A y \in Live(m) :
          /\ c.items[y].next = IF y = i THEN after ELSE m.items[y].next
          /\ c.items[y].prev = IF y = after THEN i
                               ELSE IF y = i THEN before ELSE m.items[y].prev
          /\ c.items[y].child = m.items[y].child
  BY <1>3, <1>4, <1>5, <1>6, <1>7 DEF SetsPrev, SetsNext
<1>11. CASE after = first
  <2>1. SetsChild(c, n, p, i)
    BY <1>1, <1>2, <1>8, <1>11, WithChildIs
  <2>2. Memory(n) /\ Alike(m, n)
    BY <1>9, <2>1 DEF SetsChild, Alike
  <2> QED
    BY <1>8, <1>10, <1>11, <2>1, <2>2 DEF SetsChild
<1>12. CASE after # first
  <2>1. SetsNext(c, n, before, i)
    BY <1>1, <1>2, <1>8, <1>12, WithNextIs
  <2>2. Memory(n) /\ Alike(m, n)
    BY <1>9, <2>1 DEF SetsNext, Alike
  <2> QED
    BY <1>8, <1>10, <1>12, <2>1, <2>2 DEF SetsNext
<1> QED
  BY <1>11, <1>12

\* The elements of p and the one at a position, in a list.
LEMMA ElementsAre ==
    ASSUME NEW m, Memory(m), NEW p, NEW s, IsList(m, m.items[p].child, s)
    PROVE  /\ Elements(m, p) = s
           /\ \A which \in Nat :
                 GetArrayItem(m, p, which) = IF which < Len(s) THEN s[which + 1] ELSE NULL
<1>1. Elements(m, p) = s
  BY WalkFindsAll DEF Elements
<1> QED
  BY <1>1 DEF GetArrayItem

\* What each of these proofs takes from a list and a position in it.
LEMMA Neighbours ==
    ASSUME NEW m, Memory(m), NEW c, NEW s, IsList(m, c, s), NEW h \in 1 .. Len(s),
           NEW l, l = Len(s),
           NEW before, before = s[IF h = 1 THEN l ELSE h - 1],
           NEW after, after = IF h = l THEN NULL ELSE s[h + 1]
    PROVE  /\ s \in Seq(Live(m)) /\ l \in Nat /\ h \in Nat /\ 1 <= h /\ h <= l
           /\ \A k \in 1 .. l : s[k] \in Live(m) /\ s[k] \in ToSet(s)
           /\ \A j, k \in 1 .. l : s[j] = s[k] => j = k
           /\ c = s[1] /\ NULL \notin Live(m)
           /\ \A k \in 1 .. l :
                 /\ m.items[s[k]].next = IF k = l THEN NULL ELSE s[k + 1]
                 /\ m.items[s[k]].prev = s[IF k = 1 THEN l ELSE k - 1]
           /\ before \in Live(m) /\ before \in ToSet(s) /\ m.items[s[h]].prev = before
           /\ after \in Live(m) \cup {NULL} /\ (after # NULL => after \in ToSet(s))
           /\ m.items[s[h]].next = after
           /\ (s[h] = s[1] <=> h = 1) /\ (after = NULL <=> h = l)
<1>1. /\ s \in Seq(Live(m)) /\ l \in Nat /\ h \in Nat /\ 1 <= h /\ h <= l
      /\ \A k \in 1 .. l : s[k] \in Live(m)
      /\ \A j, k \in 1 .. l : s[j] = s[k] => j = k
      /\ c = s[1]
      /\ \A k \in 1 .. l :
            /\ m.items[s[k]].next = IF k = l THEN NULL ELSE s[k + 1]
            /\ m.items[s[k]].prev = s[IF k = 1 THEN l ELSE k - 1]
  <2>1. /\ s \in Seq(Live(m)) /\ Len(s) \in Nat
        /\ \A k \in 1 .. Len(s) : s[k] \in Live(m)
        /\ \A j, k \in 1 .. Len(s) : s[j] = s[k] => j = k
        /\ c = IF s = <<>> THEN NULL ELSE s[1]
        /\ \A k \in 1 .. Len(s) :
              /\ m.items[s[k]].next = IF k = Len(s) THEN NULL ELSE s[k + 1]
              /\ m.items[s[k]].prev = s[IF k = 1 THEN Len(s) ELSE k - 1]
    <3>1. IsList(m, c, s)
      OBVIOUS
    <3> QED
      BY ONLY <3>1, IsListIs
  <2>2. h \in Nat /\ 1 <= h /\ h <= l /\ Len(s) = l
    BY <2>1
  <2>3. s # <<>>
    BY <2>2
  <2> QED
    BY <2>1, <2>2, <2>3
<1>2. \A k \in 1 .. l : s[k] \in ToSet(s)
  BY <1>1, LenProperties DEF ToSet
<1>3. NULL \notin Live(m)
  BY NotNull
<1>4. before \in Live(m) /\ before \in ToSet(s)
  <2> DEFINE k == IF h = 1 THEN l ELSE h - 1
  <2>1. k \in 1 .. l
    BY <1>1
  <2> HIDE DEF k
  <2> QED
    BY <1>1, <1>2, <2>1 DEF k
<1>5. after \in Live(m) \cup {NULL} /\ (after # NULL => after \in ToSet(s)) /\ (after = NULL <=> h = l)
  <2>1. h # l => h + 1 \in 1 .. l
    BY <1>1
  <2> QED
    BY <1>1, <1>2, <1>3, <2>1
<1>6. s[h] = s[1] <=> h = 1
  <2>1. 1 \in 1 .. l /\ h \in 1 .. l
    BY <1>1
  <2> QED
    BY <1>1, <2>1
<1>7. m.items[s[h]].prev = before /\ m.items[s[h]].next = after
  BY <1>1
<1> QED
  BY <1>1, <1>2, <1>3, <1>4, <1>5, <1>6, <1>7

\* cJSON_InsertItemInArray puts the item where an element was, which comes behind it then with
\* all that follow, and touches nothing else.
THEOREM InsertPutsBefore ==
    ASSUME NEW m, Memory(m), NEW p \in Live(m), NEW i \in Live(m),
           NEW s, IsList(m, m.items[p].child, s), i \notin ToSet(s),
           NEW h \in 1 .. Len(s), NEW n, n = Insert(m, p, h - 1, i)
    PROVE  /\ Memory(n) /\ Only(m, n, {p}, ToSet(s) \cup {i})
           /\ IsList(n, n.items[p].child, InsertAt(s, h, i))
<1> DEFINE t == InsertAt(s, h, i)
           l == Len(s)
           first == s[1]
           after == s[h]
           before == s[IF h = 1 THEN l ELSE h - 1]
<1>1. /\ s \in Seq(Live(m)) /\ l \in Nat /\ h \in Nat /\ 1 <= h /\ h <= l
      /\ \A k \in 1 .. l : s[k] \in Live(m) /\ s[k] \in ToSet(s)
      /\ \A j, k \in 1 .. l : s[j] = s[k] => j = k
      /\ m.items[p].child = first
      /\ \A k \in 1 .. l :
            /\ m.items[s[k]].next = IF k = l THEN NULL ELSE s[k + 1]
            /\ m.items[s[k]].prev = s[IF k = 1 THEN l ELSE k - 1]
      /\ before \in Live(m) /\ before \in ToSet(s) /\ m.items[after].prev = before
      /\ (after = first <=> h = 1)
  BY Neighbours
<1>2. \A k \in 1 .. l : s[k] # i
  BY <1>1
<1>3. /\ t \in Seq(Live(m)) /\ Len(t) = l + 1 /\ IsInjective(t) /\ t[h] = i
      /\ \A k \in 1 .. l : k < h => t[k] = s[k]
      /\ \A k \in 1 .. l : ~(k < h) => t[k + 1] = s[k]
  <2>1. IsInjective(s)
    BY DEF IsList
  <2> QED
    BY <1>1, <1>2, <2>1, InsertAtIs
<1>4. after \in Live(m) /\ after \in ToSet(s) /\ h \in 1 .. l
  BY <1>1
<1>5. after = GetArrayItem(m, p, h - 1)
  <2>1. h - 1 \in Nat /\ h - 1 < Len(s) /\ (h - 1) + 1 = h
    BY <1>1
  <2> QED
    BY <2>1, ElementsAre
<1>6. /\ Memory(n) /\ Alike(m, n)
      /\ \A y \in Live(m) :
            /\ n.items[y].next = IF after # first /\ y = before THEN i
                                 ELSE IF y = i THEN after ELSE m.items[y].next
            /\ n.items[y].prev = IF y = after THEN i
                                 ELSE IF y = i THEN before ELSE m.items[y].prev
            /\ n.items[y].child = IF after = first /\ y = p THEN i ELSE m.items[y].child
  <2> DEFINE which == h - 1
  <2>1. n = Insert(m, p, which, i) /\ after = GetArrayItem(m, p, which)
    BY <1>5
  <2>2. first = m.items[p].child /\ before = m.items[after].prev
    BY <1>1
  <2> HIDE DEF first, before, after, which
  <2>3. before \in Live(m) /\ after \in Live(m)
    BY <1>1, <1>4
  <2>4. /\ Memory(n) /\ Alike(m, n)
        /\ \A y \in Live(m) :
              /\ n.items[y].next = IF after # m.items[p].child /\ y = before THEN i
                                   ELSE IF y = i THEN after ELSE m.items[y].next
              /\ n.items[y].prev = IF y = after THEN i
                                   ELSE IF y = i THEN before ELSE m.items[y].prev
              /\ n.items[y].child = IF after = m.items[p].child /\ y = p THEN i
                                    ELSE m.items[y].child
    BY <2>1, <2>2, <2>3, InsertSets
  <2> QED
    BY <2>2, <2>4
<1>7. Live(n) = Live(m)
  BY <1>6 DEF Alike
<1>8. Only(m, n, {p}, ToSet(s) \cup {i})
  <2> HIDE DEF first, before, after
  <2> QED
    BY <1>1, <1>4, <1>6 DEF Only
<1>9. n.items[p].child = t[1] /\ t # <<>>
  <2>1. t # <<>>
    <3> HIDE DEF t, l
    <3> QED
      BY <1>1, <1>3
  <2>2. n.items[p].child = IF h = 1 THEN i ELSE first
    <3> HIDE DEF first, before, after
    <3> QED
      BY <1>1, <1>6
  <2>3. h # 1 => 1 \in 1 .. l /\ 1 < h
    BY <1>1
  <2>4. t[1] = IF h = 1 THEN i ELSE first
    BY <1>3, <2>3
  <2> QED
    BY <2>1, <2>2, <2>4
<1>10. before # i /\ after # i
  BY <1>2, <1>4, <1>1
<1>11. n.items[i].next = after /\ n.items[i].prev = before
  <2> HIDE DEF first, before, after
  <2> QED
    BY <1>6, <1>10
<1>12. ASSUME NEW k \in 1 .. l
       PROVE  /\ n.items[s[k]].next = IF h # 1 /\ k = h - 1 THEN i
                                      ELSE IF k = l THEN NULL ELSE s[k + 1]
              /\ n.items[s[k]].prev = IF k = h THEN i ELSE s[IF k = 1 THEN l ELSE k - 1]
  <2>1. h # 1 => (s[k] = before <=> k = h - 1)
    <3>1. h # 1 => h - 1 \in 1 .. l
      BY <1>1
    <3> QED
      BY <1>1, <3>1
  <2>2. s[k] = after <=> k = h
    BY <1>1, <1>4
  <2>3. s[k] # i /\ s[k] \in Live(m)
    BY <1>1, <1>2
  <2>4. n.items[s[k]].next = IF h # 1 /\ k = h - 1 THEN i ELSE m.items[s[k]].next
    <3> DEFINE y == s[k]
    <3> HIDE DEF first, before, after, y
    <3> QED
      BY <1>1, <1>6, <2>1, <2>3 DEF y
  <2>5. n.items[s[k]].prev = IF k = h THEN i ELSE m.items[s[k]].prev
    <3> DEFINE y == s[k]
    <3> HIDE DEF first, before, after, y
    <3> QED
      BY <1>6, <2>2, <2>3 DEF y
  <2> QED
    BY <1>1, <2>4, <2>5
<1>13. ASSUME NEW k \in 1 .. l + 1
       PROVE  /\ n.items[t[k]].next = IF k = l + 1 THEN NULL ELSE t[k + 1]
              /\ n.items[t[k]].prev = t[IF k = 1 THEN l + 1 ELSE k - 1]
  <2>0. t[l + 1] = s[l]
    <3>1. l \in 1 .. l /\ ~(l < h)
      BY <1>1
    <3> QED
      BY <1>3, <3>1
  <2>1. CASE k < h
    <3>1. k \in 1 .. l /\ t[k] = s[k] /\ k # l + 1 /\ k # h /\ k # l /\ h # 1
      <4>1. k \in 1 .. l /\ k # l + 1 /\ k # h /\ k # l /\ h # 1
        BY <1>1, <2>1
      <4> QED
        BY <1>3, <2>1, <4>1
    <3>2. n.items[s[k]].next = IF k = h - 1 THEN i ELSE s[k + 1]
      BY <1>12, <3>1
    <3>3. t[k + 1] = IF k = h - 1 THEN i ELSE s[k + 1]
      <4>1. k = h - 1 => k + 1 = h
        BY <1>1
      <4>2. k # h - 1 => k + 1 \in 1 .. l /\ k + 1 < h
        BY <1>1, <2>1
      <4> QED
        BY <1>3, <4>1, <4>2
    <3>4. n.items[s[k]].prev = s[IF k = 1 THEN l ELSE k - 1]
      BY <1>12, <3>1
    <3>5. t[IF k = 1 THEN l + 1 ELSE k - 1] = s[IF k = 1 THEN l ELSE k - 1]
      <4>1. k # 1 => k - 1 \in 1 .. l /\ k - 1 < h
        BY <1>1, <2>1
      <4> QED
        BY <1>3, <2>0, <4>1
    <3> QED
      BY <3>1, <3>2, <3>3, <3>4, <3>5
  <2>2. CASE k = h
    <3>1. t[k] = i /\ k # l + 1 /\ h \in 1 .. l /\ ~(h < h)
      BY <1>1, <1>3, <2>2
    <3>2. t[h + 1] = s[h]
      BY <1>3, <3>1
    <3>3. t[IF h = 1 THEN l + 1 ELSE h - 1] = before
      <4>1. h # 1 => h - 1 \in 1 .. l /\ h - 1 < h
        BY <1>1
      <4> QED
        BY <1>3, <2>0, <4>1
    <3> QED
      BY <1>11, <2>2, <3>1, <3>2, <3>3
  <2>3. CASE k > h
    <3> DEFINE j == k - 1
    <3>1. j \in 1 .. l /\ ~(j < h) /\ j + 1 = k /\ k # 1 /\ k - 1 = j
      BY <1>1, <2>3
    <3>2. t[k] = s[j]
      BY <1>3, <3>1
    <3>3. n.items[s[j]].next = IF j = l THEN NULL ELSE s[j + 1]
      <4>1. ~(h # 1 /\ j = h - 1)
        BY <1>1, <3>1
      <4> QED
        BY <1>12, <3>1, <4>1
    <3>4. j # l => t[k + 1] = s[j + 1]
      <4>1. j # l => j + 1 \in 1 .. l /\ ~(j + 1 < h) /\ (j + 1) + 1 = k + 1
        BY <1>1, <3>1
      <4> QED
        BY <1>3, <4>1
    <3>5. k = l + 1 <=> j = l
      BY <1>1
    <3>6. n.items[s[j]].prev = t[k - 1]
      <4>1. CASE j = h
        BY <1>3, <1>12, <3>1, <4>1
      <4>2. CASE j # h
        <5>1. j - 1 \in 1 .. l /\ ~(j - 1 < h) /\ (j - 1) + 1 = j /\ j # 1
          BY <1>1, <3>1, <4>2
        <5>2. t[j] = s[j - 1]
          BY <1>3, <5>1
        <5>3. n.items[s[j]].prev = s[j - 1]
          BY <1>12, <3>1, <4>2, <5>1
        <5> QED
          BY <3>1, <5>2, <5>3
      <4> QED
        BY <4>1, <4>2
    <3> HIDE DEF j
    <3> QED
      BY <3>1, <3>2, <3>3, <3>4, <3>5, <3>6
  <2>4. k < h \/ k = h \/ k > h
    BY <1>1
  <2> QED
    BY <2>1, <2>2, <2>3, <2>4
<1>14. IsList(n, n.items[p].child, t)
  <2> HIDE DEF t, l
  <2> QED
    BY <1>3, <1>7, <1>9, <1>13 DEF IsList
<1> QED
  BY <1>6, <1>8, <1>14

\* Beyond the last element cJSON_InsertItemInArray appends.
THEOREM InsertBeyondAppends ==
    ASSUME NEW m, Memory(m), NEW p \in Live(m), NEW i \in Live(m), m.items[i].next = NULL,
           NEW s, IsList(m, m.items[p].child, s), i \notin ToSet(s),
           NEW which \in Nat, which >= Len(s), NEW n, n = Insert(m, p, which, i)
    PROVE  /\ Memory(n) /\ Only(m, n, {p}, ToSet(s) \cup {i})
           /\ IsList(n, n.items[p].child, Append(s, i))
<1>1. GetArrayItem(m, p, which) = NULL
  <2>1. Len(s) \in Nat
    BY IsListIs
  <2>2. ~(which < Len(s))
    BY <2>1
  <2> QED
    BY <2>2, ElementsAre
<1>2. n = AddItemToArray(m, p, i)
  BY <1>1 DEF Insert
<1> QED
  BY <1>2, AddAppends

-----------------------------------------------------------------------------
(* Exchanging *)

\* What cJSON_ReplaceItemViaPointer does to the pointers, called with an element i of p and
\* with another item r that is not next to it.
LEMMA ExchangeSets ==
    ASSUME NEW m, Memory(m), NEW p \in Live(m), NEW i \in Live(m), NEW r \in Live(m),
           NEW first \in Live(m), first = m.items[p].child,
           NEW before \in Live(m), before = m.items[i].prev,
           NEW after \in Live(m) \cup {NULL}, after = m.items[i].next,
           r # i, r # first, r # before, r # after, after # first,
           NEW n, n = Exchange(m, p, i, r)
    PROVE  /\ Memory(n) /\ Alike(m, n)
           /\ \A y \in Live(m) :
                 /\ n.items[y].next = IF y = i THEN NULL
                                      ELSE IF i # first /\ y = before THEN r
                                      ELSE IF y = r THEN after
                                      ELSE m.items[y].next
                 /\ n.items[y].prev = IF y = i THEN NULL
                                      ELSE IF i = first /\ m.items[first].prev = first /\ y = r
                                      THEN r
                                      ELSE IF i # first /\ after = NULL /\ y = first THEN r
                                      ELSE IF after # NULL /\ y = after THEN r
                                      ELSE IF y = r THEN before
                                      ELSE m.items[y].prev
                 /\ n.items[y].child = IF i = first /\ y = p THEN r ELSE m.items[y].child
<1> DEFINE a == WithNext(m, r, after)
           b == WithPrev(a, r, before)
           c == IF after # NULL THEN WithPrev(b, after, r) ELSE b
           only == c.items[first].prev = first
           d == IF first = i
                THEN WithPrev(c, r, IF only THEN r ELSE c.items[r].prev)
                ELSE WithNext(c, before, r)
           e == IF first = i THEN WithChild(d, p, r)
                ELSE WithPrev(d, first, IF after = NULL THEN r ELSE c.items[first].prev)
           f == WithNext(e, i, NULL)
<1>1. n = WithPrev(f, i, NULL)
  <2> DEFINE x == m.items[i]
             taken == [m EXCEPT !.items[r].next = x.next, !.items[r].prev = x.prev]
             back == IF x.next # NULL THEN [taken EXCEPT !.items[x.next].prev = r] ELSE taken
             start == m.items[p].child
             parent == IF start = i
                       THEN [back EXCEPT !.items[r].prev =
                                             IF back.items[start].prev = start THEN r ELSE @,
                                         !.items[p].child = r]
                       ELSE [back EXCEPT !.items[x.prev].next = r,
                                         !.items[start].prev = IF x.next = NULL THEN r ELSE @]
  <2>1. n = [parent EXCEPT !.items[i].next = NULL, !.items[i].prev = NULL]
    BY DEF Exchange
  <2>2. b = taken
    BY DEF WithNext, WithPrev
  <2> HIDE DEF b, taken
  <2>3. c = back
    BY SMTT(40), <2>2 DEF WithPrev
  <2> HIDE DEF c, back
  <2>4. e = parent
    <3>1. CASE start = i
      BY <2>3, <3>1 DEF WithPrev, WithChild
    <3>2. CASE start # i
      BY <2>3, <3>2 DEF WithPrev, WithNext
    <3> QED
      BY <3>1, <3>2
  <2> HIDE DEF e, parent
  <2> QED
    BY SMTT(40), <2>1, <2>4 DEF WithPrev, WithNext
<1>2. /\ before \in Pointers /\ after \in Pointers /\ NULL \in Pointers /\ NULL \notin Live(m)
      /\ r \in Pointers
  BY NotNull
<1>3. \A x : Alike(x, x)
  BY DEF Alike
<1>4. SetsNext(m, a, r, after)
  BY <1>2, WithNextIs
<1>5. Memory(a) /\ r \in Live(a) /\ Live(a) = Live(m)
  BY <1>4 DEF SetsNext
<1>6. SetsPrev(a, b, r, before)
  BY SMTT(40), <1>2, <1>5, WithPrevIs
<1>7. Memory(b) /\ Live(b) = Live(m)
  BY SMTT(40), <1>5, <1>6 DEF SetsPrev
<1> HIDE DEF a, b
<1>8. /\ Memory(c) /\ Live(c) = Live(m) /\ Alike(b, c)
      /\ \A y \in Live(m) :
            /\ c.items[y].next = b.items[y].next
            /\ c.items[y].prev = IF after # NULL /\ y = after THEN r ELSE b.items[y].prev
            /\ c.items[y].child = b.items[y].child
  <2>1. CASE after # NULL
    <3>1. after \in Live(b)
      BY <1>7, <2>1
    <3>2. SetsPrev(b, c, after, r)
      BY <1>2, <1>7, <2>1, <3>1, WithPrevIs
    <3> HIDE DEF c
    <3> QED
      BY <1>7, <2>1, <3>2 DEF SetsPrev
  <2>2. CASE after = NULL
    <3>1. c = b
      BY <2>2
    <3> HIDE DEF c
    <3> QED
      BY <1>3, <1>7, <2>2, <3>1
  <2> QED
    BY <2>1, <2>2
<1> HIDE DEF c
<1>9. /\ Alike(m, c)
      /\ \A y \in Live(m) :
            /\ c.items[y].next = IF y = r THEN after ELSE m.items[y].next
            /\ c.items[y].prev = IF after # NULL /\ y = after THEN r
                                 ELSE IF y = r THEN before ELSE m.items[y].prev
            /\ c.items[y].child = m.items[y].child
  <2>1. Alike(m, a) /\ Alike(a, b) /\ Alike(b, c)
    BY <1>4, <1>6, <1>8 DEF SetsPrev, SetsNext
  <2>2. Alike(m, c)
    BY <2>1 DEF Alike
  <2>3. \A y \in Live(m) :
            /\ b.items[y].next = IF y = r THEN after ELSE m.items[y].next
            /\ b.items[y].prev = IF y = r THEN before ELSE m.items[y].prev
            /\ b.items[y].child = m.items[y].child
    BY <1>4, <1>5, <1>6 DEF SetsPrev, SetsNext
  <2> QED
    BY <1>8, <2>2, <2>3
<1>10. only <=> m.items[first].prev = first
  BY <1>9
<1>11. c.items[r].prev = before
  BY SMTT(40), <1>9
<1> HIDE DEF only
<1>12. /\ Memory(e) /\ Live(e) = Live(m) /\ Alike(c, e)
       /\ \A y \in Live(m) :
             /\ e.items[y].next = IF i # first /\ y = before THEN r ELSE c.items[y].next
             /\ e.items[y].prev = IF i = first /\ only /\ y = r THEN r
                                  ELSE IF i # first /\ after = NULL /\ y = first THEN r
                                  ELSE c.items[y].prev
             /\ e.items[y].child = IF i = first /\ y = p THEN r ELSE c.items[y].child
  <2>0. Memory(c) /\ r \in Live(c) /\ before \in Live(c) /\ Live(c) = Live(m)
    BY <1>8
  <2>1. CASE i = first
    <3> DEFINE v == IF only THEN r ELSE c.items[r].prev
    <3>1. v \in Pointers
      BY <1>2, <1>11
    <3>2. d = WithPrev(c, r, v)
      BY <2>1
    <3> HIDE DEF v
    <3>3. SetsPrev(c, d, r, v)
      BY <2>0, <3>1, <3>2, WithPrevIs
    <3>4. e = WithChild(d, p, r)
      BY <2>1
    <3> HIDE DEF d, e
    <3>5. Memory(d) /\ p \in Live(d) /\ Live(d) = Live(m)
      BY <2>0, <3>3 DEF SetsPrev
    <3>6. SetsChild(d, e, p, r)
      BY <1>2, <3>4, <3>5, WithChildIs
    <3>7. Alike(c, e)
      <4>1. Alike(c, d) /\ Alike(d, e)
        BY <3>3, <3>6 DEF SetsPrev, SetsChild
      <4> QED
        BY <4>1 DEF Alike
    <3>8. Memory(e) /\ Live(e) = Live(m)
      BY <3>5, <3>6 DEF SetsChild
    <3>9. \A y \in Live(m) :
             /\ e.items[y].next = c.items[y].next
             /\ e.items[y].prev = IF y = r THEN v ELSE c.items[y].prev
             /\ e.items[y].child = IF y = p THEN r ELSE c.items[y].child
      BY <2>0, <3>3, <3>5, <3>6 DEF SetsPrev, SetsChild
    <3> QED
      BY <2>1, <3>7, <3>8, <3>9 DEF v
  <2>2. CASE i # first
    <3> DEFINE v == IF after = NULL THEN r ELSE c.items[first].prev
    <3>1. d = WithNext(c, before, r)
      BY <2>2
    <3>2. e = WithPrev(d, first, v)
      BY <2>2
    <3> HIDE DEF d, e
    <3>3. SetsNext(c, d, before, r)
      BY <1>2, <2>0, <3>1, WithNextIs
    <3>4. Memory(d) /\ first \in Live(d) /\ Live(d) = Live(m)
      BY <2>0, <3>3 DEF SetsNext
    <3>5. c.items[first].prev \in Pointers
      BY <1>8, <2>0, NotNull
    <3>6. v \in Pointers
      BY <1>2, <3>5
    <3> HIDE DEF v
    <3>8. SetsPrev(d, e, first, v)
      BY <3>2, <3>4, <3>6, WithPrevIs
    <3>9. Alike(c, e)
      <4>1. Alike(c, d) /\ Alike(d, e)
        BY <3>3, <3>8 DEF SetsPrev, SetsNext
      <4> QED
        BY <4>1 DEF Alike
    <3>10. Memory(e) /\ Live(e) = Live(m)
      BY <3>4, <3>8 DEF SetsPrev
    <3>11. \A y \in Live(m) :
             /\ e.items[y].next = IF y = before THEN r ELSE c.items[y].next
             /\ e.items[y].prev = IF y = first THEN v ELSE c.items[y].prev
             /\ e.items[y].child = c.items[y].child
      BY <2>0, <3>3, <3>4, <3>8 DEF SetsPrev, SetsNext
    <3> QED
      BY <2>2, <3>9, <3>10, <3>11 DEF v
  <2> QED
    BY <2>1, <2>2
<1> HIDE DEF e
<1>13. Memory(e) /\ i \in Live(e)
  BY <1>12
<1>14. SetsNext(e, f, i, NULL)
  BY <1>2, <1>13, WithNextIs
<1>15. Memory(f) /\ i \in Live(f) /\ Live(f) = Live(m)
  BY <1>12, <1>14 DEF SetsNext
<1>16. SetsPrev(f, n, i, NULL)
  BY <1>1, <1>2, <1>15, WithPrevIs
<1> HIDE DEF f
<1>17. Alike(m, n) /\ Memory(n)
  <2>1. Alike(m, c) /\ Alike(c, e) /\ Alike(e, f) /\ Alike(f, n) /\ Memory(n)
    BY <1>9, <1>12, <1>14, <1>16 DEF SetsPrev, SetsNext
  <2> QED
    BY <2>1 DEF Alike
<1>18. \A y \in Live(m) :
          /\ n.items[y].next = IF y = i THEN NULL ELSE e.items[y].next
          /\ n.items[y].prev = IF y = i THEN NULL ELSE e.items[y].prev
          /\ n.items[y].child = e.items[y].child
  BY <1>12, <1>14, <1>15, <1>16 DEF SetsPrev, SetsNext
<1>19. ASSUME NEW y \in Live(m)
       PROVE  /\ n.items[y].next = IF y = i THEN NULL
                                   ELSE IF i # first /\ y = before THEN r
                                   ELSE IF y = r THEN after
                                   ELSE m.items[y].next
              /\ n.items[y].prev = IF y = i THEN NULL
                                   ELSE IF i = first /\ m.items[first].prev = first /\ y = r
                                   THEN r
                                   ELSE IF i # first /\ after = NULL /\ y = first THEN r
                                   ELSE IF after # NULL /\ y = after THEN r
                                   ELSE IF y = r THEN before
                                   ELSE m.items[y].prev
              /\ n.items[y].child = IF i = first /\ y = p THEN r ELSE m.items[y].child
  <2>1. n.items[y].next = IF y = i THEN NULL
                          ELSE IF i # first /\ y = before THEN r
                          ELSE IF y = r THEN after
                          ELSE m.items[y].next
    BY <1>9, <1>12, <1>18
  <2>2. n.items[y].child = IF i = first /\ y = p THEN r ELSE m.items[y].child
    BY <1>9, <1>12, <1>18
  <2>3. n.items[y].prev = IF y = i THEN NULL ELSE e.items[y].prev
    BY <1>18
  <2>4. e.items[y].prev = IF i = first /\ m.items[first].prev = first /\ y = r THEN r
                          ELSE IF i # first /\ after = NULL /\ y = first THEN r
                          ELSE c.items[y].prev
    BY <1>10, <1>12
  <2>5. c.items[y].prev = IF after # NULL /\ y = after THEN r
                          ELSE IF y = r THEN before ELSE m.items[y].prev
    BY <1>9
  <2> QED
    BY <2>1, <2>2, <2>3, <2>4, <2>5
<1> QED
  BY <1>17, <1>19

\* cJSON_ReplaceItemViaPointer puts the new item in the place of the old one, which is linked
\* to nothing afterwards, and touches nothing else: the first, the last and the only one as well.
THEOREM ExchangeReplaces ==
    ASSUME NEW m, Memory(m), NEW p \in Live(m), NEW r \in Live(m),
           NEW s, IsList(m, m.items[p].child, s), r \notin ToSet(s),
           NEW h \in 1 .. Len(s), NEW n, n = Exchange(m, p, s[h], r)
    PROVE  /\ Memory(n) /\ Only(m, n, {p}, ToSet(s) \cup {r})
           /\ IsList(n, n.items[p].child, [s EXCEPT ![h] = r])
           /\ n.items[s[h]].next = NULL /\ n.items[s[h]].prev = NULL
<1> DEFINE t == [s EXCEPT ![h] = r]
           l == Len(s)
           i == s[h]
           first == s[1]
           before == s[IF h = 1 THEN l ELSE h - 1]
           after == IF h = l THEN NULL ELSE s[h + 1]
<1>1. /\ s \in Seq(Live(m)) /\ l \in Nat /\ h \in Nat /\ 1 <= h /\ h <= l
      /\ \A k \in 1 .. l : s[k] \in Live(m) /\ s[k] \in ToSet(s)
      /\ \A j, k \in 1 .. l : s[j] = s[k] => j = k
      /\ m.items[p].child = first /\ NULL \notin Live(m)
      /\ \A k \in 1 .. l :
            /\ m.items[s[k]].next = IF k = l THEN NULL ELSE s[k + 1]
            /\ m.items[s[k]].prev = s[IF k = 1 THEN l ELSE k - 1]
      /\ before \in Live(m) /\ before \in ToSet(s) /\ m.items[i].prev = before
      /\ after \in Live(m) \cup {NULL} /\ (after # NULL => after \in ToSet(s))
      /\ m.items[i].next = after
      /\ (i = first <=> h = 1) /\ (after = NULL <=> h = l)
  BY Neighbours
<1>2. h \in 1 .. l /\ 1 \in 1 .. l /\ l \in 1 .. l
  BY <1>1
<1>3. i \in Live(m) /\ i \in ToSet(s) /\ first \in Live(m) /\ first \in ToSet(s)
  BY <1>1, <1>2
<1>4. r # i /\ r # first /\ r # before /\ r # after /\ \A k \in 1 .. l : s[k] # r
  BY <1>1, <1>3
<1>5. after # first
  <2>1. h # l => h + 1 \in 1 .. l /\ h + 1 # 1
    BY <1>1
  <2> QED
    BY <1>1, <1>2, <1>3, <2>1
<1>6. first = m.items[first].prev <=> l = 1
  BY <1>1, <1>2
<1>7. /\ Memory(n) /\ Alike(m, n)
      /\ \A y \in Live(m) :
            /\ n.items[y].next = IF y = i THEN NULL
                                 ELSE IF i # first /\ y = before THEN r
                                 ELSE IF y = r THEN after
                                 ELSE m.items[y].next
            /\ n.items[y].prev = IF y = i THEN NULL
                                 ELSE IF i = first /\ m.items[first].prev = first /\ y = r
                                 THEN r
                                 ELSE IF i # first /\ after = NULL /\ y = first THEN r
                                 ELSE IF after # NULL /\ y = after THEN r
                                 ELSE IF y = r THEN before
                                 ELSE m.items[y].prev
            /\ n.items[y].child = IF i = first /\ y = p THEN r ELSE m.items[y].child
  <2>1. n = Exchange(m, p, i, r)
    OBVIOUS
  <2>2. first = m.items[p].child /\ before = m.items[i].prev /\ after = m.items[i].next
    BY <1>1
  <2> HIDE DEF i, first, before, after
  <2>3. before \in Live(m) /\ after \in Live(m) \cup {NULL}
    BY <1>1
  <2> QED
    BY SMTT(40), <1>3, <1>4, <1>5, <2>1, <2>2, <2>3, ExchangeSets
<1>8. /\ t \in Seq(Live(m)) /\ Len(t) = l /\ IsInjective(t) /\ t[h] = r
      /\ \A k \in 1 .. l : k # h => t[k] = s[k]
  <2>1. IsInjective(s)
    BY DEF IsList
  <2> QED
    BY <1>1, <1>2, <1>4, <2>1, ReplaceIs
<1>9. Live(n) = Live(m)
  BY <1>7 DEF Alike
<1>10. Only(m, n, {p}, ToSet(s) \cup {r})
  <2> HIDE DEF i, first, before, after
  <2> QED
    BY <1>1, <1>3, <1>7 DEF Only
<1>11. n.items[i].next = NULL /\ n.items[i].prev = NULL
  <2> HIDE DEF i, first, before, after
  <2> QED
    BY <1>3, <1>7
<1>12. n.items[p].child = t[1] /\ t # <<>>
  <2>1. t # <<>>
    <3> HIDE DEF t, l
    <3> QED
      BY <1>2, <1>8
  <2>2. n.items[p].child = IF h = 1 THEN r ELSE first
    <3> HIDE DEF i, first, before, after
    <3> QED
      BY <1>1, <1>7
  <2>3. t[1] = IF h = 1 THEN r ELSE first
    <3> HIDE DEF t
    <3> QED
      BY <1>2, <1>8
  <2> QED
    BY <2>1, <2>2, <2>3
<1>13. /\ n.items[r].next = after
       /\ n.items[r].prev = IF l = 1 THEN r ELSE before
  <2>1. i = first /\ m.items[first].prev = first <=> l = 1
    BY <1>1, <1>6
  <2> HIDE DEF i, first, before, after, l
  <2> QED
    BY <1>4, <1>7, <2>1
<1>14. ASSUME NEW k \in 1 .. l, k # h
       PROVE  /\ n.items[s[k]].next = IF k + 1 = h THEN r ELSE IF k = l THEN NULL ELSE s[k + 1]
              /\ n.items[s[k]].prev = IF k = h + 1 THEN r
                                      ELSE IF k = 1 /\ h = l THEN r
                                      ELSE s[IF k = 1 THEN l ELSE k - 1]
  <2>1. s[k] # i /\ s[k] # r /\ s[k] \in Live(m)
    BY <1>1, <1>2, <1>4, <1>14
  <2>2. h # 1 => (s[k] = before <=> k + 1 = h)
    <3>1. h # 1 => h - 1 \in 1 .. l /\ (k = h - 1 <=> k + 1 = h)
      BY <1>1
    <3> QED
      BY <1>1, <3>1
  <2>3. h = 1 => k + 1 # h
    BY <1>1
  <2>4. n.items[s[k]].next = IF k + 1 = h THEN r ELSE m.items[s[k]].next
    <3> DEFINE y == s[k]
    <3> HIDE DEF i, first, before, after, y
    <3> QED
      BY <1>1, <1>7, <2>1, <2>2, <2>3 DEF y
  <2>5. after # NULL => (s[k] = after <=> k = h + 1)
    <3>1. h # l => h + 1 \in 1 .. l
      BY <1>1
    <3> QED
      BY <1>1, <3>1
  <2>6. h = l => k # h + 1
    BY <1>1
  <2>7. s[k] = first <=> k = 1
    BY <1>1, <1>2
  <2>8. n.items[s[k]].prev = IF h # 1 /\ h = l /\ k = 1 THEN r
                             ELSE IF k = h + 1 THEN r
                             ELSE m.items[s[k]].prev
    <3> DEFINE y == s[k]
    <3> HIDE DEF i, first, before, after, y, l
    <3> QED
      BY <1>1, <1>7, <2>1, <2>5, <2>6, <2>7 DEF y
  <2> QED
    BY <1>1, <1>14, <2>4, <2>8
<1>15. ASSUME NEW k \in 1 .. l
       PROVE  /\ n.items[t[k]].next = IF k = l THEN NULL ELSE t[k + 1]
              /\ n.items[t[k]].prev = t[IF k = 1 THEN l ELSE k - 1]
  <2>1. CASE k = h
    <3>1. t[k] = r
      BY SMTT(40), <1>8, <2>1
    <3>2. h # l => t[h + 1] = s[h + 1]
      <4>1. h # l => h + 1 \in 1 .. l /\ h + 1 # h
        BY <1>1
      <4> QED
        BY <1>8, <4>1
    <3>3. t[IF h = 1 THEN l ELSE h - 1] = IF l = 1 THEN r ELSE before
      <4>1. h # 1 => h - 1 \in 1 .. l /\ h - 1 # h /\ l # 1
        BY <1>1
      <4>2. CASE h = 1
        BY <1>2, <1>8, <4>2
      <4>3. CASE h # 1
        BY <1>8, <4>1, <4>3
      <4> QED
        BY <4>2, <4>3
    <3> QED
      BY <1>13, <2>1, <3>1, <3>2, <3>3
  <2>2. CASE k # h
    <3>1. t[k] = s[k]
      BY SMTT(40), <1>8, <2>2
    <3>2. k # l => t[k + 1] = IF k + 1 = h THEN r ELSE s[k + 1]
      <4>1. k # l => k + 1 \in 1 .. l
        BY <1>1
      <4> QED
        BY <1>8, <4>1
    <3>3. k + 1 = h => k # l
      BY <1>1
    <3>4. n.items[t[k]].next = IF k = l THEN NULL ELSE t[k + 1]
      BY <1>14, <2>2, <3>1, <3>2, <3>3
    <3>5. n.items[t[k]].prev = t[IF k = 1 THEN l ELSE k - 1]
      <4>1. CASE k = 1
        <5>1. k # h + 1
          BY <1>1, <4>1
        <5>2. t[l] = IF h = l THEN r ELSE s[l]
          BY <1>2, <1>8
        <5> QED
          BY <1>14, <2>2, <3>1, <4>1, <5>1, <5>2
      <4>2. CASE k # 1
        <5>1. k - 1 \in 1 .. l /\ (k - 1 = h <=> k = h + 1)
          BY <1>1, <4>2
        <5>2. t[k - 1] = IF k = h + 1 THEN r ELSE s[k - 1]
          BY <1>8, <5>1
        <5> QED
          BY <1>14, <2>2, <3>1, <4>2, <5>2
      <4> QED
        BY <4>1, <4>2
    <3> QED
      BY <3>4, <3>5
  <2> QED
    BY <2>1, <2>2
<1>16. IsList(n, n.items[p].child, t)
  <2> HIDE DEF t, l
  <2> QED
    BY <1>8, <1>9, <1>12, <1>15 DEF IsList
<1> QED
  BY <1>7, <1>10, <1>11, <1>16
=============================================================================
