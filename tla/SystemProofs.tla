---------------------------- MODULE SystemProofs ----------------------------
(* The commands together: from the process that makes a message to the one   *)
(* that gets it, the networks and the proxy between them are a channel that  *)
(* may lose messages and does nothing worse.                                 *)
EXTENDS System, SequenceTheorems, FiniteSetTheorems, TLAPS

-----------------------------------------------------------------------------
(* The inductive invariant *)

\* The messages of a network, when this many have been made.
FromNet(net, made) == [net : {net}, n : 1..made]

\* What has entered the proxy one way is of one network, in the order in which
\* it was made, and what is inside has entered.
InTurn(what, inside, net, made) ==
    /\ what \in Seq(FromNet(net, made))
    /\ \A i, j \in 1..Len(what) : i < j => what[i].n < what[j].n
    /\ inside \subseteq 1..Len(what)

\* The subscriber's reader has what the proxy wrote last, which is older than
\* all that the proxy is yet to write.
CacheOK ==
    cache # Nothing =>
        /\ cache \in FromNet("mqtt", posted)
        /\ \A n \in mInside : cache.n < mWhat[n].n

\* A sample in samples[0] is the last one taken, and what has been published is no
\* later than that one, no older than the sample it is for, and in order.
BufferOK ==
    /\ taken \in 0..Len(dWhat)
    /\ shared \in Messages \cup {Nothing}
    /\ shared.net = "dds" => taken # 0 /\ shared = dWhat[taken]
    /\ onMqtt \in Seq(Messages \cup {Nothing}) /\ Len(onMqtt) = Len(dDelivered)
    /\ \A i \in 1..Len(onMqtt) : onMqtt[i].net = "dds" =>
          /\ dWhat[dDelivered[i]].n <= onMqtt[i].n
          /\ taken # 0 /\ onMqtt[i].n <= dWhat[taken].n
          /\ \A j \in 1..i : onMqtt[j].net = "dds" => onMqtt[j].n <= onMqtt[i].n

\* The publishers that do not write any more.
Past == {p \in Publishers : pub[p] \notin {"off", "wait", "write"}}

\* The counters, and the states of the two peers.
Counters ==
    /\ proxy \in {"down", "up"} /\ starts \in 0..MaxStarts
    /\ posted \in 0..MaxPosts /\ written \in Nat /\ written <= Cardinality(Past)
    /\ mEntered = Len(mWhat) /\ dEntered = Len(dWhat)
    /\ pub \in [Publishers -> {"off", "wait", "write", "delete", "done", "failed"}]
    /\ matched \in [Publishers -> BOOLEAN]
    /\ sub \in {"off", "on", "ended"} /\ gone \in BOOLEAN

\* The inductive invariant.
SystemInv ==
    /\ Counters
    /\ InTurn(mWhat, mInside, "mqtt", posted)
    /\ InTurn(dWhat, dInside, "dds", written)
    /\ dDelivered \in Seq(1..Len(dWhat))
    /\ CacheOK /\ BufferOK
    /\ printed \in Seq(FromNet("mqtt", posted))
-----------------------------------------------------------------------------
(* What one way through the proxy carries *)

\* The numbers of the messages at these places.
Carried(what, places) == {what[n].n : n \in places}

\* The newest of these numbers, in a set.
NewestIn(set) == {n \in set : \A m \in set : m <= n}

\* Each place has a message of the network.
LEMMA PlaceInTurn ==
    ASSUME NEW net, NEW made \in Nat, NEW what, NEW inside, InTurn(what, inside, net, made)
    PROVE  /\ Len(what) \in Nat /\ inside \subseteq 1..Len(what)
           /\ \A n \in 1..Len(what) : what[n].net = net /\ what[n].n \in Nat
<1> DEFINE S == FromNet(net, made)
<1>1. \A x \in S : x.net = net /\ x.n \in Nat
  BY DEF FromNet
<1>2. what \in Seq(S) /\ inside \subseteq 1..Len(what)
  BY DEF InTurn
<1> HIDE DEF S
<1>3. Len(what) \in Nat /\ \A n \in 1..Len(what) : what[n] \in S
  BY <1>2
<1> QED
  BY <1>1, <1>2, <1>3

\* The numbers of the messages at these places that are of this network.
NumbersAt(net, what, places) == NumbersIn(net, {what[n] : n \in places})

\* They are counted by their numbers.
LEMMA CarriedNumbers ==
    ASSUME NEW net, NEW made \in Nat, NEW what, NEW inside, InTurn(what, inside, net, made)
    PROVE  /\ NumbersAt(net, what, inside) = Carried(what, inside)
           /\ Carried(what, inside) \subseteq Nat
<1>1. \A n \in inside : what[n].net = net /\ what[n].n \in Nat
  <2>1. inside \subseteq 1..Len(what)
    BY PlaceInTurn
  <2>2. \A n \in 1..Len(what) : what[n].net = net /\ what[n].n \in Nat
    BY PlaceInTurn
  <2> QED
    BY <2>1, <2>2
<1> QED
  BY <1>1 DEF NumbersAt, NumbersIn, Carried

\* What is lost leaves the others in turn.
LEMMA LoseInTurn ==
    ASSUME NEW net, NEW made \in Nat, NEW what, NEW inside, InTurn(what, inside, net, made),
           NEW rest \in SUBSET inside
    PROVE  InTurn(what, rest, net, made) /\ Carried(what, rest) \subseteq Carried(what, inside)
  BY DEF InTurn, Carried

\* The oldest that leaves is the oldest message.
LEMMA OldestInTurn ==
    ASSUME NEW net, NEW made \in Nat, NEW what, NEW inside, InTurn(what, inside, net, made),
           NEW n, Oldest(n, inside)
    PROVE  /\ InTurn(what, inside \ {n}, net, made)
           /\ what[n] \in FromNet(net, made)
           /\ what[n].n \in Carried(what, inside)
           /\ \A m \in inside \ {n} : what[n].n < what[m].n
           /\ \A k \in Carried(what, inside) : what[n].n <= k
           /\ \A k : k \in Carried(what, inside \ {n})
                       <=> k \in Carried(what, inside) /\ k # what[n].n
<1> USE DEF Oldest
<1>1. InTurn(what, inside \ {n}, net, made)
  BY DEF InTurn
<1>2. /\ \A m \in inside : m \in 1..Len(what) /\ what[m] \in FromNet(net, made)
      /\ Len(what) \in Nat
  <2> DEFINE S == FromNet(net, made)
  <2>1. what \in Seq(S) /\ inside \subseteq 1..Len(what)
    BY DEF InTurn
  <2> HIDE DEF S
  <2>2. Len(what) \in Nat /\ \A m \in inside : m \in 1..Len(what) /\ what[m] \in S
    BY <2>1
  <2> QED
    BY <2>2 DEF S
<1>3. \A m \in inside \ {n} : what[n].n < what[m].n
  <2> SUFFICES ASSUME NEW m \in inside \ {n} PROVE what[n].n < what[m].n
    OBVIOUS
  <2>1. n < m
    BY <1>2
  <2> QED
    BY <1>2, <2>1 DEF InTurn
<1>4. \A m \in inside : what[m].n \in Nat
  BY <1>2 DEF FromNet
<1>5. what[n].n \in Carried(what, inside) /\ \A k \in Carried(what, inside) : what[n].n <= k
  BY <1>3, <1>4 DEF Carried
<1>6. Carried(what, inside \ {n}) = Carried(what, inside) \ {what[n].n}
  BY <1>3, <1>4 DEF Carried
<1> QED
  BY <1>1, <1>2, <1>3, <1>5, <1>6

\* A message that is made next follows the others,
LEMMA AppendInTurn ==
    ASSUME NEW net, NEW made \in Nat, NEW what, NEW inside, InTurn(what, inside, net, made),
           NEW x, x = [net |-> net, n |-> made + 1],
           NEW more \in SUBSET (inside \cup {Len(what) + 1})
    PROVE  /\ InTurn(Append(what, x), more, net, made + 1)
           /\ Len(Append(what, x)) = Len(what) + 1 /\ Len(what) \in Nat
           /\ \A i \in 1..Len(what) : Append(what, x)[i] = what[i]
           /\ Append(what, x)[Len(what) + 1] = x
<1> DEFINE S == FromNet(net, made)
           T == FromNet(net, made + 1)
           r == Append(what, x)
<1>1. \A y \in S : y \in T /\ y.n \in Nat /\ y.n <= made
  BY DEF FromNet
<1>2. x \in T /\ x.n = made + 1
  BY DEF FromNet
<1>3. what \in Seq(S) /\ \A i, j \in 1..Len(what) : i < j => what[i].n < what[j].n
  BY DEF InTurn
<1> HIDE DEF S, T
<1>4. what \in Seq(T) /\ \A i \in 1..Len(what) : what[i].n \in Nat /\ what[i].n <= made
  BY <1>1, <1>3
<1>5. /\ r \in Seq(T) /\ Len(r) = Len(what) + 1 /\ Len(what) \in Nat
      /\ \A i \in 1..Len(what) : r[i] = what[i]
      /\ r[Len(what) + 1] = x
  BY <1>2, <1>4, AppendProperties
<1> HIDE DEF r
<1>6. ASSUME NEW i \in 1..Len(r), NEW j \in 1..Len(r), i < j
      PROVE  r[i].n < r[j].n
  <2>1. i \in 1..Len(what) /\ r[i] = what[i]
    BY <1>5, <1>6
  <2>2. CASE j \in 1..Len(what)
    BY <1>3, <1>5, <1>6, <2>1, <2>2
  <2>3. CASE j \notin 1..Len(what)
    <3>1. r[j] = x
      BY <1>5, <2>3
    <3> QED
      BY <1>2, <1>4, <2>1, <3>1
  <2> QED
    BY <2>2, <2>3
<1>7. more \subseteq 1..Len(r)
  BY <1>5 DEF InTurn
<1> QED
  BY <1>5, <1>6, <1>7 DEF InTurn, T, r

\* and enters: it is lost, joins the others, or takes the place of the newest,
\* which is the newest too of those and older ones, set, elsewhere on the way.
LEMMA EnterInTurn ==
    ASSUME NEW net, NEW made \in Nat, NEW what, NEW inside, InTurn(what, inside, net, made),
           NEW set \in SUBSET Nat, \A c \in set, n \in inside : c < what[n].n,
           NEW r, r = Append(what, [net |-> net, n |-> made + 1]),
           NEW more, more \in {inside, inside \cup {Len(what) + 1},
                               (inside \ NewestIn(inside)) \cup {Len(what) + 1}}
    PROVE  LET all == set \cup Carried(what, inside)
           IN  set \cup Carried(r, more)
                 \in {all, all \cup {made + 1}, (all \ NewestIn(all)) \cup {made + 1}}
<1> DEFINE new == Len(what) + 1
           all == set \cup Carried(what, inside)
<1>1. /\ \A i \in 1..Len(what) : r[i] = what[i] /\ i # new
      /\ r[new].n = made + 1
  BY AppendInTurn
<1>2. /\ inside \subseteq 1..Len(what) /\ Len(what) \in Nat
      /\ \A i \in inside : what[i].n \in Nat
      /\ \A i, j \in inside : i < j => what[i].n < what[j].n
  <2>1. inside \subseteq 1..Len(what) /\ Len(what) \in Nat
    BY PlaceInTurn
  <2>2. \A i \in 1..Len(what) : what[i].n \in Nat
    BY PlaceInTurn
  <2>3. \A i, j \in 1..Len(what) : i < j => what[i].n < what[j].n
    BY DEF InTurn
  <2> QED
    BY <2>1, <2>2, <2>3
<1>3. \A some \in SUBSET inside : Carried(r, some) = Carried(what, some)
  BY <1>1, <1>2 DEF Carried
<1>4. \A some \in SUBSET inside : Carried(r, some \cup {new}) = Carried(what, some) \cup {made + 1}
  BY <1>1, <1>2 DEF Carried
<1>5. CASE NewestIn(inside) = {}
  BY <1>3, <1>4, <1>5
<1>6. ASSUME NEW n \in NewestIn(inside)
      PROVE  set \cup Carried(what, inside \ NewestIn(inside)) = all \ NewestIn(all)
  <2> DEFINE k == what[n].n
  <2>1. n \in inside /\ \A m \in inside : m <= n
    BY <1>6 DEF NewestIn
  <2>2. NewestIn(inside) = {n}
    <3> SUFFICES ASSUME NEW m \in NewestIn(inside) PROVE m = n
      BY <1>6
    <3>1. m \in inside /\ n <= m /\ m <= n
      BY <2>1 DEF NewestIn
    <3> QED
      BY <1>2, <2>1, <3>1
  <2>3. \A m \in inside \ {n} : what[m].n < k
    <3> SUFFICES ASSUME NEW m \in inside \ {n} PROVE what[m].n < k
      OBVIOUS
    <3>1. m < n
      BY <1>2, <2>1
    <3> QED
      BY <1>2, <2>1, <3>1
  <2>4. k \in Nat /\ k \in all /\ \A m \in all : m \in Nat /\ (m = k \/ m < k)
    BY <1>2, <2>1, <2>3 DEF Carried
  <2>5. k \notin set
    BY <1>2, <2>1
  <2>6. Carried(what, inside) = Carried(what, inside \ {n}) \cup {k}
          /\ k \notin Carried(what, inside \ {n})
    BY <1>2, <2>1, <2>3 DEF Carried
  <2> HIDE DEF k
  <2>7. NewestIn(all) = {k}
    <3> HIDE DEF all
    <3>1. k \in NewestIn(all)
      BY <2>4 DEF NewestIn
    <3>2. ASSUME NEW m \in NewestIn(all) PROVE m = k
      <4>1. m \in all /\ k <= m
        BY <2>4, <3>2 DEF NewestIn
      <4> QED
        BY <2>4, <4>1
    <3> QED
      BY <3>1, <3>2
  <2> QED
    BY <2>2, <2>5, <2>6, <2>7
<1>7. CASE NewestIn(inside) # {}
  <2>1. NewestIn(inside) \subseteq inside
    BY DEF NewestIn
  <2>2. PICK n \in NewestIn(inside) : TRUE
    BY <1>7
  <2>3. set \cup Carried(what, inside \ NewestIn(inside)) = all \ NewestIn(all)
    BY <1>6, <2>2
  <2>4. Carried(r, inside) = Carried(what, inside)
    BY <1>3
  <2>5. Carried(r, inside \cup {new}) = Carried(what, inside) \cup {made + 1}
    BY <1>4
  <2>6. Carried(r, (inside \ NewestIn(inside)) \cup {new})
          = Carried(what, inside \ NewestIn(inside)) \cup {made + 1}
    BY <1>4, <2>1
  <2> QED
    BY <2>3, <2>4, <2>5, <2>6
<1> QED
  BY <1>5, <1>7
-----------------------------------------------------------------------------
(* What has come out *)

LEMMA NumbersType ==
    ASSUME NEW net, NEW made \in Nat, NEW s \in Seq(FromNet(net, made))
    PROVE  /\ NumbersOf(net, s) \in Seq(Nat) /\ Len(NumbersOf(net, s)) = Len(s) /\ Len(s) \in Nat
           /\ \A i \in 1..Len(s) : NumbersOf(net, s)[i] = s[i].n
<1> DEFINE S == FromNet(net, made)
<1>1. \A x \in S : x.net = net /\ x.n \in Nat
  BY DEF FromNet
<1>2. s \in Seq(S)
  OBVIOUS
<1> HIDE DEF S
<1>3. /\ Len(s) \in Nat /\ DOMAIN s = 1..Len(s)
      /\ \A i \in 1..Len(s) : s[i].net = net /\ s[i].n \in Nat
  BY <1>1, <1>2
<1> QED
  BY <1>3 DEF NumbersOf

\* The numbers of a sequence after one message more.
LEMMA NumbersAppend ==
    ASSUME NEW net, NEW made \in Nat, NEW s \in Seq(FromNet(net, made)),
           NEW x \in FromNet(net, made)
    PROVE  NumbersOf(net, Append(s, x)) = Append(NumbersOf(net, s), x.n)
<1> DEFINE S == FromNet(net, made)
           r == Append(s, x)
           a == NumbersOf(net, r)
           b == Append(NumbersOf(net, s), x.n)
<1>1. s \in Seq(S) /\ x \in S /\ x.n \in Nat
  BY DEF FromNet
<1>2. \A t \in Seq(S) : /\ NumbersOf(net, t) \in Seq(Nat) /\ Len(NumbersOf(net, t)) = Len(t)
                        /\ \A i \in 1..Len(t) : NumbersOf(net, t)[i] = t[i].n
  BY NumbersType
<1> HIDE DEF S
<1>3. /\ r \in Seq(S) /\ Len(r) = Len(s) + 1 /\ Len(s) \in Nat
      /\ \A i \in 1..Len(s) : r[i] = s[i]
      /\ r[Len(s) + 1] = x
  BY <1>1, AppendProperties
<1> HIDE DEF r
<1>4. a \in Seq(Nat) /\ Len(a) = Len(s) + 1 /\ \A i \in 1 .. Len(s) + 1 : a[i] = r[i].n
  BY <1>2, <1>3
<1>5. /\ NumbersOf(net, s) \in Seq(Nat) /\ Len(NumbersOf(net, s)) = Len(s)
      /\ \A i \in 1..Len(s) : NumbersOf(net, s)[i] = s[i].n
  BY <1>1, <1>2
<1>6. /\ b \in Seq(Nat) /\ Len(b) = Len(s) + 1
      /\ \A i \in 1..Len(s) : b[i] = s[i].n
      /\ b[Len(s) + 1] = x.n
  BY <1>1, <1>5, AppendProperties
<1> HIDE DEF a, b
<1>7. \A i \in 1 .. Len(a) : a[i] = b[i]
  <2>1. ASSUME NEW i \in 1..Len(s) PROVE a[i] = b[i]
    <3>1. i \in 1 .. Len(s) + 1
      BY <1>3
    <3>2. a[i] = r[i].n
      BY <1>4, <3>1
    <3> QED
      BY <1>3, <1>6, <3>2
  <2>2. a[Len(s) + 1] = b[Len(s) + 1]
    <3>1. Len(s) + 1 \in 1 .. Len(s) + 1
      BY <1>3
    <3>2. a[Len(s) + 1] = r[Len(s) + 1].n
      BY <1>4, <3>1
    <3> QED
      BY <1>3, <1>6, <3>2
  <2>3. Len(a) = Len(s) + 1
    BY <1>4
  <2> QED
    BY <1>3, <2>1, <2>2, <2>3
<1>8. a = b
  BY <1>4, <1>6, <1>7, SeqEqual
<1> QED
  BY <1>8 DEF a, b, r

\* The messages at the places in s.
Chosen(what, s) == [i \in DOMAIN s |-> what[s[i]]]

\* They stay what they are when another message follows,
LEMMA ChosenKept ==
    ASSUME NEW what, NEW r, \A i \in 1..Len(what) : r[i] = what[i], NEW s \in Seq(1..Len(what))
    PROVE  Chosen(r, s) = Chosen(what, s)
<1>1. \A i \in DOMAIN s : s[i] \in 1..Len(what)
  OBVIOUS
<1> QED
  BY <1>1 DEF Chosen

\* and one more place is one more message.
LEMMA ChosenAppend ==
    ASSUME NEW S, NEW what \in Seq(S), NEW s \in Seq(1..Len(what)), NEW n \in 1..Len(what)
    PROVE  /\ Chosen(what, s) \in Seq(S)
           /\ Chosen(what, Append(s, n)) = Append(Chosen(what, s), what[n])
<1> DEFINE P == 1..Len(what)
           r == Append(s, n)
           a == Chosen(what, r)
           c == Chosen(what, s)
           b == Append(c, what[n])
<1>1. s \in Seq(P) /\ n \in P /\ \A i \in P : what[i] \in S
  OBVIOUS
<1> HIDE DEF P
<1>2. \A t \in Seq(P) : /\ Chosen(what, t) \in Seq(S) /\ Len(Chosen(what, t)) = Len(t)
                        /\ \A i \in 1..Len(t) : Chosen(what, t)[i] = what[t[i]]
  <2> SUFFICES ASSUME NEW t \in Seq(P)
               PROVE  /\ Chosen(what, t) \in Seq(S) /\ Len(Chosen(what, t)) = Len(t)
                      /\ \A i \in 1..Len(t) : Chosen(what, t)[i] = what[t[i]]
    OBVIOUS
  <2>1. Len(t) \in Nat /\ DOMAIN t = 1..Len(t) /\ \A i \in 1..Len(t) : t[i] \in P
    OBVIOUS
  <2>2. \A i \in 1..Len(t) : what[t[i]] \in S
    BY <1>1, <2>1
  <2> QED
    BY <2>1, <2>2 DEF Chosen
<1>3. /\ r \in Seq(P) /\ Len(r) = Len(s) + 1 /\ Len(s) \in Nat
      /\ \A i \in 1..Len(s) : r[i] = s[i]
      /\ r[Len(s) + 1] = n
  BY <1>1, AppendProperties
<1> HIDE DEF r
<1>4. a \in Seq(S) /\ Len(a) = Len(s) + 1 /\ \A i \in 1 .. Len(s) + 1 : a[i] = what[r[i]]
  BY <1>2, <1>3
<1>5. c \in Seq(S) /\ Len(c) = Len(s) /\ \A i \in 1..Len(s) : c[i] = what[s[i]]
  BY <1>1, <1>2
<1> HIDE DEF a, c
<1>6. /\ b \in Seq(S) /\ Len(b) = Len(s) + 1
      /\ \A i \in 1..Len(s) : b[i] = what[s[i]]
      /\ b[Len(s) + 1] = what[n]
  BY <1>1, <1>5, AppendProperties
<1> HIDE DEF b
<1>7. \A i \in 1 .. Len(a) : a[i] = b[i]
  <2>1. ASSUME NEW i \in 1..Len(s) PROVE a[i] = b[i]
    <3>1. i \in 1 .. Len(s) + 1
      BY <1>3
    <3>2. a[i] = what[r[i]]
      BY <1>4, <3>1
    <3> QED
      BY <1>3, <1>6, <3>2
  <2>2. a[Len(s) + 1] = b[Len(s) + 1]
    BY <1>3, <1>4, <1>6
  <2>3. Len(a) = Len(s) + 1
    BY <1>4
  <2> QED
    BY SMTT(40), <1>3, <2>1, <2>2, <2>3
<1>8. a = b
  BY <1>4, <1>6, <1>7, SeqEqual
<1> QED
  BY <1>5, <1>8 DEF a, b, c, r

\* More numbers allow no less.
LEMMA MadeGrows ==
    ASSUME NEW net, NEW made \in Nat, NEW more \in Nat, made <= more
    PROVE  Seq(FromNet(net, made)) \subseteq Seq(FromNet(net, more))
<1> DEFINE S == FromNet(net, made)
           T == FromNet(net, more)
<1>1. S \subseteq T
  BY DEF FromNet
<1> HIDE DEF S, T
<1>2. Seq(S) \subseteq Seq(T)
  BY <1>1
<1> QED
  BY <1>2 DEF S, T
-----------------------------------------------------------------------------
(* Publishers *)

LEMMA PastType == /\ IsFiniteSet(Past) /\ Cardinality(Past) \in Nat
                  /\ Cardinality(Past) <= Cardinality(Publishers)
<1>1. Past \subseteq Publishers /\ IsFiniteSet(Publishers)
  BY SystemAssumption DEF Past
<1> QED
  BY <1>1, FS_Subset, FS_CardinalityType

\* A publisher that does not write any more never does.
LEMMA PastGrows ==
    ASSUME Counters, pub' = pub \/ \E p \in Publishers : \E from, to :
                                      /\ PubGoto(p, from, to)
                                      /\ to \in {"off", "wait", "write"} =>
                                            from \in {"off", "wait", "write"}
    PROVE  Past \subseteq Past'
  BY DEF Counters, PubGoto, Past

\* What leaves the counts alone, and lets the publishers go on, keeps them right.
LEMMA CountersKept ==
    ASSUME Counters, Past \subseteq Past', IsFiniteSet(Past'),
           UNCHANGED <<posted, written>>,
           mEntered' = mEntered /\ Len(mWhat') = Len(mWhat),
           dEntered' = dEntered /\ Len(dWhat') = Len(dWhat),
           proxy' \in {"down", "up"}, starts' \in 0..MaxStarts,
           pub' \in [Publishers -> {"off", "wait", "write", "delete", "done", "failed"}],
           matched' \in [Publishers -> BOOLEAN],
           sub' \in {"off", "on", "ended"}, gone' \in BOOLEAN
    PROVE  Counters'
<1>1. Cardinality(Past) <= Cardinality(Past') /\ Cardinality(Past) \in Nat
      /\ Cardinality(Past') \in Nat
  BY FS_Subset, FS_CardinalityType
<1>2. written' <= Cardinality(Past')
  BY <1>1 DEF Counters
<1> QED
  BY <1>2 DEF Counters

-----------------------------------------------------------------------------
(* Every step keeps the invariant *)

\* Steps after which fewer messages are on their way, or as many.
Fewer ==
    /\ UNCHANGED <<posted, written, mEntered, mWhat, dEntered, dDelivered, dWhat, printed>>
    /\ mInside' \subseteq mInside /\ dInside' \subseteq dInside
    /\ cache' \in {cache, Nothing}

\* The steps that bring no message further.
FewerSteps ==
    \/ StartProxy \/ StopProxy \/ ProxyLoses \/ StartSubscriber \/ TakeInvalid \/ SubscriberFails
    \/ ProxyTakes \/ ProxyTakesInvalid \/ ProxyConverts
    \/ \E p \in Publishers :
          StartPublisher(p) \/ Discover(p) \/ Poll(p) \/ Delete(p) \/ PublisherFails(p)

\* They only lose messages.
LEMMA FewerChanges == ASSUME SystemInv, FewerSteps PROVE Fewer
<1> USE DEF mqttToDds, ddsToMqtt, peers, reading
<1>1. CASE StartProxy \/ StartSubscriber \/ TakeInvalid \/ SubscriberFails
  BY <1>1 DEF Fewer, StartProxy, StartSubscriber, TakeInvalid, SubscriberFails
<1>2. CASE StopProxy
  BY <1>2 DEF Fewer, StopProxy
<1>3. CASE ProxyLoses
  BY <1>3 DEF Fewer, ProxyLoses, ToDds!Lose, ToMqtt!Lose
<1>5. CASE ProxyTakes \/ ProxyTakesInvalid \/ ProxyConverts
  BY <1>5 DEF Fewer, ProxyTakes, ProxyTakesInvalid, ProxyConverts
<1>4. CASE \E p \in Publishers :
             StartPublisher(p) \/ Discover(p) \/ Poll(p) \/ Delete(p) \/ PublisherFails(p)
  BY <1>4 DEF Fewer, StartPublisher, Discover, Poll, Delete, PublisherFails
<1> QED
  BY <1>1, <1>2, <1>3, <1>4, <1>5 DEF FewerSteps

\* They keep the counters.
LEMMA FewerCounters == ASSUME SystemInv, FewerSteps PROVE Counters'
<1> USE DEF mqttToDds, ddsToMqtt, peers, reading
<1>0. Counters /\ Fewer
  BY FewerChanges DEF SystemInv
<1>1. UNCHANGED <<posted, written, mEntered, mWhat, dEntered, dWhat>>
  BY <1>0 DEF Fewer
<1>2. pub' = pub \/ \E p \in Publishers : \E from, to :
                       /\ PubGoto(p, from, to)
                       /\ to \in {"off", "wait", "write"} => from \in {"off", "wait", "write"}
                       /\ to \in {"wait", "write", "done", "failed"}
  <2>1. CASE \/ StartProxy \/ StopProxy \/ ProxyLoses \/ StartSubscriber
             \/ TakeInvalid \/ SubscriberFails \/ ProxyTakes \/ ProxyTakesInvalid \/ ProxyConverts
    BY <2>1 DEF StartProxy, StopProxy, ProxyLoses, StartSubscriber, TakeInvalid, SubscriberFails,
                ProxyTakes, ProxyTakesInvalid, ProxyConverts
  <2>2. ASSUME NEW p \in Publishers, Discover(p)
        PROVE  pub' = pub
    BY <2>2 DEF Discover
  <2>3. ASSUME NEW p \in Publishers, StartPublisher(p) \/ Poll(p) \/ Delete(p) \/ PublisherFails(p)
        PROVE  \/ PubGoto(p, "off", "wait") \/ PubGoto(p, "wait", "write")
               \/ PubGoto(p, "delete", "done")
               \/ \E from \in {"off", "wait", "write", "delete"} : PubGoto(p, from, "failed")
    BY <2>3 DEF StartPublisher, Poll, Delete, PublisherFails
  <2> QED
    BY <2>1, <2>2, <2>3 DEF FewerSteps
<1>3. Past \subseteq Past'
  BY <1>0, <1>2, PastGrows
<1>4. pub' \in [Publishers -> {"off", "wait", "write", "delete", "done", "failed"}]
  BY <1>0, <1>2 DEF Counters, PubGoto
<1>5. IsFiniteSet(Past')
  <2>1. Past' \subseteq Publishers /\ IsFiniteSet(Publishers)
    BY SystemAssumption DEF Past
  <2> QED
    BY <2>1, FS_Subset
<1>6. /\ proxy' \in {"down", "up"} /\ starts' \in 0..MaxStarts
      /\ sub' \in {"off", "on", "ended"} /\ gone' \in BOOLEAN
      /\ matched' \in [Publishers -> BOOLEAN]
  <2>1. CASE StartProxy
    BY <1>0, <2>1, SystemAssumption DEF StartProxy, Counters
  <2>2. CASE StopProxy \/ ProxyLoses \/ ProxyTakes \/ ProxyTakesInvalid \/ ProxyConverts
    BY <1>0, <2>2 DEF StopProxy, ProxyLoses, ProxyTakes, ProxyTakesInvalid, ProxyConverts, Counters
  <2>3. CASE StartSubscriber \/ TakeInvalid \/ SubscriberFails
    BY <1>0, <2>3 DEF StartSubscriber, TakeInvalid, SubscriberFails, Counters
  <2>4. ASSUME NEW p \in Publishers,
               StartPublisher(p) \/ Discover(p) \/ Poll(p) \/ Delete(p) \/ PublisherFails(p)
        PROVE  /\ UNCHANGED <<proxy, starts, sub, gone>>
               /\ matched' = matched \/ matched' = [matched EXCEPT ![p] = TRUE]
    BY <2>4 DEF StartPublisher, Discover, Poll, Delete, PublisherFails
  <2> QED
    BY <1>0, <2>1, <2>2, <2>3, <2>4 DEF FewerSteps, Counters
<1> QED
  BY <1>0, <1>1, <1>3, <1>4, <1>5, <1>6, CountersKept

\* Messages are of these two kinds.
LEMMA MadeMessages ==
    ASSUME Counters
    PROVE  FromNet("mqtt", posted) \subseteq Messages /\ FromNet("dds", written) \subseteq Messages
<1>1. posted \in 0..MaxPosts /\ MaxPosts \in Nat /\ written \in Nat /\ written <= Cardinality(Past)
  BY SystemAssumption DEF Counters
<1>2. written \in 0..Cardinality(Publishers) /\ Cardinality(Publishers) \in Nat
  BY <1>1, PastType, SystemAssumption, FS_CardinalityType
<1> QED
  BY <1>1, <1>2 DEF FromNet, Messages, Posted, Written

\* What leaves samples[0] alone, and at most adds samples that have entered, keeps it right.
LEMMA BufferKept ==
    ASSUME BufferOK, dDelivered \in Seq(1..Len(dWhat)),
           UNCHANGED <<shared, taken, onMqtt, dDelivered>>,
           Len(dWhat) \in Nat, Len(dWhat') \in Nat, Len(dWhat) <= Len(dWhat'),
           \A i \in 1..Len(dWhat) : dWhat'[i] = dWhat[i]
    PROVE  BufferOK'
<1>1. \A i \in 1..Len(onMqtt) : dDelivered[i] \in 1..Len(dWhat)
  BY DEF BufferOK
<1>2. taken' \in 0..Len(dWhat') /\ taken' # 0 => dWhat'[taken'] = dWhat[taken]
  BY DEF BufferOK
<1> QED
  BY <1>1, <1>2 DEF BufferOK

\* What these facts need of the invariant.
LEMMA BufferParts ==
    ASSUME SystemInv
    PROVE  Len(dWhat) \in Nat /\ BufferOK /\ dDelivered \in Seq(1..Len(dWhat))
<1>1. /\ BufferOK /\ dDelivered \in Seq(1..Len(dWhat))
      /\ InTurn(dWhat, dInside, "dds", written) /\ written \in Nat
  BY DEF SystemInv, Counters
<1>2. Len(dWhat) \in Nat
  BY <1>1, PlaceInTurn
<1> QED
  BY <1>1, <1>2

\* A sample that is taken is later than the one before, and other steps put none there.
LEMMA FewerBuffer == ASSUME SystemInv, FewerSteps PROVE BufferOK'
<1> USE DEF mqttToDds, ddsToMqtt, peers, reading, buffer
<1>0. /\ UNCHANGED <<dWhat, dDelivered>> /\ BufferOK
      /\ Counters /\ written \in Nat /\ posted \in Nat
      /\ InTurn(mWhat, mInside, "mqtt", posted) /\ InTurn(dWhat, dInside, "dds", written)
      /\ dDelivered \in Seq(1..Len(dWhat))
  BY FewerChanges DEF SystemInv, Fewer, Counters
<1>1. Len(dWhat) \in Nat /\ dInside \subseteq 1..Len(dWhat)
  BY <1>0, PlaceInTurn
<1>2. CASE UNCHANGED buffer
  BY <1>0, <1>1, <1>2, BufferKept
<1>3. CASE shared' = Nothing /\ UNCHANGED <<taken, onMqtt>>
  BY <1>0, <1>3 DEF BufferOK, Nothing
<1>4. CASE ProxyConverts
  <2>1. PICK n \in mInside : shared' = mWhat[n]
    BY <1>4 DEF ProxyConverts
  <2>2. mWhat[n] \in FromNet("mqtt", posted)
    <3> DEFINE S == FromNet("mqtt", posted)
    <3>1. mWhat \in Seq(S) /\ mInside \subseteq 1..Len(mWhat)
      BY <1>0 DEF InTurn
    <3> HIDE DEF S
    <3> QED
      BY <2>1, <3>1 DEF S
  <2>3. shared' \in Messages /\ shared'.net = "mqtt"
    BY <1>0, <2>1, <2>2, MadeMessages DEF FromNet
  <2> QED
    BY <1>0, <1>4, <2>3 DEF ProxyConverts, BufferOK
<1>5. CASE ProxyTakes
  <2>1. PICK n \in dInside : taken < n /\ taken' = n /\ shared' = dWhat[n]
    BY <1>0, <1>1, <1>5 DEF ProxyTakes, Oldest, BufferOK
  <2>2. n \in 1..Len(dWhat) /\ dWhat[n] \in FromNet("dds", written)
    <3> DEFINE S == FromNet("dds", written)
    <3>1. dWhat \in Seq(S)
      BY <1>0 DEF InTurn
    <3> HIDE DEF S
    <3> QED
      BY <1>1, <2>1, <3>1 DEF S
  <2>3. shared' \in Messages
    BY <1>0, <2>1, <2>2, MadeMessages
  <2>4. UNCHANGED onMqtt
    BY <1>5 DEF ProxyTakes
  <2>5. taken # 0 => dWhat[taken].n < dWhat[n].n /\ dWhat[taken].n \in Nat /\ dWhat[n].n \in Nat
    <3>1. \A i \in 1..Len(dWhat) : dWhat[i].n \in Nat
      BY <1>0, PlaceInTurn
    <3>2. taken # 0 => taken \in 1..Len(dWhat)
      BY <1>0, <1>1 DEF BufferOK
    <3> QED
      BY <1>0, <2>1, <2>2, <3>1, <3>2 DEF InTurn
  <2>6. \A i \in 1..Len(onMqtt) : onMqtt[i].net = "dds" => onMqtt[i].n \in Nat
    <3>1. \A m \in Messages \cup {Nothing} : m.n \in Nat
      BY DEF Messages, Nothing, Posted, Written
    <3> QED
      BY <1>0, <3>1 DEF BufferOK
  <2>7. \A i \in 1..Len(onMqtt) : onMqtt[i].net = "dds" => onMqtt[i].n <= dWhat[n].n
    BY <1>0, <2>5, <2>6 DEF BufferOK
  <2>8. taken' # 0 /\ taken' \in 0..Len(dWhat)
    BY <1>0, <1>1, <2>1, <2>2 DEF BufferOK
  <2>9. \A i \in 1..Len(onMqtt) : onMqtt[i].net = "dds" =>
           /\ dWhat[dDelivered[i]].n <= onMqtt[i].n
           /\ \A j \in 1..i : onMqtt[j].net = "dds" => onMqtt[j].n <= onMqtt[i].n
    BY <1>0 DEF BufferOK
  <2>10. onMqtt \in Seq(Messages \cup {Nothing}) /\ Len(onMqtt) = Len(dDelivered)
    BY <1>0 DEF BufferOK
  <2>11. UNCHANGED <<dWhat, dDelivered, Messages, Nothing>>
    BY <1>0 DEF Messages, Nothing
  <2> QED
    BY <2>1, <2>3, <2>4, <2>7, <2>8, <2>9, <2>10, <2>11 DEF BufferOK
<1>6. CASE StopProxy \/ ProxyTakesInvalid
  BY <1>3, <1>6 DEF StopProxy, ProxyTakesInvalid
<1>7. CASE StartProxy \/ ProxyLoses \/ StartSubscriber \/ TakeInvalid \/ SubscriberFails
  BY <1>2, <1>7 DEF StartProxy, ProxyLoses, StartSubscriber, TakeInvalid, SubscriberFails
<1>8. CASE \E p \in Publishers :
             StartPublisher(p) \/ Discover(p) \/ Poll(p) \/ Delete(p) \/ PublisherFails(p)
  BY <1>2, <1>8 DEF StartPublisher, Discover, Poll, Delete, PublisherFails
<1> QED
  BY <1>4, <1>5, <1>6, <1>7, <1>8 DEF FewerSteps

\* They keep the invariant.
LEMMA FewerKeep == ASSUME SystemInv, FewerSteps PROVE SystemInv'
<1>1. Fewer /\ Counters'
  BY FewerChanges, FewerCounters
<1>2. posted \in Nat /\ written \in Nat
  BY DEF SystemInv, Counters
<1>3. InTurn(mWhat, mInside, "mqtt", posted)' /\ InTurn(dWhat, dInside, "dds", written)'
  BY <1>1 DEF SystemInv, Fewer, InTurn
<1>4. CacheOK'
  BY <1>1 DEF SystemInv, Fewer, CacheOK
<1>5. (dDelivered \in Seq(1..Len(dWhat)))' /\ (printed \in Seq(FromNet("mqtt", posted)))'
  BY <1>1 DEF SystemInv, Fewer
<1> QED
  BY <1>1, <1>3, <1>4, <1>5, FewerBuffer DEF SystemInv

-----------------------------------------------------------------------------
(* The channels, in terms of what each way carries *)

Cached(msg) == IF msg = Nothing THEN {} ELSE {msg.n}

PostsIn   == Cached(cache) \cup Carried(mWhat, mInside)
SamplesIn == Carried(dWhat, dInside)

\* The numbers of what is cached and of what is inside.
LEMMA CachedNumbers ==
    ASSUME NEW made \in Nat, NEW what, NEW inside, InTurn(what, inside, "mqtt", made),
           NEW msg, msg # Nothing => msg \in FromNet("mqtt", made)
    PROVE  NumbersIn("mqtt", {msg} \cup {what[n] : n \in inside})
             = Cached(msg) \cup Carried(what, inside)
<1>1. NumbersAt("mqtt", what, inside) = Carried(what, inside)
  BY CarriedNumbers
<1>2. NumbersIn("mqtt", {msg}) = Cached(msg)
  BY DEF NumbersIn, Cached, Nothing, FromNet
<1>3. NumbersIn("mqtt", {msg} \cup {what[n] : n \in inside})
        = NumbersIn("mqtt", {msg}) \cup NumbersAt("mqtt", what, inside)
  BY DEF NumbersIn, NumbersAt
<1> QED
  BY <1>1, <1>2, <1>3

\* The two mappings, by the numbers carried.
LEMMA Insides ==
    ASSUME SystemInv, SystemInv'
    PROVE  /\ NumbersIn("mqtt", {cache} \cup {mWhat[n] : n \in mInside}) = PostsIn
           /\ NumbersIn("mqtt", {cache} \cup {mWhat[n] : n \in mInside})' = PostsIn'
           /\ NumbersIn("dds", {dWhat[n] : n \in dInside}) = SamplesIn
           /\ NumbersIn("dds", {dWhat[n] : n \in dInside})' = SamplesIn'
<1>1. /\ posted \in Nat /\ InTurn(mWhat, mInside, "mqtt", posted)
      /\ written \in Nat /\ InTurn(dWhat, dInside, "dds", written)
      /\ cache # Nothing => cache \in FromNet("mqtt", posted)
  BY DEF SystemInv, Counters, CacheOK
<1>2. /\ posted' \in Nat /\ InTurn(mWhat', mInside', "mqtt", posted')
      /\ written' \in Nat /\ InTurn(dWhat', dInside', "dds", written')
      /\ cache' # Nothing => cache' \in FromNet("mqtt", posted')
  <2>1. Counters' /\ CacheOK'
    BY DEF SystemInv
  <2>2. InTurn(mWhat', mInside', "mqtt", posted') /\ InTurn(dWhat', dInside', "dds", written')
    BY DEF SystemInv, InTurn
  <2> QED
    BY <2>1, <2>2 DEF Counters, CacheOK, Nothing
<1>3. NumbersIn("mqtt", {cache} \cup {mWhat[n] : n \in mInside}) = PostsIn
  BY <1>1, CachedNumbers DEF PostsIn
<1>4. NumbersIn("mqtt", {cache'} \cup {mWhat'[n] : n \in mInside'})
        = Cached(cache') \cup Carried(mWhat', mInside')
  BY <1>2, CachedNumbers
<1>5. NumbersAt("dds", dWhat, dInside) = SamplesIn
  BY <1>1, CarriedNumbers DEF SamplesIn
<1>6. NumbersAt("dds", dWhat', dInside') = Carried(dWhat', dInside')
  BY <1>2, CarriedNumbers
<1> QED
  BY <1>3, <1>4, <1>5, <1>6 DEF PostsIn, SamplesIn, NumbersAt, NumbersIn, Cached, Nothing, Carried

\* Fewer messages, or as many, on the way to the subscriber, or to MQTT
LEMMA PostsLose ==
    ASSUME SystemInv, SystemInv', UNCHANGED <<posted, printed>>, PostsIn' \subseteq PostsIn
    PROVE  PostsChannel!Next
  BY Insides DEF PostsChannel!Next, PostsChannel!Lose, NumbersOf

LEMMA SamplesLose ==
    ASSUME SystemInv, SystemInv', UNCHANGED written,
           Chosen(dWhat, dDelivered)' = Chosen(dWhat, dDelivered),
           SamplesIn' \subseteq SamplesIn
    PROVE  SamplesChannel!Next
  BY Insides DEF SamplesChannel!Next, SamplesChannel!Lose, NumbersOf, Chosen

\* One message more
LEMMA PostsEnter ==
    ASSUME SystemInv, SystemInv', posted' = posted + 1, UNCHANGED printed,
           PostsIn' \in {PostsIn, PostsIn \cup {posted + 1},
                         (PostsIn \ NewestIn(PostsIn)) \cup {posted + 1}}
    PROVE  PostsChannel!Next
<1>1. PostsChannel!Newest = NewestIn(PostsIn)
  BY Insides DEF PostsChannel!Newest, NewestIn
<1> QED
  BY <1>1, Insides DEF PostsChannel!Next, PostsChannel!Enter, NumbersOf

LEMMA SamplesEnter ==
    ASSUME SystemInv, SystemInv', written' = written + 1,
           Chosen(dWhat, dDelivered)' = Chosen(dWhat, dDelivered),
           SamplesIn' \in {SamplesIn, SamplesIn \cup {written + 1},
                           (SamplesIn \ NewestIn(SamplesIn)) \cup {written + 1}}
    PROVE  SamplesChannel!Next
<1>1. SamplesChannel!Newest = NewestIn(SamplesIn)
  BY Insides DEF SamplesChannel!Newest, NewestIn
<1> QED
  BY <1>1, Insides DEF SamplesChannel!Next, SamplesChannel!Enter, NumbersOf, Chosen

\* Under both mappings such a step loses something, or stutters.
LEMMA FewerChannels == ASSUME SystemInv, SystemInv', FewerSteps
                       PROVE  PostsChannel!Next /\ SamplesChannel!Next
<1>1. Fewer
  BY FewerChanges
<1>2. Cached(cache') \subseteq Cached(cache) /\ Cached(cache)' = Cached(cache')
  BY <1>1 DEF Fewer, Cached, Nothing
<1>3. PostsIn' \subseteq PostsIn /\ SamplesIn' \subseteq SamplesIn
  BY <1>1, <1>2 DEF Fewer, PostsIn, SamplesIn, Carried
<1>4. Chosen(dWhat, dDelivered)' = Chosen(dWhat, dDelivered)
  BY <1>1 DEF Fewer, Chosen
<1> QED
  BY <1>1, <1>3, <1>4, PostsLose, SamplesLose DEF Fewer

-----------------------------------------------------------------------------
(* The steps that move a message on *)

\* A post is the newest message from the broker.
LEMMA PostChanges ==
    ASSUME Post
    PROVE  /\ posted < MaxPosts /\ posted' = posted + 1
           /\ UNCHANGED <<proxy, starts, ddsToMqtt, buffer, peers, reading>>
           /\ \/ UNCHANGED mqttToDds
              \/ /\ mEntered' = mEntered + 1 /\ mWhat' = Append(mWhat, Posted(posted + 1))
                 /\ mInside' \in {mInside, mInside \cup {mEntered + 1},
                                  (mInside \ NewestIn(mInside)) \cup {mEntered + 1}}
<1>1. ToDds!Newest = NewestIn(mInside)
  BY DEF ToDds!Newest, NewestIn
<1> QED
  BY <1>1 DEF Post, OnMqtt, ToDds!Enter

\* A post enters the channel to the subscriber, or is lost at once.
LEMMA PostStep == ASSUME SystemInv, Post
                  PROVE  SystemInv' /\ PostsChannel!Next /\ SamplesChannel!Next
<1> DEFINE x == [net |-> "mqtt", n |-> posted + 1]
           r == Append(mWhat, x)
<1> USE DEF ddsToMqtt, peers, reading, mqttToDds
<1>0. posted \in Nat /\ Counters /\ CacheOK /\ mEntered = Len(mWhat)
      /\ InTurn(mWhat, mInside, "mqtt", posted)
  BY DEF SystemInv, Counters
<1>1. /\ posted < MaxPosts /\ posted' = posted + 1
      /\ UNCHANGED <<proxy, starts, ddsToMqtt, buffer, peers, reading>>
  BY PostChanges
<1>2. Seq(FromNet("mqtt", posted)) \subseteq Seq(FromNet("mqtt", posted'))
  BY <1>0, <1>1, MadeGrows
<1>3. /\ InTurn(mWhat', mInside', "mqtt", posted') /\ mEntered' = Len(mWhat')
      /\ \A n \in mInside : mWhat'[n] = mWhat[n]
      /\ mInside' \subseteq mInside \/ mInside' \subseteq mInside \cup {Len(mWhat) + 1}
      /\ \/ mInside' = mInside /\ mWhat' = mWhat
         \/ Len(mWhat) \in Nat /\ mWhat'[Len(mWhat) + 1].n = posted + 1
  <2>1. CASE UNCHANGED mqttToDds
    BY <1>0, <1>1, <1>2, <2>1 DEF InTurn
  <2>2. CASE mWhat' = Append(mWhat, Posted(posted + 1)) /\ ~UNCHANGED mqttToDds
    <3>1. /\ mWhat' = r /\ mEntered' = mEntered + 1
          /\ mInside' \in {mInside, mInside \cup {mEntered + 1},
                           (mInside \ NewestIn(mInside)) \cup {mEntered + 1}}
      BY <2>2, PostChanges DEF Posted
    <3>2. mInside' \in SUBSET (mInside \cup {Len(mWhat) + 1})
      BY <1>0, <3>1
    <3>3. /\ InTurn(r, mInside', "mqtt", posted + 1)
          /\ Len(r) = Len(mWhat) + 1 /\ Len(mWhat) \in Nat
          /\ \A i \in 1..Len(mWhat) : r[i] = mWhat[i]
          /\ r[Len(mWhat) + 1] = x
      BY <1>0, <3>2, AppendInTurn
    <3> QED
      BY <1>0, <1>1, <3>1, <3>2, <3>3 DEF InTurn
  <2> QED
    BY <2>1, <2>2, PostChanges
<1>4. SystemInv'
  <2>1. CacheOK'
    <3> SUFFICES ASSUME cache # Nothing
                 PROVE  /\ cache \in FromNet("mqtt", posted')
                        /\ \A n \in mInside' : cache.n < mWhat'[n].n
      BY <1>1 DEF CacheOK, Nothing
    <3>1. /\ cache.n \in 1..posted /\ cache \in FromNet("mqtt", posted')
          /\ \A n \in mInside : cache.n < mWhat'[n].n
      BY <1>0, <1>1, <1>3 DEF CacheOK, FromNet
    <3>2. cache.n < posted + 1
      BY <1>0, <3>1
    <3> QED
      BY <1>3, <3>1, <3>2
  <2>2. Counters'
    BY <1>0, <1>1, <1>3, SystemAssumption DEF Counters, Past
  <2>3. /\ (printed \in Seq(FromNet("mqtt", posted)))'
        /\ InTurn(dWhat, dInside, "dds", written)' /\ (dDelivered \in Seq(1..Len(dWhat)))'
    BY <1>1, <1>2 DEF SystemInv, InTurn
  <2>4. InTurn(mWhat, mInside, "mqtt", posted)'
    BY <1>3 DEF InTurn
  <2>5. BufferOK'
    <3>1. Len(dWhat) \in Nat /\ BufferOK /\ dDelivered \in Seq(1..Len(dWhat))
      BY BufferParts
    <3> QED
      BY <1>1, <3>1, BufferKept DEF buffer
  <2> QED
    BY <2>1, <2>2, <2>3, <2>4, <2>5 DEF SystemInv
<1>5. PostsIn' \in {PostsIn, PostsIn \cup {posted + 1},
                    (PostsIn \ NewestIn(PostsIn)) \cup {posted + 1}}
  <2>1. CASE UNCHANGED mqttToDds
    BY <1>1, <2>1 DEF PostsIn, Cached, Carried, Nothing
  <2>2. CASE mWhat' = Append(mWhat, Posted(posted + 1)) /\ ~UNCHANGED mqttToDds
    <3> DEFINE set == Cached(cache)
    <3>1. /\ mWhat' = r
          /\ mInside' \in {mInside, mInside \cup {Len(mWhat) + 1},
                           (mInside \ NewestIn(mInside)) \cup {Len(mWhat) + 1}}
      BY <1>0, <2>2, PostChanges DEF Posted
    <3>2. set \in SUBSET Nat /\ \A c \in set, n \in mInside : c < mWhat[n].n
      BY <1>0 DEF Cached, CacheOK, FromNet
    <3>3. PostsIn = set \cup Carried(mWhat, mInside)
            /\ PostsIn' = set \cup Carried(mWhat', mInside')
      BY <1>1 DEF PostsIn, Cached, Carried, Nothing
    <3> HIDE DEF set
    <3> QED
      BY <1>0, <3>1, <3>2, <3>3, EnterInTurn
  <2> QED
    BY <2>1, <2>2, PostChanges
<1>6. SamplesIn' = SamplesIn /\ Chosen(dWhat, dDelivered)' = Chosen(dWhat, dDelivered)
  BY <1>1 DEF SamplesIn, Carried, Chosen
<1> QED
  BY <1>1, <1>4, <1>5, <1>6, PostsEnter, SamplesLose

\* What the proxy writes to the DDS network is the oldest message it has.
LEMMA ProxyWritesChanges ==
    ASSUME ProxyWrites
    PROVE  /\ UNCHANGED <<proxy, starts, ddsToMqtt, buffer, mEntered, mWhat, posted,
                         peers, sub, gone, printed>>
           /\ \E n \in mInside :
                 /\ \A m \in mInside : n <= m
                 /\ mInside' = mInside \ {n}
                 /\ cache' \in {cache, mWhat[n]}
  BY DEF ProxyWrites, ToDds!Deliver, OnDds, DdsSendTopic, DdsRecvTopic

\* A sample the proxy writes is cached, in place of the one before.
LEMMA ProxyWritesStep == ASSUME SystemInv, ProxyWrites
                         PROVE  SystemInv' /\ PostsChannel!Next /\ SamplesChannel!Next
<1> USE DEF ddsToMqtt, peers
<1>0. posted \in Nat /\ Counters /\ CacheOK /\ InTurn(mWhat, mInside, "mqtt", posted)
  BY DEF SystemInv, Counters
<1>1. UNCHANGED <<proxy, starts, ddsToMqtt, buffer, mEntered, mWhat, posted, peers, sub, gone,
                  printed>>
  BY ProxyWritesChanges
<1>2. PICK n \in mInside : /\ \A m \in mInside : n <= m
                           /\ mInside' = mInside \ {n}
                           /\ cache' \in {cache, mWhat[n]}
  BY ProxyWritesChanges
<1> DEFINE k == mWhat[n].n
<1>3. /\ InTurn(mWhat, mInside \ {n}, "mqtt", posted)
      /\ mWhat[n] \in FromNet("mqtt", posted)
      /\ k \in Carried(mWhat, mInside)
      /\ \A m \in mInside \ {n} : k < mWhat[m].n
      /\ Carried(mWhat, mInside \ {n}) = Carried(mWhat, mInside) \ {k}
  <2>1. Oldest(n, mInside)
    BY <1>2 DEF Oldest
  <2> QED
    BY <1>0, <2>1, OldestInTurn
<1>4. SystemInv'
  <2>1. CacheOK'
    BY <1>0, <1>1, <1>2, <1>3 DEF CacheOK, Nothing
  <2>2. Counters'
    BY <1>0, <1>1 DEF Counters, Past
  <2>3. /\ (printed \in Seq(FromNet("mqtt", posted)))'
        /\ InTurn(dWhat, dInside, "dds", written)' /\ (dDelivered \in Seq(1..Len(dWhat)))'
    BY <1>1 DEF SystemInv, InTurn
  <2>4. InTurn(mWhat, mInside, "mqtt", posted)'
    BY <1>1, <1>2, <1>3 DEF InTurn
  <2>5. BufferOK'
    <3>1. Len(dWhat) \in Nat /\ BufferOK /\ dDelivered \in Seq(1..Len(dWhat))
      BY BufferParts
    <3> QED
      BY <1>1, <3>1, BufferKept DEF buffer
  <2> QED
    BY <2>1, <2>2, <2>3, <2>4, <2>5 DEF SystemInv
<1>5. PostsIn' \subseteq PostsIn
  <2>1. Cached(cache') \subseteq Cached(cache) \cup {k}
    BY <1>2 DEF Cached
  <2>2. PostsIn' = Cached(cache') \cup Carried(mWhat, mInside \ {n})
    BY <1>1, <1>2 DEF PostsIn, Cached, Carried, Nothing
  <2> QED
    BY <1>3, <2>1, <2>2 DEF PostsIn
<1>6. SamplesIn' = SamplesIn /\ Chosen(dWhat, dDelivered)' = Chosen(dWhat, dDelivered)
  BY <1>1 DEF SamplesIn, Carried, Chosen
<1> QED
  BY <1>1, <1>4, <1>5, <1>6, PostsLose, SamplesLose

\* It publishes for the oldest sample it has, what samples[0] holds, and that comes
\* back to nobody.
LEMMA ProxyPublishesChanges ==
    ASSUME ProxyPublishes
    PROVE  /\ UNCHANGED <<proxy, starts, mqttToDds, dEntered, dWhat, shared, taken, posted, peers,
                         reading>>
           /\ onMqtt' = Append(onMqtt, shared)
           /\ \E n \in dInside :
                 /\ n <= taken /\ \A m \in dInside : n <= m
                 /\ dInside' = dInside \ {n}
                 /\ dDelivered' = Append(dDelivered, n)
  BY DEF ProxyPublishes, ToMqtt!Deliver, OnMqtt, MqttSendTopic, MqttRecvTopic

\* What is published is no older than the sample it is for, nor than what has been.
LEMMA PublishBuffer ==
    ASSUME BufferOK, written \in Nat, InTurn(dWhat, dInside, "dds", written),
           dDelivered \in Seq(1..Len(dWhat)),
           UNCHANGED <<dWhat, shared, taken>>, onMqtt' = Append(onMqtt, shared),
           NEW n \in dInside, n <= taken, dDelivered' = Append(dDelivered, n)
    PROVE  BufferOK'
<1> DEFINE T == Messages \cup {Nothing}
           k == Len(onMqtt) + 1
<1>1. /\ Len(dWhat) \in Nat /\ n \in 1..Len(dWhat)
      /\ \A i \in 1..Len(dWhat) : dWhat[i].n \in Nat
  BY PlaceInTurn
<1>2. /\ onMqtt \in Seq(T) /\ shared \in T /\ Len(onMqtt) = Len(dDelivered) /\ taken \in 0..Len(dWhat)
      /\ \A m \in T : m.n \in Nat
  BY DEF BufferOK, Messages, Nothing, Posted, Written
<1> HIDE DEF T
<1>3. /\ onMqtt' \in Seq(T) /\ Len(onMqtt') = k /\ Len(onMqtt) \in Nat
      /\ \A i \in 1..Len(onMqtt) : onMqtt'[i] = onMqtt[i] /\ onMqtt[i].n \in Nat
      /\ onMqtt'[k] = shared
  BY <1>2, AppendProperties
<1>4. /\ Len(dDelivered') = Len(dDelivered) + 1
      /\ \A i \in 1..Len(dDelivered) : dDelivered'[i] = dDelivered[i]
      /\ dDelivered'[Len(dDelivered) + 1] = n
  BY <1>1, AppendProperties
<1>5. ASSUME shared.net = "dds"
      PROVE  /\ taken # 0 /\ shared.n = dWhat[taken].n /\ dWhat[n].n <= shared.n
             /\ \A j \in 1..Len(onMqtt) : onMqtt[j].net = "dds" => onMqtt[j].n <= shared.n
  <2>1. taken \in 1..Len(dWhat) /\ shared = dWhat[taken]
    BY <1>2, <1>5 DEF BufferOK
  <2>2. dWhat[n].n <= dWhat[taken].n
    BY <1>1, <2>1 DEF InTurn
  <2> QED
    BY <2>1, <2>2 DEF BufferOK
<1>6. ASSUME NEW i \in 1..k, onMqtt'[i].net = "dds"
      PROVE  /\ dWhat[dDelivered'[i]].n <= onMqtt'[i].n
             /\ taken # 0 /\ onMqtt'[i].n <= dWhat[taken].n
             /\ \A j \in 1..i : onMqtt'[j].net = "dds" => onMqtt'[j].n <= onMqtt'[i].n
  <2>1. CASE i \in 1..Len(onMqtt)
    <3>1. \A j \in 1..i : j \in 1..Len(onMqtt)
      BY <1>3, <2>1
    <3>2. onMqtt'[i] = onMqtt[i] /\ dDelivered'[i] = dDelivered[i]
            /\ \A j \in 1..i : onMqtt'[j] = onMqtt[j]
      BY <1>2, <1>3, <1>4, <2>1, <3>1
    <3> QED
      BY <1>6, <2>1, <3>2 DEF BufferOK
  <2>2. CASE i = k
    <3>1. shared.net = "dds" /\ onMqtt'[i] = shared /\ dDelivered'[i] = n
      BY <1>2, <1>3, <1>4, <1>6, <2>2
    <3>2. \A j \in 1..i : j \in 1..Len(onMqtt) \/ j = k
      BY <1>3, <2>2
    <3>3. shared.n <= shared.n /\ shared.n <= dWhat[taken].n
      BY <1>2, <1>5, <3>1
    <3> QED
      BY <1>3, <1>5, <3>1, <3>2, <3>3
  <2>3. i \in 1..Len(onMqtt) \/ i = k
    BY <1>3
  <2> QED
    BY <2>1, <2>2, <2>3
<1>7. BufferOK' <=>
         /\ taken \in 0..Len(dWhat)
         /\ shared \in T
         /\ shared.net = "dds" => taken # 0 /\ shared = dWhat[taken]
         /\ onMqtt' \in Seq(T) /\ Len(onMqtt') = Len(dDelivered')
         /\ \A i \in 1..Len(onMqtt') : onMqtt'[i].net = "dds" =>
               /\ dWhat[dDelivered'[i]].n <= onMqtt'[i].n
               /\ taken # 0 /\ onMqtt'[i].n <= dWhat[taken].n
               /\ \A j \in 1..i : onMqtt'[j].net = "dds" => onMqtt'[j].n <= onMqtt'[i].n
  BY DEF BufferOK, T, Messages, Nothing
<1>8. shared.net = "dds" => taken # 0 /\ shared = dWhat[taken]
  BY DEF BufferOK
<1> QED
  BY <1>2, <1>3, <1>4, <1>6, <1>7, <1>8

\* A message the proxy publishes leaves the channel of samples.
LEMMA ProxyPublishesStep == ASSUME SystemInv, ProxyPublishes
                            PROVE  SystemInv' /\ PostsChannel!Next /\ SamplesChannel!Next
<1> USE DEF mqttToDds, peers, reading
<1>0. written \in Nat /\ Counters /\ InTurn(dWhat, dInside, "dds", written)
      /\ dDelivered \in Seq(1..Len(dWhat))
  BY DEF SystemInv, Counters
<1>1. /\ UNCHANGED <<proxy, starts, mqttToDds, dEntered, dWhat, shared, taken, posted, peers, reading>>
      /\ onMqtt' = Append(onMqtt, shared)
  BY ProxyPublishesChanges
<1>2. PICK n \in dInside : /\ n <= taken /\ \A m \in dInside : n <= m
                           /\ dInside' = dInside \ {n}
                           /\ dDelivered' = Append(dDelivered, n)
  BY ProxyPublishesChanges
<1> DEFINE k == dWhat[n].n
           S == FromNet("dds", written)
<1>3. /\ InTurn(dWhat, dInside \ {n}, "dds", written)
      /\ dWhat[n] \in S
      /\ k \in Carried(dWhat, dInside)
      /\ \A i \in Carried(dWhat, dInside) : k <= i
      /\ Carried(dWhat, dInside \ {n}) = Carried(dWhat, dInside) \ {k}
  <2>1. Oldest(n, dInside)
    BY <1>2 DEF Oldest
  <2> QED
    BY <1>0, <2>1, OldestInTurn
<1>4. n \in 1..Len(dWhat) /\ dWhat \in Seq(S)
  BY <1>0 DEF InTurn
<1>5. SystemInv'
  <2>1. CacheOK'
    BY <1>1 DEF SystemInv, CacheOK, Nothing
  <2>2. Counters'
    BY <1>0, <1>1 DEF Counters, Past
  <2>3. /\ (printed \in Seq(FromNet("mqtt", posted)))' /\ InTurn(mWhat, mInside, "mqtt", posted)'
    BY <1>1 DEF SystemInv, InTurn
  <2>4. InTurn(dWhat, dInside, "dds", written)'
    BY <1>1, <1>2, <1>3 DEF InTurn
  <2>5. dDelivered' \in Seq(1..Len(dWhat'))
    BY <1>0, <1>1, <1>2, <1>4, AppendProperties
  <2>6. BufferOK'
    BY <1>0, <1>1, <1>2, PublishBuffer DEF SystemInv
  <2> QED
    BY <2>1, <2>2, <2>3, <2>4, <2>5, <2>6 DEF SystemInv
<1>6. PostsIn' = PostsIn
  BY <1>1 DEF PostsIn, Cached, Carried, Nothing
<1>7. NumbersOf("dds", Chosen(dWhat, dDelivered))' =
         Append(NumbersOf("dds", Chosen(dWhat, dDelivered)), k)
  <2> DEFINE c == Chosen(dWhat, dDelivered)
  <2>1. c \in Seq(S) /\ Chosen(dWhat, Append(dDelivered, n)) = Append(c, dWhat[n])
    <3> HIDE DEF S
    <3> QED
      BY <1>0, <1>4, ChosenAppend
  <2> HIDE DEF c
  <2>2. NumbersOf("dds", Append(c, dWhat[n])) = Append(NumbersOf("dds", c), k)
    BY <1>0, <1>3, <2>1, NumbersAppend
  <2>3. Chosen(dWhat, dDelivered)' = Chosen(dWhat, Append(dDelivered, n))
    BY <1>1, <1>2 DEF Chosen
  <2>4. NumbersOf("dds", Chosen(dWhat, dDelivered))' = NumbersOf("dds", Chosen(dWhat, dDelivered)')
    BY DEF NumbersOf
  <2> QED
    BY <2>1, <2>2, <2>3, <2>4 DEF c
<1>8. SamplesIn' = SamplesIn \ {k}
  BY <1>1, <1>2, <1>3 DEF SamplesIn, Carried
<1>9. SamplesChannel!Deliver(k)
  <2>1. k \in SamplesIn /\ \A i \in SamplesIn : k <= i
    BY <1>3 DEF SamplesIn
  <2> HIDE DEF k
  <2> QED
    BY <1>1, <1>5, <1>7, <1>8, <2>1, Insides DEF SamplesChannel!Deliver, Chosen
<1>10. k \in NumbersIn("dds", {dWhat[i] : i \in dInside})
  BY <1>3, <1>5, Insides DEF SamplesIn
<1> QED
  BY <1>1, <1>5, <1>6, <1>9, <1>10, PostsLose DEF SamplesChannel!Next

\* A sample that is written is the newest from the DDS network, and does not get
\* to the subscriber, whose topic is another.
LEMMA WriteChanges ==
    ASSUME NEW p, Write(p)
    PROVE  /\ written' = written + 1 /\ PubGoto(p, "write", "delete")
           /\ UNCHANGED <<proxy, starts, mqttToDds, buffer, posted, matched, reading, dDelivered>>
           /\ \/ UNCHANGED ddsToMqtt
              \/ /\ dEntered' = dEntered + 1 /\ dWhat' = Append(dWhat, Written(written + 1))
                 /\ dInside' \in {dInside, dInside \cup {dEntered + 1},
                                  (dInside \ NewestIn(dInside)) \cup {dEntered + 1}}
<1>1. ToMqtt!Newest = NewestIn(dInside)
  BY DEF ToMqtt!Newest, NewestIn
<1> QED
  BY <1>1 DEF Write, OnDds, ToMqtt!Enter, PublisherTopic, SubscriberTopic, reading, ddsToMqtt

\* The publisher has written its sample, and writes no other.
LEMMA WriteCounters == ASSUME Counters, NEW p \in Publishers, Write(p)
                       PROVE  written + 1 <= Cardinality(Past') /\ written' = written + 1
                              /\ pub' \in
                                    [Publishers -> {"off", "wait", "write", "delete", "done", "failed"}]
<1>1. written' = written + 1 /\ PubGoto(p, "write", "delete") /\ written \in Nat
  BY WriteChanges DEF Counters
<1>2. Past \cup {p} \subseteq Past' /\ p \notin Past
  BY <1>1 DEF Counters, PubGoto, Past
<1>3. IsFiniteSet(Past) /\ Cardinality(Past) \in Nat
  BY PastType
<1>4. Cardinality(Past \cup {p}) = Cardinality(Past) + 1
  BY <1>2, <1>3, FS_AddElement
<1>5. IsFiniteSet(Past')
  <2>1. Past' \subseteq Publishers /\ IsFiniteSet(Publishers)
    BY SystemAssumption DEF Past
  <2> QED
    BY <2>1, FS_Subset
<1>6. Cardinality(Past \cup {p}) <= Cardinality(Past') /\ Cardinality(Past') \in Nat
  BY <1>2, <1>5, FS_Subset, FS_CardinalityType
<1> QED
  BY <1>1, <1>3, <1>4, <1>6 DEF Counters, PubGoto

\* A sample of a publisher enters the channel to MQTT, or is lost at once.
LEMMA WriteStep == ASSUME SystemInv, NEW p \in Publishers, Write(p)
                   PROVE  SystemInv' /\ PostsChannel!Next /\ SamplesChannel!Next
<1> DEFINE x == [net |-> "dds", n |-> written + 1]
           r == Append(dWhat, x)
<1> USE DEF ddsToMqtt, reading, mqttToDds
<1>0. /\ written \in Nat /\ Counters /\ dEntered = Len(dWhat)
      /\ InTurn(dWhat, dInside, "dds", written) /\ dDelivered \in Seq(1..Len(dWhat))
  BY DEF SystemInv, Counters
<1>1. /\ written' = written + 1
      /\ UNCHANGED <<proxy, starts, mqttToDds, buffer, posted, matched, reading, dDelivered>>
  BY WriteChanges
<1>2. Seq(FromNet("dds", written)) \subseteq Seq(FromNet("dds", written'))
  BY <1>0, <1>1, MadeGrows
<1>3. /\ InTurn(dWhat', dInside', "dds", written') /\ dEntered' = Len(dWhat')
      /\ \A i \in 1..Len(dWhat) : dWhat'[i] = dWhat[i] /\ i \in 1..Len(dWhat')
  <2>1. CASE UNCHANGED ddsToMqtt
    BY <1>0, <1>1, <1>2, <2>1 DEF InTurn
  <2>2. CASE dWhat' = Append(dWhat, Written(written + 1)) /\ ~UNCHANGED ddsToMqtt
    <3>1. /\ dWhat' = r /\ dEntered' = dEntered + 1
          /\ dInside' \in {dInside, dInside \cup {dEntered + 1},
                           (dInside \ NewestIn(dInside)) \cup {dEntered + 1}}
      BY <2>2, WriteChanges DEF Written
    <3>2. dInside' \in SUBSET (dInside \cup {Len(dWhat) + 1})
      BY <1>0, <3>1
    <3>3. /\ InTurn(r, dInside', "dds", written + 1)
          /\ Len(r) = Len(dWhat) + 1 /\ Len(dWhat) \in Nat
          /\ \A i \in 1..Len(dWhat) : r[i] = dWhat[i]
      BY <1>0, <3>2, AppendInTurn
    <3> QED
      BY <1>0, <1>1, <3>1, <3>3
  <2> QED
    BY <2>1, <2>2, WriteChanges
<1>4. SystemInv'
  <2>1. CacheOK'
    BY <1>1 DEF SystemInv, CacheOK, Nothing
  <2>2. Counters'
    BY <1>0, <1>1, <1>3, WriteCounters DEF Counters
  <2>3. /\ (printed \in Seq(FromNet("mqtt", posted)))' /\ InTurn(mWhat, mInside, "mqtt", posted)'
    BY <1>1 DEF SystemInv, InTurn
  <2>4. InTurn(dWhat, dInside, "dds", written)'
    BY <1>3 DEF InTurn
  <2>5. dDelivered' \in Seq(1..Len(dWhat'))
    <3>1. 1..Len(dWhat) \subseteq 1..Len(dWhat')
      BY <1>3
    <3> QED
      BY SMTT(40), <1>0, <1>1, <3>1
  <2>6. BufferOK'
    <3>1. Len(dWhat) \in Nat /\ BufferOK
      BY BufferParts
    <3>3. Len(dWhat') \in Nat
      BY <1>0, <1>1, <1>3, PlaceInTurn
    <3>2. Len(dWhat) <= Len(dWhat')
      BY <1>3, <3>1, <3>3
    <3> QED
      BY <1>0, <1>1, <1>3, <3>1, <3>2, <3>3, BufferKept DEF buffer
  <2> QED
    BY <2>1, <2>2, <2>3, <2>4, <2>5, <2>6 DEF SystemInv
<1>5. SamplesIn' \in {SamplesIn, SamplesIn \cup {written + 1},
                      (SamplesIn \ NewestIn(SamplesIn)) \cup {written + 1}}
  <2>1. CASE UNCHANGED ddsToMqtt
    BY <2>1 DEF SamplesIn, Carried
  <2>2. CASE dWhat' = Append(dWhat, Written(written + 1)) /\ ~UNCHANGED ddsToMqtt
    <3> DEFINE set == {}
    <3>1. /\ dWhat' = r
          /\ dInside' \in {dInside, dInside \cup {Len(dWhat) + 1},
                           (dInside \ NewestIn(dInside)) \cup {Len(dWhat) + 1}}
      BY <1>0, <2>2, WriteChanges DEF Written
    <3>2. set \in SUBSET Nat /\ \A c \in set, n \in dInside : c < dWhat[n].n
      OBVIOUS
    <3>3. SamplesIn = set \cup Carried(dWhat, dInside)
            /\ SamplesIn' = set \cup Carried(dWhat', dInside')
      BY DEF SamplesIn, Carried
    <3> HIDE DEF set
    <3> QED
      BY <1>0, <3>1, <3>2, <3>3, EnterInTurn
  <2> QED
    BY <2>1, <2>2, WriteChanges
<1>6. Chosen(dWhat, dDelivered)' = Chosen(dWhat, dDelivered)
  <2>1. Chosen(dWhat', dDelivered) = Chosen(dWhat, dDelivered)
    BY <1>0, <1>3, ChosenKept
  <2> QED
    BY <1>1, <2>1 DEF Chosen
<1>7. PostsIn' = PostsIn
  BY <1>1 DEF PostsIn, Cached, Carried, Nothing
<1> QED
  BY <1>1, <1>4, <1>5, <1>6, <1>7, PostsLose, SamplesEnter

\* What the subscriber prints is older than what the proxy is yet to write.
LEMMA TakeStep == ASSUME SystemInv, Take
                  PROVE  SystemInv' /\ PostsChannel!Next /\ SamplesChannel!Next
<1> DEFINE k == cache.n
<1> USE DEF ddsToMqtt, peers, mqttToDds
<1>0. /\ posted \in Nat /\ Counters /\ InTurn(mWhat, mInside, "mqtt", posted)
      /\ printed \in Seq(FromNet("mqtt", posted))
  BY DEF SystemInv, Counters
<1>1. /\ cache # Nothing /\ cache' = Nothing /\ gone' = FALSE
      /\ printed' = Append(printed, cache)
      /\ UNCHANGED <<proxy, starts, mqttToDds, ddsToMqtt, buffer, posted, peers, sub>>
  BY DEF Take
<1>2. cache \in FromNet("mqtt", posted) /\ \A n \in mInside : k < mWhat[n].n
  BY <1>1 DEF SystemInv, CacheOK
<1>3. SystemInv'
  <2>1. CacheOK'
    BY <1>1 DEF CacheOK, Nothing
  <2>2. Counters'
    BY <1>0, <1>1 DEF Counters, Past
  <2>3. printed' \in Seq(FromNet("mqtt", posted'))
    BY <1>0, <1>1, <1>2, AppendProperties
  <2>4. /\ InTurn(mWhat, mInside, "mqtt", posted)' /\ InTurn(dWhat, dInside, "dds", written)'
        /\ (dDelivered \in Seq(1..Len(dWhat)))'
    BY <1>1 DEF SystemInv, InTurn
  <2>5. BufferOK'
    <3>1. Len(dWhat) \in Nat /\ BufferOK /\ dDelivered \in Seq(1..Len(dWhat))
      BY BufferParts
    <3> QED
      BY <1>1, <3>1, BufferKept DEF buffer
  <2> QED
    BY <2>1, <2>2, <2>3, <2>4, <2>5 DEF SystemInv
<1>4. k \in Nat
  BY <1>0, <1>2 DEF FromNet
<1>5. PostsIn = {k} \cup Carried(mWhat, mInside) /\ PostsIn' = Carried(mWhat, mInside)
  BY <1>1 DEF PostsIn, Cached, Carried, Nothing
<1>6. \A i \in Carried(mWhat, mInside) : k < i /\ i \in Nat
  <2>1. Carried(mWhat, mInside) \subseteq Nat
    BY <1>0, CarriedNumbers
  <2> QED
    BY <1>2, <2>1 DEF Carried
<1>7. NumbersOf("mqtt", printed') = Append(NumbersOf("mqtt", printed), k)
  BY <1>0, <1>1, <1>2, NumbersAppend
<1>8. PostsChannel!Deliver(k) /\ k \in NumbersIn("mqtt", {cache} \cup {mWhat[n] : n \in mInside})
  <2>1. NumbersOf("mqtt", printed)' = Append(NumbersOf("mqtt", printed), k)
    BY <1>7 DEF NumbersOf
  <2> HIDE DEF k
  <2>2. k \in PostsIn /\ (\A m \in PostsIn : k <= m) /\ PostsIn' = PostsIn \ {k}
    BY <1>4, <1>5, <1>6
  <2> QED
    BY <1>1, <1>3, <2>1, <2>2, Insides DEF PostsChannel!Deliver
<1>9. SamplesIn' = SamplesIn /\ Chosen(dWhat, dDelivered)' = Chosen(dWhat, dDelivered)
  BY <1>1 DEF SamplesIn, Carried, Chosen
<1> QED
  BY <1>1, <1>3, <1>8, <1>9, SamplesLose DEF PostsChannel!Next

-----------------------------------------------------------------------------
(* Every reachable state, and every step *)

LEMMA InitSystem == Init => SystemInv /\ PostsChannel!Init /\ SamplesChannel!Init
<1> SUFFICES ASSUME Init PROVE SystemInv /\ PostsChannel!Init /\ SamplesChannel!Init
  OBVIOUS
<1>1. /\ mWhat = <<>> /\ mInside = {} /\ dWhat = <<>> /\ dInside = {} /\ dDelivered = <<>>
      /\ mEntered = 0 /\ dEntered = 0 /\ posted = 0 /\ written = 0
      /\ cache = Nothing /\ printed = <<>>
  BY DEF Init, ToDds!Init, ToMqtt!Init
<1>2. Counters
  <2>1. /\ proxy = "down" /\ starts = 0 /\ sub = "off" /\ gone = FALSE
        /\ pub \in [Publishers -> {"off", "wait", "write", "delete", "done", "failed"}]
        /\ matched \in [Publishers -> BOOLEAN]
    BY DEF Init
  <2>2. Len(mWhat) = 0 /\ Len(dWhat) = 0
    BY <1>1
  <2>3. written <= Cardinality(Past)
    BY <1>1, PastType
  <2>4. starts \in 0..MaxStarts /\ posted \in 0..MaxPosts /\ written \in Nat
    BY <1>1, <2>1, SystemAssumption
  <2>5. mEntered = Len(mWhat) /\ dEntered = Len(dWhat)
    BY <1>1, <2>2
  <2> QED
    BY <2>1, <2>3, <2>4, <2>5 DEF Counters
<1>3. SystemInv
  <2>1. shared = Nothing /\ taken = 0 /\ onMqtt = <<>>
    BY DEF Init
  <2>2. BufferOK
    BY <1>1, <2>1 DEF BufferOK, Nothing
  <2> QED
    BY <1>1, <1>2, <2>2 DEF SystemInv, InTurn, CacheOK
<1>4. NumbersIn("mqtt", {cache} \cup {mWhat[n] : n \in mInside}) = {}
  BY <1>1 DEF NumbersIn, Nothing
<1>5. NumbersIn("dds", {dWhat[n] : n \in dInside}) = {}
  BY <1>1 DEF NumbersIn
<1>6. NumbersOf("mqtt", printed) = <<>>
  BY <1>1 DEF NumbersOf
<1>7. NumbersOf("dds", [i \in DOMAIN dDelivered |-> dWhat[dDelivered[i]]]) = <<>>
  BY <1>1 DEF NumbersOf
<1> QED
  BY <1>1, <1>3, <1>4, <1>5, <1>6, <1>7 DEF PostsChannel!Init, SamplesChannel!Init

\* Every step keeps the invariant and is one of both channels, or a stutter.
LEMMA NextSystem == ASSUME SystemInv, Next
                    PROVE  SystemInv' /\ PostsChannel!Next /\ SamplesChannel!Next
<1>1. CASE FewerSteps
  BY <1>1, FewerKeep, FewerChannels
<1>2. CASE Post \/ ProxyWrites \/ ProxyPublishes \/ Take \/ \E p \in Publishers : Write(p)
  BY <1>2, PostStep, ProxyWritesStep, ProxyPublishesStep, TakeStep, WriteStep
<1> QED
  BY <1>1, <1>2 DEF Next, Main, Publisher, FewerSteps

\* A stutter keeps it too.
LEMMA StutterSystem == ASSUME SystemInv, UNCHANGED vars PROVE SystemInv'
<1> USE DEF vars, mqttToDds, ddsToMqtt, buffer, peers, reading
<1>1. Counters' /\ CacheOK' /\ BufferOK'
  BY DEF SystemInv, Counters, Past, CacheOK, BufferOK, Messages, Nothing
<1>2. InTurn(mWhat, mInside, "mqtt", posted)' /\ InTurn(dWhat, dInside, "dds", written)'
  BY DEF SystemInv, InTurn
<1> QED
  BY <1>1, <1>2 DEF SystemInv

\* The invariant holds in every reachable state.
LEMMA AlwaysSystem == Spec => []SystemInv
<1>1. SystemInv /\ [Next]_vars => SystemInv'
  BY NextSystem, StutterSystem
<1> QED
  BY <1>1, InitSystem, PTL DEF Spec

\* The type invariant, for any number of publishers and posts: in particular a
\* publisher writes one sample at most (publisher), and what enters the proxy has
\* been posted or written.
THEOREM TypeCorrect == Spec => []TypeOK
<1>1. SystemInv => TypeOK
  <2> SUFFICES ASSUME SystemInv PROVE TypeOK
    OBVIOUS
  <2>1. Counters /\ posted \in 0..MaxPosts /\ MaxPosts \in Nat
    BY SystemAssumption DEF SystemInv, Counters
  <2>2. written \in 0..Cardinality(Publishers)
    BY <2>1, PastType, SystemAssumption, FS_CardinalityType DEF Counters
  <2>3. FromNet("mqtt", posted) \subseteq Messages /\ FromNet("dds", written) \subseteq Messages
    BY <2>1, MadeMessages
  <2>4. mWhat \in Seq(Messages) /\ dWhat \in Seq(Messages) /\ printed \in Seq(Messages)
    BY <2>3 DEF SystemInv, InTurn
  <2>5. cache \in Messages \cup {Nothing}
    BY <2>3 DEF SystemInv, CacheOK
  <2> QED
    BY <2>1, <2>2, <2>4, <2>5 DEF SystemInv, Counters, InTurn, BufferOK, TypeOK
<1> QED
  BY <1>1, AlwaysSystem, PTL

\* A message that a client of the broker posts is printed once at most, in its turn
\* and as it was posted, however often the proxy ends and is started again
\* (dds_proxy, subscriber).
THEOREM PostsArriveInOrder == Spec => PostsReachSubscriber
<1>1. SystemInv /\ [Next]_vars => [PostsChannel!Next]_<<posted,
          NumbersIn("mqtt", {cache} \cup {mWhat[n] : n \in mInside}), NumbersOf("mqtt", printed)>>
  <2> SUFFICES ASSUME SystemInv, UNCHANGED vars
               PROVE  UNCHANGED <<posted,
                                   NumbersIn("mqtt", {cache} \cup {mWhat[n] : n \in mInside}),
                                  NumbersOf("mqtt", printed)>>
    BY NextSystem
  <2> QED
    BY DEF vars, reading, mqttToDds, NumbersIn, NumbersOf
<1> QED
  BY <1>1, InitSystem, AlwaysSystem, PTL DEF Spec, PostsReachSubscriber, PostsChannel!Spec

\* For a sample that a publisher writes the proxy publishes once at most and in its turn,
\* whatever samples[0] holds by then, and what the proxy itself writes does not come back
\* to it (dds_client).
THEOREM SamplesArePublishedInTurn == Spec => OnePublicationPerSample
<1>1. SystemInv /\ [Next]_vars => [SamplesChannel!Next]_<<written,
          NumbersIn("dds", {dWhat[n] : n \in dInside}),
          NumbersOf("dds", [i \in DOMAIN dDelivered |-> dWhat[dDelivered[i]]])>>
  <2> SUFFICES ASSUME SystemInv, UNCHANGED vars
               PROVE  UNCHANGED <<written, NumbersIn("dds", {dWhat[n] : n \in dInside}),
                                  NumbersOf("dds",
                                      [i \in DOMAIN dDelivered |-> dWhat[dDelivered[i]]])>>
    BY NextSystem
  <2> QED
    BY DEF vars, peers, ddsToMqtt, NumbersIn, NumbersOf
<1> QED
  BY <1>1, InitSystem, AlwaysSystem, PTL DEF Spec, OnePublicationPerSample, SamplesChannel!Spec

\* What is published for a sample is that sample, a later one, or no sample at all, and no
\* sample is published after a later one (dds_take, HelloWorld_to_MQTT).
THEOREM SamplesNeverGoBack == Spec => []PublishedNeverGoesBack
<1>1. SystemInv => PublishedNeverGoesBack
  <2> SUFFICES ASSUME SystemInv, NEW i \in DOMAIN onMqtt, onMqtt[i].net = "dds"
               PROVE  /\ onMqtt[i].n \in dWhat[dDelivered[i]].n .. written
                      /\ \A j \in 1..i : onMqtt[j].net = "dds" => onMqtt[j].n <= onMqtt[i].n
    BY DEF PublishedNeverGoesBack
  <2>1. /\ written \in Nat /\ InTurn(dWhat, dInside, "dds", written)
        /\ dDelivered \in Seq(1..Len(dWhat)) /\ BufferOK
    BY DEF SystemInv, Counters
  <2>2. /\ i \in 1..Len(onMqtt) /\ dDelivered[i] \in 1..Len(dWhat) /\ onMqtt[i].n \in Nat
        /\ taken \in 1..Len(dWhat)
    <3>1. i \in 1..Len(onMqtt) /\ taken \in 1..Len(dWhat) /\ onMqtt[i] \in Messages \cup {Nothing}
      BY <2>1 DEF BufferOK
    <3>2. Len(onMqtt) = Len(dDelivered)
      BY <2>1 DEF BufferOK
    <3> QED
      BY <2>1, <3>1, <3>2 DEF Messages, Nothing, Posted, Written
  <2>3. dWhat[taken].n \in 1..written
    <3> DEFINE S == FromNet("dds", written)
    <3>1. dWhat \in Seq(S) /\ \A x \in S : x.n \in 1..written
      BY <2>1 DEF InTurn, FromNet
    <3> HIDE DEF S
    <3> QED
      BY <2>2, <3>1
  <2>4. dWhat[dDelivered[i]].n \in Nat
    BY <2>1, <2>2, PlaceInTurn
  <2> QED
    BY <2>1, <2>2, <2>3, <2>4 DEF BufferOK
<1> QED
  BY <1>1, AlwaysSystem, PTL
=============================================================================
