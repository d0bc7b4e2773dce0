------------------------- MODULE HandleQueueProofs -------------------------
(* What holds of a queue that threads share, for every capacity, any number *)
(* of appends, and any set of threads that use it as HandleQueue assumes.   *)
EXTENDS HandleQueue, SequenceTheorems, TLAPS

-----------------------------------------------------------------------------
(* The inductive invariant *)

Pushing == {"push_check", "push_len", "push_store"}       \* v->mtx is held
Popping == {"pop_low", "pop_take", "pop_len"}             \* here too
Taking  == {"len", "pop_test", "pop_lock"} \cup Popping

\* Who is past pthread_mutex_lock(&v->mtx) holds that mutex.
MtxExcludes == \A t \in Threads : pc[t] \in Pushing \cup Popping \cup {"unlock"} <=> mtx = t

\* With the client's mutex, whoever uses the vector holds it.
OuterExcludes ==
    IF queue.outer THEN \A t \in Threads : pc[t] # "idle" <=> outer = t
                   ELSE outer = Free

\* A thread takes only what it is there to take.
OnlyConsumersTake == \A t \in Threads : pc[t] \in Taking => t \in queue.consumers

\* The three parts of the locking discipline.
Locking == MtxExcludes /\ OuterExcludes /\ OnlyConsumersTake

\* One entry may be past cap, and a pop in progress has raised low already.
Bounds ==
    /\ len \in Nat
    /\ low + len <= Cap + 1 + (IF PopHalfDone \/ PopTaken THEN 1 ELSE 0)

\* What a thread keeps in its local variables is still so, and what it has
\* tested still holds.
Local(t) ==
    /\ pc[t] = "push_len" => /\ reg[t] = len
                             /\ pos[t] = low + len
                             /\ low + len <= Cap
    /\ pc[t] = "push_store" => /\ len > 0
                               /\ pos[t] = low + len - 1
    /\ pc[t] \in {"pop_lock", "pop_low", "pop_take", "pop_len"} => len > 0
    /\ pc[t] \in {"pop_take", "pop_len"} => /\ low > First
                                            /\ reg[t] = len
                                            /\ pos[t] = low - 1

\* Every thread's local variables are up to date.
Locals == \A t \in Threads : Local(t)

\* The inductive invariant.
QueueInv == TypeOK /\ Locking /\ Bounds /\ Locals
-----------------------------------------------------------------------------
(* What the invariant says of a state *)

\* A new vector leaves a quarter of its slots, rounded down, below low.
LEMMA FirstSlot == First \in Nat /\ First <= Cap
  BY CapAssumption DEF First

\* No two threads take at once: the client's mutex keeps them apart, or there
\* is only one that ever does.
LEMMA OneTaker ==
    ASSUME QueueInv, NEW t \in Threads, NEW u \in Threads,
           pc[t] \in Taking, pc[u] \in Taking
    PROVE  t = u
<1>1. t \in queue.consumers /\ u \in queue.consumers /\ queue \in Queues
  BY DEF QueueInv, TypeOK, Locking, OnlyConsumersTake
<1>2. CASE queue.outer
  BY <1>2 DEF QueueInv, Locking, OuterExcludes, Taking, Popping
<1>3. CASE ~ queue.outer
  BY <1>1, <1>3, HandleQueueAssumption
<1> QED
  BY <1>2, <1>3

\* Nor are two of them past the lock of the vector's mutex.
LEMMA OneInside ==
    ASSUME QueueInv, NEW t \in Threads, NEW u \in Threads,
           pc[t] \in Pushing \cup Popping \cup {"unlock"},
           pc[u] \in Pushing \cup Popping \cup {"unlock"}
    PROVE  t = u
  BY DEF QueueInv, Locking, MtxExcludes

-----------------------------------------------------------------------------
(* The invariant is one *)

LEMMA InitQueueInv == Init => QueueInv
<1> SUFFICES ASSUME Init PROVE QueueInv
  OBVIOUS
<1> USE DEF Init
<1>1. TypeOK
  BY FirstSlot, CapAssumption, HandleQueueAssumption DEF TypeOK, Labels, Entry, Null
<1>2. Locking
  BY FreeAssumption
     DEF Locking, MtxExcludes, OuterExcludes, OnlyConsumersTake, Pushing, Popping, Taking
<1>3. Bounds
  BY FirstSlot, CapAssumption DEF Bounds
<1>4. Locals
  BY DEF Locals, Local
<1> QED
  BY <1>1, <1>2, <1>3, <1>4 DEF QueueInv

\* Every step of nftp_vec_append keeps the invariant.
LEMMA PushQueueInv ==
    ASSUME QueueInv, NEW t \in Threads, AppendStep(t)
    PROVE  QueueInv'
<1> USE DEF QueueInv
<1>1. CASE \E x \in {Null, appends + 1} : BeginAppend(t, x)
  <2>1. TypeOK'
    BY SMTT(40), <1>1, HandleQueueAssumption
    DEF BeginAppend, TypeOK, Entry, Null, Labels, Goto, fields
  <2>2. Locking'
    BY <1>1, FreeAssumption DEF BeginAppend, Goto, fields, TypeOK, Locking, MtxExcludes,
       OuterExcludes, OnlyConsumersTake, Pushing, Popping, Taking
  <2>3. Bounds'
    BY <1>1 DEF BeginAppend, Goto, fields, TypeOK, Bounds, PopHalfDone, PopTaken
  <2>4. Locals'
    BY <1>1 DEF BeginAppend, Goto, fields, TypeOK, Locals, Local
  <2> QED
    BY <2>1, <2>2, <2>3, <2>4
<1>2. CASE PushLock(t)
  <2> USE <1>2 DEF PushLock, Lock, Goto, fields, TypeOK
  <2>1. TypeOK'
    BY DEF Labels
  <2>2. Locking'
    BY FreeAssumption
       DEF Locking, MtxExcludes, OuterExcludes, OnlyConsumersTake, Pushing, Popping, Taking
  <2>3. Bounds'
    BY DEF Bounds, PopHalfDone, PopTaken
  <2>4. Locals'
    BY DEF Locals, Local
  <2> QED
    BY <2>1, <2>2, <2>3, <2>4
<1>3. CASE PushCheck(t)
  <2> USE <1>3 DEF PushCheck, Goto, fields, locks, TypeOK
  <2>0. ~PopHalfDone /\ ~PopTaken
    BY OneInside DEF PopHalfDone, PopTaken, Pushing, Popping
  <2>1. TypeOK'
    BY <2>0, FirstSlot, CapAssumption DEF Labels, Bounds
  <2>2. Locking'
    BY DEF Locking, MtxExcludes, OuterExcludes, OnlyConsumersTake, Pushing, Popping, Taking
  <2>3. Bounds'
    BY <2>0 DEF Bounds, PopHalfDone, PopTaken
  <2>4. Locals'
    BY <2>0, CapAssumption, FirstSlot DEF Locals, Local, Bounds
  <2> QED
    BY <2>1, <2>2, <2>3, <2>4
<1>4. CASE PushLen(t)
  <2> USE <1>4 DEF PushLen, Goto, fields, locks, TypeOK
  <2>0. ~PopHalfDone /\ ~PopTaken
    BY OneInside DEF PopHalfDone, PopTaken, Pushing, Popping
  <2>1. TypeOK'
    BY DEF Labels
  <2>2. Locking'
    BY DEF Locking, MtxExcludes, OuterExcludes, OnlyConsumersTake, Pushing, Popping, Taking
  <2>3. Bounds'
    BY SMTT(40), <2>0, FirstSlot, CapAssumption DEF Bounds, PopHalfDone, PopTaken, Locals, Local
  <2>4. Locals'
    <3>1. Local(t)'
      BY <2>0, CapAssumption, FirstSlot DEF Locals, Local, Bounds
    <3>2. ASSUME NEW u \in Threads, u # t
          PROVE  Local(u)'
      <4>1. pc'[u] = pc[u] /\ pc[u] \notin Pushing /\ pc[u] \notin Popping
        BY <3>2, OneInside DEF Pushing, Popping
      <4>2. len > 0 => len' > 0
        BY DEF Locals, Local
      <4> QED
        BY <4>1, <4>2 DEF Locals, Local, Pushing, Popping
    <3> QED
      BY <3>1, <3>2 DEF Locals
  <2> QED
    BY <2>1, <2>2, <2>3, <2>4
<1>5. CASE PushStore(t)
  <2> USE <1>5 DEF PushStore, Goto, fields, locks, TypeOK
  <2>0. ~PopHalfDone /\ ~PopTaken
    BY OneInside DEF PopHalfDone, PopTaken, Pushing, Popping
  <2>1. TypeOK'
    BY <2>0, FirstSlot, CapAssumption DEF Labels, Bounds, Locals, Local
  <2>2. Locking'
    BY DEF Locking, MtxExcludes, OuterExcludes, OnlyConsumersTake, Pushing, Popping, Taking
  <2>3. Bounds'
    BY <2>0 DEF Bounds, PopHalfDone, PopTaken
  <2>4. Locals'
    BY DEF Locals, Local
  <2> QED
    BY <2>1, <2>2, <2>3, <2>4
<1> QED
  BY <1>1, <1>2, <1>3, <1>4, <1>5 DEF AppendStep

\* So does every step of a thread that tests the length and pops.
LEMMA TakeQueueInv ==
    ASSUME QueueInv, NEW t \in Threads, TakeStep(t)
    PROVE  QueueInv'
<1> USE DEF QueueInv
<1>1. CASE BeginTake(t)
  <2> USE <1>1 DEF BeginTake, Goto, fields, TypeOK
  <2>1. TypeOK'
    BY DEF Labels
  <2>2. Locking'
    BY FreeAssumption
       DEF Locking, MtxExcludes, OuterExcludes, OnlyConsumersTake, Pushing, Popping, Taking
  <2>3. Bounds'
    BY DEF Bounds, PopHalfDone, PopTaken
  <2>4. Locals'
    BY DEF Locals, Local
  <2> QED
    BY <2>1, <2>2, <2>3, <2>4
<1>2. CASE ReadLen(t)
  <2> USE <1>2 DEF ReadLen, Goto, fields, locks, TypeOK
  <2>1. TypeOK'
    BY DEF Labels
  <2>2. Locking'
    BY DEF Locking, MtxExcludes, OuterExcludes, OnlyConsumersTake, Pushing, Popping, Taking
  <2>3. Bounds'
    BY DEF Bounds, PopHalfDone, PopTaken
  <2>4. Locals'
    BY DEF Locals, Local
  <2> QED
    BY <2>1, <2>2, <2>3, <2>4
<1>3. CASE PopTest(t)
  <2> USE <1>3 DEF PopTest, Goto, fields, locks, TypeOK
  <2>1. TypeOK'
    BY DEF Labels
  <2>2. Locking'
    BY DEF Locking, MtxExcludes, OuterExcludes, OnlyConsumersTake, Pushing, Popping, Taking
  <2>3. Bounds'
    BY DEF Bounds, PopHalfDone, PopTaken
  <2>4. Locals'
    BY DEF Locals, Local, Bounds
  <2> QED
    BY <2>1, <2>2, <2>3, <2>4
<1>4. CASE PopLock(t)
  <2> USE <1>4 DEF PopLock, Lock, Goto, fields, TypeOK
  <2>1. TypeOK'
    BY DEF Labels
  <2>2. Locking'
    BY FreeAssumption
       DEF Locking, MtxExcludes, OuterExcludes, OnlyConsumersTake, Pushing, Popping, Taking
  <2>3. Bounds'
    BY DEF Bounds, PopHalfDone, PopTaken
  <2>4. Locals'
    BY DEF Locals, Local
  <2> QED
    BY <2>1, <2>2, <2>3, <2>4
<1>5. CASE PopLow(t)
  <2> USE <1>5 DEF PopLow, Goto, fields, locks, TypeOK
  <2>0. ~PopHalfDone /\ ~PopTaken
    BY OneInside DEF PopHalfDone, PopTaken, Pushing, Popping
  <2>a. PopHalfDone'
    BY DEF PopHalfDone
  <2>1. TypeOK'
    BY <2>0, FirstSlot, CapAssumption DEF Labels, Bounds, Locals, Local
  <2>2. Locking'
    BY DEF Locking, MtxExcludes, OuterExcludes, OnlyConsumersTake, Pushing, Popping, Taking
  <2>3. Bounds'
    BY <2>0, <2>a, FirstSlot, CapAssumption DEF Bounds
  <2>4. Locals'
    BY SMTT(40), <2>0, OneInside, CapAssumption, FirstSlot
       DEF Locals, Local, Bounds, PopHalfDone, PopTaken, Pushing, Popping
  <2> QED
    BY <2>1, <2>2, <2>3, <2>4
<1>6. CASE PopTake(t)
  <2> USE <1>6 DEF PopTake, Goto, fields, locks, TypeOK
  <2>0. PopHalfDone /\ PopTaken'
    BY DEF PopHalfDone, PopTaken
  <2>1. TypeOK'
    <3>1. pos[t] \in 0..Cap
      BY FirstSlot, CapAssumption DEF Locals, Local
    <3>2. vec[pos[t]] \in Entry /\ Null \in Entry
      BY <3>1, HandleQueueAssumption DEF Entry, Null
    <3> QED
      BY <3>1, <3>2 DEF Labels
  <2>2. Locking'
    BY DEF Locking, MtxExcludes, OuterExcludes, OnlyConsumersTake, Pushing, Popping, Taking
  <2>3. Bounds'
    BY <2>0 DEF Bounds
  <2>4. Locals'
    BY DEF Locals, Local
  <2> QED
    BY <2>1, <2>2, <2>3, <2>4
<1>7. CASE PopLen(t)
  <2> USE <1>7 DEF PopLen, Goto, fields, locks, TypeOK
  <2>0. PopTaken
    BY DEF PopTaken
  <2>1. TypeOK'
    BY DEF Labels
  <2>2. Locking'
    BY DEF Locking, MtxExcludes, OuterExcludes, OnlyConsumersTake, Pushing, Popping, Taking
  <2>3. Bounds'
    <3>1. low + len <= Cap + 2 /\ len \in Nat /\ len > 0 /\ reg[t] = len
      BY <2>0, CapAssumption DEF Bounds, Locals, Local
    <3>2. len' \in Nat /\ low' + len' <= Cap + 1
      BY <3>1, FirstSlot, CapAssumption
    <3> QED
      BY SMTT(40), <3>2, FirstSlot, CapAssumption DEF Bounds
  <2>4. Locals'
    BY OneInside, OneTaker, FirstSlot, CapAssumption
       DEF Locals, Local, Bounds, Pushing, Popping, Taking
  <2> QED
    BY <2>1, <2>2, <2>3, <2>4
<1> QED
  BY <1>1, <1>2, <1>3, <1>4, <1>5, <1>6, <1>7 DEF TakeStep

\* The step that leaves the vector's mutex, and the one that leaves the
\* client's.
LEMMA LeaveQueueInv ==
    ASSUME QueueInv, NEW t \in Threads, Unlock(t) \/ Return(t)
    PROVE  QueueInv'
<1> USE DEF QueueInv, Goto, fields, TypeOK
<1>1. CASE Unlock(t)
  <2> USE <1>1 DEF Unlock
  <2>1. TypeOK'
    BY DEF Labels
  <2>2. Locking'
    BY FreeAssumption DEF Locking, MtxExcludes, OuterExcludes, OnlyConsumersTake,
                          Pushing, Popping, Taking
  <2>3. Bounds'
    BY DEF Bounds, PopHalfDone, PopTaken
  <2>4. Locals'
    BY DEF Locals, Local
  <2> QED
    BY <2>1, <2>2, <2>3, <2>4
<1>2. CASE Return(t)
  <2> USE <1>2 DEF Return
  <2>1. TypeOK'
    BY DEF Labels
  <2>2. Locking'
    BY FreeAssumption DEF Locking, MtxExcludes, OuterExcludes, OnlyConsumersTake,
                          Pushing, Popping, Taking
  <2>3. Bounds'
    BY DEF Bounds, PopHalfDone, PopTaken
  <2>4. Locals'
    BY DEF Locals, Local
  <2> QED
    BY <2>1, <2>2, <2>3, <2>4
<1> QED
  BY <1>1, <1>2

\* Any step
LEMMA NextQueueInv == ASSUME QueueInv, [Next]_vars PROVE QueueInv'
<1>1. CASE UNCHANGED vars
  <2> USE <1>1 DEF vars, fields, locks, locals, QueueInv
  <2>1. TypeOK'
    BY DEF TypeOK
  <2>2. Locking'
    BY DEF Locking, MtxExcludes, OuterExcludes, OnlyConsumersTake
  <2>3. Bounds'
    BY DEF Bounds, PopHalfDone, PopTaken
  <2>4. Locals'
    BY DEF Locals, Local
  <2> QED
    BY <2>1, <2>2, <2>3, <2>4
<1> QED
  BY <1>1, PushQueueInv, TakeQueueInv, LeaveQueueInv DEF Next

\* The invariant holds in every reachable state.
LEMMA Invariance == Spec => []QueueInv
  BY InitQueueInv, NextQueueInv, PTL DEF Spec

\* Every index is within the array and the word after it, and every entry is
\* one that was appended, whatever the threads do between each other's steps.
THEOREM TypeCorrect == Spec => []TypeOK
  BY Invariance, PTL DEF QueueInv

\* No pop takes from an empty vector, though both tests of len come before
\* the lock: len is never decremented below zero.
THEOREM LenNeverUnderflows == Spec => []NoUnderflow
<1>1. QueueInv => NoUnderflow
  BY DEF QueueInv, Locals, Local, NoUnderflow
<1> QED
  BY <1>1, Invariance, PTL

-----------------------------------------------------------------------------
(* The queue the fields stand for *)

\* A thread that is about to store an entry or has taken one is alone in what
\* it does to the fields.
LEMMA Phases ==
    ASSUME QueueInv
    PROVE  /\ PushHalfDone => ~ PopHalfDone /\ ~ PopTaken
           /\ PopHalfDone => ~ PopTaken
  BY OneInside DEF PushHalfDone, PopHalfDone, PopTaken, Pushing, Popping

\* What stands between the abstract low and tail are entries of the array.
LEMMA AbsRange ==
    ASSUME QueueInv
    PROVE  /\ AbsLen \in Nat /\ AbsLow \in Int
           /\ AbsLow >= First /\ AbsLow + AbsLen <= Cap + 1
<1>1. len \in Nat /\ low \in Int /\ low >= First /\ First \in Nat /\ Cap \in Nat
      /\ low + len <= Cap + 1 + (IF PopHalfDone \/ PopTaken THEN 1 ELSE 0)
  BY FirstSlot, CapAssumption DEF QueueInv, TypeOK, Bounds
<1>2. PushHalfDone \/ PopTaken => len > 0
  BY DEF PushHalfDone, PopTaken, QueueInv, Locals, Local
<1>3. PopHalfDone => low > First
  BY DEF PopHalfDone, QueueInv, Locals, Local
<1> QED
  BY <1>1, <1>2, <1>3, Phases DEF AbsLow, AbsLen

\* A thread that gives up has seen len = 0, and then nothing is in the queue,
\* since no other thread is in the middle of taking an entry.
THEOREM GivesUpRightly == Spec => GivesUpOnlyWhenEmpty
<1>1. ASSUME QueueInv, [Next]_vars
      PROVE  [\A t \in Threads : pc[t] \in {"len", "pop_test"} /\ pc'[t] = "return"
                                    => AbsQueue.items = <<>>]_vars
  <2> SUFFICES ASSUME NEW t \in Threads, pc[t] \in {"len", "pop_test"}, pc'[t] = "return"
               PROVE  AbsQueue.items = <<>>
    OBVIOUS
  <2>1. len = 0
    BY <1>1 DEF Next, AppendStep, TakeStep, BeginAppend, PushLock, PushCheck, PushLen,
       PushStore, BeginTake,
       ReadLen, PopTest, PopLock, PopLow, PopTake, PopLen, Unlock, Return, Lock, Goto, vars,
          locals, QueueInv, TypeOK
  <2>2. AbsLen = 0
    <3>1. ~ PushHalfDone
      BY <1>1, <2>1 DEF PushHalfDone, QueueInv, Locals, Local
    <3>2. ~ PopTaken
      BY <1>1, <2>1 DEF PopTaken, QueueInv, Locals, Local
    <3> QED
      BY <2>1, <3>1, <3>2 DEF AbsLen
  <2> QED
    BY <2>2 DEF AbsQueue
<1> QED
  BY <1>1, Invariance, PTL DEF Spec, GivesUpOnlyWhenEmpty
-----------------------------------------------------------------------------
(* The vector implements the atomic queue *)

\* The slots a .. a + n - 1 of v, as a sequence.
Slots(v, a, n) == [i \in 1..n |-> v[a + i - 1]]

\* n slots, read from slot a upwards, are a sequence of n entries.
LEMMA SlotsSeq ==
    ASSUME NEW v \in [0..Cap -> Entry], NEW n \in Nat, NEW a \in Nat, a + n <= Cap + 1
    PROVE  /\ Slots(v, a, n) \in Seq(Entry)
           /\ Len(Slots(v, a, n)) = n
  BY CapAssumption DEF Slots

\* Storing an entry in the slot after the last appends it.
LEMMA SlotsAppend ==
    ASSUME NEW v \in [0..Cap -> Entry], NEW n \in Nat, NEW a \in Nat, a + n <= Cap,
           NEW x \in Entry
    PROVE  Slots([v EXCEPT ![a + n] = x], a, n + 1) = Append(Slots(v, a, n), x)
<1> DEFINE w == [v EXCEPT ![a + n] = x]
           s == Slots(w, a, n + 1)
           r == Append(Slots(v, a, n), x)
<1>1. w \in [0..Cap -> Entry] /\ w[a + n] = x /\ \A i \in 0..Cap : i # a + n => w[i] = v[i]
  BY CapAssumption
<1> HIDE DEF w
<1>2. s \in Seq(Entry) /\ Len(s) = n + 1
  <2>1. n + 1 \in Nat /\ a + (n + 1) <= Cap + 1
    BY CapAssumption
  <2> QED
    BY <1>1, <2>1, SlotsSeq
<1>3. Slots(v, a, n) \in Seq(Entry) /\ Len(Slots(v, a, n)) = n
  <2>1. a + n <= Cap + 1
    BY CapAssumption
  <2> QED
    BY <2>1, SlotsSeq
<1>4. /\ r \in Seq(Entry) /\ Len(r) = n + 1 /\ r[n + 1] = x
      /\ \A i \in 1..n : r[i] = Slots(v, a, n)[i]
  BY <1>3, AppendProperties
<1>5. \A i \in 1..n + 1 : s[i] = r[i]
  <2>1. \A i \in 1..n + 1 : s[i] = w[a + i - 1]
    BY DEF Slots
  <2>2. \A i \in 1..n : r[i] = v[a + i - 1]
    BY <1>4 DEF Slots
  <2> HIDE DEF s, r
  <2>3. \A i \in 1..n : a + i - 1 \in 0..Cap /\ a + i - 1 # a + n
    BY CapAssumption
  <2>4. s[n + 1] = w[a + n]
    BY <2>1
  <2> QED
    BY <1>1, <1>4, <2>1, <2>2, <2>3, <2>4
<1> HIDE DEF s, r
<1>6. s = r
  BY <1>2, <1>4, <1>5, SeqEqual
<1> QED
  BY <1>6 DEF s, r, w

\* Clearing the first slot and looking from the second takes the head.
LEMMA SlotsTail ==
    ASSUME NEW v \in [0..Cap -> Entry], NEW n \in Nat, NEW a \in Nat,
           a + n <= Cap + 1, n > 0
    PROVE  /\ Slots([v EXCEPT ![a] = Null], a + 1, n - 1) = Tail(Slots(v, a, n))
           /\ Head(Slots(v, a, n)) = v[a]
           /\ Slots(v, a, n) # <<>>
<1> DEFINE w == [v EXCEPT ![a] = Null]
           s == Slots(v, a, n)
           r == Slots(w, a + 1, n - 1)
<1>1. w \in [0..Cap -> Entry] /\ \A i \in 0..Cap : i # a => w[i] = v[i]
  BY CapAssumption, HandleQueueAssumption DEF Entry, Null
<1> HIDE DEF w
<1>2. s \in Seq(Entry) /\ Len(s) = n
  BY SlotsSeq
<1>3. r \in Seq(Entry) /\ Len(r) = n - 1
  <2>1. a + 1 \in Nat /\ n - 1 \in Nat /\ (a + 1) + (n - 1) <= Cap + 1
    BY CapAssumption
  <2> QED
    BY <1>1, <2>1, SlotsSeq
<1>4. /\ \A i \in 1..n : s[i] = v[a + i - 1]
      /\ \A i \in 1..n - 1 : r[i] = w[a + i]
  <2>1. \A i \in 1..n - 1 : r[i] = w[(a + 1) + i - 1] /\ (a + 1) + i - 1 = a + i
    BY DEF Slots
  <2> QED
    BY <2>1 DEF Slots
<1> HIDE DEF s, r
<1>5. s # <<>> /\ Head(s) = s[1]
  BY <1>2
<1>6. Tail(s) \in Seq(Entry) /\ Len(Tail(s)) = n - 1 /\ \A i \in 1..n - 1 : Tail(s)[i] = s[i + 1]
  BY <1>2, <1>5, HeadTailProperties
<1>7. \A i \in 1..n - 1 : r[i] = Tail(s)[i]
  <2>1. \A i \in 1..n - 1 : /\ i + 1 \in 1..n /\ a + (i + 1) - 1 = a + i
                            /\ a + i \in 0..Cap /\ a + i # a
    BY CapAssumption
  <2> QED
    BY <1>1, <1>4, <1>6, <2>1
<1>8. r = Tail(s)
  BY <1>3, <1>6, <1>7, SeqEqual
<1>9. Head(s) = v[a]
  BY <1>4, <1>5
<1> QED
  BY <1>5, <1>8, <1>9 DEF s, r, w

\* The fields of AbsQueue
LEMMA AbsFields ==
    /\ AbsQueue = [items |-> Slots(vec, AbsLow, AbsLen), tail |-> AbsLow + AbsLen]
    /\ AbsQueue' = [items |-> Slots(vec', AbsLow', AbsLen'), tail |-> AbsLow' + AbsLen']
  BY DEF AbsQueue, Slots

\* The abstract queue's pop of a record.
LEMMA PopRecord ==
    ASSUME NEW s, NEW k
    PROVE  AQ!Pop([items |-> s, tail |-> k]) = [items |-> Tail(s), tail |-> k]
<1>1. ASSUME NEW r \in [items : {s}, tail : {k}]
      PROVE  AQ!Pop(r) \in [items : {Tail(s)}, tail : {k}]
  BY <1>1 DEF AQ!Pop
<1>3. ASSUME NEW r \in [items : {Tail(s)}, tail : {k}]
      PROVE  r = [items |-> Tail(s), tail |-> k]
  OBVIOUS
<1>2. [items |-> s, tail |-> k] \in [items : {s}, tail : {k}]
  OBVIOUS
<1> QED
  BY <1>1, <1>2, <1>3

\* A new vector stands for a new queue.
LEMMA InitRefines == Init => AQ!Init
<1> SUFFICES ASSUME Init PROVE AQ!Init
  OBVIOUS
<1>1. AbsLow = First /\ AbsLen = 0
  BY DEF Init, AbsLow, AbsLen, PushHalfDone, PopHalfDone, PopTaken
<1>2. AbsQueue = [items |-> <<>>, tail |-> First]
  BY <1>1, FirstSlot, CapAssumption DEF AbsQueue
<1> QED
  BY <1>2 DEF Init, AQ!Init, AQ!NewQueue, First, AQ!First

\* A push becomes visible at its store,
LEMMA StoreRefines == ASSUME QueueInv, NEW t \in Threads, PushStore(t) PROVE AQ!Store(arg[t])
<1> DEFINE n == AbsLen
<1> USE DEF QueueInv
<1>1. PushHalfDone /\ ~ PopHalfDone /\ ~ PopTaken
  BY Phases DEF PushHalfDone, PushStore
<1>2. ~ PushHalfDone' /\ ~ PopHalfDone' /\ ~ PopTaken'
  BY OneInside DEF PushStore, Goto, TypeOK, PushHalfDone, PopHalfDone, PopTaken, Pushing, Popping
<1>3. /\ AbsLow = low /\ n = len - 1
      /\ AbsLow' = low /\ AbsLen' = len
  BY <1>1, <1>2 DEF AbsLow, AbsLen, PushStore
<1>4. /\ low \in Nat /\ len \in Nat /\ n \in Nat /\ low + n <= Cap
      /\ vec \in [0..Cap -> Entry] /\ arg[t] \in Entry
      /\ vec' = [vec EXCEPT ![low + n] = arg[t]]
      /\ stored' = Append(stored, arg[t]) /\ taken' = taken
  <2>1. low \in Nat /\ len \in Nat /\ vec \in [0..Cap -> Entry] /\ arg[t] \in Entry
    BY FirstSlot, CapAssumption DEF TypeOK, Bounds
  <2>2. len > 0 /\ pos[t] = low + len - 1 /\ low + len <= Cap + 1
    BY <1>1, CapAssumption DEF PushStore, Bounds, Locals, Local
  <2>3. n \in Nat /\ low + n <= Cap /\ pos[t] = low + n
    BY <1>3, <2>1, <2>2, CapAssumption
  <2> QED
    BY <2>1, <2>3 DEF PushStore
<1>5. Slots(vec', low, n + 1) = Append(Slots(vec, low, n), arg[t])
  BY <1>4, SlotsAppend
<1>6. AbsQueue = [items |-> Slots(vec, low, n), tail |-> low + n]
  BY <1>3, AbsFields
<1>7. AbsQueue' = [items |-> Append(Slots(vec, low, n), arg[t]), tail |-> (low + n) + 1]
  <2>1. AbsLen' = n + 1 /\ AbsLow' + AbsLen' = (low + n) + 1
    BY <1>3, <1>4
  <2>2. Slots(vec', AbsLow', AbsLen') = Append(Slots(vec, low, n), arg[t])
    BY <1>3, <1>5, <2>1
  <2> QED
    BY <2>1, <2>2, AbsFields
<1> QED
  BY <1>4, <1>6, <1>7 DEF AQ!Store, AQ!Accepts, AQ!Push

\* and a pop when it has the entry.
LEMMA TakeRefines == ASSUME QueueInv, NEW t \in Threads, PopTake(t) PROVE AQ!Take
<1> DEFINE n == AbsLen
           a == low - 1
<1> USE DEF QueueInv
<1>1. PopHalfDone /\ ~ PushHalfDone /\ ~ PopTaken
  BY Phases DEF PopHalfDone, PopTake
<1>2. PopTaken' /\ ~ PushHalfDone' /\ ~ PopHalfDone'
  BY OneInside DEF PopTake, Goto, TypeOK, PushHalfDone, PopHalfDone, PopTaken, Pushing, Popping
<1>3. /\ AbsLow = a /\ n = len
      /\ AbsLow' = low /\ AbsLen' = len - 1
  BY <1>1, <1>2 DEF AbsLow, AbsLen, PopTake
<1>4. /\ a \in Nat /\ len \in Nat /\ len > 0 /\ a + len <= Cap + 1 /\ low = a + 1
      /\ vec \in [0..Cap -> Entry]
      /\ vec' = [vec EXCEPT ![a] = Null]
      /\ taken' = Append(taken, vec[a]) /\ stored' = stored
  <2>1. len \in Nat /\ vec \in [0..Cap -> Entry] /\ First \in Nat /\ low \in Int
    BY FirstSlot, CapAssumption DEF TypeOK, Bounds
  <2>2. len > 0 /\ low > First /\ pos[t] = a /\ low + len <= Cap + 2
    BY <1>1, CapAssumption DEF PopTake, Bounds, Locals, Local
  <2>3. a \in Nat /\ a + len <= Cap + 1 /\ low = a + 1
    BY <2>1, <2>2, CapAssumption
  <2> QED
    BY <2>1, <2>2, <2>3 DEF PopTake
<1> HIDE DEF a
<1>5. /\ Slots(vec', a + 1, len - 1) = Tail(Slots(vec, a, len))
      /\ Head(Slots(vec, a, len)) = vec[a]
      /\ Slots(vec, a, len) # <<>>
  BY <1>4, SlotsTail
<1>6. AbsQueue = [items |-> Slots(vec, a, len), tail |-> a + len]
  BY <1>3, AbsFields
<1>7. AbsQueue' = [items |-> Tail(Slots(vec, a, len)), tail |-> a + len]
  <2>1. AbsLow' = a + 1 /\ AbsLow' + AbsLen' = a + len
    BY <1>3, <1>4
  <2>2. Slots(vec', AbsLow', AbsLen') = Tail(Slots(vec, a, len))
    BY <1>3, <1>5, <2>1
  <2> QED
    BY <2>1, <2>2, AbsFields
<1>8. AbsQueue' = AQ!Pop(AbsQueue)
  BY <1>6, <1>7, PopRecord
<1>9. AbsQueue.items = Slots(vec, a, len)
  BY <1>6
<1> QED
  BY <1>4, <1>5, <1>8, <1>9 DEF AQ!Take

\* No other step changes the queue.
LEMMA QuietRefines ==
    ASSUME QueueInv, NEW t \in Threads, AppendStep(t) \/ TakeStep(t) \/ Unlock(t) \/ Return(t),
           ~ PushStore(t), ~ PopTake(t)
    PROVE  UNCHANGED <<AbsQueue, stored, taken>>
<1> USE DEF QueueInv, TypeOK, Goto, fields, locks
<1>1. UNCHANGED <<vec, stored, taken>>
  BY DEF AppendStep, TakeStep, BeginAppend, PushLock, PushCheck, PushLen, BeginTake,
         ReadLen, PopTest, PopLock, PopLow, PopLen, Unlock, Return, Lock
<1>2. UNCHANGED <<AbsLow, AbsLen>>
  <2>1. CASE PushLen(t)
    <3>1. ~ PushHalfDone /\ ~ PopHalfDone /\ ~ PopTaken
      BY <2>1, OneInside DEF PushLen, PushHalfDone, PopHalfDone, PopTaken, Pushing, Popping
    <3>2. PushHalfDone' /\ ~ PopHalfDone'
      BY <2>1, <3>1 DEF PushLen, PushHalfDone, PopHalfDone
    <3>3. len \in Nat /\ len' = len + 1 /\ low' = low
      BY <2>1 DEF PushLen, Bounds, Locals, Local
    <3> QED
      BY <3>1, <3>2, <3>3 DEF AbsLow, AbsLen
  <2>2. CASE PopLow(t)
    <3>1. ~ PushHalfDone /\ ~ PopHalfDone /\ ~ PopTaken
      BY <2>2, OneInside DEF PopLow, PushHalfDone, PopHalfDone, PopTaken, Pushing, Popping
    <3>2. PopHalfDone' /\ ~ PushHalfDone' /\ ~ PopTaken'
      BY <2>2, <3>1 DEF PopLow, PushHalfDone, PopHalfDone, PopTaken
    <3>3. low \in Int /\ low' = low + 1 /\ len' = len
      BY <2>2 DEF PopLow
    <3> QED
      BY <3>1, <3>2, <3>3 DEF AbsLow, AbsLen
  <2>3. CASE PopLen(t)
    <3>1. PopTaken /\ ~ PushHalfDone /\ ~ PopHalfDone
      BY <2>3, Phases DEF PopLen, PopTaken
    <3>2. ~ PopTaken' /\ ~ PushHalfDone' /\ ~ PopHalfDone'
      BY <2>3, OneInside DEF PopLen, PushHalfDone, PopHalfDone, PopTaken, Pushing, Popping
    <3>3. len \in Nat /\ len' = len - 1 /\ low' = low
      BY <2>3 DEF PopLen, Bounds, Locals, Local
    <3> QED
      BY <3>1, <3>2, <3>3 DEF AbsLow, AbsLen
  <2>4. CASE ~ PushLen(t) /\ ~ PopLow(t) /\ ~ PopLen(t)
    <3>1. UNCHANGED <<low, len, PushHalfDone, PopHalfDone, PopTaken>>
      BY <2>4 DEF AppendStep, TakeStep, BeginAppend, PushLock, PushCheck, BeginTake,
         ReadLen, PopTest, PopLock, Unlock, Return, Lock, PushHalfDone, PopHalfDone, PopTaken
    <3> QED
      BY <3>1 DEF AbsLow, AbsLen
  <2> QED
    BY <2>1, <2>2, <2>3, <2>4
<1> QED
  BY <1>1, <1>2, AbsFields

\* The vector with its mutexes is an atomic queue: an append stores its entry,
\* or refuses it, at one moment, and a take takes the oldest at one moment.
THEOREM Refinement == Spec => Implements
<1>1. ASSUME QueueInv, [Next]_vars
      PROVE  [AQ!Next]_<<AbsQueue, stored, taken>>
  <2>1. CASE UNCHANGED vars
    BY <2>1
       DEF vars, fields, locals, AbsQueue, AbsLow, AbsLen, PushHalfDone, PopHalfDone, PopTaken
  <2>2. ASSUME NEW t \in Threads, AppendStep(t) \/ TakeStep(t) \/ Unlock(t) \/ Return(t)
        PROVE  [AQ!Next]_<<AbsQueue, stored, taken>>
    <3>1. arg[t] \in Entry
      BY <1>1 DEF QueueInv, TypeOK
    <3>2. CASE PushStore(t)
      BY <1>1, <3>1, <3>2, StoreRefines DEF AQ!Next
    <3>3. CASE PopTake(t)
      BY <1>1, <3>3, TakeRefines DEF AQ!Next
    <3>4. CASE ~ PushStore(t) /\ ~ PopTake(t)
      BY <1>1, <2>2, <3>4, QuietRefines
    <3> QED
      BY <3>2, <3>3, <3>4
  <2> QED
    BY <1>1, <2>1, <2>2 DEF Next
<1> QED
  BY <1>1, InitRefines, Invariance, PTL DEF Spec, Implements, AQ!Spec
=============================================================================
