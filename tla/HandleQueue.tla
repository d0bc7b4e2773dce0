---------------------------- MODULE HandleQueue ----------------------------
(***************************************************************************)
(* One nftp_vec (src/vector.c) shared by threads, at the level of the      *)
(* accesses to its fields and to its two mutexes:                          *)
(*                                                                         *)
(*   the client's mtx, which mqtt_loop and dds_client hold around          *)
(*     nftp_vec_len + nftp_vec_pop and around nftp_vec_append, but which   *)
(*     mqtt_recv_loop and client_recv do not take for rmsgq;               *)
(*   the vector's own mtx, taken inside nftp_vec_push and nftp_vec_pop,    *)
(*     but not around the reads of len before it.                          *)
(*                                                                         *)
(* A thread that appends and takes does so in any order here; the loops    *)
(* of the proxy do it in some orders only.                                 *)
(***************************************************************************)
EXTENDS Fifo, Integers

CONSTANTS
    Queues,      \* the queues there are, each with the threads that append to
                 \* it and take from it, and whether the client's mtx guards it
    MaxAppends   \* bound on the number of appends

\* Without the client's mutex there may be one consumer only: the test of
\* len in nftp_vec_pop comes before its lock.
ASSUME HandleQueueAssumption ==
    /\ MaxAppends \in Nat
    /\ \A k \in Queues :
          /\ k.outer \in BOOLEAN
          /\ k.outer \/ \E t \in k.consumers : k.consumers = {t}

Null    == 0                      \* a NULL entry, and what nftp_vec_pop leaves
Entry   == 0 .. MaxAppends
Threads == UNION {k.producers \cup k.consumers : k \in Queues}
Free    == "no thread"

ASSUME FreeAssumption == Free \notin Threads

VARIABLES
    queue,          \* which of Queues this vector is
    low, len, vec,  \* the fields of struct _vec; vec has a word past cap
    mtx,            \* who holds v->mtx
    outer,          \* who holds the client's mtx
    pc,             \* where each thread is in nftp_vec_append or in its take
    arg,            \* arg[t]: entry of nftp_vec_push
    pos, reg,       \* pos[t]: the local pos; reg[t]: the len that t has loaded
    appends,        \* how many appends have begun
    stored, taken   \* history, as in AtomicQueue

fields == <<low, len, vec>>
locks  == <<mtx, outer>>
locals == <<pc, arg, pos, reg>>
vars   == <<queue, fields, locks, locals, appends, stored, taken>>

Goto(t, label) == pc' = [pc EXCEPT ![t] = label]

Init ==
    /\ queue \in Queues
    /\ low = First /\ len = 0
    /\ vec = [i \in 0..Cap |-> Null]
    /\ mtx = Free /\ outer = Free
    /\ pc = [t \in Threads |-> "idle"]
    /\ arg = [t \in Threads |-> Null]
    /\ pos = [t \in Threads |-> 0]
    /\ reg = [t \in Threads |-> 0]
    /\ appends = 0
    /\ stored = <<>> /\ taken = <<>>
-----------------------------------------------------------------------------
(* The client's mutex, where it is used *)

\* A caller is about to append x, which may be NULL.
BeginAppend(t, x) ==
    /\ pc[t] = "idle" /\ t \in queue.producers
    /\ appends < MaxAppends
    /\ appends' = appends + 1
    /\ arg' = [arg EXCEPT ![t] = x]
    /\ Goto(t, "push_lock")
    /\ IF queue.outer THEN outer = Free /\ outer' = t ELSE UNCHANGED outer
    /\ UNCHANGED <<queue, fields, mtx, pos, reg, stored, taken>>

\* Fault: a take without the client's mutex.
BeginTakeBare(t) ==
    /\ pc[t] = "idle" /\ t \in queue.consumers
    /\ Goto(t, "len")
    /\ UNCHANGED <<queue, fields, locks, arg, pos, reg, appends, stored, taken>>

BeginTake(t) ==
    /\ pc[t] = "idle" /\ t \in queue.consumers
    /\ Goto(t, "len")
    /\ IF queue.outer THEN outer = Free /\ outer' = t ELSE UNCHANGED outer
    /\ UNCHANGED <<queue, fields, mtx, arg, pos, reg, appends, stored, taken>>

\* Back in the caller, which unlocks its mutex.
Return(t) ==
    /\ pc[t] = "return"
    /\ Goto(t, "idle")
    /\ outer' = IF queue.outer THEN Free ELSE outer
    /\ UNCHANGED <<queue, fields, mtx, arg, pos, reg, appends, stored, taken>>
-----------------------------------------------------------------------------
(* nftp_vec_append: nftp_vec_push at NFTP_TAIL *)

Lock(t, here, next) ==
    /\ pc[t] = here
    /\ mtx = Free
    /\ mtx' = t
    /\ Goto(t, next)
    /\ UNCHANGED <<queue, fields, outer, arg, pos, reg, appends, stored, taken>>

Unlock(t) ==
    /\ pc[t] = "unlock"
    /\ mtx' = Free
    /\ Goto(t, "return")
    /\ UNCHANGED <<queue, fields, outer, arg, pos, reg, appends, stored, taken>>

PushLock(t) == Lock(t, "push_lock", "push_check")

\* Fault: no overflow test.
PushCheckNothing(t) ==
    /\ pc[t] = "push_check"
    /\ reg' = [reg EXCEPT ![t] = len]
    /\ pos' = [pos EXCEPT ![t] = low + len]
    /\ Goto(t, "push_len")
    /\ UNCHANGED <<queue, fields, locks, arg, appends, stored, taken>>

\* The overflow test and pos; len++ starts from the len loaded here.
PushCheck(t) ==
    /\ pc[t] = "push_check"
    /\ reg' = [reg EXCEPT ![t] = len]
    /\ pos' = [pos EXCEPT ![t] = low + len]
    /\ Goto(t, IF low + len > Cap THEN "unlock" ELSE "push_len")
    /\ UNCHANGED <<queue, fields, locks, arg, appends, stored, taken>>

PushLen(t) ==
    /\ pc[t] = "push_len"
    /\ len' = reg[t] + 1
    /\ Goto(t, "push_store")
    /\ UNCHANGED <<queue, low, vec, locks, arg, pos, reg, appends, stored, taken>>

PushStore(t) ==
    /\ pc[t] = "push_store"
    /\ vec' = [vec EXCEPT ![pos[t]] = arg[t]]
    /\ stored' = Append(stored, arg[t])
    /\ Goto(t, "unlock")
    /\ UNCHANGED <<queue, low, len, locks, arg, pos, reg, appends, taken>>
-----------------------------------------------------------------------------
(* nftp_vec_len, then nftp_vec_pop at NFTP_HEAD *)

\* Fault: off by one.
ReadLenLess(t) ==
    /\ pc[t] = "len"
    /\ Goto(t, IF len <= 1 THEN "return" ELSE "pop_test")
    /\ UNCHANGED <<queue, fields, locks, arg, pos, reg, appends, stored, taken>>

\* The caller's nftp_vec_len takes no lock of the vector's.
ReadLen(t) ==
    /\ pc[t] = "len"
    /\ Goto(t, IF len = 0 THEN "return" ELSE "pop_test")
    /\ UNCHANGED <<queue, fields, locks, arg, pos, reg, appends, stored, taken>>

\* Nor does nftp_vec_pop when it reads len again.
PopTest(t) ==
    /\ pc[t] = "pop_test"
    /\ Goto(t, IF len = 0 THEN "return" ELSE "pop_lock")
    /\ UNCHANGED <<queue, fields, locks, arg, pos, reg, appends, stored, taken>>

\* Fault: nftp_vec_pop without the vector's mutex.
PopLockBare(t) ==
    /\ pc[t] = "pop_lock"
    /\ Goto(t, "pop_low")
    /\ UNCHANGED <<queue, fields, locks, arg, pos, reg, appends, stored, taken>>

PopLock(t) == Lock(t, "pop_lock", "pop_low")

\* pos, low++; len-- starts from the len loaded here.
PopLow(t) ==
    /\ pc[t] = "pop_low"
    /\ pos' = [pos EXCEPT ![t] = low]
    /\ reg' = [reg EXCEPT ![t] = len]
    /\ low' = low + 1
    /\ Goto(t, "pop_take")
    /\ UNCHANGED <<queue, len, vec, locks, arg, appends, stored, taken>>

PopTake(t) ==
    /\ pc[t] = "pop_take"
    /\ taken' = Append(taken, vec[pos[t]])
    /\ vec' = [vec EXCEPT ![pos[t]] = Null]
    /\ Goto(t, "pop_len")
    /\ UNCHANGED <<queue, low, len, locks, arg, pos, reg, appends, stored>>

PopLen(t) ==
    /\ pc[t] = "pop_len"
    /\ len' = reg[t] - 1
    /\ Goto(t, "unlock")
    /\ UNCHANGED <<queue, low, vec, locks, arg, pos, reg, appends, stored, taken>>
-----------------------------------------------------------------------------
AppendStep(t) ==
    \/ \E x \in {Null, appends + 1} : BeginAppend(t, x)
    \/ PushLock(t) \/ PushCheck(t) \/ PushLen(t) \/ PushStore(t)

TakeStep(t) ==
    \/ BeginTake(t) \/ ReadLen(t) \/ PopTest(t)
    \/ PopLock(t) \/ PopLow(t) \/ PopTake(t) \/ PopLen(t)

Next == \E t \in Threads : AppendStep(t) \/ TakeStep(t) \/ Unlock(t) \/ Return(t)

Spec == Init /\ [][Next]_vars
-----------------------------------------------------------------------------
(* Properties *)

Labels == {"idle", "return", "unlock", "push_lock", "push_check", "push_len",
           "push_store", "len", "pop_test", "pop_lock", "pop_low", "pop_take",
           "pop_len"}

TypeOK ==
    /\ queue \in Queues
    /\ low \in First .. Cap + 1
    /\ len \in Int
    /\ vec \in [0..Cap -> Entry]
    /\ mtx \in Threads \cup {Free}
    /\ outer \in Threads \cup {Free}
    /\ pc \in [Threads -> Labels]
    /\ arg \in [Threads -> Entry]
    /\ pos \in [Threads -> 0 .. Cap + 1]
    /\ reg \in [Threads -> Int]
    /\ appends \in 0..MaxAppends
    /\ stored \in Seq(Entry)
    /\ taken \in Seq(Entry)

\* len is a size_t: len-- (vector.c:149) of an empty vector would make it
\* enormous.  Both tests that guard it (nftp_vec_len and vector.c:133) run
\* before v->mtx is locked, so what they saw must last: nobody else may take
\* an entry between the test and the decrement.
NoUnderflow ==
    \A t \in Threads :
        pc[t] \in {"pop_lock", "pop_low", "pop_take", "pop_len"} => len > 0

\* The queue that the fields stand for, a push counting from its store and a
\* pop from the moment it has the entry.
PushHalfDone == \E t \in Threads : pc[t] = "push_store"
PopHalfDone  == \E t \in Threads : pc[t] = "pop_take"
PopTaken     == \E t \in Threads : pc[t] = "pop_len"

AbsLow == IF PopHalfDone THEN low - 1 ELSE low
AbsLen == IF PushHalfDone \/ PopTaken THEN len - 1 ELSE len

AbsQueue == [items |-> [i \in 1..AbsLen |-> vec[AbsLow + i - 1]],
             tail  |-> AbsLow + AbsLen]

\* The vector with its mutexes is an atomic queue.
AQ == INSTANCE AtomicQueue WITH q <- AbsQueue
Implements == AQ!Spec

\* A taker that gives up has seen the queue empty: it holds nothing that was
\* stored before the take began and that nobody has taken.
GivesUpOnlyWhenEmpty ==
    [][\A t \in Threads :
          pc[t] \in {"len", "pop_test"} /\ pc'[t] = "return" => AbsQueue.items = <<>>]_vars
=============================================================================
