---------------------------- MODULE ProxyProofs -----------------------------
(* What holds of the proxy for every capacity of its queues, everything the *)
(* networks may send and any number of failing allocations; and that each   *)
(* direction implements a channel that may lose messages, and does nothing  *)
(* worse: every step maps to a step of LossyChannel.                        *)
EXTENDS Proxy, ProxyChannels, SequenceTheorems, FiniteSetTheorems, TLAPS

-----------------------------------------------------------------------------
(* Queues *)

\* A new vector leaves a quarter of its slots, rounded down, below low.
LEMMA FirstSlot == First \in Nat /\ First <= Cap
  BY CapAssumption DEF First

\* nftp_vec_alloc
LEMMA NewQueueType == ASSUME NEW S PROVE NewQueue \in QueueOf(S)
  BY FirstSlot, CapAssumption DEF NewQueue, QueueOf

\* An append, stored or refused, leaves a queue.
LEMMA PushType ==
    ASSUME NEW S, NEW q \in QueueOf(S), NEW x \in S
    PROVE  Push(q, x) \in QueueOf(S)
  BY FirstSlot, CapAssumption DEF Push, Accepts, QueueOf

\* So does taking the head of a queue that has one, and the head is an entry.
LEMMA PopType ==
    ASSUME NEW S, NEW q \in QueueOf(S), q.items # <<>>
    PROVE  /\ Pop(q) \in QueueOf(S)
           /\ Head(q.items) \in S
           /\ Len(Pop(q).items) = Len(q.items) - 1
           /\ Pop(q).tail = q.tail
  BY SMTT(40), FirstSlot, CapAssumption DEF Pop, QueueOf

-----------------------------------------------------------------------------
(* Types *)

\* The broker's packets can be counted.
LEMMA InboundLength == Len(Inbound) \in Nat
  BY ProxyAssumption

\* Handles and contents are what they should be.
LEMMA HandleTypes ==
    ASSUME NEW n \in Nat
    PROVE  /\ NullHandle \in Handles /\ ToDds(n) \in Handles /\ ToMqtt(n) \in Handles
           /\ Blank \in Contents /\ OfDds(n) \in Contents /\ OfMqtt(n) \in Contents
  BY DEF Handles, NullHandle, ToDds, ToMqtt, Contents, Blank, OfDds, OfMqtt

\* What a step leaves alone keeps its type.
LEMMA Kept ==
    ASSUME TypeOK
    PROVE  /\ UNCHANGED queues => QueuesOK'
           /\ UNCHANGED mem => MemOK'
           /\ UNCHANGED net => NetOK'
           /\ UNCHANGED out => OutOK'
           /\ UNCHANGED <<fate, pc, held, oom>> => RunOK'
  BY DEF TypeOK, RunOK, QueuesOK, MemOK, NetOK, OutOK, queues, mem, net, out

\* A thread that takes or drops a handle and goes to a step of its own.
LEMMA KeptRun ==
    ASSUME TypeOK, NEW t \in Threads, NEW l \in Labels, NEW h \in Handles,
           Goto(t, l), Hold(t, h) \/ UNCHANGED held,
           UNCHANGED fate, oom' \in 0..MaxOom
    PROVE  RunOK'
  BY DEF TypeOK, RunOK, Goto, Hold

\* A thread that calls mk_handle.
LEMMA MkHandleRun ==
    ASSUME TypeOK, NEW t \in Threads, NEW l \in Labels, NEW h \in Handles,
           Goto(t, l), MkHandle(t, h), UNCHANGED fate
    PROVE  RunOK'
<1>1. oom' \in 0..MaxOom
  BY ProxyAssumption DEF TypeOK, RunOK, MkHandle
<1> QED
  BY <1>1, HandleTypes, KeptRun DEF MkHandle, Hold

\* The process starts in a state of the right types.
LEMMA InitTypeOK == Init => TypeOK
<1> SUFFICES ASSUME Init PROVE TypeOK
  OBVIOUS
<1> USE DEF Init
<1>1. RunOK
  BY HandleTypes, ProxyAssumption DEF RunOK, Threads, Labels, Startup
<1>2. QueuesOK
  BY NewQueueType DEF QueuesOK
<1>3. MemOK
  BY HandleTypes DEF MemOK
<1>4. NetOK
  <2>1. arrived \in 0..Len(Inbound) /\ recvd \in 0..arrived
    BY InboundLength
  <2>2. offered \in 0..NSamples /\ reader \in 0..offered
    BY ProxyAssumption
  <2> QED
    BY <2>1, <2>2 DEF NetOK
<1>5. OutOK
  BY DEF OutOK
<1> QED
  BY <1>1, <1>2, <1>3, <1>4, <1>5 DEF TypeOK

\* The process ends.
LEMMA EndTypeOK == ASSUME TypeOK, NEW how \in {"segv", "exit"}, End(how) PROVE TypeOK'
<1>1. RunOK'
  BY DEF TypeOK, RunOK, End
<1> QED
  BY <1>1, Kept DEF TypeOK, End

\* A step of mqtt_recv_loop
LEMMA RecvTypeOK == TypeOK /\ RecvLoop => TypeOK'
<1> SUFFICES ASSUME TypeOK, RecvLoop PROVE TypeOK'
  OBVIOUS
<1> USE DEF TypeOK
<1>0. "recv" \in Threads /\ {"append", "recv"} \subseteq Labels
  BY DEF Threads, Labels
<1>1. CASE RecvPacket
  <2> DEFINE n == IF Inbound[recvd + 1] = "other" THEN 0 ELSE recvd + 1
  <2>1. NetOK'
    BY <1>1, ProxyAssumption DEF RecvPacket, NetOK
  <2>2. ToDds(n) \in Handles
    BY HandleTypes, ProxyAssumption DEF NetOK
  <2>3. RunOK'
    BY <1>1, <1>0, <2>2, KeptRun DEF RecvPacket, RunOK
  <2> QED
    BY <1>1, <2>1, <2>3, Kept DEF RecvPacket
<1>2. CASE RecvNothing
  <2>1. RunOK'
    BY <1>2, <1>0, HandleTypes, KeptRun DEF RecvNothing, RunOK
  <2> QED
    BY <1>2, <2>1, Kept DEF RecvNothing
<1>3. CASE RecvAppend
  <2>1. held["recv"].n \in Nat
    BY <1>0 DEF RunOK, Handles
  <2>2. QueuesOK'
    BY <1>3, <2>1, PushType DEF RecvAppend, QueuesOK
  <2>3. RunOK'
    BY <1>3, <1>0, HandleTypes, KeptRun DEF RecvAppend, Again, RunOK
  <2> QED
    BY <1>3, <2>2, <2>3, Kept DEF RecvAppend
<1> QED
  BY <1>1, <1>2, <1>3 DEF RecvLoop

\* A step of mqtt_loop
LEMMA MqttTypeOK == TypeOK /\ MqttLoop => TypeOK'
<1> SUFFICES ASSUME TypeOK, MqttLoop PROVE TypeOK'
  OBVIOUS
<1> USE DEF TypeOK
<1>0. /\ "mqtt" \in Threads
      /\ {"recv", "append", "check", "work", "read"} \subseteq Labels
      /\ held["mqtt"] \in Handles /\ held["mqtt"].n \in Nat
  BY DEF Threads, Labels, RunOK, Handles
<1>1. CASE MqttCheck
  <2>1. QueuesOK'
    BY <1>1, PopType DEF MqttCheck, QueuesOK
  <2>2. RunOK'
    BY <1>0, <1>1, PopType, KeptRun DEF MqttCheck, TakeHandle, RunOK, QueuesOK
  <2> QED
    BY <1>1, <2>1, <2>2, Kept DEF MqttCheck
<1>2. CASE MqttRecvNull
  BY <1>2, EndTypeOK DEF MqttRecvNull
<1>3. CASE MqttRecvNothing
  <2>1. RunOK'
    BY <1>0, <1>3, HandleTypes, KeptRun DEF MqttRecvNothing, Again, RunOK
  <2> QED
    BY <1>3, <2>1, Kept DEF MqttRecvNothing
<1>4. CASE MqttRecvMsg
  <2>1. QueuesOK'
    BY <1>4, PopType DEF MqttRecvMsg, QueuesOK
  <2>2. ToDds(Head(rmsgq.items)) \in Handles
    BY <1>4, PopType, HandleTypes DEF MqttRecvMsg, QueuesOK
  <2>3. RunOK'
    BY <1>0, <1>4, <2>2, MkHandleRun DEF MqttRecvMsg
  <2> QED
    BY <1>4, <2>1, <2>3, Kept DEF MqttRecvMsg
<1>5. CASE MqttAppend
  <2>1. QueuesOK'
    BY <1>0, <1>5, PushType DEF MqttAppend, QueuesOK
  <2>2. RunOK'
    BY <1>0, <1>5, HandleTypes, KeptRun DEF MqttAppend, Again, RunOK
  <2> QED
    BY <1>5, <2>1, <2>2, Kept DEF MqttAppend
<1>6. CASE MqttForward
  <2>1. QueuesOK'
    BY <1>0, <1>6, PushType DEF MqttForward, QueuesOK
  <2>2. RunOK'
    BY <1>0, <1>6, HandleTypes, KeptRun DEF MqttForward, Again, RunOK
  <2> QED
    BY <1>6, <2>1, <2>2, Kept DEF MqttForward
<1>7. CASE MqttReadFirst
  <2>1. MemOK'
    BY <1>7 DEF MqttReadFirst, MemOK
  <2>2. RunOK'
    BY <1>0, <1>7, KeptRun DEF MqttReadFirst, RunOK
  <2> QED
    BY <1>7, <2>1, <2>2, Kept DEF MqttReadFirst
<1>8. CASE MqttPublish
  <2>1. MemOK'
    BY <1>8, HandleTypes DEF MqttPublish, MemOK
  <2>2. OutOK'
    <3>1. <<half, buf[2]>> \in [1..2 -> Contents]
      BY DEF MemOK
    <3> DEFINE sent == [sample |-> held["mqtt"].n, payload |-> <<half, buf[2]>>]
    <3>2. sent \in [sample : Nat, payload : [1..2 -> Contents]]
      BY <1>0, <3>1
    <3> HIDE DEF sent
    <3>3. mqttOut' \in {mqttOut, Append(mqttOut, sent)} /\ UNCHANGED ddsOut
      BY <1>8 DEF MqttPublish, sent
    <3> DEFINE S == [sample : Nat, payload : [1..2 -> Contents]]
    <3>4. mqttOut \in Seq(S) /\ sent \in S
      BY <3>2 DEF OutOK
    <3> HIDE DEF S
    <3>5. mqttOut' \in Seq(S)
      BY <3>3, <3>4
    <3> QED
      BY <3>3, <3>5 DEF OutOK, S
  <2>3. RunOK'
    BY <1>0, <1>8, HandleTypes, KeptRun DEF MqttPublish, Again, RunOK
  <2> QED
    BY <1>8, <2>1, <2>2, <2>3, Kept DEF MqttPublish
<1> QED
  BY <1>1, <1>2, <1>3, <1>4, <1>5, <1>6, <1>7, <1>8 DEF MqttLoop

\* A step of the main thread
LEMMA DdsTypeOK == TypeOK /\ DdsClient => TypeOK'
<1> SUFFICES ASSUME TypeOK, DdsClient PROVE TypeOK'
  OBVIOUS
<1> USE DEF TypeOK
<1>0. /\ Threads = {"recv", "mqtt", "dds"}
      /\ {"alloc_rmsgq", "start_recv", "subscribe", "setup", "recv", "append", "check",
          "work", "take", "take_last", "convert_last", "write"} \subseteq Labels
      /\ held["dds"] \in Handles /\ held["dds"].n \in Nat
  BY DEF Threads, Labels, Startup, RunOK, Handles
<1>1. CASE StartMqtt
  <2>1. RunOK'
    BY <1>0, <1>1 DEF StartMqtt, RunOK
  <2> QED
    BY <1>1, <2>1, Kept DEF StartMqtt
<1>2. CASE AllocRmsgq
  <2>1. QueuesOK'
    BY <1>2 DEF AllocRmsgq, QueuesOK
  <2>2. oom' \in 0..MaxOom
    BY <1>2, ProxyAssumption DEF AllocRmsgq, RunOK
  <2>3. RunOK'
    BY <1>0, <1>2, <2>2, KeptRun DEF AllocRmsgq
  <2> QED
    BY <1>2, <2>1, <2>3, Kept DEF AllocRmsgq
<1>3. CASE StartRecv
  <2>1. RunOK'
    BY <1>0, <1>3 DEF StartRecv, RunOK
  <2> QED
    BY <1>3, <2>1, Kept DEF StartRecv
<1>4. CASE Subscribe
  <2>1. NetOK'
    BY <1>4 DEF Subscribe, NetOK
  <2>2. RunOK'
    BY <1>0, <1>4, KeptRun DEF Subscribe, RunOK
  <2> QED
    BY <1>4, <2>1, <2>2, Kept DEF Subscribe
<1>5. CASE DdsSetup
  <2>1. ASSUME Goto("dds", "check"), UNCHANGED <<fate, held, queues, mem, net, oom, out>>
        PROVE  TypeOK'
    <3>1. RunOK'
      BY <1>0, <2>1, KeptRun DEF RunOK
    <3> QED
      BY <2>1, <3>1, Kept
  <2> QED
    BY <1>5, <2>1, EndTypeOK DEF DdsSetup
<1>6. CASE DdsCheck
  <2>1. QueuesOK'
    BY <1>6, PopType DEF DdsCheck, QueuesOK
  <2>2. RunOK'
    BY <1>0, <1>6, PopType, KeptRun DEF DdsCheck, TakeHandle, RunOK, QueuesOK
  <2> QED
    BY <1>6, <2>1, <2>2, Kept DEF DdsCheck
<1>7. CASE DdsTakeNothing
  <2>1. RunOK'
    BY <1>0, <1>7, HandleTypes, KeptRun DEF DdsTakeNothing, Again, RunOK
  <2> QED
    BY <1>7, <2>1, Kept DEF DdsTakeNothing
<1>8. CASE DdsTakeFails
  BY <1>8, EndTypeOK DEF DdsTakeFails
<1>9. CASE DdsTakeFirst
  <2>1. OfDds(reader) \in Contents /\ Blank \in Contents
    BY HandleTypes, ProxyAssumption DEF NetOK
  <2>2. MemOK'
    BY <1>9, <2>1 DEF DdsTakeFirst, MemOK
  <2>3. NetOK'
    BY <1>9, ProxyAssumption DEF DdsTakeFirst, NetOK
  <2>4. RunOK'
    BY <1>0, <1>9, KeptRun DEF DdsTakeFirst, RunOK
  <2> QED
    BY <1>9, <2>2, <2>3, <2>4, Kept DEF DdsTakeFirst
<1>10. CASE DdsTakeLast
  <2>1. MemOK'
    BY <1>10 DEF DdsTakeLast, MemOK
  <2>2. ToMqtt(buf[1].n) \in Handles
    BY HandleTypes DEF MemOK, Contents
  <2>3. RunOK'
    BY <1>0, <1>10, <2>2, MkHandleRun DEF DdsTakeLast
  <2> QED
    BY <1>10, <2>1, <2>3, Kept DEF DdsTakeLast
<1>11. CASE DdsTakeInvalid
  <2>1. MemOK'
    BY <1>11, HandleTypes DEF DdsTakeInvalid, MemOK
  <2>2. RunOK'
    BY <1>0, <1>11, HandleTypes, KeptRun DEF DdsTakeInvalid, Again, RunOK
  <2> QED
    BY <1>11, <2>1, <2>2, Kept DEF DdsTakeInvalid
<1>12. CASE DdsAppend
  <2>1. QueuesOK'
    BY <1>0, <1>12, PushType DEF DdsAppend, QueuesOK
  <2>2. RunOK'
    BY <1>0, <1>12, HandleTypes, KeptRun DEF DdsAppend, Again, RunOK
  <2> QED
    BY <1>12, <2>1, <2>2, Kept DEF DdsAppend
<1>13. CASE DdsForward
  <2>1. QueuesOK'
    BY <1>0, <1>13, PushType DEF DdsForward, QueuesOK
  <2>2. RunOK'
    BY <1>0, <1>13, HandleTypes, KeptRun DEF DdsForward, Again, RunOK
  <2> QED
    BY <1>13, <2>1, <2>2, Kept DEF DdsForward
<1>14. CASE DdsConvertNull
  BY <1>14, EndTypeOK DEF DdsConvertNull
<1>15. CASE DdsConvertFirst
  <2>1. MemOK'
    BY <1>0, <1>15, HandleTypes DEF DdsConvertFirst, MemOK
  <2>2. RunOK'
    BY <1>0, <1>15, KeptRun DEF DdsConvertFirst, RunOK
  <2> QED
    BY <1>15, <2>1, <2>2, Kept DEF DdsConvertFirst
<1>16. CASE DdsConvertLast
  <2>1. MemOK'
    BY <1>0, <1>16, HandleTypes DEF DdsConvertLast, MemOK
  <2>2. RunOK'
    BY <1>0, <1>16, KeptRun DEF DdsConvertLast, RunOK
  <2> QED
    BY <1>16, <2>1, <2>2, Kept DEF DdsConvertLast
<1>17. CASE DdsWrite
  <2>1. ASSUME ddsOut' = Append(ddsOut, buf), Again("dds", "check"),
               UNCHANGED <<fate, queues, mem, net, oom, mqttOut>>
        PROVE  TypeOK'
    <3>1. OutOK'
      BY <2>1 DEF OutOK, MemOK
    <3>2. RunOK'
      BY <1>0, <2>1, HandleTypes, KeptRun DEF Again, RunOK
    <3> QED
      BY <2>1, <3>1, <3>2, Kept
  <2> QED
    BY <1>17, <2>1, EndTypeOK DEF DdsWrite
<1> QED
  BY <1>1, <1>2, <1>3, <1>4, <1>5, <1>6, <1>7, <1>8, <1>9, <1>10, <1>11, <1>12, <1>13,
     <1>14, <1>15, <1>16, <1>17 DEF DdsClient

\* A step of a network
LEMMA NetTypeOK == TypeOK /\ (MqttArrives \/ SampleArrives) => TypeOK'
<1> SUFFICES ASSUME TypeOK, MqttArrives \/ SampleArrives PROVE TypeOK'
  OBVIOUS
<1>1. NetOK'
  BY InboundLength, ProxyAssumption DEF TypeOK, NetOK, MqttArrives, SampleArrives
<1> QED
  BY <1>1, Kept DEF TypeOK, MqttArrives, SampleArrives

\* Any step
LEMMA NextTypeOK == ASSUME TypeOK, [Next]_vars PROVE TypeOK'
<1>1. CASE UNCHANGED vars
  BY <1>1, Kept DEF TypeOK, vars
<1>2. CASE Ended
  BY <1>1, <1>2 DEF Ended
<1> QED
  BY <1>1, <1>2, RecvTypeOK, MqttTypeOK, DdsTypeOK, NetTypeOK DEF Next

\* The proxy never leaves its types, whatever its constants are: mqtt_loop
\* and dds_client index, pop and append only what is there.
THEOREM TypeCorrect == Spec => []TypeOK
  BY InitTypeOK, NextTypeOK, PTL DEF Spec

-----------------------------------------------------------------------------
(* The proxy forwards a bounded number of messages, both directions         *)
(* together, in the life of its process.  The bound comes from ddsq alone:  *)
(* every handle passes through it, and no slot of it is used twice.         *)

IsToMqtt(h) == h.type = "HANDLE_TO_MQTT"

\* How many handles in s are for MQTT.
ForMqtt(s) == Cardinality({i \in DOMAIN s : IsToMqtt(s[i])})

\* What h adds to it.
Counts(h) == IF IsToMqtt(h) THEN 1 ELSE 0

\* How many handles from ddsq the main thread has in its hands, and how many
\* for MQTT, which came from there too, the mqtt thread has.
DdsBusy  == IF pc["dds"] \in {"work", "convert_last", "write"} THEN 1 ELSE 0
MqttBusy == IF pc["mqtt"] \in {"work", "read"} THEN Counts(held["mqtt"]) ELSE 0

\* What has left ddsq is written, sent, in a thread's hands or on its way in
\* mqttq; what has left ddsq and what is still there had a slot each.
Forwarded == Len(ddsOut) + Len(mqttOut)
InHand    == DdsBusy + MqttBusy
Waiting   == ForMqtt(mqttq.items) + Len(ddsq.items)
Used      == ddsq.tail - First

\* Every slot used covers at most one of them.
SlotsCover == Forwarded + InHand + Waiting <= Used

\* What mqtt_loop appends to its own queue is for DDS or NULL, and what it
\* converts to publish it is for MQTT.
MqttHandles ==
    /\ pc["mqtt"] = "append" => ~ IsToMqtt(held["mqtt"])
    /\ pc["mqtt"] = "read" => IsToMqtt(held["mqtt"])

\* The inductive invariant.
LifetimeInv == TypeOK /\ MqttHandles /\ SlotsCover
-----------------------------------------------------------------------------
(* Counting *)

\* The positions of a sequence that are counted form a finite set.
LEMMA CountType ==
    ASSUME NEW S, NEW s \in Seq(S)
    PROVE  /\ IsFiniteSet({i \in DOMAIN s : IsToMqtt(s[i])})
           /\ ForMqtt(s) \in Nat
<1>1. IsFiniteSet(1..Len(s))
  BY FS_Interval
<1>2. {i \in DOMAIN s : IsToMqtt(s[i])} \in SUBSET (1..Len(s))
  OBVIOUS
<1>3. IsFiniteSet({i \in DOMAIN s : IsToMqtt(s[i])})
  BY <1>1, <1>2, FS_Subset
<1> QED
  BY <1>3, FS_CardinalityType DEF ForMqtt

\* A new queue has none.
LEMMA CountEmpty == ForMqtt(<<>>) = 0
<1>1. {i \in DOMAIN <<>> : IsToMqtt(<<>>[i])} = {}
  OBVIOUS
<1> QED
  BY <1>1, FS_EmptySet DEF ForMqtt

\* Appending one adds it.
LEMMA CountAppend ==
    ASSUME NEW S, NEW s \in Seq(S), NEW x \in S
    PROVE  ForMqtt(Append(s, x)) = ForMqtt(s) + Counts(x)
<1> DEFINE old == {i \in DOMAIN s : IsToMqtt(s[i])}
           new == {i \in DOMAIN Append(s, x) : IsToMqtt(Append(s, x)[i])}
<1>1. IsFiniteSet(old) /\ Len(s) + 1 \notin old /\ Cardinality(old) \in Nat
  BY CountType, FS_CardinalityType
<1>2. ForMqtt(Append(s, x)) = Cardinality(new) /\ ForMqtt(s) = Cardinality(old)
  BY Zenon DEF ForMqtt
<1>3. CASE IsToMqtt(x)
  <2>1. new = old \cup {Len(s) + 1}
    BY <1>3
  <2>2. Cardinality(new) = Cardinality(old) + 1
    BY <1>1, <2>1, FS_AddElement
  <2> HIDE DEF old, new
  <2> QED
    BY <1>2, <1>3, <2>2 DEF Counts
<1>4. CASE ~ IsToMqtt(x)
  <2>1. new = old
    BY <1>4
  <2> HIDE DEF old, new
  <2> QED
    BY <1>1, <1>2, <1>4, <2>1 DEF Counts
<1> QED
  BY <1>3, <1>4

\* Taking the head takes one away if the head is one.
LEMMA CountTail ==
    ASSUME NEW S, NEW s \in Seq(S), s # <<>>
    PROVE  ForMqtt(Tail(s)) = ForMqtt(s) - Counts(Head(s))
<1> DEFINE t   == Tail(s)
           old == {i \in DOMAIN s : IsToMqtt(s[i])}
           new == {i \in DOMAIN t : IsToMqtt(t[i])}
           up  == [i \in new |-> i + 1]
<1>1. IsFiniteSet(old) /\ Cardinality(old) \in Nat /\ IsFiniteSet(new)
  <2>1. t \in Seq(S)
    OBVIOUS
  <2> HIDE DEF t
  <2> QED
    BY <2>1, CountType, FS_CardinalityType
<1>2. /\ t \in Seq(S) /\ Len(s) \in Nat \ {0} /\ Len(t) = Len(s) - 1
      /\ DOMAIN s = 1..Len(s) /\ DOMAIN t = 1 .. Len(s) - 1
      /\ \A i \in 1 .. Len(s) - 1 : t[i] = s[i + 1]
      /\ Head(s) = s[1]
  OBVIOUS
<1> HIDE DEF t
<1>3. \A i \in new : up[i] \in old \ {1}
  BY <1>2
<1>4. \A j \in old \ {1} : j - 1 \in new /\ up[j - 1] = j
  BY <1>2
<1>5. \A i, j \in new : up[i] = up[j] => i = j
  BY <1>2
<1> HIDE DEF old, new
<1>6. up \in Bijection(new, old \ {1})
  BY <1>3, <1>4, <1>5 DEF Bijection, Injection, Surjection, IsInjective
<1> HIDE DEF up
<1>7. Cardinality(old \ {1}) = Cardinality(new)
  BY <1>1, <1>6, FS_Bijection DEF ExistsBijection
<1>8. 1 \in old <=> IsToMqtt(Head(s))
  BY <1>2 DEF old
<1>9. Cardinality(new) = Cardinality(old) - Counts(Head(s))
  <2>1. Cardinality(old \ {1}) = IF 1 \in old THEN Cardinality(old) - 1 ELSE Cardinality(old)
    BY <1>1, FS_RemoveElement
  <2> QED
    BY <1>1, <1>7, <1>8, <2>1 DEF Counts
<1> QED
  BY <1>9 DEF ForMqtt, old, new, t

\* A push adds at most the handle to the count, and takes a slot for an entry.
LEMMA PushCount ==
    ASSUME NEW q \in QueueOf(Handles), NEW h \in Handles
    PROVE  /\ \E k \in {0, Counts(h)} : ForMqtt(Push(q, h).items) = ForMqtt(q.items) + k
           /\ \E k \in 0..1 : /\ Len(Push(q, h).items) = Len(q.items) + k
                               /\ Push(q, h).tail = q.tail + k
<1>1. q.items \in Seq(Handles) /\ q.tail \in Nat
  BY FirstSlot, CapAssumption DEF QueueOf
<1>2. ForMqtt(q.items) \in Nat /\ Counts(h) \in {0, 1}
  BY <1>1, CountType DEF Counts
<1>3. CASE Accepts(q)
  <2>1. Push(q, h).items = Append(q.items, h) /\ Push(q, h).tail = q.tail + 1
    BY <1>3 DEF Push
  <2>2. ForMqtt(Append(q.items, h)) = ForMqtt(q.items) + Counts(h)
    BY <1>1, CountAppend
  <2>3. Len(Append(q.items, h)) = Len(q.items) + 1
    BY <1>1
  <2>4. ForMqtt(Push(q, h).items) = ForMqtt(q.items) + Counts(h)
    BY <2>1, <2>2
  <2> QED
    BY <2>1, <2>3, <2>4
<1>4. CASE ~ Accepts(q)
  BY <1>1, <1>2, <1>4 DEF Push
<1> QED
  BY <1>3, <1>4

\* A pop takes its head away and keeps the slot.
LEMMA PopCount ==
    ASSUME NEW q \in QueueOf(Handles), q.items # <<>>
    PROVE  /\ ForMqtt(Pop(q).items) = ForMqtt(q.items) - Counts(Head(q.items))
           /\ Len(Pop(q).items) = Len(q.items) - 1
           /\ Pop(q).tail = q.tail
<1>1. q.items \in Seq(Handles) /\ Pop(q).items = Tail(q.items)
  BY DEF QueueOf, Pop
<1> QED
  BY <1>1, CountTail, PopType

\* The numbers that SlotsCover compares are numbers.
CoverNumbers ==
    /\ Forwarded \in Nat /\ InHand \in Nat /\ Waiting \in Nat
    /\ Used \in Int /\ Used <= Lifetime

\* All these counts are naturals.
LEMMA CoverTypes == ASSUME TypeOK PROVE CoverNumbers
<1>1. Len(ddsOut) \in Nat /\ Len(mqttOut) \in Nat
  BY DEF TypeOK, OutOK
<1>2. ddsq.items \in Seq(Handles) /\ mqttq.items \in Seq(Handles) /\ ddsq.tail \in First .. Cap + 1
  BY DEF TypeOK, QueuesOK, QueueOf
<1>3. ForMqtt(mqttq.items) \in Nat
  BY <1>2, CountType
<1>4. DdsBusy \in Nat /\ MqttBusy \in Nat /\ Len(ddsq.items) \in Nat
  BY <1>2 DEF DdsBusy, MqttBusy, Counts
<1> QED
  BY <1>1, <1>2, <1>3, <1>4, FirstSlot, CapAssumption
  DEF CoverNumbers, Forwarded, InHand, Waiting, Used, Lifetime

\* The terms are typed one by one for the steps that change them.
LEMMA TermTypes ==
    ASSUME TypeOK
    PROVE  /\ Len(ddsOut) \in Nat /\ Len(mqttOut) \in Nat
           /\ DdsBusy \in {0, 1} /\ MqttBusy \in {0, 1}
           /\ ForMqtt(mqttq.items) \in Nat /\ Len(ddsq.items) \in Nat
           /\ ddsq.tail \in Int /\ First \in Int
<1>1. ddsq.items \in Seq(Handles) /\ mqttq.items \in Seq(Handles) /\ ddsq.tail \in First .. Cap + 1
  BY DEF TypeOK, QueuesOK, QueueOf
<1>2. ForMqtt(mqttq.items) \in Nat
  BY <1>1, CountType
<1> QED
  BY <1>1, <1>2, FirstSlot, CapAssumption DEF TypeOK, OutOK, DdsBusy, MqttBusy, Counts

-----------------------------------------------------------------------------
(* The steps *)

\* A step that touches neither queue, nor what has been written and sent, nor
\* the handles that the two threads work on.
LEMMA CoverKept ==
    ASSUME TypeOK, SlotsCover, UNCHANGED <<ddsq, mqttq, out>>,
           DdsBusy' \in {0, DdsBusy}, MqttBusy' \in {0, MqttBusy}
    PROVE  SlotsCover'
<1>1. CoverNumbers
  BY CoverTypes
<1>2. Forwarded' = Forwarded /\ Waiting' = Waiting /\ Used' = Used
  BY DEF out, Forwarded, Waiting, Used
<1>3. PICK i \in 0..1 : DdsBusy' = DdsBusy - i
  BY TermTypes
<1>4. PICK j \in 0..1 : MqttBusy' = MqttBusy - j
  BY TermTypes
<1>5. InHand' = InHand - (i + j)
  BY SMTT(40), <1>3, <1>4, TermTypes DEF InHand
<1> QED
  BY <1>1, <1>2, <1>5 DEF CoverNumbers, SlotsCover

\* A step of mqtt_recv_loop, which has a queue of its own
LEMMA RecvCover == LifetimeInv /\ RecvLoop => SlotsCover' /\ MqttHandles'
<1> SUFFICES ASSUME LifetimeInv, RecvLoop PROVE SlotsCover' /\ MqttHandles'
  OBVIOUS
<1>1. /\ pc'["mqtt"] = pc["mqtt"] /\ pc'["dds"] = pc["dds"] /\ held'["mqtt"] = held["mqtt"]
      /\ UNCHANGED <<ddsq, mqttq, out>>
  BY DEF LifetimeInv, TypeOK, RunOK, Threads, RecvLoop, RecvPacket, RecvNothing, RecvAppend,
         At, Goto, Hold, Again, queues
<1> QED
  BY <1>1, CoverKept DEF LifetimeInv, DdsBusy, MqttBusy, MqttHandles

\* A step of mqtt_loop
LEMMA MqttCover == LifetimeInv /\ MqttLoop => SlotsCover' /\ MqttHandles'
<1> SUFFICES ASSUME LifetimeInv, MqttLoop PROVE SlotsCover' /\ MqttHandles'
  OBVIOUS
<1> USE DEF LifetimeInv
<1>0. /\ Threads = {"recv", "mqtt", "dds"}
      /\ pc \in [Threads -> Labels] /\ held \in [Threads -> Handles]
      /\ ddsq \in QueueOf(Handles) /\ mqttq \in QueueOf(Handles)
  BY DEF TypeOK, RunOK, QueuesOK, Threads
<1>n. CoverNumbers /\ SlotsCover
  BY CoverTypes
<1>1. CASE MqttCheck
  <2>1. CASE mqttq.items = <<>>
    BY <1>0, <1>1, <2>1, CoverKept
    DEF MqttCheck, TakeHandle, At, Goto, DdsBusy, MqttBusy, MqttHandles, out
  <2>2. CASE mqttq.items # <<>>
    <3> DEFINE c == Counts(Head(mqttq.items))
    <3>1. /\ mqttq' = Pop(mqttq) /\ UNCHANGED <<ddsq, out>>
          /\ held'["mqtt"] = Head(mqttq.items)
          /\ pc["mqtt"] = "check" /\ pc'["mqtt"] \in {"recv", "work"}
          /\ pc'["dds"] = pc["dds"]
      BY <1>0, <1>1, <2>2 DEF MqttCheck, TakeHandle, At, Goto, Hold
    <3>2. Forwarded' = Forwarded /\ Used' = Used /\ MqttHandles'
      BY <3>1 DEF out, Forwarded, Used, MqttHandles
    <3>3. c \in 0..1
      BY DEF Counts
    <3>4. Waiting' = Waiting - c
      <4>1. ForMqtt(mqttq'.items) = ForMqtt(mqttq.items) - c
        BY <1>0, <2>2, <3>1, PopCount
      <4>2. Len(ddsq'.items) = Len(ddsq.items)
        BY <3>1
      <4> QED
        BY <3>3, <4>1, <4>2, TermTypes DEF Waiting
    <3>5. PICK j \in 0..1 : MqttBusy' = MqttBusy + j /\ j <= c
      <4>1. MqttBusy = 0 /\ MqttBusy' \in {0, c}
        BY <3>1 DEF MqttBusy, Counts
      <4> QED
        BY <3>3, <4>1
    <3>6. DdsBusy' = DdsBusy
      BY <3>1 DEF DdsBusy
    <3>7. InHand' = InHand + j
      BY <3>5, <3>6, TermTypes DEF InHand
    <3> HIDE DEF c
    <3>8. SlotsCover'
      BY <1>n, <3>2, <3>3, <3>4, <3>5, <3>7 DEF CoverNumbers, SlotsCover
    <3> QED
      BY <3>2, <3>8
  <2> QED
    BY <2>1, <2>2
<1>2. CASE MqttRecvNull \/ MqttRecvNothing
  BY <1>0, <1>2, CoverKept
  DEF MqttRecvNull, MqttRecvNothing, End, Again, At, Goto, Hold, DdsBusy, MqttBusy,
      MqttHandles, queues, out
<1>3. CASE MqttRecvMsg
  <2>1. ~ IsToMqtt(held'["mqtt"])
    BY <1>0, <1>3 DEF MqttRecvMsg, MkHandle, IsToMqtt, ToDds, NullHandle
  <2> QED
    BY <1>0, <1>3, <2>1, CoverKept
    DEF MqttRecvMsg, At, Goto, DdsBusy, MqttBusy, MqttHandles, out
<1>4. CASE MqttAppend
  <2>1. /\ mqttq' = Push(mqttq, held["mqtt"]) /\ UNCHANGED <<ddsq, out>>
        /\ pc["mqtt"] = "append" /\ pc'["mqtt"] = "check" /\ pc'["dds"] = pc["dds"]
    BY <1>0, <1>4 DEF MqttAppend, Again, At, Goto
  <2>2. /\ Forwarded' = Forwarded /\ Used' = Used /\ MqttHandles'
        /\ Len(ddsq'.items) = Len(ddsq.items)
    BY <2>1 DEF out, Forwarded, Used, MqttHandles
  <2>3. InHand' = InHand
    BY <2>1 DEF MqttBusy, DdsBusy, InHand
  <2>4. ForMqtt(mqttq'.items) = ForMqtt(mqttq.items)
    <3>1. Counts(held["mqtt"]) = 0
      BY <2>1 DEF MqttHandles, Counts
    <3> QED
      BY <1>0, <2>1, <3>1, PushCount, TermTypes
  <2>5. Waiting' = Waiting
    BY <2>2, <2>4 DEF Waiting
  <2> QED
    BY <1>n, <2>2, <2>3, <2>5 DEF SlotsCover
<1>5. CASE MqttForward
  <2>1. /\ ddsq' = Push(ddsq, held["mqtt"]) /\ UNCHANGED <<mqttq, out>>
        /\ pc'["mqtt"] = "check" /\ pc'["dds"] = pc["dds"] /\ ~ IsToMqtt(held["mqtt"])
    BY <1>0, <1>5 DEF MqttForward, Again, At, Goto, IsToMqtt
  <2>2. Forwarded' = Forwarded /\ InHand' = InHand /\ MqttHandles'
    BY <2>1 DEF out, Forwarded, InHand, DdsBusy, MqttBusy, Counts, MqttHandles
  <2>3. PICK k \in 0..1 : Len(ddsq'.items) = Len(ddsq.items) + k /\ ddsq'.tail = ddsq.tail + k
    BY <1>0, <2>1, PushCount
  <2>4. ForMqtt(mqttq'.items) = ForMqtt(mqttq.items)
    BY <2>1
  <2>5. Waiting' = Waiting + k /\ Used' = Used + k
    BY SMTT(40), <2>3, <2>4, TermTypes DEF Waiting, Used
  <2> QED
    BY <1>n, <2>2, <2>5 DEF CoverNumbers, SlotsCover
<1>6. CASE MqttReadFirst
  BY <1>0, <1>6, CoverKept
  DEF MqttReadFirst, At, Goto, DdsBusy, MqttBusy, MqttHandles, IsToMqtt, queues, out
<1>7. CASE MqttPublish
  <2>1. /\ UNCHANGED <<ddsq, mqttq, ddsOut>>
        /\ pc'["mqtt"] = "check" /\ pc["mqtt"] = "read" /\ pc'["dds"] = pc["dds"]
    BY <1>0, <1>7 DEF MqttPublish, Again, At, Goto, queues
  <2>2. Waiting' = Waiting /\ Used' = Used /\ MqttHandles'
    BY <2>1 DEF Waiting, Used, MqttHandles
  <2>3. PICK k \in 0..1 : Len(mqttOut') = Len(mqttOut) + k
    BY <1>7, TermTypes DEF MqttPublish, TypeOK, OutOK
  <2>4. Len(ddsOut') = Len(ddsOut)
    BY <2>1
  <2>5. Forwarded' = Forwarded + k
    BY <2>3, <2>4, TermTypes DEF Forwarded
  <2>6. DdsBusy' = DdsBusy /\ MqttBusy' = 0 /\ MqttBusy = 1
    BY <2>1 DEF DdsBusy, MqttBusy, Counts, MqttHandles
  <2>7. InHand' = InHand - 1
    BY <2>6, TermTypes DEF InHand
  <2> QED
    BY <1>n, <2>2, <2>5, <2>7 DEF CoverNumbers, SlotsCover
<1> QED
  BY <1>1, <1>2, <1>3, <1>4, <1>5, <1>6, <1>7 DEF MqttLoop

\* A step of the main thread
LEMMA DdsCover == LifetimeInv /\ DdsClient => SlotsCover' /\ MqttHandles'
<1> SUFFICES ASSUME LifetimeInv, DdsClient PROVE SlotsCover' /\ MqttHandles'
  OBVIOUS
<1> USE DEF LifetimeInv
<1>0. /\ Threads = {"recv", "mqtt", "dds"}
      /\ pc \in [Threads -> Labels] /\ held \in [Threads -> Handles]
      /\ ddsq \in QueueOf(Handles) /\ mqttq \in QueueOf(Handles)
  BY DEF TypeOK, RunOK, QueuesOK, Threads
<1>n. CoverNumbers /\ SlotsCover
  BY CoverTypes
<1>1. CASE StartMqtt
  <2>1. /\ pc'["mqtt"] = "check" /\ pc'["dds"] = "alloc_rmsgq"
        /\ UNCHANGED <<ddsq, mqttq, out>>
    BY <1>0, <1>1 DEF StartMqtt, queues
  <2> QED
    BY <2>1, CoverKept DEF DdsBusy, MqttBusy, MqttHandles
<1>2. CASE \/ AllocRmsgq \/ StartRecv \/ Subscribe \/ DdsSetup \/ DdsTakeNothing
           \/ DdsTakeFails \/ DdsTakeFirst \/ DdsTakeLast \/ DdsTakeInvalid
           \/ DdsConvertNull
  <2>1. /\ pc'["mqtt"] = pc["mqtt"] /\ held'["mqtt"] = held["mqtt"]
        /\ pc'["dds"] \in {pc["dds"], "start_recv", "subscribe", "setup", "check",
                           "take_last", "append"}
        /\ UNCHANGED <<ddsq, mqttq, out>>
    BY <1>0, <1>2
    DEF AllocRmsgq, StartRecv, Subscribe, DdsSetup, DdsTakeNothing, DdsTakeFails, DdsTakeFirst,
        DdsTakeLast, DdsTakeInvalid, DdsConvertNull, MkHandle, End, Again, At, Goto, Hold, queues
  <2> QED
    BY <2>1, CoverKept DEF DdsBusy, MqttBusy, MqttHandles
<1>3. CASE DdsCheck
  <2>1. /\ pc'["mqtt"] = pc["mqtt"] /\ held'["mqtt"] = held["mqtt"] /\ pc["dds"] = "check"
        /\ UNCHANGED <<mqttq, out>>
    BY <1>0, <1>3 DEF DdsCheck, TakeHandle, At, Goto, Hold
  <2>2. DdsBusy = 0 /\ DdsBusy' \in {0, 1} /\ MqttBusy' = MqttBusy
    BY <2>1 DEF DdsBusy, MqttBusy
  <2>3. Forwarded' = Forwarded /\ MqttHandles'
    BY <2>1 DEF out, Forwarded, MqttHandles
  <2>4. CASE ddsq.items = <<>>
    <3>1. pc'["dds"] = "take" /\ ddsq' = ddsq
      BY <1>0, <1>3, <2>4 DEF DdsCheck, TakeHandle, Goto
    <3> QED
      BY <2>1, <2>2, <2>3, <3>1, CoverKept DEF DdsBusy
  <2>5. CASE ddsq.items # <<>>
    <3>1. Len(ddsq'.items) = Len(ddsq.items) - 1 /\ ddsq'.tail = ddsq.tail
      BY <1>0, <1>3, <2>5, PopCount DEF DdsCheck
    <3>2. ForMqtt(mqttq'.items) = ForMqtt(mqttq.items)
      BY <2>1
    <3>3. Waiting' = Waiting - 1 /\ Used' = Used
      BY <3>1, <3>2, TermTypes DEF Waiting, Used
    <3>4. PICK k \in 0..1 : DdsBusy' = DdsBusy + k
      BY <2>2
    <3>5. InHand' = InHand + k
      BY <2>2, <3>4, TermTypes DEF InHand
    <3> QED
      BY <1>n, <2>3, <3>3, <3>5 DEF CoverNumbers, SlotsCover
  <2> QED
    BY <2>4, <2>5
<1>4. CASE DdsAppend
  <2>1. /\ pc'["mqtt"] = pc["mqtt"] /\ held'["mqtt"] = held["mqtt"]
        /\ pc["dds"] = "append" /\ pc'["dds"] = "check"
        /\ ddsq' = Push(ddsq, held["dds"]) /\ UNCHANGED <<mqttq, out>>
    BY <1>0, <1>4 DEF DdsAppend, Again, At, Goto, Hold
  <2>2. Forwarded' = Forwarded /\ InHand' = InHand /\ MqttHandles'
    BY <2>1 DEF out, Forwarded, InHand, DdsBusy, MqttBusy, MqttHandles
  <2>3. PICK k \in 0..1 : Len(ddsq'.items) = Len(ddsq.items) + k /\ ddsq'.tail = ddsq.tail + k
    BY <1>0, <2>1, PushCount
  <2>4. ForMqtt(mqttq'.items) = ForMqtt(mqttq.items)
    BY <2>1
  <2>5. Waiting' = Waiting + k /\ Used' = Used + k
    BY <2>3, <2>4, TermTypes DEF Waiting, Used
  <2> QED
    BY <1>n, <2>2, <2>5 DEF CoverNumbers, SlotsCover
<1>5. CASE DdsForward
  <2>1. /\ pc'["mqtt"] = pc["mqtt"] /\ held'["mqtt"] = held["mqtt"]
        /\ pc["dds"] = "work" /\ pc'["dds"] = "check"
        /\ mqttq' = Push(mqttq, held["dds"]) /\ UNCHANGED <<ddsq, out>>
    BY <1>0, <1>5 DEF DdsForward, Again, At, Goto, Hold
  <2>2. Forwarded' = Forwarded /\ Used' = Used /\ MqttHandles'
    BY <2>1 DEF out, Forwarded, Used, MqttHandles
  <2>3. DdsBusy = 1 /\ DdsBusy' = 0 /\ MqttBusy' = MqttBusy
    BY <2>1 DEF DdsBusy, MqttBusy
  <2>4. InHand' = InHand - 1
    BY <2>3, TermTypes DEF InHand
  <2>5. PICK k \in 0..1 : ForMqtt(mqttq'.items) = ForMqtt(mqttq.items) + k
    BY <1>0, <2>1, PushCount DEF Counts
  <2>6. Len(ddsq'.items) = Len(ddsq.items)
    BY <2>1
  <2>7. Waiting' = Waiting + k
    BY <2>5, <2>6, TermTypes DEF Waiting
  <2> QED
    BY <1>n, <2>2, <2>4, <2>7 DEF CoverNumbers, SlotsCover
<1>6. CASE DdsConvertFirst \/ DdsConvertLast
  <2>1. /\ pc'["mqtt"] = pc["mqtt"] /\ held'["mqtt"] = held["mqtt"]
        /\ pc["dds"] \in {"work", "convert_last"} /\ pc'["dds"] \in {"convert_last", "write"}
        /\ UNCHANGED <<ddsq, mqttq, out>>
    BY <1>0, <1>6 DEF DdsConvertFirst, DdsConvertLast, At, Goto, queues
  <2> QED
    BY <2>1, CoverKept DEF DdsBusy, MqttBusy, MqttHandles
<1>7. CASE DdsWrite
  <2>1. /\ pc'["mqtt"] = pc["mqtt"] /\ held'["mqtt"] = held["mqtt"] /\ pc["dds"] = "write"
        /\ UNCHANGED <<ddsq, mqttq, mqttOut>>
    BY <1>0, <1>7 DEF DdsWrite, End, Again, At, Goto, Hold, queues, out
  <2>2. Waiting' = Waiting /\ Used' = Used /\ MqttHandles'
    BY <2>1 DEF Waiting, Used, MqttHandles
  <2>3. CASE fate' = "exit"
    BY <1>0, <1>7, <2>1, <2>3, CoverKept
    DEF DdsWrite, End, At, MqttHandles, DdsBusy, MqttBusy, queues, out
  <2>4. CASE fate' # "exit"
    <3>1. Len(ddsOut') = Len(ddsOut) + 1 /\ pc'["dds"] = "check"
      BY <1>0, <1>7, <2>4 DEF DdsWrite, End, Again, Goto, TypeOK, OutOK
    <3>2. Len(mqttOut') = Len(mqttOut)
      BY <2>1
    <3>3. Forwarded' = Forwarded + 1
      BY <3>1, <3>2, TermTypes DEF Forwarded
    <3>4. DdsBusy = 1 /\ DdsBusy' = 0 /\ MqttBusy' = MqttBusy
      BY <2>1, <3>1 DEF DdsBusy, MqttBusy
    <3>5. InHand' = InHand - 1
      BY <3>4, TermTypes DEF InHand
    <3> QED
      BY <1>n, <2>2, <3>3, <3>5 DEF CoverNumbers, SlotsCover
  <2> QED
    BY <2>3, <2>4
<1> QED
  BY <1>1, <1>2, <1>3, <1>4, <1>5, <1>6, <1>7 DEF DdsClient

\* Initially nothing has been forwarded and no slot is in use.
LEMMA InitLifetime == Init => LifetimeInv
<1> SUFFICES ASSUME Init PROVE LifetimeInv
  OBVIOUS
<1>1. TypeOK
  BY InitTypeOK
<1>2. MqttHandles /\ DdsBusy = 0 /\ MqttBusy = 0
  BY DEF Init, MqttHandles, DdsBusy, MqttBusy, Threads
<1>3. /\ ForMqtt(mqttq.items) = 0 /\ Len(ddsq.items) = 0 /\ ddsq.tail = First
      /\ Len(ddsOut) = 0 /\ Len(mqttOut) = 0
  BY CountEmpty DEF Init, NewQueue
<1>4. Forwarded = 0 /\ InHand = 0 /\ Waiting = 0 /\ Used = 0
  BY <1>2, <1>3, FirstSlot, CapAssumption DEF Forwarded, InHand, Waiting, Used
<1> QED
  BY <1>1, <1>2, <1>4 DEF LifetimeInv, SlotsCover

-----------------------------------------------------------------------------
\* No vector slot is used twice, so the proxy as a whole forwards at most as
\* many messages as nftp_vec_alloc leaves slots above low: nftp_vec_push has
\* to refuse everything after that, whatever the networks send and however
\* the threads are scheduled.
THEOREM BoundedLifetime == Spec => []ForwardedWithinLifetime
<1>1. LifetimeInv /\ [Next]_vars => LifetimeInv'
  <2> SUFFICES ASSUME LifetimeInv, [Next]_vars PROVE LifetimeInv'
    OBVIOUS
  <2>1. TypeOK'
    BY NextTypeOK DEF LifetimeInv
  <2>2. ASSUME UNCHANGED <<pc, held, ddsq, mqttq, out>> PROVE SlotsCover' /\ MqttHandles'
    BY <2>2, CoverKept DEF LifetimeInv, DdsBusy, MqttBusy, MqttHandles
  <2>3. ASSUME MqttArrives \/ SampleArrives \/ Ended \/ UNCHANGED vars
        PROVE  UNCHANGED <<pc, held, ddsq, mqttq, out>>
    BY <2>3 DEF MqttArrives, SampleArrives, Ended, vars, queues
  <2> QED
    BY <2>1, <2>2, <2>3, RecvCover, MqttCover, DdsCover DEF Next, LifetimeInv
<1>2. LifetimeInv => ForwardedWithinLifetime
  <2> SUFFICES ASSUME LifetimeInv PROVE ForwardedWithinLifetime
    OBVIOUS
  <2>1. CoverNumbers /\ SlotsCover
    BY CoverTypes DEF LifetimeInv
  <2> QED
    <3>1. Forwarded <= Lifetime
      BY <2>1, FirstSlot, CapAssumption DEF CoverNumbers, SlotsCover, Lifetime
    <3> QED
      BY <3>1 DEF Forwarded, ForwardedWithinLifetime
<1> QED
  BY <1>1, <1>2, InitLifetime, PTL DEF Spec

-----------------------------------------------------------------------------
(* Order, ownership and age in the proxy: messages and samples pass through  *)
(* the same stages one after another, none is at two of them, none overtakes *)
(* another, and what is published of a sample is never older than it.        *)

-----------------------------------------------------------------------------
(* The stages *)

\* From dds_write back to nng_recvmsg,
ToDdsAt == <<
    In(DdsNums), Hand("dds", D, {"work", "convert_last", "write"}),
    In(Nums(ddsq.items, D)), Hand("mqtt", D, {"work"}),
    In(Nums(mqttq.items, D)), Hand("mqtt", D, {"append"}),
    In(rmsgq.items), Hand("recv", D, {"append"}) >>

\* and from nng_sendmsg back to the reader's cache.
ToMqttAt == <<
    In(MqttNums), Hand("mqtt", M, {"work", "read"}),
    In(Nums(mqttq.items, M)), Hand("dds", M, {"work"}),
    In(Nums(ddsq.items, M)), Hand("dds", M, {"append"}),
    IF pc["dds"] = "take_last" THEN One(buf[1].n) ELSE {}, One(reader) >>

-----------------------------------------------------------------------------
(* The inductive invariant *)

\* What is at an earlier stage is newer.
Ordered(at) == \A k, l \in 1..8 : k < l => \A a \in at[k], b \in at[l] : a < b

\* In a queue, what stands behind is newer.
Increasing(s) == \A i, j \in DOMAIN s : i < j /\ s[i] # 0 /\ s[j] # 0 => s[i] < s[j]

\* Every number at a stage has been handed out.
Counted(at, max) == \A k \in 1..8 : at[k] \subseteq 1..max

\* A thread holds nothing between its iterations, and its step tells for which
\* network it is at work.
HandsOK ==
    /\ pc["recv"] = "append" => held["recv"].type = D
    /\ pc["recv"] # "append" => held["recv"] = NullHandle
    /\ pc["mqtt"] = "append" => held["mqtt"].type # M
    /\ pc["mqtt"] = "read" => held["mqtt"].type = M
    /\ pc["mqtt"] \notin {"append", "work", "read"} => held["mqtt"] = NullHandle
    /\ pc["dds"] = "append" => held["dds"].type # D
    /\ pc["dds"] \in {"convert_last", "write"} => held["dds"].type = D
    /\ pc["dds"] \notin {"append", "work", "convert_last", "write"} =>
          held["dds"] = NullHandle
    /\ pc["dds"] = "start_mqtt" => pc["mqtt"] = "off"
    /\ pc["dds"] \in {"start_mqtt", "alloc_rmsgq", "start_recv"} => pc["recv"] = "off"

\* Messages for DDS: the stages are in order, and so is what each queue holds.
ToDdsOrder ==
    /\ Ordered(ToDdsAt) /\ Counted(ToDdsAt, recvd)
    /\ Increasing(DdsNums) /\ Increasing(Nums(ddsq.items, D))
    /\ Increasing(Nums(mqttq.items, D)) /\ Increasing(rmsgq.items)

\* Samples for MQTT: the same.
ToMqttOrder ==
    /\ Ordered(ToMqttAt) /\ Counted(ToMqttAt, offered)
    /\ Increasing(MqttNums) /\ Increasing(Nums(mqttq.items, M))
    /\ Increasing(Nums(ddsq.items, M))

\* samples[0] while a message is converted into it, and what has been written.
Converted ==
    /\ pc["dds"] \in {"convert_last", "write"} => buf[1] = OfMqtt(held["dds"].n)
    /\ pc["dds"] = "write" =>
          /\ Convertible(held["dds"].n)
          /\ buf[2] = OfMqtt(held["dds"].n)
    /\ \A i \in DOMAIN ddsOut :
          /\ Convertible(ddsOut[i][1].n)
          /\ ddsOut[i] = Whole(OfMqtt(ddsOut[i][1].n))

\* The inductive invariant of the order both ways.
OrderInv == TypeOK /\ HandsOK /\ ToDdsOrder /\ ToMqttOrder /\ Converted
-----------------------------------------------------------------------------
(* Sequences of numbers *)

\* Every place of a sequence has one of its numbers, or 0.
LEMMA InPlace ==
    ASSUME NEW s \in Seq(Nat)
    PROVE  /\ In(s) \subseteq Nat \ {0}
           /\ \A i \in DOMAIN s : s[i] # 0 => s[i] \in In(s)
           /\ \A n \in In(s) : \E i \in DOMAIN s : s[i] = n
  BY DEF In

\* An empty sequence has no number.
LEMMA InEmpty == In(<<>>) = {} /\ Increasing(<<>>)
  BY DEF In, Increasing

\* What follows the others is newer than they are.
LEMMA InAppend ==
    ASSUME NEW s \in Seq(Nat), NEW x \in Nat
    PROVE  /\ In(Append(s, x)) = In(s) \cup One(x)
           /\ (Increasing(s) /\ \A n \in In(s), y \in One(x) : n < y) => Increasing(Append(s, x))
<1> DEFINE r == Append(s, x)
<1>1. /\ r \in Seq(Nat) /\ Len(s) \in Nat /\ DOMAIN s = 1..Len(s) /\ DOMAIN r = 1 .. Len(s) + 1
      /\ \A i \in 1..Len(s) : r[i] = s[i]
      /\ r[Len(s) + 1] = x
  BY AppendProperties
<1> HIDE DEF r
<1>2. In(r) = In(s) \cup One(x)
  <2>1. ASSUME NEW n \in In(r) PROVE n \in In(s) \cup One(x)
    <3>1. PICK i \in DOMAIN r : r[i] = n /\ n # 0
      BY <2>1 DEF In
    <3>2. CASE i = Len(s) + 1
      BY <1>1, <3>1, <3>2 DEF One
    <3>3. CASE i # Len(s) + 1
      <4>1. i \in DOMAIN s /\ s[i] = n
        BY <1>1, <3>1, <3>3
      <4> QED
        BY <3>1, <4>1 DEF In
    <3> QED
      BY <3>2, <3>3
  <2>2. ASSUME NEW n \in In(s) PROVE n \in In(r)
    <3>1. PICK i \in DOMAIN s : s[i] = n /\ n # 0
      BY <2>2 DEF In
    <3>2. i \in DOMAIN r /\ r[i] = n
      BY <1>1, <3>1
    <3> QED
      BY <3>1, <3>2 DEF In
  <2>3. One(x) \subseteq In(r)
    <3>1. Len(s) + 1 \in DOMAIN r
      BY <1>1
    <3> QED
      BY <1>1, <3>1 DEF In, One
  <2> QED
    BY <2>1, <2>2, <2>3
<1>3. ASSUME Increasing(s), \A n \in In(s), y \in One(x) : n < y
      PROVE  Increasing(r)
  <2> SUFFICES ASSUME NEW i \in DOMAIN r, NEW j \in DOMAIN r, i < j, r[i] # 0, r[j] # 0
               PROVE  r[i] < r[j]
    BY DEF Increasing
  <2>1. i \in DOMAIN s /\ r[i] = s[i]
    BY <1>1
  <2>2. CASE j \in DOMAIN s
    BY <1>1, <1>3, <2>1, <2>2 DEF Increasing
  <2>3. CASE j \notin DOMAIN s
    <3>1. r[j] = x /\ x \in One(x) /\ s[i] \in In(s)
      BY <1>1, <2>1, <2>3, InPlace DEF One
    <3> QED
      BY <1>3, <2>1, <3>1
  <2> QED
    BY <2>2, <2>3
<1> QED
  BY <1>2, <1>3 DEF r

\* The head is older than what follows it.
LEMMA InTail ==
    ASSUME NEW s \in Seq(Nat), s # <<>>
    PROVE  /\ Tail(s) \in Seq(Nat) /\ Head(s) \in Nat
           /\ In(Tail(s)) \subseteq In(s) /\ One(Head(s)) \subseteq In(s)
           /\ Increasing(s) => /\ Increasing(Tail(s))
                               /\ \A x \in One(Head(s)), n \in In(Tail(s)) : x < n
<1> DEFINE r == Tail(s)
<1>1. /\ r \in Seq(Nat) /\ Len(s) \in Nat \ {0} /\ Len(r) = Len(s) - 1
      /\ DOMAIN s = 1..Len(s) /\ DOMAIN r = 1 .. Len(s) - 1
      /\ \A i \in DOMAIN r : i + 1 \in DOMAIN s /\ r[i] = s[i + 1]
      /\ 1 \in DOMAIN s /\ Head(s) = s[1] /\ Head(s) \in Nat
  BY HeadTailProperties
<1> HIDE DEF r
<1>2. In(r) \subseteq In(s) /\ One(Head(s)) \subseteq In(s)
  BY <1>1 DEF In, One
<1>3. ASSUME Increasing(s)
      PROVE  Increasing(r) /\ \A x \in One(Head(s)), n \in In(r) : x < n
  <2>1. Increasing(r)
    <3> SUFFICES ASSUME NEW i \in DOMAIN r, NEW j \in DOMAIN r, i < j, r[i] # 0, r[j] # 0
                 PROVE  r[i] < r[j]
      BY DEF Increasing
    <3>1. i + 1 < j + 1
      BY <1>1
    <3> QED
      BY <1>1, <1>3, <3>1 DEF Increasing
  <2>2. ASSUME NEW x \in One(Head(s)), NEW n \in In(r) PROVE x < n
    <3>1. PICK i \in DOMAIN r : r[i] = n
      BY <1>1, InPlace
    <3>2. 1 < i + 1 /\ s[1] # 0 /\ s[i + 1] # 0 /\ s[1] = x /\ s[i + 1] = n
      BY SMTT(40), <1>1, <2>2, <3>1 DEF One, In
    <3> QED
      BY <1>1, <1>3, <3>1, <3>2 DEF Increasing
  <2> QED
    BY <2>1, <2>2
<1> QED
  BY <1>1, <1>2, <1>3 DEF r

-----------------------------------------------------------------------------
(* Queues of handles *)

LEMMA NumType == ASSUME NEW h \in Handles, NEW type PROVE Num(h, type) \in Nat
  BY DEF Num, Handles

\* The numbers of a sequence of handles are a sequence of numbers.
LEMMA NumsType ==
    ASSUME NEW s \in Seq(Handles), NEW type
    PROVE  /\ Nums(s, type) \in Seq(Nat) /\ Len(Nums(s, type)) = Len(s)
           /\ DOMAIN Nums(s, type) = DOMAIN s
           /\ \A i \in DOMAIN s : Nums(s, type)[i] = Num(s[i], type)
  BY NumType DEF Nums

\* A handle appended appends its number.
LEMMA NumsAppend ==
    ASSUME NEW s \in Seq(Handles), NEW h \in Handles, NEW type
    PROVE  Nums(Append(s, h), type) = Append(Nums(s, type), Num(h, type))
<1> DEFINE r == Append(s, h)
           a == Nums(r, type)
           b == Append(Nums(s, type), Num(h, type))
<1>1. /\ r \in Seq(Handles) /\ Len(r) = Len(s) + 1 /\ Len(s) \in Nat
      /\ \A i \in 1..Len(s) : r[i] = s[i]
      /\ r[Len(s) + 1] = h
  BY AppendProperties
<1> HIDE DEF r
<1>2. /\ a \in Seq(Nat) /\ Len(a) = Len(s) + 1
      /\ \A i \in 1 .. Len(s) + 1 : a[i] = Num(r[i], type)
  BY <1>1, NumsType
<1>3. /\ Nums(s, type) \in Seq(Nat) /\ Len(Nums(s, type)) = Len(s) /\ Num(h, type) \in Nat
      /\ \A i \in 1..Len(s) : Nums(s, type)[i] = Num(s[i], type)
  BY NumsType, NumType
<1>4. /\ b \in Seq(Nat) /\ Len(b) = Len(s) + 1
      /\ \A i \in 1..Len(s) : b[i] = Num(s[i], type)
      /\ b[Len(s) + 1] = Num(h, type)
  BY <1>3, AppendProperties
<1> HIDE DEF a, b
<1>5. \A i \in 1 .. Len(a) : a[i] = b[i]
  <2>1. \A i \in 1 .. Len(s) : a[i] = b[i]
    BY <1>1, <1>2, <1>4
  <2>2. a[Len(s) + 1] = b[Len(s) + 1]
    BY <1>1, <1>2, <1>4
  <2> QED
    BY <1>1, <1>2, <2>1, <2>2
<1>6. a = b
  BY <1>2, <1>4, <1>5, SeqEqual
<1> QED
  BY <1>6 DEF a, b, r

\* A handle taken from the front takes its number away.
LEMMA NumsTail ==
    ASSUME NEW s \in Seq(Handles), s # <<>>, NEW type
    PROVE  /\ Nums(s, type) # <<>>
           /\ Nums(Tail(s), type) = Tail(Nums(s, type))
           /\ Head(Nums(s, type)) = Num(Head(s), type)
<1> DEFINE r == Tail(s)
           a == Nums(r, type)
           n == Nums(s, type)
<1>1. /\ r \in Seq(Handles) /\ Len(r) = Len(s) - 1 /\ Len(s) \in Nat \ {0}
      /\ \A i \in 1 .. Len(s) - 1 : r[i] = s[i + 1]
      /\ Head(s) = s[1]
  BY HeadTailProperties
<1> HIDE DEF r
<1>2. /\ a \in Seq(Nat) /\ Len(a) = Len(s) - 1
      /\ \A i \in 1 .. Len(s) - 1 : a[i] = Num(r[i], type)
  BY <1>1, NumsType
<1>3. /\ n \in Seq(Nat) /\ Len(n) = Len(s)
      /\ \A i \in 1..Len(s) : n[i] = Num(s[i], type)
  BY NumsType
<1> HIDE DEF a, n
<1>4. n # <<>> /\ Head(n) = n[1]
  BY <1>1, <1>3
<1>5. Tail(n) \in Seq(Nat) /\ Len(Tail(n)) = Len(s) - 1 /\
         \A i \in 1 .. Len(s) - 1 : Tail(n)[i] = n[i + 1]
  BY <1>1, <1>3, <1>4, HeadTailProperties
<1>6. \A i \in 1 .. Len(a) : a[i] = Tail(n)[i]
  <2>1. \A i \in 1 .. Len(s) - 1 : i + 1 \in 1..Len(s)
    BY <1>1
  <2> QED
    BY <1>1, <1>2, <1>3, <1>5, <2>1
<1>7. a = Tail(n)
  BY <1>2, <1>5, <1>6, SeqEqual
<1> QED
  BY <1>1, <1>3, <1>4, <1>7 DEF a, n, r

\* A push of a handle that is newer than the others keeps the order,
LEMMA PushOrder ==
    ASSUME NEW q \in QueueOf(Handles), NEW h \in Handles, NEW type, Increasing(Nums(q.items, type)),
           \A n \in In(Nums(q.items, type)), y \in One(Num(h, type)) : n < y
    PROVE  /\ In(Nums(Push(q, h).items, type)) \subseteq
                 In(Nums(q.items, type)) \cup One(Num(h, type))
           /\ Increasing(Nums(Push(q, h).items, type))
<1>1. q.items \in Seq(Handles)
  BY DEF QueueOf
<1>2. Push(q, h).items \in {q.items, Append(q.items, h)}
  BY DEF Push
<1>3. Nums(q.items, type) \in Seq(Nat) /\ Num(h, type) \in Nat
  BY <1>1, NumsType, NumType
<1> QED
  BY ZenonT(40), <1>1, <1>2, <1>3, NumsAppend, InAppend

\* and so does a pop, after which all are newer than the handle popped.
LEMMA PopOrder ==
    ASSUME NEW q \in QueueOf(Handles), q.items # <<>>, NEW type, Increasing(Nums(q.items, type))
    PROVE  /\ In(Nums(Pop(q).items, type)) \subseteq In(Nums(q.items, type))
           /\ One(Num(Head(q.items), type)) \subseteq In(Nums(q.items, type))
           /\ Increasing(Nums(Pop(q).items, type))
           /\ \A x \in One(Num(Head(q.items), type)), n \in In(Nums(Pop(q).items, type)) : x < n
<1>1. q.items \in Seq(Handles) /\ Pop(q).items = Tail(q.items)
  BY DEF QueueOf, Pop
<1> DEFINE n == Nums(q.items, type)
<1>2. n \in Seq(Nat)
  BY <1>1, NumsType
<1>3. n # <<>> /\ Nums(Pop(q).items, type) = Tail(n) /\ Head(n) = Num(Head(q.items), type)
  BY <1>1, NumsTail
<1>4. Increasing(n)
  OBVIOUS
<1> HIDE DEF n
<1>5. /\ In(Tail(n)) \subseteq In(n) /\ One(Head(n)) \subseteq In(n)
      /\ Increasing(Tail(n)) /\ \A x \in One(Head(n)), y \in In(Tail(n)) : x < y
  BY <1>2, <1>3, <1>4, InTail
<1> QED
  BY <1>3, <1>5 DEF n

-----------------------------------------------------------------------------
(* Stages *)

\* What is lost leaves the rest in order.
LEMMA LoseOrder ==
    ASSUME NEW S, NEW T, NEW max \in Nat, Ordered(S), Counted(S, max),
           \A k \in 1..8 : T[k] \subseteq S[k]
    PROVE  Ordered(T) /\ Counted(T, max)
  BY DEF Ordered, Counted

\* Some of those at stage k, older than the rest there, go on to stage j.
Advance(S, T, j, k, X) ==
    /\ X \subseteq S[k] /\ T[j] \subseteq S[j] \cup X /\ T[k] \subseteq S[k]
    /\ \A x \in X, y \in T[k] : x < y
    /\ \A l \in 1..8 : l # k /\ l # j => T[l] \subseteq S[l]

\* Numbers that move on to the next stage leave the stages in order.
LEMMA AdvanceOrder ==
    ASSUME NEW S, NEW T, NEW max \in Nat, Ordered(S), Counted(S, max),
           NEW j \in 1..8, NEW k \in 1..8, k = j + 1, NEW X, Advance(S, T, j, k, X)
    PROVE  Ordered(T) /\ Counted(T, max)
<1> USE DEF Advance
<1>1. \A l \in 1..8 : l # j => T[l] \subseteq S[l]
  OBVIOUS
<1>2. Counted(T, max)
  BY <1>1 DEF Counted
<1>3. ASSUME NEW m \in 1..8, NEW n \in 1..8, m < n, NEW a \in T[m], NEW b \in T[n]
      PROVE  a < b
  <2>1. CASE a \in S[m] /\ b \in S[n]
    BY <1>3, <2>1 DEF Ordered
  <2>2. CASE a \notin S[m]
    <3>1. m = j /\ a \in X /\ a \in S[k]
      BY <1>1, <1>3, <2>2
    <3>2. CASE n = k
      BY <1>3, <3>1, <3>2
    <3>3. CASE n # k
      <4>1. k < n /\ b \in S[n]
        BY <1>1, <1>3, <3>1, <3>3
      <4> QED
        BY <1>1, <3>1, <4>1 DEF Ordered
    <3> QED
      BY <3>2, <3>3
  <2>3. CASE b \notin S[n]
    <3>1. n = j /\ b \in X /\ b \in S[k]
      BY <1>1, <1>3, <2>3
    <3>2. m < k /\ m # j /\ a \in S[m]
      BY <1>1, <1>3, <3>1
    <3> QED
      BY <1>1, <3>1, <3>2 DEF Ordered
  <2> QED
    BY <2>1, <2>2, <2>3
<1> QED
  BY <1>2, <1>3 DEF Ordered

\* A new one is newer than all of them.
LEMMA EnterOrder ==
    ASSUME NEW S, NEW T, NEW max \in Nat, Ordered(S), Counted(S, max),
           T[8] \subseteq S[8] \cup {max + 1}, \A n \in T[8] : n = max + 1 \/ n \in S[8],
           \A l \in 1..7 : T[l] \subseteq S[l]
    PROVE  Ordered(T) /\ Counted(T, max + 1)
<1>1. 8 \in 1..8 /\ \A l \in 1..8 : l # 8 => l \in 1..7
  OBVIOUS
<1>2. \A l \in 1..7 : l \in 1..8
  OBVIOUS
<1>3. \A l \in 1..8 : T[l] \subseteq 1 .. max + 1
  BY <1>1, <1>2 DEF Counted
<1>4. ASSUME NEW i \in 1..8, NEW j \in 1..8, i < j, NEW a \in T[i], NEW b \in T[j]
      PROVE  a < b
  <2>1. i \in 1..7 /\ a \in S[i] /\ a \in 1..max
    BY <1>4 DEF Counted
  <2>2. CASE b \in S[j]
    BY <1>4, <2>1, <2>2 DEF Ordered
  <2>3. CASE b \notin S[j]
    <3>1. b = max + 1
      BY <1>4, <2>3, <1>1
    <3> QED
      BY <2>1, <3>1
  <2> QED
    BY <2>2, <2>3
<1> QED
  BY <1>3, <1>4 DEF Ordered, Counted

\* A thread appends the handle it holds, at stage k, to the queue at stage j.
LEMMA ForwardOrder ==
    ASSUME NEW S, NEW T, NEW max \in Nat, Ordered(S), Counted(S, max),
           NEW j \in 1..8, NEW k \in 1..8, k = j + 1,
           NEW q \in QueueOf(Handles), NEW h \in Handles, NEW type,
           Increasing(Nums(q.items, type)),
           S[j] = In(Nums(q.items, type)), S[k] = One(Num(h, type)),
           T[j] = In(Nums(Push(q, h).items, type)), T[k] = {},
           \A l \in 1..8 : l # k /\ l # j => T[l] \subseteq S[l]
    PROVE  Ordered(T) /\ Counted(T, max) /\ Increasing(Nums(Push(q, h).items, type))
<1>1. \A n \in In(Nums(q.items, type)), y \in One(Num(h, type)) : n < y
  BY DEF Ordered
<1>2. /\ T[j] \subseteq S[j] \cup One(Num(h, type))
      /\ Increasing(Nums(Push(q, h).items, type))
  BY <1>1, PushOrder
<1>3. Advance(S, T, j, k, One(Num(h, type)))
  BY <1>2 DEF Advance
<1> QED
  BY <1>2, <1>3, AdvanceOrder

\* A thread takes the head of the queue at stage k, which puts it at stage j.
Taken(S, T, j, k, q, type) ==
    /\ S[k] = In(Nums(q.items, type)) /\ T[k] = In(Nums(Pop(q).items, type))
    /\ T[j] \subseteq One(Num(Head(q.items), type))
    /\ \A l \in 1..8 : l # k /\ l # j => T[l] \subseteq S[l]

\* So does the head of a queue, taken by the thread of the next stage.
LEMMA TakeOrder ==
    ASSUME NEW S, NEW T, NEW max \in Nat, Ordered(S), Counted(S, max),
           NEW j \in 1..8, NEW k \in 1..8, k = j + 1,
           NEW q \in QueueOf(Handles), q.items # <<>>, NEW type,
           Increasing(Nums(q.items, type)), Taken(S, T, j, k, q, type)
    PROVE  Ordered(T) /\ Counted(T, max) /\ Increasing(Nums(Pop(q).items, type))
<1> USE DEF Taken
<1> DEFINE X == One(Num(Head(q.items), type))
           n == Nums(q.items, type)
           r == Nums(Pop(q).items, type)
<1>0. /\ In(r) \subseteq In(n) /\ X \subseteq In(n) /\ Increasing(r)
      /\ \A x \in X, y \in In(r) : x < y
  BY PopOrder
<1> HIDE DEF n, r
<1>1. /\ X \subseteq S[k] /\ T[k] \subseteq S[k]
      /\ Increasing(r)
      /\ \A x \in X, y \in T[k] : x < y
  BY <1>0 DEF n, r
<1> HIDE DEF X
<1>2. Ordered(T) /\ Counted(T, max)
  <2>1. T[j] \subseteq S[j] \cup X
    BY DEF X
  <2>2. Advance(S, T, j, k, X)
    BY <1>1, <2>1 DEF Advance
  <2> QED
    BY <2>2, AdvanceOrder
<1> QED
  BY <1>1, <1>2 DEF r

-----------------------------------------------------------------------------
(* What threads hold *)

LEMMA NullNum == Num(NullHandle, D) = 0 /\ Num(NullHandle, M) = 0 /\ One(0) = {}
  BY DEF Num, NullHandle, D, M, One

\* TypeOK, without what the order has no use for.
LEMMA Types ==
    ASSUME TypeOK
    PROVE  /\ Threads = {"recv", "mqtt", "dds"}
           /\ pc \in [Threads -> Labels] /\ held \in [Threads -> Handles]
           /\ ddsq \in QueueOf(Handles) /\ mqttq \in QueueOf(Handles) /\ rmsgq \in QueueOf(Nat)
           /\ recvd \in Nat /\ offered \in Nat /\ reader \in Nat /\ reader <= offered
           /\ buf \in [1..2 -> Contents]
  BY InboundLength, ProxyAssumption DEF TypeOK, RunOK, QueuesOK, NetOK, MemOK, Threads

\* mqtt_recv_loop keeps what a thread's step says of the handle it holds.
LEMMA RecvHands == ASSUME TypeOK, HandsOK, RecvLoop PROVE HandsOK'
  BY Types DEF RecvLoop, RecvPacket, RecvNothing, RecvAppend, HandsOK, At, Again, Goto, Hold,
     ToDds, D, M, NullHandle

\* mqtt_loop keeps it.
LEMMA MqttHands == ASSUME TypeOK, HandsOK, MqttLoop PROVE HandsOK'
<1> USE Types DEF HandsOK, At, Again, Goto, Hold, ToDds, D, M
<1>1. CASE MqttCheck
  BY <1>1 DEF MqttCheck, TakeHandle
<1>2. CASE MqttRecvNull
  BY <1>2 DEF MqttRecvNull, End
<1>3. CASE MqttRecvNothing
  BY <1>3 DEF MqttRecvNothing
<1>4. CASE MqttRecvMsg
  BY <1>4 DEF MqttRecvMsg, MkHandle, NullHandle
<1>5. CASE MqttAppend \/ MqttForward
  BY <1>5 DEF MqttAppend, MqttForward
<1>6. CASE MqttReadFirst \/ MqttPublish
  BY <1>6 DEF MqttReadFirst, MqttPublish
<1> QED
  BY <1>1, <1>2, <1>3, <1>4, <1>5, <1>6 DEF MqttLoop

\* dds_client keeps it.
LEMMA DdsHands == ASSUME TypeOK, HandsOK, DdsClient PROVE HandsOK'
<1> USE Types DEF HandsOK, At, Again, Goto, Hold, ToMqtt, D, M
<1>1. CASE StartMqtt \/ AllocRmsgq \/ StartRecv \/ Subscribe
  BY <1>1 DEF StartMqtt, AllocRmsgq, StartRecv, Subscribe
<1>2. CASE DdsSetup
  BY <1>2 DEF DdsSetup, End
<1>3. CASE DdsCheck
  BY <1>3 DEF DdsCheck, TakeHandle
<1>4. CASE DdsTakeNothing \/ DdsTakeFirst \/ DdsTakeInvalid
  BY <1>4 DEF DdsTakeNothing, DdsTakeFirst, DdsTakeInvalid
<1>5. CASE DdsTakeFails \/ DdsConvertNull
  BY <1>5 DEF DdsTakeFails, DdsConvertNull, End
<1>6. CASE DdsTakeLast
  BY <1>6 DEF DdsTakeLast, MkHandle, NullHandle
<1>7. CASE DdsAppend \/ DdsForward
  BY <1>7 DEF DdsAppend, DdsForward
<1>8. CASE DdsConvertFirst \/ DdsConvertLast
  BY <1>8 DEF DdsConvertFirst, DdsConvertLast
<1>9. CASE DdsWrite
  BY <1>9 DEF DdsWrite, End
<1> QED
  BY <1>1, <1>2, <1>3, <1>4, <1>5, <1>6, <1>7, <1>8, <1>9 DEF DdsClient
-----------------------------------------------------------------------------
(* From the broker to the DDS network *)

\* A step that only takes messages off their way.
LEMMA ToDdsKept ==
    ASSUME TypeOK, ToDdsOrder, UNCHANGED <<recvd, ddsOut, rmsgq>>,
           Increasing(Nums(ddsq.items, D))', Increasing(Nums(mqttq.items, D))',
           \A l \in 1..8 : ToDdsAt'[l] \subseteq ToDdsAt[l]
    PROVE  ToDdsOrder'
<1>1. Ordered(ToDdsAt) /\ Counted(ToDdsAt, recvd) /\ recvd \in Nat
  BY Types DEF ToDdsOrder
<1>2. Ordered(ToDdsAt') /\ Counted(ToDdsAt', recvd)
  BY <1>1, LoseOrder
<1> QED
  BY <1>2 DEF ToDdsOrder, DdsNums

\* A handle of another type that is pushed is nothing on this way.
LEMMA PushOther ==
    ASSUME NEW q \in QueueOf(Handles), NEW h \in Handles, NEW type, Increasing(Nums(q.items, type)),
           One(Num(h, type)) = {}
    PROVE  /\ In(Nums(Push(q, h).items, type)) \subseteq In(Nums(q.items, type))
           /\ Increasing(Nums(Push(q, h).items, type))
  BY PushOrder

\* mqtt_recv_loop moves messages for DDS in order.
LEMMA RecvToDds == ASSUME OrderInv, RecvLoop PROVE ToDdsOrder'
<1> DEFINE S == ToDdsAt
           T == ToDdsAt'
           h == held["recv"]
<1> USE DEF OrderInv, At, Again, Goto, Hold, queues, net, out
<1>0. /\ Ordered(S) /\ Counted(S, recvd) /\ Increasing(rmsgq.items)
      /\ pc["recv"] # "append" => h = NullHandle
      /\ recvd \in Nat
  BY Types DEF ToDdsOrder, HandsOK
<1>1. CASE RecvPacket
  <2>1. S[8] = {} /\ T[8] \subseteq {recvd + 1}
    BY <1>1, Types DEF RecvPacket, ToDdsAt, Hand, One, Num, ToDds
  <2>2. \A l \in 1..7 : T[l] \subseteq S[l]
    BY <1>1, Types DEF RecvPacket, ToDdsAt, Hand, DdsNums
  <2>3. recvd' = recvd + 1 /\ recvd \in Nat
    BY <1>1, Types DEF RecvPacket
  <2> HIDE DEF S, T
  <2>4. Ordered(T) /\ Counted(T, recvd + 1)
    BY <1>0, <2>1, <2>2, <2>3, EnterOrder
  <2> QED
    BY <1>1, <2>3, <2>4 DEF S, T, RecvPacket, ToDdsOrder, DdsNums
<1>2. CASE RecvNothing
  <2>1. \A l \in 1..8 : T[l] \subseteq S[l]
    BY <1>2, Types DEF RecvNothing, ToDdsAt, Hand, DdsNums, One, Num, ToDds
  <2> QED
    BY <1>2, <2>1, ToDdsKept DEF RecvNothing, ToDdsOrder
<1>3. CASE RecvAppend
  <2> DEFINE x == h.n
  <2>1. /\ S[8] = One(x) /\ x \in Nat /\ S[7] = In(rmsgq.items)
        /\ T[8] = {} /\ T[7] = In(rmsgq'.items)
        /\ \A l \in 1..8 : l # 8 /\ l # 7 => T[l] \subseteq S[l]
    BY <1>3, Types DEF RecvAppend, ToDdsAt, Hand, DdsNums, HandsOK, Num, Handles
  <2>2. rmsgq.items \in Seq(Nat) /\ rmsgq'.items \in {rmsgq.items, Append(rmsgq.items, x)}
    BY <1>3, Types DEF RecvAppend, QueueOf, Push
  <2>3. \A n \in In(rmsgq.items), y \in One(x) : n < y
    BY <1>0, <2>1 DEF Ordered
  <2>4. In(rmsgq'.items) \subseteq In(rmsgq.items) \cup One(x) /\ Increasing(rmsgq'.items)
    BY <1>0, <2>1, <2>2, <2>3, InAppend
  <2> HIDE DEF S, T, x
  <2>5. Advance(S, T, 7, 8, One(x))
    BY <2>1, <2>4 DEF Advance
  <2>6. Ordered(T) /\ Counted(T, recvd)
    BY <1>0, <2>5, AdvanceOrder
  <2> QED
    BY <1>3, <2>4, <2>6 DEF S, T, RecvAppend, ToDdsOrder, DdsNums
<1> QED
  BY <1>1, <1>2, <1>3 DEF RecvLoop

\* mqtt_loop moves messages for DDS in order.
LEMMA MqttToDds == ASSUME OrderInv, MqttLoop PROVE ToDdsOrder'
<1> DEFINE S == ToDdsAt
           T == ToDdsAt'
           h == held["mqtt"]
<1> USE DEF OrderInv, At, Again, Goto, Hold, queues, net, out, mem
<1>0. /\ Ordered(S) /\ Counted(S, recvd) /\ Increasing(rmsgq.items)
      /\ Increasing(Nums(ddsq.items, D)) /\ Increasing(Nums(mqttq.items, D))
      /\ h \in Handles /\ recvd \in Nat
      /\ ddsq \in QueueOf(Handles) /\ mqttq \in QueueOf(Handles)
  BY Types DEF ToDdsOrder
<1>1. CASE MqttCheck
  <2>1. CASE mqttq.items = <<>>
    <3>1. \A l \in 1..8 : T[l] \subseteq S[l]
      BY <1>1, <2>1, Types DEF MqttCheck, TakeHandle, ToDdsAt, Hand, DdsNums
    <3> QED
      BY <1>0, <1>1, <2>1, <3>1, ToDdsKept DEF MqttCheck
  <2>2. CASE mqttq.items # <<>>
    <3>1. Taken(S, T, 4, 5, mqttq, D)
      BY <1>1, <2>2, Types DEF MqttCheck, TakeHandle, ToDdsAt, Hand, DdsNums, Taken
    <3> HIDE DEF S, T
    <3>2. 4 \in 1..8 /\ 5 \in 1..8 /\ 5 = 4 + 1
      OBVIOUS
    <3>3. Ordered(T) /\ Counted(T, recvd) /\ Increasing(Nums(Pop(mqttq).items, D))
      BY <1>0, <2>2, <3>1, <3>2, TakeOrder
    <3> QED
      BY <1>0, <1>1, <2>2, <3>3 DEF S, T, MqttCheck, ToDdsOrder, DdsNums
  <2> QED
    BY <2>1, <2>2
<1>2. CASE MqttRecvNull \/ MqttRecvNothing
  <2>1. \A l \in 1..8 : T[l] \subseteq S[l]
    BY <1>2, Types DEF MqttRecvNull, MqttRecvNothing, End, ToDdsAt, Hand, DdsNums
  <2> QED
    BY <1>0, <1>2, <2>1, ToDdsKept DEF MqttRecvNull, MqttRecvNothing, End
<1>3. CASE MqttRecvMsg
  <2> DEFINE x == Head(rmsgq.items)
  <2>1. rmsgq.items \in Seq(Nat) /\ rmsgq.items # <<>> /\ rmsgq'.items = Tail(rmsgq.items)
    BY <1>3, Types DEF MqttRecvMsg, QueueOf, Pop
  <2>2. /\ In(Tail(rmsgq.items)) \subseteq In(rmsgq.items) /\ One(x) \subseteq In(rmsgq.items)
        /\ Increasing(Tail(rmsgq.items)) /\ x \in Nat
        /\ \A y \in One(x), n \in In(Tail(rmsgq.items)) : y < n
    BY <1>0, <2>1, InTail
  <2>3. held'["mqtt"] \in {ToDds(x), NullHandle} /\
         \A t \in Threads : t # "mqtt" => held'[t] = held[t]
    BY <1>3, Types DEF MqttRecvMsg, MkHandle
  <2> HIDE DEF x
  <2>4. T[6] \subseteq One(x)
    BY <2>2, <2>3, NullNum DEF ToDdsAt, Hand, One, Num, ToDds, NullHandle, D
  <2>5. /\ S[7] = In(rmsgq.items) /\ T[7] = In(Tail(rmsgq.items))
        /\ \A l \in 1..8 : l # 7 /\ l # 6 => T[l] \subseteq S[l]
    <3>1. UNCHANGED <<ddsq, mqttq, ddsOut>> /\ held'["dds"] = held["dds"] /\
           held'["recv"] = held["recv"]
      BY <1>3, <2>3, Types DEF MqttRecvMsg
    <3>2. pc["mqtt"] = "recv" /\ pc' = [pc EXCEPT !["mqtt"] = "append"]
      BY <1>3 DEF MqttRecvMsg
    <3> QED
      BY <2>1, <3>1, <3>2, Types DEF ToDdsAt, Hand, DdsNums
  <2> HIDE DEF S, T
  <2>6. Advance(S, T, 6, 7, One(x))
    BY <2>2, <2>4, <2>5 DEF Advance
  <2>7. Ordered(T) /\ Counted(T, recvd)
    BY <1>0, <2>6, AdvanceOrder
  <2> QED
    BY <1>0, <1>3, <2>1, <2>2, <2>7 DEF S, T, MqttRecvMsg, ToDdsOrder, DdsNums
<1>4. CASE MqttAppend
  <2>1. /\ S[6] = One(Num(h, D)) /\ T[6] = {}
        /\ S[5] = In(Nums(mqttq.items, D)) /\ T[5] = In(Nums(Push(mqttq, h).items, D))
        /\ \A l \in 1..8 : l # 6 /\ l # 5 => T[l] \subseteq S[l]
    BY <1>4, Types DEF MqttAppend, ToDdsAt, Hand, DdsNums
  <2> HIDE DEF S, T, h
  <2>2. Ordered(T) /\ Counted(T, recvd) /\ Increasing(Nums(Push(mqttq, h).items, D))
    BY <1>0, <2>1, ForwardOrder
  <2> QED
    BY <1>0, <1>4, <2>2 DEF S, T, h, MqttAppend, ToDdsOrder, DdsNums
<1>5. CASE MqttForward
  <2>1. /\ S[4] = One(Num(h, D)) /\ T[4] = {}
        /\ S[3] = In(Nums(ddsq.items, D)) /\ T[3] = In(Nums(Push(ddsq, h).items, D))
        /\ \A l \in 1..8 : l # 4 /\ l # 3 => T[l] \subseteq S[l]
    BY <1>5, Types DEF MqttForward, ToDdsAt, Hand, DdsNums
  <2> HIDE DEF S, T, h
  <2>2. Ordered(T) /\ Counted(T, recvd) /\ Increasing(Nums(Push(ddsq, h).items, D))
    BY <1>0, <2>1, ForwardOrder
  <2> QED
    BY <1>0, <1>5, <2>2 DEF S, T, h, MqttForward, ToDdsOrder, DdsNums
<1>6. CASE MqttReadFirst \/ MqttPublish
  <2>1. \A l \in 1..8 : T[l] \subseteq S[l]
    BY <1>6, Types DEF MqttReadFirst, MqttPublish, ToDdsAt, Hand, DdsNums
  <2> QED
    BY <1>0, <1>6, <2>1, ToDdsKept DEF MqttReadFirst, MqttPublish
<1> QED
  BY <1>1, <1>2, <1>3, <1>4, <1>5, <1>6 DEF MqttLoop

\* dds_write adds the number of what samples[0] holds.
LEMMA WrittenType ==
    ASSUME NEW s \in Seq([1..2 -> Contents])
    PROVE  /\ Written(s) \in Seq(Nat) /\ Len(Written(s)) = Len(s)
           /\ \A i \in 1..Len(s) : Written(s)[i] = s[i][1].n
<1>1. \A i \in DOMAIN s : s[i] \in [1..2 -> Contents]
  OBVIOUS
<1>2. \A c \in [1..2 -> Contents] : c[1] \in Contents
  OBVIOUS
<1>3. \A c \in Contents : c.n \in Nat
  BY DEF Contents
<1>4. \A i \in DOMAIN s : s[i][1].n \in Nat
  BY <1>1, <1>2, <1>3
<1> QED
  BY <1>4 DEF Written

\* The number of one sample more, written to DDS.
LEMMA WrittenAppend ==
    ASSUME NEW s \in Seq([1..2 -> Contents]), NEW c \in [1..2 -> Contents]
    PROVE  Written(Append(s, c)) = Append(Written(s), c[1].n)
<1> DEFINE r == Append(s, c)
           x == c[1].n
           a == Written(r)
           b == Append(Written(s), x)
<1>1. /\ r \in Seq([1..2 -> Contents]) /\ Len(r) = Len(s) + 1 /\ Len(s) \in Nat
      /\ \A i \in 1..Len(s) : r[i] = s[i]
      /\ r[Len(s) + 1] = c
  BY AppendProperties
<1> HIDE DEF r
<1>2. /\ a \in Seq(Nat) /\ Len(a) = Len(s) + 1
      /\ \A i \in 1 .. Len(s) + 1 : a[i] = r[i][1].n
  BY <1>1, WrittenType
<1>3. /\ Written(s) \in Seq(Nat) /\ Len(Written(s)) = Len(s) /\ x \in Nat
      /\ \A i \in 1..Len(s) : Written(s)[i] = s[i][1].n
  BY WrittenType DEF Contents
<1> HIDE DEF x
<1>4. /\ b \in Seq(Nat) /\ Len(b) = Len(s) + 1
      /\ \A i \in 1..Len(s) : b[i] = s[i][1].n
      /\ b[Len(s) + 1] = x
  BY <1>3, AppendProperties
<1> HIDE DEF a, b
<1>5. \A i \in 1 .. Len(a) : a[i] = b[i]
  <2>1. ASSUME NEW i \in 1..Len(s) PROVE a[i] = b[i]
    <3>1. a[i] = r[i][1].n
      BY <1>1, <1>2
    <3> QED
      BY <1>1, <1>4, <3>1
  <2>2. a[Len(s) + 1] = b[Len(s) + 1]
    BY <1>1, <1>2, <1>4 DEF x
  <2> QED
    BY <1>1, <1>2, <2>1, <2>2
<1>6. a = b
  BY <1>2, <1>4, <1>5, SeqEqual
<1> QED
  BY <1>6 DEF a, b, r, x

\* What dds_client writes is the number in samples[0].
LEMMA DdsNumsAppend ==
    ASSUME TypeOK, ddsOut' = Append(ddsOut, buf)
    PROVE  DdsNums \in Seq(Nat) /\ DdsNums' = Append(DdsNums, buf[1].n)
  BY WrittenType, WrittenAppend DEF TypeOK, OutOK, MemOK, DdsNums

\* dds_client moves messages for DDS in order.
LEMMA DdsToDds == ASSUME OrderInv, DdsClient PROVE ToDdsOrder'
<1> DEFINE S == ToDdsAt
           T == ToDdsAt'
           h == held["dds"]
<1> USE DEF OrderInv, At, Again, Goto, Hold, queues, net, out, mem
<1>0. /\ Ordered(S) /\ Counted(S, recvd) /\ Increasing(rmsgq.items)
      /\ Increasing(Nums(ddsq.items, D)) /\ Increasing(Nums(mqttq.items, D))
      /\ Increasing(DdsNums)
      /\ h \in Handles /\ recvd \in Nat
      /\ ddsq \in QueueOf(Handles) /\ mqttq \in QueueOf(Handles)
  BY Types DEF ToDdsOrder
<1>1. CASE StartMqtt \/ AllocRmsgq \/ StartRecv \/ Subscribe
  <2>1. \A l \in 1..8 : T[l] \subseteq S[l]
    BY <1>1, Types DEF StartMqtt, AllocRmsgq, StartRecv, Subscribe, ToDdsAt, Hand, DdsNums
  <2> QED
    BY <1>0, <1>1, <2>1, ToDdsKept DEF StartMqtt, AllocRmsgq, StartRecv, Subscribe
<1>2. CASE DdsSetup \/ DdsTakeFails \/ DdsConvertNull
  <2>1. \A l \in 1..8 : T[l] \subseteq S[l]
    BY <1>2, Types DEF DdsSetup, DdsTakeFails, DdsConvertNull, End, ToDdsAt, Hand, DdsNums
  <2> QED
    BY <1>0, <1>2, <2>1, ToDdsKept DEF DdsSetup, DdsTakeFails, DdsConvertNull, End
<1>3. CASE DdsCheck
  <2>1. CASE ddsq.items = <<>>
    <3>1. \A l \in 1..8 : T[l] \subseteq S[l]
      BY <1>3, <2>1, Types DEF DdsCheck, TakeHandle, ToDdsAt, Hand, DdsNums
    <3> QED
      BY <1>0, <1>3, <2>1, <3>1, ToDdsKept DEF DdsCheck
  <2>2. CASE ddsq.items # <<>>
    <3>1. Taken(S, T, 2, 3, ddsq, D)
      BY <1>3, <2>2, Types DEF DdsCheck, TakeHandle, ToDdsAt, Hand, DdsNums, Taken
    <3> HIDE DEF S, T
    <3>2. 2 \in 1..8 /\ 3 \in 1..8 /\ 3 = 2 + 1
      OBVIOUS
    <3>3. Ordered(T) /\ Counted(T, recvd) /\ Increasing(Nums(Pop(ddsq).items, D))
      BY <1>0, <2>2, <3>1, <3>2, TakeOrder
    <3> QED
      BY <1>0, <1>3, <2>2, <3>3 DEF S, T, DdsCheck, ToDdsOrder, DdsNums
  <2> QED
    BY <2>1, <2>2
<1>4. CASE DdsTakeNothing \/ DdsTakeFirst \/ DdsTakeInvalid
  <2>1. \A l \in 1..8 : T[l] \subseteq S[l]
    BY <1>4, Types DEF DdsTakeNothing, DdsTakeFirst, DdsTakeInvalid, ToDdsAt, Hand, DdsNums
  <2> QED
    BY <1>0, <1>4, <2>1, ToDdsKept DEF DdsTakeNothing, DdsTakeFirst, DdsTakeInvalid
<1>5. CASE DdsTakeLast
  <2>1. /\ UNCHANGED <<queues, net, out>>
        /\ pc' = [pc EXCEPT !["dds"] = "append"]
        /\ \A t \in Threads : t # "dds" => held'[t] = held[t]
    BY <1>5, Types DEF DdsTakeLast, MkHandle
  <2>2. \A l \in 1..8 : T[l] \subseteq S[l]
    BY <2>1, Types DEF ToDdsAt, Hand, DdsNums
  <2> QED
    BY <1>0, <2>1, <2>2, ToDdsKept
<1>6. CASE DdsAppend
  <2>1. One(Num(h, D)) = {}
    BY <1>6, NullNum DEF DdsAppend, HandsOK, Num
  <2>2. /\ In(Nums(Push(ddsq, h).items, D)) \subseteq In(Nums(ddsq.items, D))
        /\ Increasing(Nums(Push(ddsq, h).items, D))
    BY <1>0, <2>1, PushOther
  <2>3. \A l \in 1..8 : T[l] \subseteq S[l]
    BY <1>6, <2>2, Types DEF DdsAppend, ToDdsAt, Hand, DdsNums
  <2> QED
    BY <1>0, <1>6, <2>2, <2>3, ToDdsKept DEF DdsAppend
<1>7. CASE DdsForward
  <2>1. One(Num(h, D)) = {}
    BY <1>7, NullNum DEF DdsForward, Num, D
  <2>2. /\ In(Nums(Push(mqttq, h).items, D)) \subseteq In(Nums(mqttq.items, D))
        /\ Increasing(Nums(Push(mqttq, h).items, D))
    BY <1>0, <2>1, PushOther
  <2>3. \A l \in 1..8 : T[l] \subseteq S[l]
    BY <1>7, <2>2, Types DEF DdsForward, ToDdsAt, Hand, DdsNums
  <2> QED
    BY <1>0, <1>7, <2>2, <2>3, ToDdsKept DEF DdsForward
<1>8. CASE DdsConvertFirst \/ DdsConvertLast
  <2>1. \A l \in 1..8 : T[l] \subseteq S[l]
    BY <1>8, Types DEF DdsConvertFirst, DdsConvertLast, ToDdsAt, Hand, DdsNums
  <2> QED
    BY <1>0, <1>8, <2>1, ToDdsKept DEF DdsConvertFirst, DdsConvertLast
<1>9. CASE DdsWrite
  <2>1. CASE End("exit")
    <3>1. \A l \in 1..8 : T[l] \subseteq S[l]
      BY <2>1, Types DEF End, ToDdsAt, Hand, DdsNums
    <3> QED
      BY <1>0, <2>1, <3>1, ToDdsKept DEF End
  <2>2. CASE ~End("exit")
    <3> DEFINE x == buf[1].n
    <3>1. /\ ddsOut' = Append(ddsOut, buf) /\ Again("dds", "check")
          /\ UNCHANGED <<queues, net>> /\ pc["dds"] = "write"
      BY <1>9, <2>2 DEF DdsWrite
    <3>2. h.type = D /\ x = h.n /\ x \in Nat
      BY <3>1, Types DEF HandsOK, Converted, OfMqtt, Handles
    <3>3. /\ S[2] = One(x) /\ T[2] = {} /\ S[1] = In(DdsNums) /\ T[1] = In(DdsNums')
          /\ \A l \in 1..8 : l # 2 /\ l # 1 => T[l] \subseteq S[l]
      BY <3>1, <3>2, Types DEF ToDdsAt, Hand, Num
    <3>4. DdsNums \in Seq(Nat) /\ DdsNums' = Append(DdsNums, x)
      BY <3>1, DdsNumsAppend
    <3> HIDE DEF S, T, x
    <3>5. \A n \in In(DdsNums), y \in One(x) : n < y
      BY <1>0, <3>3 DEF Ordered
    <3>6. In(DdsNums') = In(DdsNums) \cup One(x) /\ Increasing(DdsNums')
      BY <1>0, <3>2, <3>4, <3>5, InAppend
    <3>7. Advance(S, T, 1, 2, One(x))
      BY <3>3, <3>6 DEF Advance
    <3>8. 1 \in 1..8 /\ 2 \in 1..8 /\ 2 = 1 + 1
      OBVIOUS
    <3>9. Ordered(T) /\ Counted(T, recvd)
      BY <1>0, <3>7, <3>8, AdvanceOrder
    <3> QED
      BY <1>0, <3>1, <3>6, <3>9 DEF S, T, ToDdsOrder
  <2> QED
    BY <2>1, <2>2
<1> QED
  BY <1>1, <1>2, <1>3, <1>4, <1>5, <1>6, <1>7, <1>8, <1>9 DEF DdsClient

\* The networks have nothing to do with messages on their way.
LEMMA NetToDds == ASSUME OrderInv, MqttArrives \/ SampleArrives PROVE ToDdsOrder'
<1>1. \A l \in 1..8 : ToDdsAt'[l] \subseteq ToDdsAt[l]
  BY DEF MqttArrives, SampleArrives, ToDdsAt, Hand, DdsNums, queues, out
<1> QED
  BY <1>1, ToDdsKept DEF OrderInv, ToDdsOrder, MqttArrives, SampleArrives, queues, out

-----------------------------------------------------------------------------
(* From the DDS network to the broker *)

\* A step that only takes samples off their way.
LEMMA ToMqttKept ==
    ASSUME TypeOK, ToMqttOrder, UNCHANGED <<offered, mqttOut>>,
           Increasing(Nums(ddsq.items, M))', Increasing(Nums(mqttq.items, M))',
           \A l \in 1..8 : ToMqttAt'[l] \subseteq ToMqttAt[l]
    PROVE  ToMqttOrder'
<1>1. Ordered(ToMqttAt) /\ Counted(ToMqttAt, offered) /\ offered \in Nat
  BY Types DEF ToMqttOrder
<1>2. Ordered(ToMqttAt') /\ Counted(ToMqttAt', offered)
  BY <1>1, LoseOrder
<1> QED
  BY <1>2 DEF ToMqttOrder, MqttNums

\* mqtt_recv_loop moves no sample for MQTT.
LEMMA RecvToMqtt == ASSUME OrderInv, RecvLoop PROVE ToMqttOrder'
<1> USE DEF RecvLoop, RecvPacket, RecvNothing, RecvAppend, At, Again, Goto, Hold, queues, net,
            mem, out
<1>1. \A l \in 1..8 : ToMqttAt'[l] \subseteq ToMqttAt[l]
  BY Types DEF OrderInv, ToMqttAt, Hand, MqttNums
<1> QED
  BY <1>1, ToMqttKept DEF OrderInv, ToMqttOrder

\* client_publish adds the number of the handle.
LEMMA SampledType ==
    ASSUME NEW s \in Seq([sample : Nat, payload : [1..2 -> Contents]])
    PROVE  /\ Sampled(s) \in Seq(Nat) /\ Len(Sampled(s)) = Len(s)
           /\ \A i \in 1..Len(s) : Sampled(s)[i] = s[i].sample
<1> DEFINE Ms == [sample : Nat, payload : [1..2 -> Contents]]
<1>1. \A m \in Ms : m.sample \in Nat
  OBVIOUS
<1>2. s \in Seq(Ms)
  OBVIOUS
<1> HIDE DEF Ms
<1>3. \A i \in DOMAIN s : s[i].sample \in Nat
  BY <1>1, <1>2
<1>4. DOMAIN s = 1..Len(s) /\ Len(s) \in Nat
  BY <1>2
<1> DEFINE f == Sampled(s)
<1>5. f = [i \in 1..Len(s) |-> s[i].sample]
  BY <1>4 DEF Sampled
<1>6. f \in [1..Len(s) -> Nat] /\ \A i \in 1..Len(s) : f[i] = s[i].sample
  BY <1>3, <1>4, <1>5
<1> HIDE DEF f
<1>7. f \in Seq(Nat)
  <2> DEFINE n == Len(s)
  <2>1. n \in Nat /\ f \in [1..n -> Nat]
    BY <1>4, <1>6
  <2> HIDE DEF n
  <2> QED
    BY <2>1, SeqDef
<1>8. Len(f) = Len(s)
  BY <1>4, <1>6, <1>7
<1> QED
  BY <1>6, <1>7, <1>8 DEF f

\* The number of one message more, published.
LEMMA SampledAppend ==
    ASSUME NEW s \in Seq([sample : Nat, payload : [1..2 -> Contents]]),
           NEW m \in [sample : Nat, payload : [1..2 -> Contents]]
    PROVE  Sampled(Append(s, m)) = Append(Sampled(s), m.sample)
<1> DEFINE Ms == [sample : Nat, payload : [1..2 -> Contents]]
           r == Append(s, m)
           x == m.sample
           a == Sampled(r)
           b == Append(Sampled(s), x)
<1>0. x \in Nat
  OBVIOUS
<1>1. r \in Seq(Ms) /\ Len(Sampled(r)) = Len(r) /\ Sampled(r) \in Seq(Nat)
      /\ \A i \in 1..Len(r) : Sampled(r)[i] = r[i].sample
  <2>1. s \in Seq(Ms) /\ m \in Ms
    OBVIOUS
  <2> HIDE DEF Ms
  <2>2. r \in Seq(Ms)
    BY <2>1
  <2> QED
    BY <2>2, SampledType DEF Ms
<1>2. /\ Sampled(s) \in Seq(Nat) /\ Len(Sampled(s)) = Len(s)
      /\ \A i \in 1..Len(s) : Sampled(s)[i] = s[i].sample
  BY SampledType
<1>3. s \in Seq(Ms) /\ m \in Ms
  OBVIOUS
<1> HIDE DEF Ms
<1>4. /\ Len(r) = Len(s) + 1 /\ Len(s) \in Nat
      /\ \A i \in 1..Len(s) : r[i] = s[i]
      /\ r[Len(s) + 1] = m
  BY <1>3, AppendProperties
<1> HIDE DEF r, x
<1>5. /\ b \in Seq(Nat) /\ Len(b) = Len(s) + 1
      /\ \A i \in 1..Len(s) : b[i] = s[i].sample
      /\ b[Len(s) + 1] = x
  BY <1>0, <1>2, AppendProperties
<1> HIDE DEF b
<1>6. \A i \in 1 .. Len(a) : a[i] = b[i]
  <2>1. ASSUME NEW i \in 1..Len(s) PROVE a[i] = b[i]
    <3>1. a[i] = r[i].sample
      BY <1>1, <1>4
    <3> QED
      BY <1>4, <1>5, <3>1
  <2>2. a[Len(s) + 1] = b[Len(s) + 1]
    <3>0. Len(s) + 1 \in 1..Len(r)
      BY <1>4
    <3>1. a[Len(s) + 1] = r[Len(s) + 1].sample
      BY <1>1, <3>0
    <3>2. r[Len(s) + 1].sample = x /\ b[Len(s) + 1] = x
      BY <1>4, <1>5 DEF x
    <3> QED
      BY <3>1, <3>2
  <2>3. Len(a) = Len(s) + 1
    BY <1>1, <1>4
  <2> QED
    BY SMTT(40), <1>4, <2>1, <2>2, <2>3
<1> HIDE DEF a
<1>7. a \in Seq(Nat) /\ Len(a) = Len(b)
  BY <1>1, <1>4, <1>5 DEF a
<1>8. a = b
  BY <1>5, <1>6, <1>7, SeqEqual
<1> QED
  BY <1>8 DEF a, b, r, x

\* What mqtt_loop publishes is numbered as the handle it holds.
LEMMA MqttNumsAppend ==
    ASSUME TypeOK, At("mqtt", "read"),
           mqttOut' = Append(mqttOut, [sample  |-> held["mqtt"].n,
                                       payload |-> <<half, buf[2]>>])
    PROVE  MqttNums \in Seq(Nat) /\ MqttNums' = Append(MqttNums, held["mqtt"].n)
<1> DEFINE m == [sample |-> held["mqtt"].n, payload |-> <<half, buf[2]>>]
<1>1. held["mqtt"].n \in Nat /\
       <<half, buf[2]>> \in [1..2 -> Contents]
  BY Types DEF TypeOK, MemOK, Handles
<1>2. m \in [sample : Nat, payload : [1..2 -> Contents]] /\ m.sample = held["mqtt"].n
  BY <1>1
<1>3. mqttOut \in Seq([sample : Nat, payload : [1..2 -> Contents]]) /\ mqttOut' = Append(mqttOut, m)
  BY DEF TypeOK, OutOK
<1> HIDE DEF m
<1> QED
  BY <1>2, <1>3, SampledType, SampledAppend DEF MqttNums

\* mqtt_loop moves samples for MQTT in order.
LEMMA MqttToMqtt == ASSUME OrderInv, MqttLoop PROVE ToMqttOrder'
<1> DEFINE S == ToMqttAt
           T == ToMqttAt'
           h == held["mqtt"]
<1> USE DEF OrderInv, At, Again, Goto, Hold, queues, net, out, mem
<1>0. /\ Ordered(S) /\ Counted(S, offered) /\ Increasing(MqttNums)
      /\ Increasing(Nums(ddsq.items, M)) /\ Increasing(Nums(mqttq.items, M))
      /\ h \in Handles /\ offered \in Nat
      /\ ddsq \in QueueOf(Handles) /\ mqttq \in QueueOf(Handles)
  BY Types DEF ToMqttOrder
<1>1. CASE MqttCheck
  <2>1. CASE mqttq.items = <<>>
    <3>1. \A l \in 1..8 : T[l] \subseteq S[l]
      BY <1>1, <2>1, Types DEF MqttCheck, TakeHandle, ToMqttAt, Hand, MqttNums
    <3> QED
      BY <1>0, <1>1, <2>1, <3>1, ToMqttKept DEF MqttCheck
  <2>2. CASE mqttq.items # <<>>
    <3>1. Taken(S, T, 2, 3, mqttq, M)
      BY <1>1, <2>2, Types DEF MqttCheck, TakeHandle, ToMqttAt, Hand, MqttNums, Taken
    <3> HIDE DEF S, T
    <3>2. 2 \in 1..8 /\ 3 \in 1..8 /\ 3 = 2 + 1
      OBVIOUS
    <3>3. Ordered(T) /\ Counted(T, offered) /\ Increasing(Nums(Pop(mqttq).items, M))
      BY <1>0, <2>2, <3>1, <3>2, TakeOrder
    <3> QED
      BY <1>0, <1>1, <2>2, <3>3 DEF S, T, MqttCheck, ToMqttOrder, MqttNums
  <2> QED
    BY <2>1, <2>2
<1>2. CASE MqttRecvNull \/ MqttRecvNothing
  <2>1. \A l \in 1..8 : T[l] \subseteq S[l]
    BY <1>2, Types DEF MqttRecvNull, MqttRecvNothing, End, ToMqttAt, Hand, MqttNums
  <2> QED
    BY <1>0, <1>2, <2>1, ToMqttKept DEF MqttRecvNull, MqttRecvNothing, End
<1>3. CASE MqttRecvMsg
  <2>1. /\ UNCHANGED <<ddsq, mqttq, mem, net, out>>
        /\ pc' = [pc EXCEPT !["mqtt"] = "append"]
        /\ \A t \in Threads : t # "mqtt" => held'[t] = held[t]
    BY <1>3, Types DEF MqttRecvMsg, MkHandle
  <2>2. \A l \in 1..8 : T[l] \subseteq S[l]
    BY <2>1, Types DEF ToMqttAt, Hand, MqttNums
  <2> QED
    BY <1>0, <2>1, <2>2, ToMqttKept
<1>4. CASE MqttAppend
  <2>1. One(Num(h, M)) = {}
    BY <1>4, NullNum DEF MqttAppend, HandsOK, Num
  <2>2. /\ In(Nums(Push(mqttq, h).items, M)) \subseteq In(Nums(mqttq.items, M))
        /\ Increasing(Nums(Push(mqttq, h).items, M))
    BY <1>0, <2>1, PushOther
  <2>3. \A l \in 1..8 : T[l] \subseteq S[l]
    BY <1>4, <2>2, Types DEF MqttAppend, ToMqttAt, Hand, MqttNums
  <2> QED
    BY <1>0, <1>4, <2>2, <2>3, ToMqttKept DEF MqttAppend
<1>5. CASE MqttForward
  <2>1. One(Num(h, M)) = {}
    BY <1>5, NullNum DEF MqttForward, Num, M
  <2>2. /\ In(Nums(Push(ddsq, h).items, M)) \subseteq In(Nums(ddsq.items, M))
        /\ Increasing(Nums(Push(ddsq, h).items, M))
    BY <1>0, <2>1, PushOther
  <2>3. \A l \in 1..8 : T[l] \subseteq S[l]
    BY <1>5, <2>2, Types DEF MqttForward, ToMqttAt, Hand, MqttNums
  <2> QED
    BY <1>0, <1>5, <2>2, <2>3, ToMqttKept DEF MqttForward
<1>6. CASE MqttReadFirst
  <2>1. \A l \in 1..8 : T[l] \subseteq S[l]
    BY <1>6, Types DEF MqttReadFirst, ToMqttAt, Hand, MqttNums
  <2> QED
    BY <1>0, <1>6, <2>1, ToMqttKept DEF MqttReadFirst
<1>7. CASE MqttPublish
  <2> DEFINE x == h.n
  <2>1. /\ Again("mqtt", "check") /\ UNCHANGED <<queues, net, buf>> /\ pc["mqtt"] = "read"
        /\ h.type = M /\ x \in Nat
    BY <1>0, <1>7 DEF MqttPublish, HandsOK, Handles
  <2>2. S[2] = One(x) /\ T[2] = {} /\ \A l \in 1..8 : l # 2 /\ l # 1 => T[l] \subseteq S[l]
    BY <2>1, Types DEF ToMqttAt, Hand, Num
  <2>3. S[1] = In(MqttNums) /\ T[1] = In(MqttNums')
    BY DEF ToMqttAt
  <2>4. CASE UNCHANGED mqttOut
    <3>1. \A l \in 1..8 : T[l] \subseteq S[l]
      BY <2>2, <2>3, <2>4 DEF MqttNums
    <3> QED
      BY <1>0, <2>1, <2>4, <3>1, ToMqttKept
  <2>5. CASE mqttOut' = Append(mqttOut, [sample  |-> h.n, payload |-> <<half, buf[2]>>])
    <3>1. MqttNums \in Seq(Nat) /\ MqttNums' = Append(MqttNums, x)
      BY <1>7, <2>5, MqttNumsAppend DEF MqttPublish
    <3> HIDE DEF S, T, x
    <3>2. \A n \in In(MqttNums), y \in One(x) : n < y
      BY <1>0, <2>2, <2>3 DEF Ordered
    <3>3. In(MqttNums') = In(MqttNums) \cup One(x) /\ Increasing(MqttNums')
      BY <1>0, <2>1, <3>1, <3>2, InAppend
    <3>4. Advance(S, T, 1, 2, One(x))
      BY <2>2, <2>3, <3>3 DEF Advance
    <3>5. 1 \in 1..8 /\ 2 \in 1..8 /\ 2 = 1 + 1
      OBVIOUS
    <3>6. Ordered(T) /\ Counted(T, offered)
      BY <1>0, <3>4, <3>5, AdvanceOrder
    <3> QED
      BY <1>0, <2>1, <3>3, <3>6 DEF S, T, ToMqttOrder
  <2> QED
    BY <1>7, <2>4, <2>5 DEF MqttPublish
<1> QED
  BY <1>1, <1>2, <1>3, <1>4, <1>5, <1>6, <1>7 DEF MqttLoop

\* dds_client moves samples for MQTT in order.
LEMMA DdsToMqtt == ASSUME OrderInv, DdsClient PROVE ToMqttOrder'
<1> DEFINE S == ToMqttAt
           T == ToMqttAt'
           h == held["dds"]
<1> USE DEF OrderInv, At, Again, Goto, Hold, queues, net, out, mem
<1>0. /\ Ordered(S) /\ Counted(S, offered) /\ Increasing(MqttNums)
      /\ Increasing(Nums(ddsq.items, M)) /\ Increasing(Nums(mqttq.items, M))
      /\ h \in Handles /\ offered \in Nat
      /\ ddsq \in QueueOf(Handles) /\ mqttq \in QueueOf(Handles)
  BY Types DEF ToMqttOrder
<1>1. CASE StartMqtt \/ AllocRmsgq \/ StartRecv \/ Subscribe
  <2>1. \A l \in 1..8 : T[l] \subseteq S[l]
    BY <1>1, Types DEF StartMqtt, AllocRmsgq, StartRecv, Subscribe, ToMqttAt, Hand, MqttNums
  <2> QED
    BY <1>0, <1>1, <2>1, ToMqttKept DEF StartMqtt, AllocRmsgq, StartRecv, Subscribe
<1>2. CASE DdsSetup \/ DdsTakeFails \/ DdsConvertNull
  <2>1. \A l \in 1..8 : T[l] \subseteq S[l]
    BY <1>2, Types DEF DdsSetup, DdsTakeFails, DdsConvertNull, End, ToMqttAt, Hand, MqttNums
  <2> QED
    BY <1>0, <1>2, <2>1, ToMqttKept DEF DdsSetup, DdsTakeFails, DdsConvertNull, End
<1>3. CASE DdsCheck
  <2>1. CASE ddsq.items = <<>>
    <3>1. \A l \in 1..8 : T[l] \subseteq S[l]
      BY <1>3, <2>1, Types DEF DdsCheck, TakeHandle, ToMqttAt, Hand, MqttNums
    <3> QED
      BY <1>0, <1>3, <2>1, <3>1, ToMqttKept DEF DdsCheck
  <2>2. CASE ddsq.items # <<>>
    <3>1. Taken(S, T, 4, 5, ddsq, M)
      BY <1>3, <2>2, Types DEF DdsCheck, TakeHandle, ToMqttAt, Hand, MqttNums, Taken
    <3> HIDE DEF S, T
    <3>2. 4 \in 1..8 /\ 5 \in 1..8 /\ 5 = 4 + 1
      OBVIOUS
    <3>3. Ordered(T) /\ Counted(T, offered) /\ Increasing(Nums(Pop(ddsq).items, M))
      BY <1>0, <2>2, <3>1, <3>2, TakeOrder
    <3> QED
      BY <1>0, <1>3, <2>2, <3>3 DEF S, T, DdsCheck, ToMqttOrder, MqttNums
  <2> QED
    BY <2>1, <2>2
<1>4. CASE DdsTakeNothing \/ DdsTakeInvalid
  <2>1. \A l \in 1..8 : T[l] \subseteq S[l]
    BY <1>4, Types DEF DdsTakeNothing, DdsTakeInvalid, ToMqttAt, Hand, MqttNums
  <2> QED
    BY <1>0, <1>4, <2>1, ToMqttKept DEF DdsTakeNothing, DdsTakeInvalid
<1>5. CASE DdsTakeFirst
  <2>1. /\ S[8] = One(reader) /\ T[8] = {}
        /\ \A l \in 1..8 : l # 8 /\ l # 7 => T[l] \subseteq S[l]
    BY <1>5, Types DEF DdsTakeFirst, ToMqttAt, Hand, MqttNums, One
  <2>2. buf'[1].n = reader
    BY <1>5, Types DEF DdsTakeFirst, Blank, OfDds
  <2>3. T[7] \subseteq One(reader)
    BY <2>2 DEF ToMqttAt
  <2> HIDE DEF S, T
  <2>4. Advance(S, T, 7, 8, One(reader))
    BY <2>1, <2>3 DEF Advance
  <2>5. 7 \in 1..8 /\ 8 \in 1..8 /\ 8 = 7 + 1
    OBVIOUS
  <2>6. Ordered(T) /\ Counted(T, offered)
    BY <1>0, <2>4, <2>5, AdvanceOrder
  <2> QED
    BY <1>0, <1>5, <2>6 DEF S, T, DdsTakeFirst, ToMqttOrder, MqttNums
<1>6. CASE DdsTakeLast
  <2> DEFINE x == buf[1].n
  <2>1. /\ UNCHANGED <<queues, net, out>> /\ pc["dds"] = "take_last"
        /\ pc' = [pc EXCEPT !["dds"] = "append"]
        /\ \A t \in Threads : t # "dds" => held'[t] = held[t]
    BY <1>6, Types DEF DdsTakeLast, MkHandle
  <2>2. held'["dds"] \in {ToMqtt(x), NullHandle}
    BY <1>6, Types DEF DdsTakeLast, MkHandle
  <2>3. T[6] \subseteq One(x)
    <3> HIDE DEF x
    <3> QED
      BY <2>2, NullNum DEF ToMqttAt, Hand, One, Num, ToMqtt, NullHandle, M
  <2>4. /\ S[7] = One(x) /\ T[7] = {}
        /\ \A l \in 1..8 : l # 7 /\ l # 6 => T[l] \subseteq S[l]
    BY <2>1, Types DEF ToMqttAt, Hand, MqttNums
  <2> HIDE DEF S, T, x
  <2>5. Advance(S, T, 6, 7, One(x))
    BY <2>3, <2>4 DEF Advance
  <2>6. 6 \in 1..8 /\ 7 \in 1..8 /\ 7 = 6 + 1
    OBVIOUS
  <2>7. Ordered(T) /\ Counted(T, offered)
    BY <1>0, <2>5, <2>6, AdvanceOrder
  <2> QED
    BY <1>0, <2>1, <2>7 DEF S, T, ToMqttOrder, MqttNums
<1>7. CASE DdsAppend
  <2>1. /\ S[6] = One(Num(h, M)) /\ T[6] = {}
        /\ S[5] = In(Nums(ddsq.items, M)) /\ T[5] = In(Nums(Push(ddsq, h).items, M))
        /\ \A l \in 1..8 : l # 6 /\ l # 5 => T[l] \subseteq S[l]
    BY <1>7, Types DEF DdsAppend, ToMqttAt, Hand, MqttNums
  <2> HIDE DEF S, T, h
  <2>0. 5 \in 1..8 /\ 6 \in 1..8 /\ 6 = 5 + 1
    OBVIOUS
  <2>2. Ordered(T) /\ Counted(T, offered) /\ Increasing(Nums(Push(ddsq, h).items, M))
    BY <1>0, <2>0, <2>1, ForwardOrder
  <2> QED
    BY <1>0, <1>7, <2>2 DEF S, T, h, DdsAppend, ToMqttOrder, MqttNums
<1>8. CASE DdsForward
  <2>1. /\ S[4] = One(Num(h, M)) /\ T[4] = {}
        /\ S[3] = In(Nums(mqttq.items, M)) /\ T[3] = In(Nums(Push(mqttq, h).items, M))
        /\ \A l \in 1..8 : l # 4 /\ l # 3 => T[l] \subseteq S[l]
    BY <1>8, Types DEF DdsForward, ToMqttAt, Hand, MqttNums
  <2> HIDE DEF S, T, h
  <2>0. 3 \in 1..8 /\ 4 \in 1..8 /\ 4 = 3 + 1
    OBVIOUS
  <2>2. Ordered(T) /\ Counted(T, offered) /\ Increasing(Nums(Push(mqttq, h).items, M))
    BY <1>0, <2>0, <2>1, ForwardOrder
  <2> QED
    BY <1>0, <1>8, <2>2 DEF S, T, h, DdsForward, ToMqttOrder, MqttNums
<1>9. CASE DdsConvertFirst \/ DdsConvertLast \/ DdsWrite
  <2>1. \A l \in 1..8 : T[l] \subseteq S[l]
    BY <1>9, Types DEF DdsConvertFirst, DdsConvertLast, DdsWrite, End, ToMqttAt, Hand, MqttNums
  <2> QED
    BY <1>0, <1>9, <2>1, ToMqttKept DEF DdsConvertFirst, DdsConvertLast, DdsWrite, End
<1> QED
  BY <1>1, <1>2, <1>3, <1>4, <1>5, <1>6, <1>7, <1>8, <1>9 DEF DdsClient

\* A sample that is offered is the newest, and replaces the one in the cache.
LEMMA NetToMqtt == ASSUME OrderInv, MqttArrives \/ SampleArrives PROVE ToMqttOrder'
<1> DEFINE S == ToMqttAt
           T == ToMqttAt'
<1> USE DEF OrderInv, queues, out
<1>1. CASE MqttArrives
  <2>1. \A l \in 1..8 : T[l] \subseteq S[l]
    BY <1>1 DEF MqttArrives, ToMqttAt, Hand, MqttNums, mem
  <2> QED
    BY <1>1, <2>1, ToMqttKept DEF MqttArrives, ToMqttOrder
<1>2. CASE SampleArrives
  <2>1. T[8] \subseteq {offered + 1} /\ \A l \in 1..7 : T[l] \subseteq S[l]
    BY <1>2 DEF SampleArrives, ToMqttAt, Hand, MqttNums, mem, One
  <2>2. Ordered(S) /\ Counted(S, offered) /\ offered \in Nat
    BY Types DEF ToMqttOrder
  <2> HIDE DEF S, T
  <2>3. Ordered(T) /\ Counted(T, offered + 1)
    BY <2>1, <2>2, EnterOrder
  <2> QED
    BY <1>2, <2>3 DEF S, T, SampleArrives, ToMqttOrder, MqttNums
<1> QED
  BY <1>1, <1>2

-----------------------------------------------------------------------------
(* samples[0] and what dds_write makes of it *)

\* Only the main thread has to do with it.
LEMMA ConvertedKept ==
    ASSUME Converted, pc'["dds"] = pc["dds"], held'["dds"] = held["dds"],
           UNCHANGED <<buf, ddsOut>>
    PROVE  Converted'
  BY DEF Converted

\* Only dds_client converts and writes.
LEMMA OthersConverted ==
    ASSUME OrderInv, RecvLoop \/ MqttLoop \/ MqttArrives \/ SampleArrives
    PROVE  Converted'
<1> USE DEF OrderInv, At, Again, Goto, Hold, queues, net, mem, out
<1>1. CASE RecvLoop
  BY <1>1, Types, ConvertedKept DEF RecvLoop, RecvPacket, RecvNothing, RecvAppend
<1>2. CASE MqttLoop
  <2>1. UNCHANGED <<buf, ddsOut>>
    BY <1>2 DEF MqttLoop, MqttCheck, MqttRecvNull, MqttRecvNothing, MqttRecvMsg, MqttAppend,
                MqttForward, MqttReadFirst, MqttPublish, End
  <2>2. pc'["dds"] = pc["dds"]
    BY <1>2, Types DEF MqttLoop, MqttCheck, MqttRecvNull, MqttRecvNothing, MqttRecvMsg,
                MqttAppend, MqttForward, MqttReadFirst, MqttPublish, End, TakeHandle
  <2>3. held'["dds"] = held["dds"]
    BY <1>2, Types DEF MqttLoop, MqttCheck, MqttRecvNull, MqttRecvNothing, MqttRecvMsg,
                MqttAppend, MqttForward, MqttReadFirst, MqttPublish, End, TakeHandle, MkHandle
  <2> QED
    BY <2>1, <2>2, <2>3, ConvertedKept
<1>3. CASE MqttArrives \/ SampleArrives
  BY <1>3, ConvertedKept DEF MqttArrives, SampleArrives
<1> QED
  BY <1>1, <1>2, <1>3

\* dds_client writes a sample that is whole and of the message it holds.
LEMMA DdsConverted == ASSUME OrderInv, DdsClient PROVE Converted'
<1> USE DEF OrderInv, At, Again, Goto, Hold, queues, net, out, mem
<1>1. ASSUME UNCHANGED ddsOut, pc'["dds"] \notin {"convert_last", "write"}
      PROVE  Converted'
  BY <1>1 DEF Converted
<1>2. ASSUME NEW how, End(how) PROVE Converted'
  BY <1>2, ConvertedKept DEF End
<1>3. CASE StartMqtt \/ AllocRmsgq \/ StartRecv \/ Subscribe \/ DdsSetup
  BY <1>1, <1>2, <1>3, Types DEF StartMqtt, AllocRmsgq, StartRecv, Subscribe, DdsSetup
<1>4. CASE DdsCheck
  BY <1>1, <1>4, Types DEF DdsCheck, TakeHandle
<1>5. CASE DdsTakeNothing \/ DdsTakeFirst \/ DdsTakeInvalid \/ DdsTakeLast
  BY <1>1, <1>5, Types DEF DdsTakeNothing, DdsTakeFirst, DdsTakeInvalid, DdsTakeLast
<1>6. CASE DdsTakeFails \/ DdsConvertNull
  BY <1>2, <1>6 DEF DdsTakeFails, DdsConvertNull
<1>7. CASE DdsAppend \/ DdsForward
  BY <1>1, <1>7, Types DEF DdsAppend, DdsForward
<1>8. CASE DdsConvertFirst \/ DdsConvertLast
  <2>1. pc["dds"] \in {"work", "convert_last"} /\ held' = held /\ ddsOut' = ddsOut
    BY <1>8 DEF DdsConvertFirst, DdsConvertLast
  <2>2. pc'["dds"] = "write" => Convertible(held["dds"].n)
    BY <1>8, Types DEF DdsConvertFirst, DdsConvertLast
  <2>3. buf'[1] = OfMqtt(held["dds"].n) /\ (pc'["dds"] = "write" => buf'[2] = OfMqtt(held["dds"].n))
    BY <1>8, Types DEF DdsConvertFirst, DdsConvertLast, Converted
  <2> QED
    BY <2>1, <2>2, <2>3 DEF Converted
<1>9. CASE DdsWrite
  <2>1. CASE End("exit")
    BY <1>2, <2>1
  <2>2. CASE ~End("exit")
    <3> DEFINE s == ddsOut
               r == ddsOut'
               n == held["dds"].n
    <3>1. /\ r = Append(s, buf) /\ pc["dds"] = "write"
          /\ pc'["dds"] = "check"
      BY <1>9, <2>2, Types DEF DdsWrite
    <3>2. Convertible(n) /\ buf[1] = OfMqtt(n) /\ buf[2] = OfMqtt(n)
      BY <3>1 DEF Converted
    <3>3. buf = Whole(OfMqtt(n)) /\ OfMqtt(n).n = n
      BY <3>2, Types DEF Whole, OfMqtt
    <3>4. \A i \in DOMAIN s : Convertible(s[i][1].n) /\ s[i] = Whole(OfMqtt(s[i][1].n))
      BY DEF Converted
    <3>5. s \in Seq([1..2 -> Contents]) /\ buf \in [1..2 -> Contents]
      BY Types DEF TypeOK, OutOK
    <3> HIDE DEF s, r, n
    <3>6. /\ DOMAIN s = 1..Len(s) /\ DOMAIN r = 1 .. Len(s) + 1 /\ Len(s) \in Nat
          /\ \A i \in 1..Len(s) : r[i] = s[i]
          /\ r[Len(s) + 1] = buf
      BY <3>1, <3>5, AppendProperties
    <3>7. ASSUME NEW i \in DOMAIN r
          PROVE  Convertible(r[i][1].n) /\ r[i] = Whole(OfMqtt(r[i][1].n))
      <4>1. CASE i \in DOMAIN s
        <5>1. r[i] = s[i]
          BY <3>6, <4>1
        <5> QED
          BY <3>4, <4>1, <5>1
      <4>2. CASE i \notin DOMAIN s
        <5>1. r[i] = buf
          BY <3>6, <4>2
        <5>2. r[i][1].n = n
          BY <3>2, <3>3, <5>1
        <5> QED
          BY <3>2, <3>3, <5>1, <5>2
      <4> QED
        BY <4>1, <4>2
    <3> QED
      BY <3>1, <3>7 DEF Converted, r
  <2> QED
    BY <2>1, <2>2
<1> QED
  BY <1>3, <1>4, <1>5, <1>6, <1>7, <1>8, <1>9 DEF DdsClient

-----------------------------------------------------------------------------
(* Every reachable state is in order *)

LEMMA InitOrder == Init => OrderInv
<1> SUFFICES ASSUME Init PROVE OrderInv
  OBVIOUS
<1> USE DEF Init
<1>1. TypeOK
  BY InitTypeOK
<1>2. HandsOK
  BY <1>1, Types DEF HandsOK, NullHandle, M
<1> DEFINE Empty(at) == \A l \in 1..8 : at[l] = {}
<1>3. \A at : Empty(at) => Ordered(at) /\ Counted(at, 0)
  BY DEF Ordered, Counted
<1>4. /\ Nums(<<>>, D) = <<>> /\ Nums(<<>>, M) = <<>>
      /\ Written(<<>>) = <<>> /\ Sampled(<<>>) = <<>>
  BY DEF Nums, Written, Sampled
<1>5. /\ ddsq.items = <<>> /\ mqttq.items = <<>> /\ rmsgq.items = <<>>
      /\ DdsNums = <<>> /\ MqttNums = <<>>
      /\ pc["dds"] = "start_mqtt" /\ pc["mqtt"] = "off" /\ pc["recv"] = "off"
  BY <1>1, <1>4, Types DEF NewQueue, DdsNums, MqttNums
<1>6. Empty(ToDdsAt) /\ Empty(ToMqttAt)
  BY <1>4, <1>5, InEmpty DEF ToDdsAt, ToMqttAt, Hand, One
<1>7. ToDdsOrder /\ ToMqttOrder
  BY <1>3, <1>4, <1>5, <1>6, InEmpty DEF ToDdsOrder, ToMqttOrder
<1>8. Converted
  BY <1>5 DEF Converted
<1> QED
  BY <1>1, <1>2, <1>7, <1>8 DEF OrderInv

\* A step that changes nothing changes no order.
LEMMA StutterOrder == ASSUME OrderInv, UNCHANGED vars PROVE OrderInv'
<1> USE DEF vars, queues, mem, net, out
<1>1. TypeOK' /\ HandsOK' /\ Converted'
  BY NextTypeOK, ConvertedKept DEF OrderInv, HandsOK
<1>2. ToDdsAt' = ToDdsAt /\ ToMqttAt' = ToMqttAt
  BY DEF ToDdsAt, ToMqttAt, Hand, DdsNums, MqttNums
<1>3. ToDdsOrder' /\ ToMqttOrder'
  BY <1>2 DEF OrderInv, ToDdsOrder, ToMqttOrder, DdsNums, MqttNums
<1> QED
  BY <1>1, <1>3 DEF OrderInv

\* The invariant is inductive.
LEMMA NextOrder == OrderInv /\ [Next]_vars => OrderInv'
<1> SUFFICES ASSUME OrderInv, [Next]_vars PROVE OrderInv'
  OBVIOUS
<1>1. CASE UNCHANGED vars
  BY <1>1, StutterOrder
<1>2. CASE Next
  <2>1. TypeOK'
    BY NextTypeOK DEF OrderInv
  <2>2. CASE Ended
    BY <2>2, StutterOrder DEF Ended
  <2>3. CASE RecvLoop
    BY <2>1, <2>3, RecvHands, RecvToDds, RecvToMqtt, OthersConverted DEF OrderInv
  <2>4. CASE MqttLoop
    BY <2>1, <2>4, MqttHands, MqttToDds, MqttToMqtt, OthersConverted DEF OrderInv
  <2>5. CASE DdsClient
    BY <2>1, <2>5, DdsHands, DdsToDds, DdsToMqtt, DdsConverted DEF OrderInv
  <2>6. CASE MqttArrives \/ SampleArrives
    <3>1. HandsOK'
      BY <2>6 DEF OrderInv, HandsOK, MqttArrives, SampleArrives
    <3> QED
      BY <2>1, <2>6, <3>1, NetToDds, NetToMqtt, OthersConverted DEF OrderInv
  <2> QED
    BY <1>2, <2>2, <2>3, <2>4, <2>5, <2>6 DEF Next
<1> QED
  BY <1>1, <1>2

\* Messages and samples are in order at every stage, in every reachable state.
THEOREM AlwaysInOrder == Spec => []OrderInv
  BY InitOrder, NextOrder, PTL DEF Spec

\* What is written to the DDS network are whole messages, each at most once
\* and in the order of the broker (mqtt_loop, dds_client).
THEOREM WrittenInOrder == Spec => []MqttToDdsInOrder
<1>1. OrderInv => MqttToDdsInOrder
  <2> SUFFICES ASSUME OrderInv, NEW i \in DOMAIN ddsOut, NEW j \in 1 .. i-1
               PROVE  ddsOut[j][1].n < ddsOut[i][1].n
    BY DEF MqttToDdsInOrder, OrderInv, Converted
  <2>1. DOMAIN ddsOut = 1..Len(ddsOut) /\ Len(ddsOut) \in Nat
    BY DEF OrderInv, TypeOK, OutOK
  <2>2. j \in DOMAIN ddsOut /\ j < i
    BY <2>1
  <2>3. Convertible(ddsOut[i][1].n) /\ Convertible(ddsOut[j][1].n)
    BY <2>2 DEF OrderInv, Converted
  <2>4. ddsOut[i][1].n # 0 /\ ddsOut[j][1].n # 0
    BY <2>3 DEF Convertible
  <2>5. Increasing(DdsNums)
    BY DEF OrderInv, ToDdsOrder
  <2> QED
    BY <2>2, <2>4, <2>5 DEF Increasing, DdsNums, Written
<1> QED
  BY <1>1, AlwaysInOrder, PTL

-----------------------------------------------------------------------------
(* Owners *)

\* How many there are of what is there at most once.
LEMMA AtMostOne ==
    ASSUME NEW A, \A x, y \in A : x = y
    PROVE  Cardinality(A) \in {0, 1} /\ (Cardinality(A) = 1 => A # {})
<1>1. CASE A = {}
  BY <1>1, FS_EmptySet
<1>2. CASE A # {}
  <2>1. PICK x : x \in A
    BY <1>2
  <2>2. A = {x}
    BY <2>1
  <2> QED
    BY <1>2, <2>2, FS_Singleton
<1> QED
  BY <1>1, <1>2

\* A number stands at most once in a sequence that increases.
LEMMA OnePlace ==
    ASSUME NEW s \in Seq(Nat), Increasing(s), NEW n \in Nat \ {0}
    PROVE  \A i, j \in DOMAIN s : s[i] = n /\ s[j] = n => i = j
<1> SUFFICES ASSUME NEW i \in DOMAIN s, NEW j \in DOMAIN s, s[i] = n, s[j] = n, i # j
             PROVE  FALSE
  OBVIOUS
<1>1. i < j \/ j < i
  OBVIOUS
<1> QED
  BY <1>1 DEF Increasing

\* A handle of a type is at most once in a queue, and then its number is there.
LEMMA HandleOnce ==
    ASSUME NEW s \in Seq(Handles), NEW type, Increasing(Nums(s, type)),
           NEW h \in Handles, h.type = type, h.n # 0
    PROVE  /\ Occurs(s, h) \in {0, 1}
           /\ Occurs(s, h) = 1 => h.n \in In(Nums(s, type))
<1> DEFINE A == {i \in DOMAIN s : s[i] = h}
           r == Nums(s, type)
<1>1. /\ r \in Seq(Nat) /\ DOMAIN r = DOMAIN s
      /\ \A i \in DOMAIN s : r[i] = Num(s[i], type)
  BY NumsType
<1>2. h.n \in Nat \ {0} /\ Num(h, type) = h.n
  BY DEF Num, Handles
<1>3. \A i \in A : i \in DOMAIN r /\ r[i] = h.n
  BY <1>1, <1>2
<1> HIDE DEF r
<1>4. \A i, j \in A : i = j
  <2>1. Increasing(r)
    BY DEF r
  <2> QED
    BY <1>1, <1>2, <1>3, <2>1, OnePlace
<1>5. A # {} => h.n \in In(r)
  BY <1>2, <1>3 DEF In
<1> HIDE DEF A
<1>6. Cardinality(A) \in {0, 1} /\ (Cardinality(A) = 1 => A # {})
  BY <1>4, AtMostOne
<1> QED
  BY <1>5, <1>6 DEF A, r, Occurs

\* No number is at two stages.
LEMMA OneStage ==
    ASSUME NEW at, NEW max \in Nat, Ordered(at), Counted(at, max),
           NEW k \in 1..8, NEW l \in 1..8, NEW n \in at[k] \cap at[l]
    PROVE  k = l
<1>1. n \in 1..max
  BY DEF Counted
<1>2. ~(k < l) /\ ~(l < k)
  BY <1>1 DEF Ordered
<1> QED
  BY <1>2

\* A message from the broker
LEMMA OneMessageOwner ==
    ASSUME OrderInv, NEW m \in 1..recvd
    PROVE  Cardinality({t \in Threads : held[t] = ToDds(m)})
             + (Occurs(ddsq.items, ToDds(m)) + Occurs(mqttq.items, ToDds(m)))
             + Occurs(rmsgq.items, m) + Occurs(ddsOut, Whole(OfMqtt(m))) <= 1
<1> DEFINE S == ToDdsAt
           h == ToDds(m)
           A == {t \in Threads : held[t] = h}
           B == {i \in DOMAIN rmsgq.items : rmsgq.items[i] = m}
           C == {i \in DOMAIN ddsOut : ddsOut[i] = Whole(OfMqtt(m))}
<1>1. /\ m \in Nat \ {0} /\ h \in Handles /\ h.type = D /\ h.n = m /\ Num(h, D) = m
      /\ recvd \in Nat
  BY Types, HandleTypes DEF OrderInv, ToDds, D, Num
<1>2. Ordered(S) /\ Counted(S, recvd)
  BY DEF OrderInv, ToDdsOrder
<1>3. \A k, l \in 1..8 : m \in S[k] /\ m \in S[l] => k = l
  <2> HIDE DEF S
  <2> QED
    BY <1>1, <1>2, OneStage
<1>4. /\ held["recv"] = h => m \in S[8]
      /\ held["mqtt"] = h => m \in S[6] \/ m \in S[4]
      /\ held["dds"] = h => m \in S[2]
  <2>1. h # NullHandle
    BY <1>1 DEF NullHandle
  <2> HIDE DEF h
  <2> QED
    BY <1>1, <2>1 DEF ToDdsAt, Hand, One, OrderInv, HandsOK, D, M
<1>5. /\ Cardinality(A) \in {0, 1}
      /\ Cardinality(A) = 1 => m \in S[2] \/ m \in S[4] \/ m \in S[6] \/ m \in S[8]
  <2>1. \A t \in A : t \in {"recv", "mqtt", "dds"} /\ held[t] = h
    BY DEF Threads
  <2> HIDE DEF S, h, A
  <2>2. \A t, u \in A : t = u
    BY <1>3, <1>4, <2>1
  <2>3. A # {} => m \in S[2] \/ m \in S[4] \/ m \in S[6] \/ m \in S[8]
    BY <1>4, <2>1
  <2> QED
    BY <2>2, <2>3, AtMostOne
<1>6. /\ Occurs(ddsq.items, h) \in {0, 1} /\ (Occurs(ddsq.items, h) = 1 => m \in S[3])
      /\ Occurs(mqttq.items, h) \in {0, 1} /\ (Occurs(mqttq.items, h) = 1 => m \in S[5])
  <2>1. ddsq.items \in Seq(Handles) /\ mqttq.items \in Seq(Handles)
    BY Types DEF OrderInv, QueueOf
  <2>2. Increasing(Nums(ddsq.items, D)) /\ Increasing(Nums(mqttq.items, D))
    BY DEF OrderInv, ToDdsOrder
  <2>3. S[3] = In(Nums(ddsq.items, D)) /\ S[5] = In(Nums(mqttq.items, D))
    BY DEF ToDdsAt
  <2> HIDE DEF S, h
  <2> QED
    BY <1>1, <2>1, <2>2, <2>3, HandleOnce
<1>7. Cardinality(B) \in {0, 1} /\ (Cardinality(B) = 1 => m \in S[7])
  <2>1. rmsgq.items \in Seq(Nat) /\ Increasing(rmsgq.items) /\ S[7] = In(rmsgq.items)
    BY Types DEF OrderInv, QueueOf, ToDdsOrder, ToDdsAt
  <2>2. \A i, j \in B : i = j
    BY <1>1, <2>1, OnePlace
  <2>3. B # {} => m \in S[7]
    BY <1>1, <2>1 DEF In
  <2> HIDE DEF S, B
  <2> QED
    BY <2>2, <2>3, AtMostOne
<1>8. Cardinality(C) \in {0, 1} /\ (Cardinality(C) = 1 => m \in S[1])
  <2>1. DdsNums \in Seq(Nat) /\ Increasing(DdsNums) /\ S[1] = In(DdsNums)
    BY WrittenType DEF OrderInv, TypeOK, OutOK, DdsNums, ToDdsOrder, ToDdsAt
  <2>2. Whole(OfMqtt(m))[1].n = m
    BY DEF Whole, OfMqtt
  <2>3. \A i \in C : i \in DOMAIN DdsNums /\ DdsNums[i] = m
    BY <2>2 DEF DdsNums, Written
  <2> HIDE DEF S, C
  <2>4. \A i, j \in C : i = j
    BY <1>1, <2>1, <2>3, OnePlace
  <2>5. C # {} => m \in S[1]
    BY <1>1, <2>1, <2>3 DEF In
  <2> QED
    BY <2>4, <2>5, AtMostOne
<1>9. Occurs(rmsgq.items, m) = Cardinality(B) /\ Occurs(ddsOut, Whole(OfMqtt(m))) = Cardinality(C)
  BY DEF Occurs
<1> HIDE DEF S, h, A, B, C
<1>10. Cardinality(A) + (Occurs(ddsq.items, h) + Occurs(mqttq.items, h))
         + Cardinality(B) + Cardinality(C) <= 1
  BY <1>3, <1>5, <1>6, <1>7, <1>8
<1> QED
  BY <1>9, <1>10 DEF A, h

\* A sample from the DDS network
LEMMA OneSampleOwner ==
    ASSUME OrderInv, NEW k \in 1..offered
    PROVE  Cardinality({t \in Threads : held[t] = ToMqtt(k)})
             + (Occurs(ddsq.items, ToMqtt(k)) + Occurs(mqttq.items, ToMqtt(k)))
             + Cardinality({i \in DOMAIN mqttOut : mqttOut[i].sample = k}) <= 1
<1> DEFINE S == ToMqttAt
           h == ToMqtt(k)
           A == {t \in Threads : held[t] = h}
           C == {i \in DOMAIN mqttOut : mqttOut[i].sample = k}
<1>1. /\ k \in Nat \ {0} /\ h \in Handles /\ h.type = M /\ h.n = k /\ Num(h, M) = k
      /\ offered \in Nat
  BY Types, HandleTypes DEF OrderInv, ToMqtt, M, Num
<1>2. Ordered(S) /\ Counted(S, offered)
  BY DEF OrderInv, ToMqttOrder
<1>3. \A i, j \in 1..8 : k \in S[i] /\ k \in S[j] => i = j
  <2> HIDE DEF S
  <2> QED
    BY <1>1, <1>2, OneStage
<1>4. /\ held["recv"] # h
      /\ held["mqtt"] = h => k \in S[2]
      /\ held["dds"] = h => k \in S[4] \/ k \in S[6]
  <2>1. h # NullHandle
    BY <1>1 DEF NullHandle
  <2> HIDE DEF h
  <2> QED
    BY <1>1, <2>1 DEF ToMqttAt, Hand, One, OrderInv, HandsOK, D, M
<1>5. /\ Cardinality(A) \in {0, 1}
      /\ Cardinality(A) = 1 => k \in S[2] \/ k \in S[4] \/ k \in S[6]
  <2>1. \A t \in A : t \in {"recv", "mqtt", "dds"} /\ held[t] = h
    BY DEF Threads
  <2> HIDE DEF S, h, A
  <2>2. \A t, u \in A : t = u
    BY <1>3, <1>4, <2>1
  <2>3. A # {} => k \in S[2] \/ k \in S[4] \/ k \in S[6]
    BY <1>4, <2>1
  <2> QED
    BY <2>2, <2>3, AtMostOne
<1>6. /\ Occurs(ddsq.items, h) \in {0, 1} /\ (Occurs(ddsq.items, h) = 1 => k \in S[5])
      /\ Occurs(mqttq.items, h) \in {0, 1} /\ (Occurs(mqttq.items, h) = 1 => k \in S[3])
  <2>1. ddsq.items \in Seq(Handles) /\ mqttq.items \in Seq(Handles)
    BY Types DEF OrderInv, QueueOf
  <2>2. Increasing(Nums(ddsq.items, M)) /\ Increasing(Nums(mqttq.items, M))
    BY DEF OrderInv, ToMqttOrder
  <2>3. S[5] = In(Nums(ddsq.items, M)) /\ S[3] = In(Nums(mqttq.items, M))
    BY DEF ToMqttAt
  <2> HIDE DEF S, h
  <2> QED
    BY <1>1, <2>1, <2>2, <2>3, HandleOnce
<1>7. Cardinality(C) \in {0, 1} /\ (Cardinality(C) = 1 => k \in S[1])
  <2>1. MqttNums \in Seq(Nat) /\ Increasing(MqttNums) /\ S[1] = In(MqttNums)
    BY SampledType DEF OrderInv, TypeOK, OutOK, MqttNums, ToMqttOrder, ToMqttAt
  <2>2. \A i \in C : i \in DOMAIN MqttNums /\ MqttNums[i] = k
    BY DEF MqttNums, Sampled
  <2> HIDE DEF S, C
  <2>3. \A i, j \in C : i = j
    BY <1>1, <2>1, <2>2, OnePlace
  <2>4. C # {} => k \in S[1]
    BY <1>1, <2>1, <2>2 DEF In
  <2> QED
    BY <2>3, <2>4, AtMostOne
<1> HIDE DEF S, h, A, C
<1>8. Cardinality(A) + (Occurs(ddsq.items, h) + Occurs(mqttq.items, h)) + Cardinality(C) <= 1
  BY <1>3, <1>5, <1>6, <1>7
<1> QED
  BY <1>8 DEF A, C, h

\* A handle is never in two hands: free(hd) in dds_client leaves no queue and
\* no thread with it.
THEOREM SingleOwner == Spec => []OneOwner
<1>1. OrderInv => OneOwner
  BY OneMessageOwner, OneSampleOwner DEF OneOwner
<1> QED
  BY <1>1, AlwaysInOrder, PTL

-----------------------------------------------------------------------------
(* samples[0] is one buffer for all samples, written by the main thread and  *)
(* read by mqtt_loop without a lock.  What is published from it may be newer *)
(* than the sample its handle was made for, and is never older.              *)

\* c is nothing of the DDS network, or at least as new as sample n.
Fresh(c, n) == c.net = "dds" => n <= c.n

\* The samples taken that are on their way to the broker or have got there.
Taking     == {n \in Nat : \E k \in 1..6 : n \in ToMqttAt[k]}

\* What samples[0] and mqtt_loop's half of it hold is a sample of the past.
Past(c)    == c.net = "dds" => c.n <= offered /\ (reader # 0 => c.n < reader)

\* No sample taken is newer than what samples[0] holds of the DDS network,
BufFresh   == \A w \in 1..2 : Past(buf[w]) /\ \A n \in Taking : Fresh(buf[w], n)

\* its first fields are overwritten before its last ones,
BufOrder   ==
    /\ buf[2].net = "dds" => Fresh(buf[1], buf[2].n)
    /\ pc["dds"] = "take_last" => buf[1] = Blank \/ buf[1].net = "dds"

\* mqtt_loop has read of it what was there,
HalfFresh  ==
    /\ Past(half)
    /\ half.net = "dds" => Fresh(buf[1], half.n)
    /\ pc["mqtt"] = "read" => Fresh(half, held["mqtt"].n)

\* and so has every payload that was published.
SentFresh  ==
    \A i \in DOMAIN mqttOut, w \in 1..2 :
        LET c == mqttOut[i].payload[w] IN
        /\ Past(c)
        /\ Fresh(c, mqttOut[i].sample)
        /\ c.net = "dds" => /\ Fresh(buf[1], c.n) /\ Fresh(buf[w], c.n)
                            /\ w = 1 => Fresh(half, c.n)

SentOrder  ==
    \A i, j \in DOMAIN mqttOut, w \in 1..2 :
        LET c == mqttOut[i].payload[w]
            d == mqttOut[j].payload[w]
        IN  j < i /\ d.net = "dds" => Fresh(c, d.n)

NewestInv  == OrderInv /\ BufFresh /\ BufOrder /\ HalfFresh /\ SentFresh /\ SentOrder

-----------------------------------------------------------------------------
(* Samples on their way *)

\* What samples[0], its half and the payloads hold.
LEMMA MemTypes ==
    ASSUME TypeOK
    PROVE  /\ \A w \in 1..2 : buf[w] \in Contents /\ buf[w].n \in Nat
           /\ buf \in [1..2 -> Contents] /\ half \in Contents /\ half.n \in Nat
           /\ offered \in Nat /\ reader \in Nat /\ reader <= offered
           /\ \A i \in DOMAIN mqttOut :
                 /\ mqttOut[i].sample \in Nat
                 /\ \A w \in 1..2 : mqttOut[i].payload[w].n \in Nat
<1>1. \A c \in Contents : c.n \in Nat
  BY DEF Contents
<1> DEFINE Ms == [sample : Nat, payload : [1..2 -> Contents]]
<1>2. \A m \in Ms : m.sample \in Nat /\ \A w \in 1..2 : m.payload[w] \in Contents
  OBVIOUS
<1>3. mqttOut \in Seq(Ms)
  BY DEF TypeOK, OutOK
<1> HIDE DEF Ms
<1>4. \A i \in DOMAIN mqttOut : mqttOut[i] \in Ms
  BY <1>3
<1> QED
  BY <1>1, <1>2, <1>4, Types DEF TypeOK, MemOK

\* When no stage gets a sample more, the samples being taken are no more either.
LEMMA TakingKept ==
    ASSUME \A l \in 1..6 : ToMqttAt'[l] \subseteq ToMqttAt[l]
    PROVE  Taking' \subseteq Taking
  BY DEF Taking

\* What goes on from one of these stages to another was there before.
LEMMA TakingMoves ==
    ASSUME NEW j \in 1..6, NEW k \in 1..6, ToMqttAt'[j] \subseteq ToMqttAt[j] \cup ToMqttAt[k],
           \A l \in 1..6 : l # j => ToMqttAt'[l] \subseteq ToMqttAt[l]
    PROVE  Taking' \subseteq Taking
  BY DEF Taking

\* mqtt_recv_loop takes no sample.
LEMMA RecvTaking == ASSUME OrderInv, RecvLoop PROVE Taking' \subseteq Taking
<1> USE DEF RecvLoop, RecvPacket, RecvNothing, RecvAppend, At, Again, Goto, Hold, queues, net,
            mem, out
<1>1. \A l \in 1..6 : ToMqttAt'[l] \subseteq ToMqttAt[l]
  BY Types DEF OrderInv, ToMqttAt, Hand, MqttNums
<1> QED
  BY <1>1, TakingKept

\* A queue has after a push what it had and the handle,
LEMMA PushIn ==
    ASSUME NEW q \in QueueOf(Handles), NEW h \in Handles, NEW type
    PROVE  In(Nums(Push(q, h).items, type)) \subseteq
                 In(Nums(q.items, type)) \cup One(Num(h, type))
<1>1. q.items \in Seq(Handles) /\ Push(q, h).items \in {q.items, Append(q.items, h)}
  BY DEF QueueOf, Push
<1>2. Nums(q.items, type) \in Seq(Nat) /\ Num(h, type) \in Nat
  BY <1>1, NumsType, NumType
<1> QED
  BY ZenonT(40), <1>1, <1>2, NumsAppend, InAppend

\* mqtt_loop takes none either.
LEMMA MqttTaking == ASSUME OrderInv, MqttLoop PROVE Taking' \subseteq Taking
<1> DEFINE S == ToMqttAt
           T == ToMqttAt'
           h == held["mqtt"]
<1> USE DEF OrderInv, At, Again, Goto, Hold, queues, net, out, mem
<1>0. /\ Increasing(Nums(mqttq.items, M)) /\ h \in Handles
      /\ ddsq \in QueueOf(Handles) /\ mqttq \in QueueOf(Handles)
  BY Types DEF ToMqttOrder
<1>1. CASE MqttCheck
  <2>1. CASE mqttq.items = <<>>
    <3>1. \A l \in 1..6 : T[l] \subseteq S[l]
      BY <1>1, <2>1, Types DEF MqttCheck, TakeHandle, ToMqttAt, Hand, MqttNums
    <3> QED
      BY <3>1, TakingKept
  <2>2. CASE mqttq.items # <<>>
    <3>1. /\ In(Nums(Pop(mqttq).items, M)) \subseteq In(Nums(mqttq.items, M))
          /\ One(Num(Head(mqttq.items), M)) \subseteq In(Nums(mqttq.items, M))
      BY <1>0, <2>2, PopOrder
    <3>2. T[2] \subseteq S[2] \cup S[3] /\ \A l \in 1..6 : l # 2 => T[l] \subseteq S[l]
      BY <1>1, <2>2, <3>1, Types DEF MqttCheck, TakeHandle, ToMqttAt, Hand, MqttNums
    <3> QED
      BY <3>2, TakingMoves
  <2> QED
    BY <2>1, <2>2
<1>2. CASE MqttRecvNull \/ MqttRecvNothing \/ MqttReadFirst
  <2>1. \A l \in 1..6 : T[l] \subseteq S[l]
    BY <1>2, Types DEF MqttRecvNull, MqttRecvNothing, MqttReadFirst, End, ToMqttAt, Hand, MqttNums
  <2> QED
    BY <2>1, TakingKept
<1>3. CASE MqttRecvMsg
  <2>1. /\ UNCHANGED <<ddsq, mqttq, mem, net, out>>
        /\ pc' = [pc EXCEPT !["mqtt"] = "append"]
        /\ \A t \in Threads : t # "mqtt" => held'[t] = held[t]
    BY <1>3, Types DEF MqttRecvMsg, MkHandle
  <2>2. \A l \in 1..6 : T[l] \subseteq S[l]
    BY <2>1, Types DEF ToMqttAt, Hand, MqttNums
  <2> QED
    BY <2>2, TakingKept
<1>4. CASE MqttAppend \/ MqttForward
  <2>1. One(Num(h, M)) = {}
    BY <1>4, NullNum DEF MqttAppend, MqttForward, HandsOK, Num, M
  <2>2. /\ In(Nums(Push(mqttq, h).items, M)) \subseteq In(Nums(mqttq.items, M))
        /\ In(Nums(Push(ddsq, h).items, M)) \subseteq In(Nums(ddsq.items, M))
    BY <1>0, <2>1, PushIn
  <2>3. \A l \in 1..6 : T[l] \subseteq S[l]
    BY <1>4, <2>2, Types DEF MqttAppend, MqttForward, ToMqttAt, Hand, MqttNums
  <2> QED
    BY <2>3, TakingKept
<1>5. CASE MqttPublish
  <2>1. /\ \A l \in 1..6 : l # 1 => T[l] \subseteq S[l]
        /\ S[2] = One(h.n) /\ S[1] = In(MqttNums) /\ T[1] = In(MqttNums')
    BY <1>0, <1>5, Types DEF MqttPublish, ToMqttAt, Hand, Num, HandsOK
  <2>2. T[1] \subseteq S[1] \cup S[2]
    <3>1. CASE UNCHANGED mqttOut
      BY <2>1, <3>1 DEF MqttNums
    <3>2. CASE mqttOut' = Append(mqttOut, [sample |-> h.n, payload |-> <<half, buf[2]>>])
      <4>1. MqttNums \in Seq(Nat) /\ MqttNums' = Append(MqttNums, h.n) /\ h.n \in Nat
        BY <1>0, <1>5, <3>2, MqttNumsAppend DEF MqttPublish, Handles
      <4> HIDE DEF S, T, h
      <4> QED
        BY <2>1, <4>1, InAppend
    <3> QED
      BY <1>5, <3>1, <3>2 DEF MqttPublish
  <2> QED
    BY <2>1, <2>2, TakingMoves
<1> QED
  BY <1>1, <1>2, <1>3, <1>4, <1>5 DEF MqttLoop

\* Only dds_take puts a new sample on its way, the one in samples[0].
LEMMA DdsTaking ==
    ASSUME OrderInv, DdsClient
    PROVE  /\ ~DdsTakeLast => Taking' \subseteq Taking
           /\ DdsTakeLast => Taking' \subseteq Taking \cup One(buf[1].n)
<1> DEFINE S == ToMqttAt
           T == ToMqttAt'
           h == held["dds"]
<1> USE DEF OrderInv, At, Again, Goto, Hold, queues, net, out, mem
<1>0. /\ Increasing(Nums(ddsq.items, M)) /\ h \in Handles
      /\ ddsq \in QueueOf(Handles) /\ mqttq \in QueueOf(Handles)
  BY Types DEF ToMqttOrder
<1>1. CASE StartMqtt \/ AllocRmsgq \/ StartRecv \/ Subscribe
  <2>1. \A l \in 1..6 : T[l] \subseteq S[l]
    BY <1>1, Types DEF StartMqtt, AllocRmsgq, StartRecv, Subscribe, ToMqttAt, Hand, MqttNums
  <2> QED
    BY <2>1, TakingKept
<1>2. CASE DdsSetup \/ DdsTakeFails \/ DdsConvertNull
  <2>1. \A l \in 1..6 : T[l] \subseteq S[l]
    BY <1>2, Types DEF DdsSetup, DdsTakeFails, DdsConvertNull, End, ToMqttAt, Hand, MqttNums
  <2> QED
    BY <2>1, TakingKept
<1>3. CASE DdsCheck
  <2>1. CASE ddsq.items = <<>>
    <3>1. \A l \in 1..6 : T[l] \subseteq S[l]
      BY <1>3, <2>1, Types DEF DdsCheck, TakeHandle, ToMqttAt, Hand, MqttNums
    <3> QED
      BY <3>1, TakingKept
  <2>2. CASE ddsq.items # <<>>
    <3>1. /\ In(Nums(Pop(ddsq).items, M)) \subseteq In(Nums(ddsq.items, M))
          /\ One(Num(Head(ddsq.items), M)) \subseteq In(Nums(ddsq.items, M))
      BY <1>0, <2>2, PopOrder
    <3>2. T[4] \subseteq S[4] \cup S[5] /\ \A l \in 1..6 : l # 4 => T[l] \subseteq S[l]
      BY <1>3, <2>2, <3>1, Types DEF DdsCheck, TakeHandle, ToMqttAt, Hand, MqttNums
    <3> QED
      BY <3>2, TakingMoves
  <2> QED
    BY <2>1, <2>2
<1>4. CASE DdsTakeNothing \/ DdsTakeFirst \/ DdsTakeInvalid
  <2>1. \A l \in 1..6 : T[l] \subseteq S[l]
    BY <1>4, Types DEF DdsTakeNothing, DdsTakeFirst, DdsTakeInvalid, ToMqttAt, Hand, MqttNums
  <2> QED
    BY <2>1, TakingKept DEF DdsTakeInvalid, DdsTakeLast
<1>5. CASE DdsTakeLast
  <2> DEFINE x == buf[1].n
  <2>1. /\ UNCHANGED <<queues, net, out>> /\ pc["dds"] = "take_last"
        /\ pc' = [pc EXCEPT !["dds"] = "append"]
        /\ \A t \in Threads : t # "dds" => held'[t] = held[t]
        /\ held'["dds"] \in {ToMqtt(x), NullHandle}
    BY <1>5, Types DEF DdsTakeLast, MkHandle
  <2>2. T[6] \subseteq One(x)
    <3> HIDE DEF x
    <3> QED
      BY <2>1, NullNum DEF ToMqttAt, Hand, One, Num, ToMqtt, NullHandle, M
  <2>3. \A l \in 1..6 : l # 6 => T[l] \subseteq S[l]
    BY <2>1, Types DEF ToMqttAt, Hand, MqttNums
  <2> HIDE DEF x
  <2>4. Taking' \subseteq Taking \cup One(x)
    BY <2>2, <2>3 DEF Taking
  <2> QED
    BY <1>5, <2>4 DEF x
<1>6. CASE DdsAppend
  <2>1. In(Nums(Push(ddsq, h).items, M)) \subseteq In(Nums(ddsq.items, M)) \cup One(Num(h, M))
    BY <1>0, PushIn
  <2>2. T[5] \subseteq S[5] \cup S[6] /\ \A l \in 1..6 : l # 5 => T[l] \subseteq S[l]
    BY <1>6, <2>1, Types DEF DdsAppend, ToMqttAt, Hand, MqttNums
  <2> QED
    BY <2>2, TakingMoves DEF DdsTakeLast, DdsAppend
<1>7. CASE DdsForward
  <2>1. In(Nums(Push(mqttq, h).items, M)) \subseteq In(Nums(mqttq.items, M)) \cup One(Num(h, M))
    BY <1>0, PushIn
  <2>2. T[3] \subseteq S[3] \cup S[4] /\ \A l \in 1..6 : l # 3 => T[l] \subseteq S[l]
    BY <1>7, <2>1, Types DEF DdsForward, ToMqttAt, Hand, MqttNums
  <2> QED
    BY <2>2, TakingMoves
<1>8. CASE DdsConvertFirst \/ DdsConvertLast \/ DdsWrite
  <2>1. \A l \in 1..6 : T[l] \subseteq S[l]
    BY <1>8, Types DEF DdsConvertFirst, DdsConvertLast, DdsWrite, End, ToMqttAt, Hand, MqttNums
  <2> QED
    BY <2>1, TakingKept
<1> QED
  BY <1>1, <1>2, <1>3, <1>4, <1>5, <1>6, <1>7, <1>8 DEF DdsClient

\* What was taken is older than what has still to be.
LEMMA TakingPast ==
    ASSUME OrderInv, NEW n \in Taking
    PROVE  /\ n \in Nat /\ n <= offered /\ (reader # 0 => n < reader)
           /\ pc["dds"] = "take_last" /\ buf[1].n # 0 => n < buf[1].n
<1>1. PICK k \in 1..6 : n \in ToMqttAt[k]
  BY DEF Taking
<1>2. n \in 1..offered /\ k \in 1..8 /\ k < 7 /\ k < 8 /\ 7 \in 1..8 /\ 8 \in 1..8
  BY <1>1 DEF OrderInv, ToMqttOrder, Counted
<1>3. \A y \in ToMqttAt[7] \cup ToMqttAt[8] : n < y
  BY <1>1, <1>2 DEF OrderInv, ToMqttOrder, Ordered
<1>4. reader # 0 => reader \in ToMqttAt[8]
  BY DEF ToMqttAt, One
<1>5. pc["dds"] = "take_last" /\ buf[1].n # 0 => buf[1].n \in ToMqttAt[7]
  BY DEF ToMqttAt, One
<1> QED
  BY <1>2, <1>3, <1>4, <1>5, Types DEF OrderInv

-----------------------------------------------------------------------------
(* Steps *)

\* A step that leaves the buffer, its half and what was published alone.
LEMMA NewestKept ==
    ASSUME NewestInv, UNCHANGED <<buf, half, mqttOut, offered, reader>>, Taking' \subseteq Taking,
           pc'["dds"] = "take_last" => pc["dds"] = "take_last",
           pc'["mqtt"] = "read" => pc["mqtt"] = "read" /\ held'["mqtt"] = held["mqtt"]
    PROVE  BufFresh' /\ BufOrder' /\ HalfFresh' /\ SentFresh' /\ SentOrder'
<1>1. BufFresh'
  BY DEF NewestInv, BufFresh, Past
<1>2. BufOrder' /\ HalfFresh'
  BY DEF NewestInv, BufOrder, HalfFresh, Past
<1>3. SentFresh' /\ SentOrder'
  BY DEF NewestInv, SentFresh, SentOrder, Past
<1> QED
  BY <1>1, <1>2, <1>3

\* mqtt_recv_loop keeps how new the buffer and what was sent are.
LEMMA RecvNewest ==
    ASSUME NewestInv, RecvLoop
    PROVE  BufFresh' /\ BufOrder' /\ HalfFresh' /\ SentFresh' /\ SentOrder'
<1> USE DEF RecvLoop, RecvPacket, RecvNothing, RecvAppend, At, Again, Goto, Hold, queues, net,
            mem, out
<1>1. /\ UNCHANGED <<buf, half, mqttOut, offered, reader>>
      /\ pc'["dds"] = pc["dds"] /\ pc'["mqtt"] = pc["mqtt"] /\ held'["mqtt"] = held["mqtt"]
  BY Types DEF NewestInv, OrderInv
<1> QED
  BY <1>1, RecvTaking, NewestKept DEF NewestInv

\* mqtt_loop reads the first fields of samples[0].
LEMMA ReadNewest ==
    ASSUME NewestInv, MqttReadFirst
    PROVE  BufFresh' /\ BufOrder' /\ HalfFresh' /\ SentFresh' /\ SentOrder'
<1> USE DEF NewestInv
<1>0. /\ half' = buf[1] /\ UNCHANGED <<buf, mqttOut, offered, reader, held>>
      /\ pc["mqtt"] = "work" /\ held["mqtt"].type = M /\ pc'["dds"] = pc["dds"]
  BY Types DEF OrderInv, MqttReadFirst, net, out, At, Goto, M
<1>1. Taking' \subseteq Taking
  BY MqttTaking DEF MqttLoop
<1>2. BufFresh' /\ BufOrder'
  BY <1>0, <1>1 DEF BufFresh, BufOrder, Past
<1>3. Fresh(buf[1], held["mqtt"].n)
  <2>1. held["mqtt"].n \in Nat /\ buf[1].n \in Nat
    BY Types, MemTypes DEF OrderInv, Handles
  <2>2. held["mqtt"].n # 0 => held["mqtt"].n \in ToMqttAt[2]
    BY <1>0 DEF ToMqttAt, Hand, One, Num
  <2>3. held["mqtt"].n # 0 => held["mqtt"].n \in Taking
    BY <2>1, <2>2 DEF Taking
  <2> QED
    BY <2>1, <2>3 DEF BufFresh, Fresh
<1>4. HalfFresh'
  BY <1>0, <1>3, MemTypes DEF OrderInv, BufFresh, HalfFresh, Past, Fresh
<1>5. SentFresh'
  BY <1>0 DEF SentFresh, Past
<1>6. SentOrder'
  BY <1>0 DEF SentOrder
<1> QED
  BY <1>2, <1>4, <1>5, <1>6

\* An element that is appended stands behind all others.
LEMMA AppendPlaces ==
    ASSUME NEW S, NEW s \in Seq(S), NEW m \in S, NEW r \in {s, Append(s, m)}
    PROVE  /\ \A i \in DOMAIN r : (i \in DOMAIN s /\ r[i] = s[i]) \/ (i \notin DOMAIN s /\ r[i] = m)
           /\ \A i \in DOMAIN r, j \in DOMAIN r : j < i => j \in DOMAIN s
<1>1. DOMAIN s = 1..Len(s) /\ Len(s) \in Nat
  OBVIOUS
<1>2. CASE r = s
  BY <1>1, <1>2
<1>3. CASE r = Append(s, m)
  <2>1. /\ DOMAIN r = 1 .. Len(s) + 1 /\ r[Len(s) + 1] = m
        /\ \A i \in 1..Len(s) : r[i] = s[i]
    BY <1>3, AppendProperties
  <2> QED
    BY <1>1, <2>1
<1> QED
  BY <1>2, <1>3

\* mqtt_loop reads the last fields and publishes them all.
LEMMA PublishNewest ==
    ASSUME NewestInv, MqttPublish
    PROVE  BufFresh' /\ BufOrder' /\ HalfFresh' /\ SentFresh' /\ SentOrder'
<1> USE DEF NewestInv
<1> DEFINE x == held["mqtt"].n
           m == [sample |-> x, payload |-> <<half, buf[2]>>]
           s == mqttOut
           r == mqttOut'
<1>0. /\ half' = Blank /\ UNCHANGED <<buf, offered, reader>> /\ pc'["dds"] = pc["dds"]
      /\ pc["mqtt"] = "read" /\ pc'["mqtt"] = "check"
      /\ r = Append(s, m) \/ r = s
  BY Types DEF OrderInv, MqttPublish, net, At, Again, Goto
<1>1. Taking' \subseteq Taking
  BY MqttTaking DEF MqttLoop
<1>2. BufFresh' /\ BufOrder' /\ HalfFresh'
  BY <1>0, <1>1 DEF BufFresh, BufOrder, HalfFresh, Past, Blank
<1>3. x \in Nat /\ buf[1].n \in Nat /\ buf[2].n \in Nat /\ half.n \in Nat
  BY Types, MemTypes DEF OrderInv, Handles
<1>4. Fresh(half, x) /\ Fresh(buf[2], x)
  <2>1. held["mqtt"].type = M
    BY <1>0 DEF OrderInv, HandsOK
  <2>2. x # 0 => x \in ToMqttAt[2]
    BY <1>0, <2>1 DEF ToMqttAt, Hand, One, Num
  <2>3. x # 0 => x \in Taking
    BY <1>3, <2>2 DEF Taking
  <2> QED
    BY <1>0, <1>3, <2>3 DEF BufFresh, HalfFresh, Fresh
<1>5. m.sample = x /\ m.payload[1] = half /\ m.payload[2] = buf[2]
  OBVIOUS
<1>6. s \in Seq([sample : Nat, payload : [1..2 -> Contents]]) /\
       <<half, buf[2]>> \in [1..2 -> Contents]
  BY MemTypes DEF OrderInv, TypeOK, OutOK
<1>7. m \in [sample : Nat, payload : [1..2 -> Contents]]
  BY <1>3, <1>6
<1> DEFINE Ms == [sample : Nat, payload : [1..2 -> Contents]]
<1> HIDE DEF x, m, s, r, Ms
<1>8. s \in Seq(Ms) /\ m \in Ms /\ r \in {s, Append(s, m)}
  BY <1>0, <1>6, <1>7 DEF Ms
<1>9. \A i \in DOMAIN r : (i \in DOMAIN s /\ r[i] = s[i]) \/ (i \notin DOMAIN s /\ r[i] = m)
  BY <1>8, AppendPlaces
<1>10. \A i \in DOMAIN r, j \in DOMAIN r : j < i => j \in DOMAIN s
  BY <1>8, AppendPlaces
<1>11. SentFresh'
  <2> SUFFICES ASSUME NEW i \in DOMAIN r, NEW w \in 1..2
               PROVE  LET c == r[i].payload[w] IN
                      /\ Past(c) /\ Fresh(c, r[i].sample)
                      /\ c.net = "dds" => Fresh(buf[1], c.n) /\ Fresh(buf[w], c.n)
    BY <1>0 DEF SentFresh, Past, Fresh, Blank, r
  <2>1. CASE i \in DOMAIN s /\ r[i] = s[i]
    BY <1>0, <2>1 DEF SentFresh, Past, s
  <2>2. CASE r[i] = m
    <3>1. CASE w = 1
      BY <1>0, <1>3, <1>4, <1>5, <2>2, <3>1 DEF HalfFresh, Past
    <3>2. CASE w = 2
      BY <1>0, <1>3, <1>4, <1>5, <2>2, <3>2 DEF BufFresh, BufOrder, Past, Fresh
    <3> QED
      BY <3>1, <3>2
  <2> QED
    BY <1>9, <2>1, <2>2
<1>12. SentOrder'
  <2> SUFFICES ASSUME NEW i \in DOMAIN r, NEW j \in DOMAIN r, NEW w \in 1..2, j < i,
                      r[j].payload[w].net = "dds"
               PROVE  Fresh(r[i].payload[w], r[j].payload[w].n)
    BY DEF SentOrder, r
  <2>1. j \in DOMAIN s /\ r[j] = s[j]
    BY <1>9, <1>10
  <2>2. CASE i \in DOMAIN s /\ r[i] = s[i]
    BY <2>1, <2>2 DEF SentOrder, s
  <2>3. CASE r[i] = m
    BY <1>5, <2>1, <2>3 DEF SentFresh, s
  <2> QED
    BY <1>9, <2>2, <2>3
<1> QED
  BY <1>2, <1>11, <1>12

\* mqtt_loop keeps it.
LEMMA MqttNewest ==
    ASSUME NewestInv, MqttLoop
    PROVE  BufFresh' /\ BufOrder' /\ HalfFresh' /\ SentFresh' /\ SentOrder'
<1>1. CASE ~MqttReadFirst /\ ~MqttPublish
  <2> USE DEF MqttLoop, MqttCheck, MqttRecvNull, MqttRecvNothing, MqttRecvMsg, MqttAppend,
              MqttForward, End, TakeHandle, At, Again, Goto, Hold, queues, net, mem, out
  <2>1. UNCHANGED <<buf, half, mqttOut, offered, reader>>
    BY <1>1
  <2>2. pc'["dds"] = pc["dds"]
    BY <1>1, Types DEF NewestInv, OrderInv
  <2>3. pc'["mqtt"] = "read" => pc["mqtt"] = "read" /\ held'["mqtt"] = held["mqtt"]
    BY <1>1, Types DEF NewestInv, OrderInv
  <2> QED
    BY <2>1, <2>2, <2>3, MqttTaking, NewestKept DEF NewestInv
<1> QED
  BY <1>1, ReadNewest, PublishNewest

\* dds_take begins to copy a sample to samples[0], or clears it.
LEMMA TakeFirstNewest ==
    ASSUME NewestInv, DdsTakeFirst
    PROVE  BufFresh' /\ BufOrder' /\ HalfFresh' /\ SentFresh' /\ SentOrder'
<1> USE DEF NewestInv
<1>0. /\ UNCHANGED <<half, mqttOut, offered, held>> /\ reader' = 0 /\ pc'["mqtt"] = pc["mqtt"]
      /\ buf'[2] = buf[2]
      /\ \/ reader = 0 /\ buf'[1] = Blank
         \/ reader # 0 /\ buf'[1] = OfDds(reader)
  BY Types, MemTypes DEF OrderInv, DdsTakeFirst, out, Goto
<1>1. Taking' \subseteq Taking
  BY DdsTaking DEF DdsClient, DdsTakeFirst, DdsTakeLast, At
<1>2. buf'[1].net # "dds" \/ (buf'[1] = OfDds(reader) /\ reader # 0)
  BY <1>0 DEF Blank
<1>3. reader \in Nat /\ offered \in Nat /\ reader <= offered /\ OfDds(reader).n = reader
  BY MemTypes DEF OrderInv, OfDds
<1>4. ASSUME NEW c, c.n \in Nat, Past(c), c.net = "dds" PROVE Fresh(buf'[1], c.n)
  BY <1>2, <1>3, <1>4 DEF Past, Fresh
<1>5. ASSUME NEW n \in Taking' PROVE Fresh(buf'[1], n) /\ Fresh(buf'[2], n)
  <2>1. n \in Taking
    BY <1>1
  <2>2. n \in Nat /\ (reader # 0 => n < reader)
    BY <2>1, TakingPast
  <2> QED
    BY <1>0, <1>2, <1>3, <2>1, <2>2 DEF BufFresh, Fresh
<1>6. BufFresh'
  BY <1>0, <1>2, <1>3, <1>5 DEF BufFresh, Past
<1>7. BufOrder'
  <2>1. buf[2].net = "dds" => Fresh(buf'[1], buf[2].n)
    BY <1>4, MemTypes DEF OrderInv, BufFresh
  <2> QED
    BY <1>0, <2>1 DEF BufOrder, OfDds
<1>8. HalfFresh'
  <2>1. half.net = "dds" => Fresh(buf'[1], half.n)
    BY <1>4, MemTypes DEF OrderInv, HalfFresh
  <2> QED
    BY <1>0, <2>1 DEF HalfFresh, Past
<1>9. SentFresh'
  <2> SUFFICES ASSUME NEW i \in DOMAIN mqttOut, NEW w \in 1..2
               PROVE  LET c == mqttOut[i].payload[w] IN
                      /\ Past(c) /\ Fresh(c, mqttOut[i].sample)
                      /\ c.net = "dds" => /\ Fresh(buf'[1], c.n) /\ Fresh(buf'[w], c.n)
                                          /\ w = 1 => Fresh(half, c.n)
    BY <1>0 DEF SentFresh, Past
  <2> DEFINE c == mqttOut[i].payload[w]
  <2>1. /\ Past(c) /\ Fresh(c, mqttOut[i].sample)
        /\ c.net = "dds" => Fresh(buf[w], c.n) /\ (w = 1 => Fresh(half, c.n))
    BY DEF SentFresh
  <2>2. c.n \in Nat
    BY MemTypes DEF OrderInv
  <2> HIDE DEF c
  <2>3. c.net = "dds" => Fresh(buf'[1], c.n)
    BY <1>4, <2>1, <2>2
  <2> QED
    BY <1>0, <2>1, <2>3 DEF c
<1>10. SentOrder'
  BY <1>0 DEF SentOrder
<1> QED
  BY <1>6, <1>7, <1>8, <1>9, <1>10

\* dds_take ends a copy.
LEMMA TakeLastNewest ==
    ASSUME NewestInv, DdsTakeLast
    PROVE  BufFresh' /\ BufOrder' /\ HalfFresh' /\ SentFresh' /\ SentOrder'
<1> USE DEF NewestInv
<1>0. /\ UNCHANGED <<half, mqttOut, offered, reader>> /\ pc'["mqtt"] = pc["mqtt"]
      /\ held'["mqtt"] = held["mqtt"] /\ pc'["dds"] = "append"
      /\ buf'[1] = buf[1] /\ buf'[2] = buf[1] /\ buf[1].net = "dds"
  BY Types, MemTypes DEF OrderInv, DdsTakeLast, MkHandle, net, out, At, Goto, BufOrder
<1>1. buf[1].n \in Nat /\ Fresh(buf[1], buf[1].n)
  BY MemTypes DEF OrderInv, Fresh
<1>2. Taking' \subseteq Taking \cup One(buf[1].n)
  BY DdsTaking DEF DdsClient
<1>3. ASSUME NEW n \in Taking' PROVE Fresh(buf[1], n)
  BY <1>1, <1>2 DEF One, BufFresh
<1>4. BufFresh'
  BY <1>0, <1>3 DEF BufFresh, Past
<1>5. BufOrder' /\ HalfFresh'
  BY <1>0, <1>1 DEF BufOrder, HalfFresh, Past
<1>6. SentFresh'
  <2> SUFFICES ASSUME NEW i \in DOMAIN mqttOut, NEW w \in 1..2
               PROVE  LET c == mqttOut[i].payload[w] IN
                      /\ Past(c) /\ Fresh(c, mqttOut[i].sample)
                      /\ c.net = "dds" => /\ Fresh(buf'[1], c.n) /\ Fresh(buf'[w], c.n)
                                          /\ w = 1 => Fresh(half, c.n)
    BY <1>0 DEF SentFresh, Past
  <2>1. buf'[w] = buf[1]
    BY <1>0
  <2> QED
    BY <1>0, <2>1 DEF SentFresh
<1>7. SentOrder'
  BY <1>0 DEF SentOrder
<1> QED
  BY <1>4, <1>5, <1>6, <1>7

\* What is not of the DDS network is written to samples[0].
LEMMA OtherNewest ==
    ASSUME NewestInv, DdsTakeInvalid \/ DdsConvertFirst \/ DdsConvertLast
    PROVE  BufFresh' /\ BufOrder' /\ HalfFresh' /\ SentFresh' /\ SentOrder'
<1> USE DEF NewestInv
<1>0. /\ UNCHANGED <<half, mqttOut, offered, reader>> /\ pc'["mqtt"] = pc["mqtt"]
      /\ held'["mqtt"] = held["mqtt"] /\ pc'["dds"] # "take_last"
      /\ \A w \in 1..2 : buf'[w] = buf[w] \/ buf'[w].net # "dds"
  BY Types, MemTypes DEF OrderInv, DdsTakeInvalid, DdsConvertFirst, DdsConvertLast, net, out, At,
                         Goto, Again, Hold, Blank, OfMqtt
<1>1. Taking' \subseteq Taking
  BY DdsTaking DEF DdsClient, DdsTakeInvalid, DdsTakeLast, DdsConvertFirst, DdsConvertLast, At
<1>2. \A w \in 1..2 : \A n : Fresh(buf[w], n) => Fresh(buf'[w], n)
  BY <1>0 DEF Fresh
<1>3. BufFresh'
  BY <1>0, <1>1, <1>2 DEF BufFresh, Past
<1>4. BufOrder'
  BY <1>0, <1>2 DEF BufOrder
<1>5. HalfFresh'
  BY <1>0, <1>2 DEF HalfFresh, Past
<1>6. SentFresh'
  BY <1>0, <1>2 DEF SentFresh, Past
<1>7. SentOrder'
  BY <1>0 DEF SentOrder
<1> QED
  BY <1>3, <1>4, <1>5, <1>6, <1>7

\* dds_client keeps it, whether it takes a sample or converts a message.
LEMMA DdsNewest ==
    ASSUME NewestInv, DdsClient
    PROVE  BufFresh' /\ BufOrder' /\ HalfFresh' /\ SentFresh' /\ SentOrder'
<1> USE DEF NewestInv
<1>1. ASSUME ~DdsTakeFirst, ~DdsTakeLast, ~DdsTakeInvalid, ~DdsConvertFirst, ~DdsConvertLast
      PROVE  BufFresh' /\ BufOrder' /\ HalfFresh' /\ SentFresh' /\ SentOrder'
  <2> USE DEF At, Again, Goto, Hold, queues, net, mem, out
  <2>0. Taking' \subseteq Taking
    BY <1>1, DdsTaking
  <2>1. CASE StartMqtt \/ AllocRmsgq \/ StartRecv \/ Subscribe
    BY <2>0, <2>1, NewestKept, Types DEF OrderInv, StartMqtt, AllocRmsgq, StartRecv, Subscribe
  <2>2. CASE DdsSetup \/ DdsTakeFails \/ DdsConvertNull \/ DdsWrite
    BY <2>0, <2>2, NewestKept, Types
    DEF OrderInv, DdsSetup, DdsTakeFails, DdsConvertNull, DdsWrite, End
  <2>3. CASE DdsCheck
    BY <2>0, <2>3, NewestKept, Types DEF OrderInv, DdsCheck, TakeHandle
  <2>4. CASE DdsTakeNothing \/ DdsAppend \/ DdsForward
    BY <2>0, <2>4, NewestKept, Types DEF OrderInv, DdsTakeNothing, DdsAppend, DdsForward
  <2> QED
    BY <1>1, <2>1, <2>2, <2>3, <2>4 DEF DdsClient
<1> QED
  BY <1>1, TakeFirstNewest, TakeLastNewest, OtherNewest

\* A sample that arrives is newer than all that is held or was sent.
LEMMA NetNewest ==
    ASSUME NewestInv, MqttArrives \/ SampleArrives
    PROVE  BufFresh' /\ BufOrder' /\ HalfFresh' /\ SentFresh' /\ SentOrder'
<1> USE DEF NewestInv
<1>0. /\ UNCHANGED <<pc, held, queues, mem, out>>
      /\ UNCHANGED <<offered, reader>> \/ (offered' = offered + 1 /\ reader' = offered + 1)
  BY DEF MqttArrives, SampleArrives
<1>1. \A l \in 1..6 : ToMqttAt'[l] \subseteq ToMqttAt[l]
  BY <1>0 DEF ToMqttAt, Hand, MqttNums, queues, mem, out
<1>2. Taking' \subseteq Taking
  BY <1>1, TakingKept
<1>3. CASE UNCHANGED <<offered, reader>>
  BY <1>0, <1>2, <1>3, NewestKept DEF mem, out
<1>4. CASE offered' = offered + 1 /\ reader' = offered + 1
  <2>1. UNCHANGED <<pc, held, buf, half, mqttOut>>
    BY <1>0 DEF mem, out
  <2> DEFINE Late(c) == c.net = "dds" => c.n <= offered' /\ (reader' # 0 => c.n < reader')
  <2>2. ASSUME NEW c, c.n \in Nat, Past(c) PROVE Late(c)
    BY <1>4, <2>2, MemTypes DEF OrderInv, Past
  <2>3. BufFresh'
    <3>1. \A w \in 1..2 : Late(buf[w])
      BY <2>2, MemTypes DEF OrderInv, BufFresh
    <3> QED
      BY <1>2, <2>1, <3>1 DEF BufFresh, Past
  <2>4. HalfFresh'
    <3>1. Late(half)
      BY <2>2, MemTypes DEF OrderInv, HalfFresh
    <3> QED
      BY <2>1, <3>1 DEF HalfFresh, Past
  <2>5. SentFresh'
    <3>1. \A i \in DOMAIN mqttOut, w \in 1..2 : Late(mqttOut[i].payload[w])
      BY <2>2, MemTypes DEF OrderInv, SentFresh
    <3> QED
      BY <2>1, <3>1 DEF SentFresh, Past
  <2> QED
    BY <2>1, <2>3, <2>4, <2>5 DEF BufOrder, SentOrder
<1> QED
  BY <1>0, <1>3, <1>4

-----------------------------------------------------------------------------

\* It holds initially.
LEMMA InitNewest == Init => NewestInv
<1> SUFFICES ASSUME Init PROVE NewestInv
  OBVIOUS
<1>0. OrderInv
  BY InitOrder
<1>1. /\ buf[1] = Blank /\ buf[2] = Blank /\ half = Blank /\ mqttOut = <<>>
      /\ pc["dds"] # "take_last" /\ pc["mqtt"] # "read"
  BY <1>0, Types DEF Init, OrderInv
<1> QED
  BY <1>0, <1>1
  DEF NewestInv, BufFresh, BufOrder, HalfFresh, SentFresh, SentOrder, Past, Fresh, Blank

\* The strengthened invariant is inductive.
LEMMA NextNewest == NewestInv /\ [Next]_vars => NewestInv'
<1> SUFFICES ASSUME NewestInv, [Next]_vars PROVE NewestInv'
  OBVIOUS
<1>1. OrderInv'
  BY NextOrder DEF NewestInv
<1>2. CASE UNCHANGED vars
  <2>1. Taking' \subseteq Taking
    BY <1>2, TakingKept DEF vars, ToMqttAt, Hand, MqttNums, queues, mem, net, out
  <2>2. UNCHANGED <<buf, half, mqttOut, offered, reader, pc, held>>
    BY <1>2 DEF vars, mem, net, out
  <2> QED
    BY <1>1, <2>1, <2>2, NewestKept DEF NewestInv
<1>3. CASE Next /\ ~UNCHANGED vars
  BY <1>1, <1>3, RecvNewest, MqttNewest, DdsNewest, NetNewest DEF Next, Ended, NewestInv
<1> QED
  BY <1>2, <1>3

\* samples[0] may be overwritten before it is published, never by something
\* older, and what is published never goes back.
THEOREM NeverOlder == Spec => []PublishedNeverOlder
<1>1. NewestInv => PublishedNeverOlder
  <2> SUFFICES ASSUME NewestInv, NEW i \in DOMAIN mqttOut, NEW w \in 1..2,
                      mqttOut[i].payload[w].net = "dds"
               PROVE  /\ mqttOut[i].payload[w].n >= mqttOut[i].sample
                      /\ \A j \in 1 .. i-1 :
                            mqttOut[j].payload[w].net = "dds" =>
                                mqttOut[j].payload[w].n <= mqttOut[i].payload[w].n
    BY DEF PublishedNeverOlder
  <2>1. mqttOut[i].payload[w].n >= mqttOut[i].sample
    BY MemTypes DEF NewestInv, OrderInv, SentFresh, Fresh
  <2>2. \A j \in 1 .. i-1 : j \in DOMAIN mqttOut /\ j < i
    BY DEF NewestInv, OrderInv, TypeOK, OutOK
  <2> QED
    BY <2>1, <2>2 DEF NewestInv, SentOrder, Fresh
<1> QED
  BY <1>1, InitNewest, NextNewest, PTL DEF Spec
-----------------------------------------------------------------------------
(* What one step does to a queue of handles and to a pair of hands *)

LEMMA PushInside ==
    ASSUME NEW q \in QueueOf(Handles), NEW h \in Handles, NEW type
    PROVE  In(Nums(Push(q, h).items, type)) \subseteq In(Nums(q.items, type)) \cup One(Num(h, type))
<1>1. q.items \in Seq(Handles)
  BY DEF QueueOf
<1>2. Push(q, h).items \in {q.items, Append(q.items, h)}
  BY DEF Push
<1>3. Nums(q.items, type) \in Seq(Nat) /\ Num(h, type) \in Nat
  BY <1>1, NumsType, NumType
<1> QED
  BY ZenonT(40), <1>1, <1>2, <1>3, NumsAppend, InAppend

\* What a queue has after a pop it had before, and the head too.
LEMMA PopInside ==
    ASSUME NEW q \in QueueOf(Handles), q.items # <<>>, NEW type
    PROVE  /\ In(Nums(Pop(q).items, type)) \subseteq In(Nums(q.items, type))
           /\ One(Num(Head(q.items), type)) \subseteq In(Nums(q.items, type))
<1>1. q.items \in Seq(Handles) /\ Pop(q).items = Tail(q.items)
  BY DEF QueueOf, Pop
<1> DEFINE n == Nums(q.items, type)
<1>2. n \in Seq(Nat) /\ n # <<>> /\ Nums(Pop(q).items, type) = Tail(n) /\
       Head(n) = Num(Head(q.items), type)
  BY <1>1, NumsType, NumsTail
<1> HIDE DEF n
<1>3. In(Tail(n)) \subseteq In(n) /\ One(Head(n)) \subseteq In(n)
  BY <1>2, InTail
<1> QED
  BY <1>2, <1>3 DEF n

\* A thread that takes no part in the step.
Rests(t) == pc'[t] = pc[t] /\ held'[t] = held[t]

\* A thread that takes no step keeps what is in its hands.
LEMMA RestingHand ==
    ASSUME NEW t, Rests(t), NEW type, NEW labels
    PROVE  Hand(t, type, labels)' = Hand(t, type, labels)
  BY DEF Rests, Hand

-----------------------------------------------------------------------------
(* From the broker to the DDS network *)

LEMMA ToDdsLoses ==
    ASSUME UNCHANGED <<recvd, ddsOut>>, InsideToDds' \subseteq InsideToDds
    PROVE  TowardsDds!Next
  BY DEF TowardsDds!Next, TowardsDds!Lose, WrittenToDds

\* A step of mqtt_recv_loop is one of the channel to DDS, or a stutter.
LEMMA RecvToDdsChannel == ASSUME OrderInv, RecvLoop PROVE TowardsDds!Next
<1> DEFINE x == held["recv"].n
<1> USE DEF OrderInv, At, Again, Goto, Hold, queues, net, out, mem
<1>1. /\ \A type, labels : /\ Hand("mqtt", type, labels)' = Hand("mqtt", type, labels)
                           /\ Hand("dds", type, labels)' = Hand("dds", type, labels)
      /\ UNCHANGED <<ddsq, mqttq, ddsOut>>
  <2>1. Rests("mqtt") /\ Rests("dds")
    BY Types DEF RecvLoop, RecvPacket, RecvNothing, RecvAppend, Rests
  <2>2. UNCHANGED <<ddsq, mqttq, ddsOut>>
    BY DEF RecvLoop, RecvPacket, RecvNothing, RecvAppend
  <2> QED
    BY <2>1, <2>2, RestingHand
<1>2. CASE RecvPacket
  <2>1. /\ recvd' = recvd + 1 /\ rmsgq' = rmsgq /\ recvd \in Nat
        /\ pc["recv"] = "recv" /\ pc'["recv"] = "append"
        /\ held'["recv"] \in {ToDds(0), ToDds(recvd + 1)}
    BY <1>2, Types DEF RecvPacket
  <2>2. /\ Hand("recv", D, {"append"}) = {}
        /\ Hand("recv", D, {"append"})' \in {{}, {recvd + 1}}
    <3>1. One(Num(ToDds(recvd + 1), D)) = {recvd + 1} /\ One(Num(ToDds(0), D)) = {}
      BY <2>1 DEF One, Num, ToDds, D
    <3> QED
      BY <2>1, <3>1 DEF Hand
  <2>3. InsideToDds' \in {InsideToDds, InsideToDds \cup {recvd'}}
    BY <1>1, <2>1, <2>2 DEF InsideToDds
  <2> QED
    BY <1>1, <2>1, <2>3 DEF TowardsDds!Next, TowardsDds!Enter, WrittenToDds
<1>3. CASE RecvNothing
  <2>1. /\ recvd' = recvd /\ rmsgq' = rmsgq
        /\ pc'["recv"] = "append" /\ held'["recv"] = ToDds(0)
    BY <1>3, Types DEF RecvNothing
  <2>2. Hand("recv", D, {"append"})' = {}
    BY <2>1 DEF Hand, One, Num, ToDds, D
  <2>3. InsideToDds' \subseteq InsideToDds
    BY <1>1, <2>1, <2>2 DEF InsideToDds
  <2> QED
    BY <1>1, <2>1, <2>3, ToDdsLoses
<1>4. CASE RecvAppend
  <2>1. /\ recvd' = recvd /\ rmsgq'.items \in {rmsgq.items, Append(rmsgq.items, x)}
        /\ pc["recv"] = "append" /\ pc'["recv"] = "recv"
        /\ rmsgq.items \in Seq(Nat) /\ x \in Nat /\ held["recv"].type = D
    BY <1>4, Types DEF RecvAppend, Push, QueueOf, Handles, HandsOK
  <2>2. In(rmsgq'.items) \subseteq In(rmsgq.items) \cup One(x)
    BY <2>1, InAppend
  <2>3. Hand("recv", D, {"append"})' = {} /\ Hand("recv", D, {"append"}) = One(x)
    BY <2>1 DEF Hand, Num
  <2>4. InsideToDds' \subseteq InsideToDds
    BY <1>1, <2>2, <2>3 DEF InsideToDds
  <2> QED
    BY <1>1, <2>1, <2>4, ToDdsLoses
<1> QED
  BY <1>2, <1>3, <1>4 DEF RecvLoop

\* So is a step of mqtt_loop.
LEMMA MqttToDdsChannel == ASSUME OrderInv, MqttLoop PROVE TowardsDds!Next
<1> DEFINE h == held["mqtt"]
           W == Hand("mqtt", D, {"work"})
           R == Hand("mqtt", D, {"append"})
<1> USE DEF OrderInv, At, Again, Goto, Hold, queues, net, out, mem
<1>0. mqttq \in QueueOf(Handles) /\ ddsq \in QueueOf(Handles) /\ h \in Handles
  BY Types
<1>1. /\ \A type, labels : /\ Hand("recv", type, labels)' = Hand("recv", type, labels)
                           /\ Hand("dds", type, labels)' = Hand("dds", type, labels)
      /\ UNCHANGED <<recvd, ddsOut>>
  <2>1. Rests("recv") /\ Rests("dds")
    <3>1. "recv" \in Threads /\ "dds" \in Threads
      BY DEF Threads
    <3> QED
      BY <3>1, Types
         DEF MqttLoop, MqttCheck, TakeHandle, MqttRecvNull, End, MqttRecvNothing, MqttRecvMsg,
           MkHandle, MqttAppend, MqttForward, MqttReadFirst, MqttPublish, Rests
  <2>2. UNCHANGED <<recvd, ddsOut>>
    BY DEF MqttLoop, MqttCheck, MqttRecvNull, End, MqttRecvNothing, MqttRecvMsg,
           MqttAppend, MqttForward, MqttReadFirst, MqttPublish
  <2> QED
    BY <2>1, <2>2, RestingHand
<1>2. ASSUME UNCHANGED <<ddsq, mqttq, rmsgq>>, W' \subseteq W, R' \subseteq R
      PROVE  InsideToDds' \subseteq InsideToDds
  BY <1>1, <1>2 DEF InsideToDds
<1>3. CASE MqttCheck
  <2>1. pc["mqtt"] = "check" /\ UNCHANGED <<ddsq, rmsgq>>
    BY <1>3 DEF MqttCheck
  <2>2. CASE mqttq.items = <<>>
    <3>1. mqttq' = mqttq /\ pc'["mqtt"] = "recv"
      BY <1>3, <2>2, Types DEF MqttCheck, TakeHandle
    <3>2. W' = {} /\ R' = {}
      BY <3>1 DEF Hand
    <3> QED
      BY <1>1, <1>2, <2>1, <3>1, <3>2, ToDdsLoses
  <2>3. CASE mqttq.items # <<>>
    <3>1. /\ mqttq' = Pop(mqttq) /\ held'["mqtt"] = Head(mqttq.items)
          /\ pc'["mqtt"] \in {"recv", "work"}
      BY <1>3, <2>3, Types DEF MqttCheck, TakeHandle
    <3>2. W' \subseteq One(Num(Head(mqttq.items), D)) /\ R' = {}
      BY <3>1 DEF Hand
    <3>3. /\ In(Nums(mqttq.items, D))' \subseteq In(Nums(mqttq.items, D))
          /\ One(Num(Head(mqttq.items), D)) \subseteq In(Nums(mqttq.items, D))
      BY <1>0, <2>3, <3>1, PopInside
    <3>4. InsideToDds' \subseteq InsideToDds
      BY <1>1, <2>1, <3>2, <3>3 DEF InsideToDds
    <3> QED
      BY <1>1, <3>4, ToDdsLoses
  <2> QED
    BY <2>2, <2>3
<1>4. CASE MqttRecvNull
  <2>1. UNCHANGED <<ddsq, mqttq, rmsgq, pc, held>>
    BY <1>4 DEF MqttRecvNull, End
  <2>2. W' = W /\ R' = R
    BY <2>1 DEF Hand
  <2> QED
    BY <1>1, <1>2, <2>1, <2>2, ToDdsLoses
<1>5. CASE MqttRecvNothing \/ MqttReadFirst \/ MqttPublish
  <2>1. UNCHANGED <<ddsq, mqttq, rmsgq>> /\ pc'["mqtt"] \in {"check", "read"}
    BY <1>5, Types DEF MqttRecvNothing, MqttReadFirst, MqttPublish
  <2>2. W' = {} /\ R' = {}
    BY <2>1 DEF Hand
  <2> QED
    BY <1>1, <1>2, <2>1, <2>2, ToDdsLoses
<1>6. CASE MqttRecvMsg
  <2> DEFINE x == Head(rmsgq.items)
  <2>1. /\ rmsgq.items # <<>> /\ rmsgq'.items = Tail(rmsgq.items) /\ UNCHANGED <<ddsq, mqttq>>
        /\ pc'["mqtt"] = "append" /\ rmsgq.items \in Seq(Nat)
    BY <1>6, Types DEF MqttRecvMsg, Pop, QueueOf
  <2>2. held'["mqtt"] \in {ToDds(x), NullHandle}
    BY <1>6, Types DEF MqttRecvMsg, MkHandle
  <2>3. In(rmsgq'.items) \subseteq In(rmsgq.items) /\ One(x) \subseteq In(rmsgq.items)
    BY <2>1, InTail
  <2>4. W' = {} /\ R' \subseteq One(x)
    <3>1. One(Num(ToDds(x), D)) = One(x) /\ One(Num(NullHandle, D)) = {}
      BY NullNum DEF Num, ToDds, D
    <3> QED
      BY <2>1, <2>2, <3>1 DEF Hand
  <2>5. InsideToDds' \subseteq InsideToDds
    BY <1>1, <2>1, <2>3, <2>4 DEF InsideToDds
  <2> QED
    BY <1>1, <2>5, ToDdsLoses
<1>7. CASE MqttAppend
  <2>1. /\ mqttq' = Push(mqttq, h) /\ UNCHANGED <<ddsq, rmsgq>>
        /\ pc["mqtt"] = "append" /\ pc'["mqtt"] = "check"
    BY <1>7, Types DEF MqttAppend
  <2>2. W' = {} /\ R' = {} /\ R = One(Num(h, D))
    BY <2>1 DEF Hand
  <2>3. In(Nums(mqttq.items, D))' \subseteq In(Nums(mqttq.items, D)) \cup One(Num(h, D))
    BY <1>0, <2>1, PushInside
  <2>4. InsideToDds' \subseteq InsideToDds
    BY <1>1, <2>1, <2>2, <2>3 DEF InsideToDds
  <2> QED
    BY <1>1, <2>4, ToDdsLoses
<1>8. CASE MqttForward
  <2>1. /\ ddsq' = Push(ddsq, h) /\ UNCHANGED <<mqttq, rmsgq>>
        /\ pc["mqtt"] = "work" /\ pc'["mqtt"] = "check"
    BY <1>8, Types DEF MqttForward
  <2>2. W' = {} /\ R' = {} /\ W = One(Num(h, D))
    BY <2>1 DEF Hand
  <2>3. In(Nums(ddsq.items, D))' \subseteq In(Nums(ddsq.items, D)) \cup One(Num(h, D))
    BY <1>0, <2>1, PushInside
  <2>4. InsideToDds' \subseteq InsideToDds
    BY <1>1, <2>1, <2>2, <2>3 DEF InsideToDds
  <2> QED
    BY <1>1, <2>4, ToDdsLoses
<1> QED
  BY <1>3, <1>4, <1>5, <1>6, <1>7, <1>8 DEF MqttLoop

\* What dds_write is given is the oldest message inside.
LEMMA WriteDelivers ==
    ASSUME OrderInv, OrderInv', pc["dds"] = "write", pc'["dds"] = "check",
           ddsOut' = Append(ddsOut, buf), UNCHANGED <<recvd, ddsq, mqttq, rmsgq>>,
           \A type, labels : /\ Hand("recv", type, labels)' = Hand("recv", type, labels)
                             /\ Hand("mqtt", type, labels)' = Hand("mqtt", type, labels)
    PROVE  \E n \in InsideToDds : TowardsDds!Deliver(n)
<1> DEFINE n == buf[1].n
           S == ToDdsAt
           C == Hand("dds", D, {"work", "convert_last", "write"})
           Rest == S[3] \cup S[4] \cup S[5] \cup S[6] \cup S[7] \cup S[8]
<1>1. n \in Nat \ {0} /\ n = held["dds"].n
  <2>1. buf[1] = OfMqtt(held["dds"].n) /\ Convertible(held["dds"].n)
    BY DEF OrderInv, Converted
  <2>2. held["dds"] \in Handles
    BY Types DEF OrderInv
  <2> QED
    BY <2>1, <2>2 DEF OfMqtt, Convertible, Handles
<1>2. C = {n} /\ C' = {}
  BY <1>1 DEF OrderInv, HandsOK, Hand, One, Num
<1>3. InsideToDds = {n} \cup Rest /\ InsideToDds' = Rest
  BY <1>2 DEF InsideToDds, ToDdsAt
<1>4. \A m \in Rest : n < m /\ m \in Nat
  <2>1. Ordered(S) /\ Counted(S, recvd) /\ n \in S[2]
    BY <1>2 DEF OrderInv, ToDdsOrder, ToDdsAt
  <2> HIDE DEF S, n
  <2>2. \A l \in 3..8 : \A m \in S[l] : n < m /\ m \in Nat
    BY <2>1 DEF Ordered, Counted
  <2>3. 3 \in 3..8 /\ 4 \in 3..8 /\ 5 \in 3..8 /\ 6 \in 3..8 /\ 7 \in 3..8 /\ 8 \in 3..8
    OBVIOUS
  <2> QED
    BY <2>2, <2>3
<1>5. WrittenToDds' = Append(WrittenToDds, n)
  <2>1. WrittenToDds = DdsNums /\ WrittenToDds' = DdsNums'
    BY DEF OrderInv, Converted, WrittenToDds, DdsNums, Written
  <2> QED
    BY <2>1, DdsNumsAppend DEF OrderInv
<1> HIDE DEF n, Rest
<1>6. n \in InsideToDds /\ (\A m \in InsideToDds : n <= m) /\ InsideToDds' = InsideToDds \ {n}
  <2>1. n \notin Rest
    BY <1>1, <1>4
  <2> QED
    BY <1>1, <1>3, <1>4, <2>1
<1> QED
  BY <1>5, <1>6 DEF TowardsDds!Deliver

\* So is a step of dds_client.
LEMMA DdsToDdsChannel == ASSUME OrderInv, OrderInv', DdsClient PROVE TowardsDds!Next
<1> DEFINE h == held["dds"]
           C == Hand("dds", D, {"work", "convert_last", "write"})
<1> USE DEF OrderInv, At, Again, Goto, Hold, queues, net, out, mem
<1>0. mqttq \in QueueOf(Handles) /\ ddsq \in QueueOf(Handles) /\ h \in Handles
  BY Types
<1>1. /\ Hand("recv", D, {"append"})' = Hand("recv", D, {"append"})
      /\ Hand("mqtt", D, {"append"})' = Hand("mqtt", D, {"append"})
      /\ Hand("mqtt", D, {"work"})' = Hand("mqtt", D, {"work"})
      /\ UNCHANGED <<recvd, rmsgq>>
  <2>1. CASE StartMqtt \/ StartRecv
    BY <2>1, Types DEF StartMqtt, StartRecv, HandsOK, Hand
  <2>2. CASE DdsClient /\ ~StartMqtt /\ ~StartRecv
    <3>1. "recv" \in Threads /\ "mqtt" \in Threads
      BY DEF Threads
    <3>2. Rests("recv") /\ Rests("mqtt")
      BY <2>2, <3>1, Types DEF DdsClient, AllocRmsgq, Subscribe, DdsSetup, DdsCheck,
         TakeHandle, DdsTakeNothing, DdsTakeFails, DdsTakeFirst, DdsTakeLast, DdsTakeInvalid,
            DdsAppend,
         DdsForward, DdsConvertNull, DdsConvertFirst, DdsConvertLast, DdsWrite, MkHandle, End, Rests
    <3>3. UNCHANGED <<recvd, rmsgq>>
      BY <2>2 DEF DdsClient, AllocRmsgq, Subscribe, DdsSetup, DdsCheck,
         DdsTakeNothing, DdsTakeFails, DdsTakeFirst, DdsTakeLast, DdsTakeInvalid, DdsAppend,
         DdsForward, DdsConvertNull, DdsConvertFirst, DdsConvertLast, DdsWrite, End
    <3> QED
      BY <3>2, <3>3, RestingHand
  <2> QED
    BY <2>1, <2>2
<1>2. ASSUME UNCHANGED <<ddsq, mqttq, ddsOut>>, C' \subseteq C PROVE TowardsDds!Next
  <2>1. InsideToDds' \subseteq InsideToDds
    BY <1>1, <1>2 DEF InsideToDds
  <2> QED
    BY <1>1, <1>2, <2>1, ToDdsLoses
<1>3. CASE \E how : End(how)
  <2>1. UNCHANGED <<ddsq, mqttq, ddsOut, pc, held>>
    BY <1>3 DEF End
  <2>2. C' = C
    BY <2>1 DEF Hand
  <2> QED
    BY <1>2, <2>1, <2>2
<1>4. CASE StartMqtt \/ AllocRmsgq \/ StartRecv \/ Subscribe \/ (DdsSetup /\ ~End("exit"))
  <2>1. UNCHANGED <<ddsq, mqttq, ddsOut>>
        /\ pc'["dds"] \in {"alloc_rmsgq", "start_recv", "subscribe", "setup", "check"}
    BY <1>4, Types DEF StartMqtt, AllocRmsgq, StartRecv, Subscribe, DdsSetup
  <2>2. C' = {}
    BY <2>1 DEF Hand
  <2> QED
    BY <1>2, <2>1, <2>2
<1>5. CASE DdsTakeNothing \/ DdsTakeFirst \/ DdsTakeInvalid \/ DdsTakeLast
  <2>1. UNCHANGED <<ddsq, mqttq, ddsOut>> /\ pc'["dds"] \in {"check", "take_last", "append"}
    BY <1>5, Types DEF DdsTakeNothing, DdsTakeFirst, DdsTakeInvalid, DdsTakeLast
  <2>2. C' = {}
    BY <2>1 DEF Hand
  <2> QED
    BY <1>2, <2>1, <2>2
<1>6. CASE DdsConvertFirst \/ DdsConvertLast
  <2>1. UNCHANGED <<ddsq, mqttq, ddsOut, held>> /\ pc["dds"] \in {"work", "convert_last"}
    BY <1>6 DEF DdsConvertFirst, DdsConvertLast
  <2>2. C' \subseteq C
    BY <2>1 DEF Hand
  <2> QED
    BY <1>2, <2>1, <2>2
<1>7. CASE DdsCheck
  <2>1. pc["dds"] = "check" /\ UNCHANGED <<mqttq, ddsOut>>
    BY <1>7 DEF DdsCheck
  <2>2. CASE ddsq.items = <<>>
    <3>1. ddsq' = ddsq /\ pc'["dds"] = "take"
      BY <1>7, <2>2, Types DEF DdsCheck, TakeHandle
    <3>2. C' = {}
      BY <3>1 DEF Hand
    <3> QED
      BY <1>2, <2>1, <3>1, <3>2
  <2>3. CASE ddsq.items # <<>>
    <3>1. /\ ddsq' = Pop(ddsq) /\ held'["dds"] = Head(ddsq.items)
          /\ pc'["dds"] \in {"take", "work"}
      BY <1>7, <2>3, Types DEF DdsCheck, TakeHandle
    <3>2. C' \subseteq One(Num(Head(ddsq.items), D))
      BY <3>1 DEF Hand
    <3>3. /\ In(Nums(ddsq.items, D))' \subseteq In(Nums(ddsq.items, D))
          /\ One(Num(Head(ddsq.items), D)) \subseteq In(Nums(ddsq.items, D))
      BY <1>0, <2>3, <3>1, PopInside
    <3>4. InsideToDds' \subseteq InsideToDds
      BY <1>1, <2>1, <3>2, <3>3 DEF InsideToDds
    <3> QED
      BY <1>1, <2>1, <3>4, ToDdsLoses
  <2> QED
    BY <2>2, <2>3
<1>8. CASE DdsAppend \/ DdsForward
  <2>1. /\ ddsq' \in {ddsq, Push(ddsq, h)} /\ mqttq' \in {mqttq, Push(mqttq, h)}
        /\ pc'["dds"] = "check" /\ ddsOut' = ddsOut
    BY <1>8, Types DEF DdsAppend, DdsForward
  <2>2. C' = {} /\ One(Num(h, D)) = {}
    BY <1>8, <2>1, NullNum DEF Hand, DdsAppend, DdsForward, HandsOK, Num, D
  <2>3. /\ In(Nums(ddsq.items, D))' \subseteq In(Nums(ddsq.items, D))
        /\ In(Nums(mqttq.items, D))' \subseteq In(Nums(mqttq.items, D))
    BY <1>0, <2>1, <2>2, PushInside
  <2>4. InsideToDds' \subseteq InsideToDds
    BY <1>1, <2>2, <2>3 DEF InsideToDds
  <2> QED
    BY <1>1, <2>1, <2>4, ToDdsLoses
<1>9. CASE DdsWrite /\ ~End("exit")
  <2>1. /\ pc["dds"] = "write" /\ pc'["dds"] = "check" /\ ddsOut' = Append(ddsOut, buf)
        /\ UNCHANGED <<recvd, ddsq, mqttq, rmsgq>>
    BY <1>9, Types DEF DdsWrite
  <2>2. Rests("recv") /\ Rests("mqtt")
    BY <1>9, Types DEF DdsWrite, Rests
  <2>3. \E n \in InsideToDds : TowardsDds!Deliver(n)
    <3> HIDE DEF OrderInv
    <3> QED
      BY <2>1, <2>2, RestingHand, WriteDelivers
  <2> QED
    BY <2>3 DEF TowardsDds!Next
<1>10. DdsSetup \/ DdsTakeFails \/ DdsConvertNull \/ DdsWrite =>
          \/ \E how : End(how)
          \/ DdsWrite /\ ~End("exit")
          \/ DdsSetup /\ ~End("exit")
  BY DEF DdsTakeFails, DdsConvertNull
<1> HIDE DEF OrderInv, At, Again, Goto, Hold, queues, net, out, mem
<1> QED
  BY <1>3, <1>4, <1>5, <1>6, <1>7, <1>8, <1>9, <1>10 DEF DdsClient

\* Steps of the networks, and of no one
LEMMA NetToDdsChannel ==
    ASSUME UNCHANGED <<pc, held, ddsq, mqttq, rmsgq, recvd, ddsOut>>
    PROVE  TowardsDds!Next
<1>1. InsideToDds' = InsideToDds
  BY DEF InsideToDds, Hand
<1> QED
  BY <1>1, ToDdsLoses

\* A message that comes from the broker is written to the DDS network once at
\* most, whole and in its turn, whatever goes the other way meanwhile.
THEOREM ToDdsIsChannel == Spec => MqttToDdsIsChannel
<1>1. Init => TowardsDds!Init
  <2> SUFFICES ASSUME Init PROVE TowardsDds!Init
    OBVIOUS
  <2>1. /\ pc["dds"] = "start_mqtt" /\ pc["mqtt"] = "off" /\ pc["recv"] = "off"
        /\ ddsq.items = <<>> /\ mqttq.items = <<>> /\ rmsgq.items = <<>>
        /\ recvd = 0 /\ ddsOut = <<>>
    BY InitTypeOK, Types DEF Init, NewQueue
  <2>2. Nums(<<>>, D) = <<>>
    BY DEF Nums
  <2>3. InsideToDds = {}
    BY <2>1, <2>2, InEmpty DEF InsideToDds, Hand
  <2> QED
    BY <2>1, <2>3 DEF TowardsDds!Init, WrittenToDds
<1>2. OrderInv /\ OrderInv' /\ [Next]_vars
        => [TowardsDds!Next]_<<recvd, InsideToDds, WrittenToDds>>
  <2> SUFFICES ASSUME OrderInv, OrderInv', [Next]_vars PROVE TowardsDds!Next
    OBVIOUS
  <2>1. CASE RecvLoop \/ MqttLoop \/ DdsClient
    BY <2>1, RecvToDdsChannel, MqttToDdsChannel, DdsToDdsChannel
  <2>2. CASE UNCHANGED <<pc, held, ddsq, mqttq, rmsgq, recvd, ddsOut>>
    BY <2>2, NetToDdsChannel
  <2> QED
    BY <2>1, <2>2 DEF Next, MqttArrives, SampleArrives, Ended, vars, queues, net, out, mem
<1> QED
  BY <1>1, <1>2, AlwaysInOrder, PTL DEF Spec, MqttToDdsIsChannel, TowardsDds!Spec
-----------------------------------------------------------------------------
(* From the DDS network to the broker.  What is published are handles, so    *)
(* the channel needs one thing more than the order: each of them was made    *)
(* for a sample, and the numbers of samples start with 1.                    *)

OfSample(h)  == h.type = M => h.n # 0

\* The same of all handles of a sequence.
OfSamples(s) == \A i \in DOMAIN s : OfSample(s[i])

\* And of every handle there is.
SampledInv ==
    /\ \A t \in Threads : OfSample(held[t])
    /\ OfSamples(ddsq.items) /\ OfSamples(mqttq.items)
    /\ pc["dds"] = "take_last" /\ buf[1] # Blank => buf[1].n # 0

\* A push of such a handle keeps a queue of them one,
LEMMA PushSamples ==
    ASSUME NEW q \in QueueOf(Handles), NEW h \in Handles, OfSamples(q.items), OfSample(h)
    PROVE  OfSamples(Push(q, h).items)
<1> DEFINE s == q.items
           r == Append(s, h)
<1>1. s \in Seq(Handles) /\ Push(q, h).items \in {s, r}
  BY DEF QueueOf, Push
<1> HIDE DEF s
<1>2. /\ DOMAIN s = 1..Len(s) /\ DOMAIN r = 1 .. Len(s) + 1 /\ Len(s) \in Nat
      /\ \A i \in 1..Len(s) : r[i] = s[i]
      /\ r[Len(s) + 1] = h
  BY <1>1, AppendProperties
<1>3. OfSamples(s)
  BY DEF s
<1> HIDE DEF r
<1>4. OfSamples(r)
  BY <1>2, <1>3 DEF OfSamples
<1> QED
  BY <1>1, <1>3, <1>4

\* and a pop gives one.
LEMMA PopSamples ==
    ASSUME NEW q \in QueueOf(Handles), OfSamples(q.items), q.items # <<>>
    PROVE  OfSamples(Pop(q).items) /\ OfSample(Head(q.items))
<1> DEFINE s == q.items
           r == Tail(s)
<1>1. s \in Seq(Handles) /\ s # <<>> /\ Pop(q).items = r
  BY DEF QueueOf, Pop
<1> HIDE DEF s
<1>2. /\ DOMAIN s = 1..Len(s) /\ DOMAIN r = 1 .. Len(s) - 1 /\ Len(s) \in Nat \ {0}
      /\ \A i \in 1 .. Len(s) - 1 : r[i] = s[i + 1]
      /\ Head(s) = s[1]
  BY <1>1, HeadTailProperties
<1>3. OfSamples(s)
  BY DEF s
<1> HIDE DEF r
<1>4. OfSamples(r) /\ OfSample(Head(s))
  BY <1>2, <1>3 DEF OfSamples
<1> QED
  BY <1>1, <1>4 DEF s

\* It says nothing of the NULL handle and of handles for DDS.
LEMMA NullOfSample == OfSample(NullHandle) /\ \A n : OfSample(ToDds(n))
  BY DEF OfSample, NullHandle, ToDds, M

\* What is left is to tell what one thread holds after its step.
LEMMA SampledKept ==
    ASSUME SampledInv, NEW me \in Threads,
           OfSample(held'[me]), \A t \in Threads : t # me => held'[t] = held[t],
           ddsq'.items = ddsq.items \/ OfSamples(ddsq'.items),
           mqttq'.items = mqttq.items \/ OfSamples(mqttq'.items),
           pc'["dds"] = "take_last" /\ buf'[1] # Blank => buf'[1].n # 0
    PROVE  SampledInv'
  BY DEF SampledInv

\* mqtt_recv_loop keeps it.
LEMMA RecvSampled == ASSUME TypeOK, SampledInv, RecvLoop PROVE SampledInv'
<1> USE DEF At, Again, Goto, Hold, queues, mem
<1>1. "recv" \in Threads /\ "dds" \in Threads /\ pc \in [Threads -> Labels] /\
         held \in [Threads -> Handles]
  BY DEF Threads, TypeOK, RunOK
<1>2. OfSample(held'["recv"])
  BY <1>1, NullOfSample DEF RecvLoop, RecvPacket, RecvNothing, RecvAppend
<1>3. /\ \A t \in Threads : t # "recv" => held'[t] = held[t]
      /\ UNCHANGED <<ddsq, mqttq, buf>> /\ pc'["dds"] = pc["dds"]
  BY <1>1 DEF RecvLoop, RecvPacket, RecvNothing, RecvAppend
<1>4. pc'["dds"] = "take_last" /\ buf'[1] # Blank => buf'[1].n # 0
  BY <1>3 DEF SampledInv
<1> QED
  BY <1>1, <1>2, <1>3, <1>4, SampledKept

\* mqtt_loop keeps it.
LEMMA MqttSampled == ASSUME TypeOK, SampledInv, MqttLoop PROVE SampledInv'
<1> USE DEF At, Again, Goto, Hold, queues, mem
<1>1. /\ "mqtt" \in Threads /\ "dds" \in Threads
      /\ pc \in [Threads -> Labels] /\ held \in [Threads -> Handles]
      /\ mqttq \in QueueOf(Handles) /\ ddsq \in QueueOf(Handles)
  BY Types DEF Threads, TypeOK, RunOK
<1>2. /\ \A t \in Threads : t # "mqtt" => held'[t] = held[t]
      /\ buf' = buf /\ pc'["dds"] = pc["dds"]
  BY <1>1 DEF MqttLoop, MqttCheck, TakeHandle, MqttRecvNull, End, MqttRecvNothing, MqttRecvMsg,
       MkHandle, MqttAppend, MqttForward, MqttReadFirst, MqttPublish
<1>3. pc'["dds"] = "take_last" /\ buf'[1] # Blank => buf'[1].n # 0
  BY <1>2 DEF SampledInv
<1>4. OfSample(held["mqtt"]) /\ OfSamples(ddsq.items) /\ OfSamples(mqttq.items)
  BY <1>1 DEF SampledInv
<1>5. CASE MqttCheck
  <2>1. CASE mqttq.items = <<>>
    <3>1. UNCHANGED <<held, ddsq, mqttq>>
      BY <1>5, <2>1 DEF MqttCheck, TakeHandle
    <3> QED
      BY <1>1, <1>2, <1>3, <1>4, <3>1, SampledKept
  <2>2. CASE mqttq.items # <<>>
    <3>1. held'["mqtt"] = Head(mqttq.items) /\ mqttq' = Pop(mqttq) /\ ddsq' = ddsq
      BY <1>1, <1>5, <2>2 DEF MqttCheck, TakeHandle
    <3>2. OfSamples(mqttq'.items) /\ OfSample(held'["mqtt"])
      BY <1>1, <1>4, <2>2, <3>1, PopSamples
    <3> QED
      BY <1>1, <1>2, <1>3, <3>1, <3>2, SampledKept
  <2> QED
    BY <2>1, <2>2
<1>6. CASE MqttRecvNull \/ MqttReadFirst
  <2>1. UNCHANGED <<held, ddsq, mqttq>>
    BY <1>6 DEF MqttRecvNull, MqttReadFirst, End
  <2> QED
    BY <1>1, <1>2, <1>3, <1>4, <2>1, SampledKept
<1>7. CASE MqttRecvNothing \/ MqttRecvMsg \/ MqttPublish
  <2>1. UNCHANGED <<ddsq, mqttq>>
    BY <1>7 DEF MqttRecvNothing, MqttRecvMsg, MqttPublish
  <2>2. held'["mqtt"] \in {NullHandle, ToDds(Head(rmsgq.items))}
    BY <1>1, <1>7 DEF MqttRecvNothing, MqttRecvMsg, MqttPublish, MkHandle
  <2>3. OfSample(held'["mqtt"])
    BY <2>2, NullOfSample
  <2> QED
    BY <1>1, <1>2, <1>3, <2>1, <2>3, SampledKept
<1>8. CASE MqttAppend \/ MqttForward
  <2>1. /\ ddsq' \in {ddsq, Push(ddsq, held["mqtt"])}
        /\ mqttq' \in {mqttq, Push(mqttq, held["mqtt"])}
        /\ held'["mqtt"] = NullHandle
    BY <1>1, <1>8 DEF MqttAppend, MqttForward
  <2>2. OfSamples(ddsq'.items) /\ OfSamples(mqttq'.items)
    BY <1>1, <1>4, <2>1, PushSamples
  <2> QED
    BY <1>1, <1>2, <1>3, <2>1, <2>2, NullOfSample, SampledKept
<1> QED
  BY <1>5, <1>6, <1>7, <1>8 DEF MqttLoop

\* dds_client keeps it: the samples it takes have numbers.
LEMMA DdsSampled == ASSUME TypeOK, SampledInv, DdsClient PROVE SampledInv'
<1> USE DEF At, Again, Goto, Hold, queues, mem
<1>1. /\ "mqtt" \in Threads /\ "dds" \in Threads
      /\ pc \in [Threads -> Labels] /\ held \in [Threads -> Handles]
      /\ mqttq \in QueueOf(Handles) /\ ddsq \in QueueOf(Handles)
      /\ buf \in [1..2 -> Contents] /\ reader \in Nat
  BY Types DEF Threads, TypeOK, RunOK, MemOK
<1>2. \A t \in Threads : t # "dds" => held'[t] = held[t]
  BY <1>1 DEF DdsClient, StartMqtt, AllocRmsgq, StartRecv, Subscribe, DdsSetup, DdsCheck,
     TakeHandle, DdsTakeNothing, DdsTakeFails, DdsTakeFirst, DdsTakeLast, DdsTakeInvalid, DdsAppend,
     DdsForward, DdsConvertNull, DdsConvertFirst, DdsConvertLast, DdsWrite, MkHandle, End
<1>3. OfSample(held["dds"]) /\ OfSamples(ddsq.items) /\ OfSamples(mqttq.items)
  BY <1>1 DEF SampledInv
<1>4. CASE \E how : End(how)
  <2>1. UNCHANGED <<pc, held, ddsq, mqttq, buf>>
    BY <1>4 DEF End
  <2> QED
    BY <2>1 DEF SampledInv
<1>5. CASE StartMqtt \/ AllocRmsgq \/ StartRecv \/ Subscribe \/ (DdsSetup /\ ~End("exit"))
            \/ DdsConvertFirst \/ DdsConvertLast
  <2>1. UNCHANGED <<held, ddsq, mqttq>> /\ pc'["dds"] # "take_last"
    BY <1>1, <1>5 DEF StartMqtt, AllocRmsgq, StartRecv, Subscribe, DdsSetup,
          DdsConvertFirst, DdsConvertLast
  <2> QED
    BY <1>1, <1>2, <1>3, <2>1, SampledKept
<1>6. CASE DdsTakeNothing \/ DdsTakeInvalid \/ (DdsWrite /\ ~End("exit"))
  <2>1. UNCHANGED <<ddsq, mqttq>> /\ pc'["dds"] = "check" /\ held'["dds"] = NullHandle
    BY <1>1, <1>6 DEF DdsTakeNothing, DdsTakeInvalid, DdsWrite
  <2> QED
    BY <1>1, <1>2, <2>1, NullOfSample, SampledKept
<1>7. CASE DdsTakeFirst
  <2>1. UNCHANGED <<held, ddsq, mqttq>> /\ buf'[1] = (IF reader = 0 THEN Blank ELSE OfDds(reader))
    BY <1>1, <1>7 DEF DdsTakeFirst
  <2>2. buf'[1] # Blank => buf'[1].n # 0
    BY <2>1 DEF OfDds
  <2> QED
    BY <1>1, <1>2, <1>3, <2>1, <2>2, SampledKept
<1>8. CASE DdsTakeLast
  <2>1. /\ UNCHANGED <<ddsq, mqttq>> /\ pc'["dds"] = "append" /\ buf[1].n # 0
        /\ held'["dds"] \in {ToMqtt(buf[1].n), NullHandle}
    BY <1>1, <1>8 DEF DdsTakeLast, MkHandle, SampledInv
  <2>2. OfSample(held'["dds"])
    BY <2>1, NullOfSample DEF OfSample, ToMqtt
  <2> QED
    BY <1>1, <1>2, <2>1, <2>2, SampledKept
<1>9. CASE DdsCheck
  <2>1. pc'["dds"] # "take_last"
    BY <1>1, <1>9 DEF DdsCheck, TakeHandle
  <2>2. CASE ddsq.items = <<>>
    <3>1. UNCHANGED <<held, ddsq, mqttq>>
      BY <1>9, <2>2 DEF DdsCheck, TakeHandle
    <3> QED
      BY <1>1, <1>2, <1>3, <2>1, <3>1, SampledKept
  <2>3. CASE ddsq.items # <<>>
    <3>1. held'["dds"] = Head(ddsq.items) /\ ddsq' = Pop(ddsq) /\ mqttq' = mqttq
      BY <1>1, <1>9, <2>3 DEF DdsCheck, TakeHandle
    <3>2. OfSamples(ddsq'.items) /\ OfSample(held'["dds"])
      BY <1>1, <1>3, <2>3, <3>1, PopSamples
    <3> QED
      BY <1>1, <1>2, <2>1, <3>1, <3>2, SampledKept
  <2> QED
    BY <2>2, <2>3
<1>10. CASE DdsAppend \/ DdsForward
  <2>1. /\ ddsq' \in {ddsq, Push(ddsq, held["dds"])} /\ mqttq' \in {mqttq, Push(mqttq, held["dds"])}
        /\ held'["dds"] = NullHandle /\ pc'["dds"] = "check"
    BY <1>1, <1>10 DEF DdsAppend, DdsForward
  <2>2. OfSamples(ddsq'.items) /\ OfSamples(mqttq'.items)
    BY <1>1, <1>3, <2>1, PushSamples
  <2> QED
    BY <1>1, <1>2, <2>1, <2>2, NullOfSample, SampledKept
<1>11. DdsSetup \/ DdsTakeFails \/ DdsConvertNull \/ DdsWrite =>
          \/ \E how : End(how)
          \/ DdsWrite /\ ~End("exit")
          \/ DdsSetup /\ ~End("exit")
  BY DEF DdsTakeFails, DdsConvertNull
<1> HIDE DEF At, Again, Goto, Hold, queues, mem
<1> QED
  BY <1>4, <1>5, <1>6, <1>7, <1>8, <1>9, <1>10, <1>11 DEF DdsClient

\* Every handle for MQTT has a sample's number, in every reachable state.
LEMMA AlwaysSampled == Spec => []SampledInv
<1>1. Init => SampledInv
  BY NullOfSample DEF Init, SampledInv, NewQueue, OfSamples, Threads
<1>2. TypeOK /\ SampledInv /\ [Next]_vars => SampledInv'
  <2> SUFFICES ASSUME TypeOK, SampledInv, [Next]_vars PROVE SampledInv'
    OBVIOUS
  <2>1. CASE RecvLoop \/ MqttLoop \/ DdsClient
    BY <2>1, RecvSampled, MqttSampled, DdsSampled
  <2>2. CASE UNCHANGED <<pc, held, ddsq, mqttq, buf>>
    BY <2>2 DEF SampledInv
  <2> QED
    BY <2>1, <2>2 DEF Next, MqttArrives, SampleArrives, Ended, vars, queues, mem
<1>3. OrderInv => TypeOK
  BY DEF OrderInv
<1> QED
  BY <1>1, <1>2, <1>3, AlwaysInOrder, PTL DEF Spec
-----------------------------------------------------------------------------
(* Every step is one of the channel's *)

LEMMA ToMqttLoses ==
    ASSUME UNCHANGED <<offered, mqttOut>>, InsideToMqtt' \subseteq InsideToMqtt
    PROVE  TowardsMqtt!Next
  BY DEF TowardsMqtt!Next, TowardsMqtt!Lose, MqttNums

\* What the steps of the other threads leave alone.
MainHand ==
    Hand("dds", M, {"work"}) \cup Hand("dds", M, {"append"})
        \cup (IF pc["dds"] = "take_last" THEN One(buf[1].n) ELSE {})

\* What is on its way to MQTT is in a queue, a hand or the reader.
LEMMA InsideByHand ==
    InsideToMqtt = Hand("mqtt", M, {"work", "read"}) \cup In(Nums(mqttq.items, M))
                     \cup In(Nums(ddsq.items, M)) \cup MainHand \cup One(reader)
  BY DEF InsideToMqtt, MainHand

\* A main thread that takes no step keeps the sample it is at.
LEMMA MainRests ==
    ASSUME Rests("dds"), UNCHANGED buf
    PROVE  MainHand' = MainHand
<1>1. \A type, labels : Hand("dds", type, labels)' = Hand("dds", type, labels)
  BY RestingHand
<1> QED
  BY <1>1 DEF MainHand, Rests

\* A step of mqtt_recv_loop is a stutter of the channel to MQTT.
LEMMA RecvToMqttChannel == ASSUME OrderInv, RecvLoop PROVE TowardsMqtt!Next
<1> USE DEF OrderInv, At, Again, Goto, Hold, queues, net, out, mem
<1>1. Rests("mqtt") /\ Rests("dds")
  BY Types DEF RecvLoop, RecvPacket, RecvNothing, RecvAppend, Rests
<1>2. UNCHANGED <<ddsq, mqttq, mqttOut, offered, reader, buf>>
  BY DEF RecvLoop, RecvPacket, RecvNothing, RecvAppend
<1>3. InsideToMqtt' = InsideToMqtt
  BY <1>1, <1>2, RestingHand DEF InsideToMqtt, Rests
<1> QED
  BY <1>2, <1>3, ToMqttLoses

\* What mqtt_publish is given is the oldest handle inside.
LEMMA PublishDelivers ==
    ASSUME OrderInv, SampledInv, pc["mqtt"] = "read", pc'["mqtt"] = "check",
           MqttNums' = Append(MqttNums, held["mqtt"].n), MainHand' = MainHand,
           UNCHANGED <<offered, reader, ddsq, mqttq>>
    PROVE  \E n \in InsideToMqtt : TowardsMqtt!Deliver(n)
<1> DEFINE n == held["mqtt"].n
           S == ToMqttAt
           C == Hand("mqtt", M, {"work", "read"})
           Rest == S[3] \cup S[4] \cup S[5] \cup S[6] \cup S[7] \cup S[8]
<1>1. n \in Nat \ {0} /\ held["mqtt"].type = M
  <2>1. held["mqtt"].type = M /\ OfSample(held["mqtt"])
    BY DEF OrderInv, HandsOK, SampledInv, Threads
  <2>2. held["mqtt"] \in Handles
    BY Types DEF OrderInv
  <2> QED
    BY <2>1, <2>2 DEF OfSample, Handles
<1>2. C = {n} /\ C' = {}
  BY <1>1 DEF Hand, One, Num
<1>3. InsideToMqtt = {n} \cup Rest /\ InsideToMqtt' = Rest
  <2>1. Rest = In(Nums(mqttq.items, M)) \cup In(Nums(ddsq.items, M)) \cup MainHand \cup One(reader)
    BY DEF ToMqttAt, MainHand
  <2>2. InsideToMqtt' = C' \cup In(Nums(mqttq'.items, M)) \cup In(Nums(ddsq'.items, M))
                          \cup MainHand' \cup One(reader')
    BY DEF InsideToMqtt, MainHand
  <2> HIDE DEF C, Rest
  <2> QED
    BY <1>2, <2>1, <2>2, InsideByHand DEF C
<1>4. \A m \in Rest : n < m /\ m \in Nat
  <2>1. Ordered(S) /\ Counted(S, offered) /\ n \in S[2]
    BY <1>2 DEF OrderInv, ToMqttOrder, ToMqttAt
  <2> HIDE DEF S, n
  <2>2. \A l \in 3..8 : \A m \in S[l] : n < m /\ m \in Nat
    BY <2>1 DEF Ordered, Counted
  <2>3. 3 \in 3..8 /\ 4 \in 3..8 /\ 5 \in 3..8 /\ 6 \in 3..8 /\ 7 \in 3..8 /\ 8 \in 3..8
    OBVIOUS
  <2> QED
    BY <2>2, <2>3
<1>5. MqttNums' = Append(MqttNums, n)
  OBVIOUS
<1> HIDE DEF n, Rest
<1>6. n \in InsideToMqtt /\ (\A m \in InsideToMqtt : n <= m) /\ InsideToMqtt' = InsideToMqtt \ {n}
  <2>1. n \notin Rest
    BY <1>1, <1>4
  <2> QED
    BY <1>1, <1>3, <1>4, <2>1
<1> QED
  BY <1>5, <1>6 DEF TowardsMqtt!Deliver

\* A step of mqtt_loop is one of its steps, or a stutter.
LEMMA MqttToMqttChannel == ASSUME OrderInv, SampledInv, MqttLoop PROVE TowardsMqtt!Next
<1> DEFINE h == held["mqtt"]
           C == Hand("mqtt", M, {"work", "read"})
<1> USE DEF OrderInv, At, Again, Goto, Hold, queues, net, out, mem
<1>0. mqttq \in QueueOf(Handles) /\ ddsq \in QueueOf(Handles) /\ h \in Handles
  BY Types
<1>1. MainHand' = MainHand /\ UNCHANGED <<offered, reader>>
  <2>1. "dds" \in Threads
    BY DEF Threads
  <2>2. Rests("dds")
    BY <2>1, Types
       DEF MqttLoop, MqttCheck, TakeHandle, MqttRecvNull, End, MqttRecvNothing, MqttRecvMsg,
           MkHandle, MqttAppend, MqttForward, MqttReadFirst, MqttPublish, Rests
  <2>3. UNCHANGED <<offered, reader, buf>>
    BY DEF MqttLoop, MqttCheck, MqttRecvNull, End, MqttRecvNothing, MqttRecvMsg,
           MqttAppend, MqttForward, MqttReadFirst, MqttPublish
  <2> QED
    BY <2>2, <2>3, MainRests
<1>2. ASSUME UNCHANGED mqttOut,
             In(Nums(mqttq.items, M))' \cup In(Nums(ddsq.items, M))' \cup C'
               \subseteq In(Nums(mqttq.items, M)) \cup In(Nums(ddsq.items, M)) \cup C
      PROVE  TowardsMqtt!Next
  <2>1. InsideToMqtt' \subseteq InsideToMqtt
    BY <1>1, <1>2 DEF InsideToMqtt, MainHand
  <2> QED
    BY <1>1, <1>2, <2>1, ToMqttLoses
<1>3. CASE MqttCheck
  <2>1. UNCHANGED <<ddsq, mqttOut>>
    BY <1>3 DEF MqttCheck
  <2>2. CASE mqttq.items = <<>>
    <3>1. mqttq' = mqttq /\ pc'["mqtt"] = "recv"
      BY <1>3, <2>2, Types DEF MqttCheck, TakeHandle
    <3>2. C' = {}
      BY <3>1 DEF Hand
    <3> QED
      BY <1>2, <2>1, <3>1, <3>2
  <2>3. CASE mqttq.items # <<>>
    <3>1. mqttq' = Pop(mqttq) /\ held'["mqtt"] = Head(mqttq.items)
      BY <1>3, <2>3, Types DEF MqttCheck, TakeHandle
    <3>2. C' \subseteq One(Num(Head(mqttq.items), M))
      BY <3>1 DEF Hand
    <3>3. /\ In(Nums(mqttq.items, M))' \subseteq In(Nums(mqttq.items, M))
          /\ One(Num(Head(mqttq.items), M)) \subseteq In(Nums(mqttq.items, M))
      BY <1>0, <2>3, <3>1, PopInside
    <3> QED
      BY <1>2, <2>1, <3>2, <3>3
  <2> QED
    BY <2>2, <2>3
<1>4. CASE MqttRecvNull
  <2>1. UNCHANGED <<ddsq, mqttq, mqttOut, pc, held>>
    BY <1>4 DEF MqttRecvNull, End
  <2>2. C' = C
    BY <2>1 DEF Hand
  <2> QED
    BY <1>2, <2>1, <2>2
<1>5. CASE MqttRecvNothing \/ MqttRecvMsg
  <2>1. UNCHANGED <<ddsq, mqttq, mqttOut>> /\ pc'["mqtt"] \in {"check", "append"}
    BY <1>5, Types DEF MqttRecvNothing, MqttRecvMsg
  <2>2. C' = {}
    BY <2>1 DEF Hand
  <2> QED
    BY <1>2, <2>1, <2>2
<1>6. CASE MqttAppend \/ MqttForward
  <2>1. /\ mqttq' \in {mqttq, Push(mqttq, h)} /\ ddsq' \in {ddsq, Push(ddsq, h)}
        /\ mqttOut' = mqttOut /\ pc'["mqtt"] = "check"
    BY <1>6, Types DEF MqttAppend, MqttForward
  <2>2. C' = {} /\ One(Num(h, M)) = {}
    BY <1>6, <2>1, NullNum DEF Hand, MqttAppend, MqttForward, HandsOK, Num, M
  <2>3. /\ In(Nums(ddsq.items, M))' \subseteq In(Nums(ddsq.items, M))
        /\ In(Nums(mqttq.items, M))' \subseteq In(Nums(mqttq.items, M))
    BY <1>0, <2>1, <2>2, PushInside
  <2> QED
    BY <1>2, <2>1, <2>2, <2>3
<1>7. CASE MqttReadFirst
  <2>1. UNCHANGED <<ddsq, mqttq, mqttOut, held>> /\ pc["mqtt"] = "work"
    BY <1>7 DEF MqttReadFirst
  <2>2. C' \subseteq C
    BY <2>1 DEF Hand
  <2> QED
    BY <1>2, <2>1, <2>2
<1>8. CASE MqttPublish
  <2>1. pc["mqtt"] = "read" /\ pc'["mqtt"] = "check" /\ UNCHANGED <<ddsq, mqttq>>
    BY <1>8, Types DEF MqttPublish
  <2>2. CASE UNCHANGED mqttOut
    <3>1. C' = {}
      BY <2>1 DEF Hand
    <3> QED
      BY <1>2, <2>1, <2>2, <3>1
  <2>3. CASE mqttOut' = Append(mqttOut, [sample  |-> h.n, payload |-> <<half, buf[2]>>])
    <3>1. MqttNums' = Append(MqttNums, h.n)
      BY <1>8, <2>3, MqttNumsAppend DEF MqttPublish
    <3>2. \E n \in InsideToMqtt : TowardsMqtt!Deliver(n)
      <4> HIDE DEF OrderInv
      <4> QED
        BY <1>1, <2>1, <3>1, PublishDelivers
    <3> QED
      BY <3>2 DEF TowardsMqtt!Next
  <2> QED
    BY <1>8, <2>2, <2>3 DEF MqttPublish
<1> QED
  BY <1>3, <1>4, <1>5, <1>6, <1>7, <1>8 DEF MqttLoop

\* So is a step of dds_client.
LEMMA DdsToMqttChannel == ASSUME OrderInv, DdsClient PROVE TowardsMqtt!Next
<1> DEFINE h == held["dds"]
           C == MainHand
           Q == In(Nums(mqttq.items, M)) \cup In(Nums(ddsq.items, M))
<1> USE DEF OrderInv, At, Again, Goto, Hold, queues, net, out, mem
<1>0. /\ mqttq \in QueueOf(Handles) /\ ddsq \in QueueOf(Handles) /\ h \in Handles
      /\ buf \in [1..2 -> Contents]
  BY Types DEF TypeOK, MemOK
<1>1. /\ Hand("mqtt", M, {"work", "read"})' = Hand("mqtt", M, {"work", "read"})
      /\ UNCHANGED <<offered, mqttOut>>
  <2>1. CASE StartMqtt
    BY <2>1, Types DEF StartMqtt, HandsOK, Hand
  <2>2. CASE DdsClient /\ ~StartMqtt
    <3>1. "mqtt" \in Threads
      BY DEF Threads
    <3>2. Rests("mqtt")
      BY <2>2, <3>1, Types DEF DdsClient, AllocRmsgq, StartRecv, Subscribe, DdsSetup, DdsCheck,
         TakeHandle, DdsTakeNothing, DdsTakeFails, DdsTakeFirst, DdsTakeLast, DdsTakeInvalid,
            DdsAppend,
         DdsForward, DdsConvertNull, DdsConvertFirst, DdsConvertLast, DdsWrite, MkHandle, End, Rests
    <3>3. UNCHANGED <<offered, mqttOut>>
      BY <2>2 DEF DdsClient, AllocRmsgq, StartRecv, Subscribe, DdsSetup, DdsCheck,
         DdsTakeNothing, DdsTakeFails, DdsTakeFirst, DdsTakeLast, DdsTakeInvalid, DdsAppend,
         DdsForward, DdsConvertNull, DdsConvertFirst, DdsConvertLast, DdsWrite, End
    <3> QED
      BY <3>2, <3>3, RestingHand
  <2> QED
    BY <2>1, <2>2
<1>2. ASSUME (Q \cup C \cup One(reader))' \subseteq Q \cup C \cup One(reader)
      PROVE  TowardsMqtt!Next
  <2>1. InsideToMqtt' \subseteq InsideToMqtt
    BY <1>1, <1>2 DEF InsideToMqtt, MainHand
  <2> QED
    BY <1>1, <2>1, ToMqttLoses
<1>3. CASE \E how : End(how)
  <2>1. UNCHANGED <<ddsq, mqttq, reader, buf, pc, held>>
    BY <1>3 DEF End
  <2>2. C' = C
    BY <2>1 DEF MainHand, Hand
  <2> QED
    BY <1>2, <2>1, <2>2
<1>4. CASE StartMqtt \/ AllocRmsgq \/ StartRecv \/ Subscribe \/ (DdsSetup /\ ~End("exit"))
             \/ DdsTakeNothing \/ DdsTakeInvalid \/ DdsConvertFirst \/ DdsConvertLast
             \/ (DdsWrite /\ ~End("exit"))
  <2>1. /\ UNCHANGED <<ddsq, mqttq, reader>>
        /\ pc'["dds"] \in {"alloc_rmsgq", "start_recv", "subscribe", "setup", "check",
                           "convert_last", "write"}
    BY <1>4, Types DEF StartMqtt, AllocRmsgq, StartRecv, Subscribe, DdsSetup, DdsTakeNothing,
       DdsTakeInvalid, DdsConvertFirst, DdsConvertLast, DdsWrite
  <2>2. C' = {}
    BY <2>1 DEF MainHand, Hand
  <2> QED
    BY <1>2, <2>1, <2>2
<1>5. CASE DdsTakeFirst
  <2>1. /\ UNCHANGED <<ddsq, mqttq>> /\ pc'["dds"] = "take_last" /\ reader' = 0
        /\ buf'[1].n = reader
    BY <1>0, <1>5, Types DEF DdsTakeFirst, Blank, OfDds
  <2>2. C' = One(reader) /\ One(reader') = {}
    BY <2>1 DEF MainHand, Hand, One
  <2> QED
    BY <1>2, <2>1, <2>2
<1>6. CASE DdsTakeLast
  <2> DEFINE x == buf[1].n
  <2>1. /\ UNCHANGED <<ddsq, mqttq, reader>> /\ pc["dds"] = "take_last" /\ pc'["dds"] = "append"
        /\ held'["dds"] \in {ToMqtt(x), NullHandle}
    BY <1>6, Types DEF DdsTakeLast, MkHandle
  <2>2. One(Num(held'["dds"], M)) \subseteq One(x)
    <3> HIDE DEF x
    <3> QED
      BY <2>1, NullNum DEF Num, ToMqtt, M
  <2>3. C' \subseteq One(x) /\ One(x) \subseteq C
    BY <2>1, <2>2 DEF MainHand, Hand
  <2> QED
    BY <1>2, <2>1, <2>3
<1>7. CASE DdsCheck
  <2>1. pc["dds"] = "check" /\ UNCHANGED <<mqttq, reader>>
    BY <1>7 DEF DdsCheck
  <2>2. CASE ddsq.items = <<>>
    <3>1. ddsq' = ddsq /\ pc'["dds"] = "take"
      BY <1>7, <2>2, Types DEF DdsCheck, TakeHandle
    <3>2. C' = {}
      BY <3>1 DEF MainHand, Hand
    <3> QED
      BY <1>2, <2>1, <3>1, <3>2
  <2>3. CASE ddsq.items # <<>>
    <3>1. /\ ddsq' = Pop(ddsq) /\ held'["dds"] = Head(ddsq.items)
          /\ pc'["dds"] \in {"take", "work"}
      BY <1>7, <2>3, Types DEF DdsCheck, TakeHandle
    <3>2. C' \subseteq One(Num(Head(ddsq.items), M))
      BY <3>1 DEF MainHand, Hand
    <3>3. /\ In(Nums(ddsq.items, M))' \subseteq In(Nums(ddsq.items, M))
          /\ One(Num(Head(ddsq.items), M)) \subseteq In(Nums(ddsq.items, M))
      BY <1>0, <2>3, <3>1, PopInside
    <3> QED
      BY <1>2, <2>1, <3>2, <3>3
  <2> QED
    BY <2>2, <2>3
<1>8. CASE DdsAppend \/ DdsForward
  <2>1. /\ ddsq' \in {ddsq, Push(ddsq, h)} /\ mqttq' \in {mqttq, Push(mqttq, h)}
        /\ pc["dds"] \in {"append", "work"} /\ pc'["dds"] = "check" /\ reader' = reader
    BY <1>8, Types DEF DdsAppend, DdsForward
  <2>2. C' = {} /\ One(Num(h, M)) \subseteq C
    BY <2>1 DEF MainHand, Hand
  <2>3. /\ In(Nums(ddsq.items, M))' \subseteq In(Nums(ddsq.items, M)) \cup One(Num(h, M))
        /\ In(Nums(mqttq.items, M))' \subseteq In(Nums(mqttq.items, M)) \cup One(Num(h, M))
    BY <1>0, <2>1, PushInside
  <2> QED
    BY <1>2, <2>1, <2>2, <2>3
<1>9. DdsSetup \/ DdsTakeFails \/ DdsConvertNull \/ DdsWrite =>
          \/ \E how : End(how)
          \/ DdsWrite /\ ~End("exit")
          \/ DdsSetup /\ ~End("exit")
  BY DEF DdsTakeFails, DdsConvertNull
<1> HIDE DEF OrderInv, At, Again, Goto, Hold, queues, net, out, mem
<1> QED
  BY <1>3, <1>4, <1>5, <1>6, <1>7, <1>8, <1>9 DEF DdsClient

\* A new sample enters; one that is still in the reader's cache, which is the
\* newest inside, gives way to it.
LEMMA SampleEnters == ASSUME OrderInv, SampleArrives PROVE TowardsMqtt!Next
<1> DEFINE S == ToMqttAt
           Rest == S[2] \cup S[3] \cup S[4] \cup S[5] \cup S[6] \cup S[7]
<1>1. /\ offered' = offered + 1 /\ reader' = offered + 1 /\ offered \in Nat /\ reader \in Nat
      /\ UNCHANGED <<pc, held, ddsq, mqttq, buf, mqttOut>>
  BY Types DEF OrderInv, SampleArrives, queues, mem, out
<1>2. InsideToMqtt = Rest \cup S[8] /\ InsideToMqtt' = Rest \cup {offered'} /\ S[8] = One(reader)
  <2>1. One(offered + 1) = {offered + 1}
    BY <1>1 DEF One
  <2> QED
    BY <1>1, <2>1 DEF InsideToMqtt, ToMqttAt, Hand
<1>3. Ordered(S) /\ Counted(S, offered)
  BY DEF OrderInv, ToMqttOrder
<1> HIDE DEF S
<1>4. ASSUME reader # 0
      PROVE  \A m \in Rest : m \in Nat /\ m < reader
  <2>1. reader \in S[8]
    BY <1>2, <1>4 DEF One
  <2>2. \A l \in 2..7 : \A m \in S[l] : m \in Nat /\ m < reader
    BY <1>3, <2>1 DEF Ordered, Counted
  <2>3. 2 \in 2..7 /\ 3 \in 2..7 /\ 4 \in 2..7 /\ 5 \in 2..7 /\ 6 \in 2..7 /\ 7 \in 2..7
    OBVIOUS
  <2> QED
    BY <2>2, <2>3
<1> HIDE DEF Rest
<1>5. InsideToMqtt' \in {InsideToMqtt \cup {offered'},
                         (InsideToMqtt \ TowardsMqtt!Newest) \cup {offered'}}
  <2>1. CASE reader = 0
    BY <1>2, <2>1 DEF One
  <2>2. CASE reader # 0
    <3>1. InsideToMqtt = Rest \cup {reader} /\ reader \notin Rest
      BY <1>1, <1>2, <1>4, <2>2 DEF One
    <3>2. TowardsMqtt!Newest = {reader}
      BY <1>1, <1>4, <2>2, <3>1 DEF TowardsMqtt!Newest
    <3>3. InsideToMqtt \ {reader} = Rest
      BY <3>1
    <3> QED
      BY <1>2, <3>2, <3>3
  <2> QED
    BY <2>1, <2>2
<1> QED
  BY <1>1, <1>5 DEF TowardsMqtt!Next, TowardsMqtt!Enter, MqttNums

\* The handle of a sample that comes from the DDS network is published once at
\* most and in its turn, whatever goes the other way meanwhile.
THEOREM ToMqttIsChannel == Spec => DdsToMqttIsChannel
<1>1. Init => TowardsMqtt!Init
  <2> SUFFICES ASSUME Init PROVE TowardsMqtt!Init
    OBVIOUS
  <2>1. /\ pc["dds"] = "start_mqtt" /\ pc["mqtt"] = "off"
        /\ ddsq.items = <<>> /\ mqttq.items = <<>>
        /\ offered = 0 /\ reader = 0 /\ mqttOut = <<>>
    BY InitTypeOK, Types DEF Init, NewQueue
  <2>2. Nums(<<>>, M) = <<>> /\ Sampled(<<>>) = <<>> /\ One(0) = {}
    BY DEF Nums, Sampled, One
  <2>3. InsideToMqtt = {} /\ MqttNums = <<>>
    BY <2>1, <2>2, InEmpty DEF InsideToMqtt, Hand, MqttNums
  <2> QED
    BY <2>1, <2>3 DEF TowardsMqtt!Init
<1>2. OrderInv /\ SampledInv /\ [Next]_vars
        => [TowardsMqtt!Next]_<<offered, InsideToMqtt, MqttNums>>
  <2> SUFFICES ASSUME OrderInv, SampledInv, [Next]_vars PROVE TowardsMqtt!Next
    OBVIOUS
  <2>1. CASE RecvLoop \/ MqttLoop \/ DdsClient \/ SampleArrives
    BY <2>1, RecvToMqttChannel, MqttToMqttChannel, DdsToMqttChannel, SampleEnters
  <2>2. CASE UNCHANGED <<pc, held, ddsq, mqttq, buf, offered, reader, mqttOut>>
    <3>1. InsideToMqtt' = InsideToMqtt
      BY <2>2 DEF InsideToMqtt, Hand
    <3> QED
      BY <2>2, <3>1, ToMqttLoses
  <2> QED
    BY <2>1, <2>2 DEF Next, MqttArrives, Ended, vars, queues, net, out, mem
<1> QED
  BY <1>1, <1>2, AlwaysInOrder, AlwaysSampled, PTL DEF Spec, DdsToMqttIsChannel, TowardsMqtt!Spec

-----------------------------------------------------------------------------
(* Nothing is lost between two messages: as long as malloc does not fail,    *)
(* what the proxy writes to the DDS network are the first packets received.  *)
(* A queue that overflows loses everything after its last slot, and a NULL   *)
(* message ends the process at its conversion, so whatever still comes       *)
(* through to dds_write has everything before it there already.              *)

-----------------------------------------------------------------------------
(* What a gap is.  z stands for a NULL message.                              *)

DdsNum == [h \in Handles |-> Num(h, D)]     \* the message of a handle
MsgNum == [n \in Nat |-> n]

\* The places of a queue with no NULL message ahead of them
Ahead(s, z) == {i \in DOMAIN s : \A j \in 1 .. i-1 : s[j] # z}

Leading(s, f, z) == {f[s[i]] : i \in Ahead(s, z)} \ {0}

\* Nothing that comes to the queue now can leave it and reach dds_write.
Blocked(q, z) == ~Accepts(q) \/ \E i \in DOMAIN q.items : q.items[i] = z

Stuck(t, labels) == pc[t] \in labels /\ held[t] = ToDds(0)

\* For every stage of ToDdsAt the messages that nothing there holds up,
ToDdsLeading == <<
    {}, ToDdsAt[2], Leading(ddsq.items, DdsNum, ToDds(0)),
    ToDdsAt[4], Leading(mqttq.items, DdsNum, ToDds(0)),
    ToDdsAt[6], Leading(rmsgq.items, MsgNum, 0), ToDdsAt[8] >>

\* and the stages that hold up what is behind them.
ToDdsShut == {l \in 1..8 :
    \/ l = 2 /\ Stuck("dds", {"work", "convert_last", "write"})
    \/ l = 3 /\ Blocked(ddsq, ToDds(0))
    \/ l = 4 /\ Stuck("mqtt", {"work"})
    \/ l = 5 /\ Blocked(mqttq, ToDds(0))
    \/ l = 6 /\ Stuck("mqtt", {"append"})
    \/ l = 7 /\ Blocked(rmsgq, 0)
    \/ l = 8 /\ Stuck("recv", {"append"})}

\* All that has reached stage k or a later one, or was written.
UpTo(at, k) == UNION {at[l] : l \in 1..k}

\* No stage between k and the writing is shut.
Clear(shut, k) == \A l \in 1..8 : l < k => l \notin shut

\* Whatever can still reach dds_write has everything older ahead of it, or
\* beside it.
Gapless(at, leading, shut, max) ==
    /\ \A k \in 1..8 : Clear(shut, k) => \A n \in leading[k] : 1 .. n-1 \subseteq UpTo(at, k)
    /\ Clear(shut, 9) => 1..max \subseteq UpTo(at, 8)

\* The vector for received messages exists when there are any.
Ready == pc["dds"] \notin {"start_mqtt", "alloc_rmsgq"} => rmsgqReady

\* Gapless, of the present state.
GapNow == Gapless(ToDdsAt, ToDdsLeading, ToDdsShut, recvd)

\* What is written is numbered from 1, without a gap.
Numbered == \A i \in DOMAIN ddsOut : ddsOut[i][1].n = i

\* While no allocation has failed.
GapInv == oom = 0 => Ready /\ GapNow /\ Numbered
-----------------------------------------------------------------------------
(* Stages *)

\* Nothing moves, and a stage may close.
LEMMA StayGapless ==
    ASSUME NEW S, NEW F, NEW Z, NEW T, NEW G, NEW Y, NEW max, Gapless(S, F, Z, max),
           \A l \in 1..8 : S[l] \subseteq T[l] /\ G[l] \subseteq F[l] /\ (l \in Z => l \in Y)
    PROVE  Gapless(T, G, Y, max)
<1>1. \A k \in 1..9 : Clear(Y, k) => Clear(Z, k)
  BY DEF Clear
<1>2. \A k \in 1..8 : UpTo(S, k) \subseteq UpTo(T, k)
  <2> SUFFICES ASSUME NEW k \in 1..8, NEW a \in UpTo(S, k) PROVE a \in UpTo(T, k)
    OBVIOUS
  <2>1. PICK l \in 1..k : a \in S[l]
    BY DEF UpTo
  <2>2. l \in 1..8
    OBVIOUS
  <2> QED
    BY <2>1, <2>2 DEF UpTo
<1>3. 8 \in 1..8 /\ 9 \in 1..9 /\ \A k \in 1..8 : k \in 1..9
  OBVIOUS
<1> QED
  BY <1>1, <1>2, <1>3 DEF Gapless

\* A step at the stages j and k = j + 1.  What comes to stage j has nothing
\* older beside it at k, and unless j is closed then nothing is lost.
Passes(S, F, Z, T, G, Y, j, k) ==
    /\ \A l \in 1..8 : l # j /\ l # k => S[l] = T[l] /\ G[l] \subseteq F[l] /\ (l \in Z => l \in Y)
    /\ S[j] \subseteq T[j] /\ (j \in Z => j \in Y)
    /\ \A n \in G[j] :
          \/ n \in F[j]
          \/ j \notin Z /\ n \in F[k] /\ n \in Nat /\ \A x \in S[k] : ~(x < n)
    /\ j \notin Y => /\ S[k] \subseteq T[j] \cup T[k]
                     /\ G[k] \subseteq F[k]
                     /\ k \in Z => k \in Y

\* Handing on keeps it gapless.
LEMMA PassGapless ==
    ASSUME NEW S, NEW F, NEW Z, NEW T, NEW G, NEW Y, NEW max, Gapless(S, F, Z, max),
           NEW j \in 1..8, NEW k \in 1..8, k = j + 1, Passes(S, F, Z, T, G, Y, j, k)
    PROVE  Gapless(T, G, Y, max)
<1> USE DEF Passes
<1>1. ASSUME NEW m \in 1..8, m <= j PROVE UpTo(S, m) \subseteq UpTo(T, m)
  <2> SUFFICES ASSUME NEW a \in UpTo(S, m) PROVE a \in UpTo(T, m)
    OBVIOUS
  <2>1. PICK l \in 1..m : a \in S[l]
    BY DEF UpTo
  <2>2. l \in 1..8 /\ l # k
    BY <1>1
  <2>3. a \in T[l]
    BY <2>1, <2>2
  <2> QED
    BY <2>1, <2>3 DEF UpTo
<1>2. ASSUME NEW m \in 1..8, k <= m, j \notin Y PROVE UpTo(S, m) \subseteq UpTo(T, m)
  <2> SUFFICES ASSUME NEW a \in UpTo(S, m) PROVE a \in UpTo(T, m)
    OBVIOUS
  <2>1. PICK l \in 1..m : a \in S[l]
    BY DEF UpTo
  <2>2. l \in 1..8 /\ j \in 1..m /\ k \in 1..m
    BY <1>2
  <2>3. a \in T[l] \/ a \in T[j] \/ a \in T[k]
    BY <1>2, <2>1, <2>2
  <2> QED
    BY <2>1, <2>2, <2>3 DEF UpTo
<1>3. ASSUME NEW m \in 1..9, m <= j, Clear(Y, m) PROVE Clear(Z, m)
  <2> SUFFICES ASSUME NEW l \in 1..8, l < m PROVE l \notin Z
    BY DEF Clear
  <2>1. l # j /\ l # k /\ l \notin Y
    BY <1>3 DEF Clear
  <2> QED
    BY <2>1
<1>4. ASSUME NEW m \in 1..9, k <= m, Clear(Y, m) PROVE j \notin Y /\ Clear(Z, m)
  <2>1. j \notin Y /\ j \notin Z
    BY <1>4 DEF Clear
  <2>2. ASSUME NEW l \in 1..8, l < m PROVE l \notin Z
    <3>1. l \notin Y
      BY <1>4, <2>2 DEF Clear
    <3> QED
      BY <2>1, <3>1
  <2> QED
    BY <2>1, <2>2 DEF Clear
<1>5. ASSUME NEW m \in 1..8, Clear(Y, m), NEW n \in G[m] PROVE 1 .. n-1 \subseteq UpTo(T, m)
  <2>0. m \in 1..9 /\ (m < j \/ m = j \/ k <= m)
    OBVIOUS
  <2>1. CASE m < j
    <3>1. n \in F[m] /\ Clear(Z, m)
      BY <1>3, <1>5, <2>0, <2>1
    <3>2. 1 .. n-1 \subseteq UpTo(S, m)
      BY <3>1 DEF Gapless
    <3> QED
      BY <1>1, <2>1, <3>2
  <2>2. CASE m = j
    <3>1. Clear(Z, j)
      BY <1>3, <1>5, <2>0, <2>2
    <3>2. CASE n \in F[j]
      <4>1. 1 .. n-1 \subseteq UpTo(S, j)
        BY <3>1, <3>2 DEF Gapless
      <4> QED
        BY <1>1, <2>2, <4>1
    <3>3. CASE n \notin F[j]
      <4>1. j \notin Z /\ n \in F[k] /\ n \in Nat /\ \A x \in S[k] : ~(x < n)
        BY <1>5, <2>2, <3>3
      <4>2. Clear(Z, k)
        <5>1. \A l \in 1..8 : l < k => l < j \/ l = j
          OBVIOUS
        <5> QED
          BY <3>1, <4>1, <5>1 DEF Clear
      <4>3. 1 .. n-1 \subseteq UpTo(S, k)
        BY <4>1, <4>2 DEF Gapless
      <4>4. ASSUME NEW x \in 1 .. n-1 PROVE x \in UpTo(S, j)
        <5>1. PICK l \in 1..k : x \in S[l]
          BY <4>3 DEF UpTo
        <5>2. l # k
          <6> SUFFICES ASSUME l = k PROVE FALSE
            OBVIOUS
          <6>1. ~(x < n)
            BY <4>1, <5>1
          <6> QED
            BY <4>1, <6>1
        <5>3. l \in 1..j
          BY <5>2
        <5> QED
          BY <5>1, <5>3 DEF UpTo
      <4> QED
        BY <1>1, <2>2, <4>4
    <3> QED
      BY <3>2, <3>3
  <2>3. CASE k <= m
    <3>1. j \notin Y /\ Clear(Z, m)
      BY <1>4, <1>5, <2>0, <2>3
    <3>2. n \in F[m]
      BY <1>5, <2>3, <3>1
    <3>3. 1 .. n-1 \subseteq UpTo(S, m)
      BY <3>1, <3>2 DEF Gapless
    <3> QED
      BY <1>2, <2>3, <3>1, <3>3
  <2> QED
    BY <2>0, <2>1, <2>2, <2>3
<1>6. ASSUME Clear(Y, 9) PROVE 1..max \subseteq UpTo(T, 8)
  <2>1. 9 \in 1..9 /\ 8 \in 1..8 /\ k <= 9 /\ k <= 8
    OBVIOUS
  <2>2. j \notin Y /\ Clear(Z, 9)
    BY <1>4, <1>6, <2>1
  <2>3. 1..max \subseteq UpTo(S, 8)
    BY <2>2 DEF Gapless
  <2> QED
    BY <1>2, <2>1, <2>2, <2>3
<1> QED
  BY <1>5, <1>6 DEF Gapless

\* A new message comes to the last stage, which was empty.
LEMMA EnterGapless ==
    ASSUME NEW S, NEW F, NEW Z, NEW T, NEW G, NEW Y, NEW max \in Nat, Gapless(S, F, Z, max),
           \A l \in 1..7 : S[l] = T[l] /\ G[l] = F[l] /\ (l \in Z => l \in Y),
           S[8] = {}, 8 \notin Z, 8 \in Y \/ T[8] = {max + 1}, G[8] \subseteq {max + 1}
    PROVE  Gapless(T, G, Y, max + 1)
<1>1. ASSUME NEW m \in 1..8, NEW a \in UpTo(S, m) PROVE a \in UpTo(T, m)
  <2>1. PICK l \in 1..m : a \in S[l]
    BY DEF UpTo
  <2>2. l # 8
    BY <2>1
  <2>3. l \in 1..7
    BY <2>2
  <2> QED
    BY <2>1, <2>3 DEF UpTo
<1>2. ASSUME NEW m \in 1..9, Clear(Y, m) PROVE Clear(Z, m)
  <2> SUFFICES ASSUME NEW l \in 1..8, l < m PROVE l \notin Z
    BY DEF Clear
  <2>1. CASE l = 8
    BY <2>1
  <2>2. CASE l # 8
    <3>1. l \in 1..7 /\ l \notin Y
      BY <1>2, <2>2 DEF Clear
    <3> QED
      BY <3>1
  <2> QED
    BY <2>1, <2>2
<1>3. ASSUME Clear(Z, 8) PROVE 1..max \subseteq UpTo(T, 8)
  <2>1. Clear(Z, 9)
    <3>1. \A l \in 1..8 : l < 9 => l < 8 \/ l = 8
      OBVIOUS
    <3> QED
      BY <1>3, <3>1 DEF Clear
  <2>2. 1..max \subseteq UpTo(S, 8)
    BY <2>1 DEF Gapless
  <2> QED
    BY <1>1, <2>2
<1>4. ASSUME NEW m \in 1..8, Clear(Y, m), NEW n \in G[m] PROVE 1 .. n-1 \subseteq UpTo(T, m)
  <2>0. m \in 1..9
    OBVIOUS
  <2>1. Clear(Z, m)
    BY <1>2, <1>4, <2>0
  <2>2. CASE m = 8
    <3>1. n = max + 1 /\ n - 1 = max
      BY <1>4, <2>2
    <3> QED
      BY <1>3, <2>1, <2>2, <3>1
  <2>3. CASE m # 8
    <3>1. m \in 1..7
      BY <2>3
    <3>2. n \in F[m]
      BY <1>4, <3>1
    <3>3. 1 .. n-1 \subseteq UpTo(S, m)
      BY <2>1, <3>2 DEF Gapless
    <3> QED
      BY <1>1, <3>3
  <2> QED
    BY <2>2, <2>3
<1>5. ASSUME Clear(Y, 9) PROVE 1 .. max+1 \subseteq UpTo(T, 8)
  <2>1. 8 \notin Y /\ T[8] = {max + 1}
    BY <1>5 DEF Clear
  <2>2. Clear(Z, 8)
    <3>1. Clear(Z, 9)
      BY <1>2, <1>5
    <3> QED
      BY <3>1 DEF Clear
  <2>3. 1..max \subseteq UpTo(T, 8) /\ max + 1 \in UpTo(T, 8)
    BY <1>3, <2>1, <2>2 DEF UpTo
  <2> QED
    BY <2>3
<1> QED
  BY <1>4, <1>5 DEF Gapless
-----------------------------------------------------------------------------
(* Queues.  f gives the number of an entry, and z is the NULL message.       *)

All(s, f) == {f[s[i]] : i \in DOMAIN s} \ {0}

\* What a push to a queue, full or not, does to what is in it and to what leads.
LEMMA PushGap ==
    ASSUME NEW A, NEW f \in [A -> Nat], NEW z \in A, f[z] = 0,
           NEW q \in QueueOf(A), NEW x \in A, NEW p, p = Push(q, x)
    PROVE  /\ All(q.items, f) \subseteq All(p.items, f)
           /\ Blocked(q, z) => Blocked(p, z)
           /\ x = z => Blocked(p, z)
           /\ \A n \in Leading(p.items, f, z) :
                 n \in Leading(q.items, f, z) \/ (~Blocked(q, z) /\ n \in One(f[x]))
           /\ ~Blocked(p, z) => One(f[x]) \subseteq All(p.items, f)
<1>1. CASE ~Accepts(q)
  <2>1. p = q
    BY <1>1 DEF Push
  <2>2. Blocked(q, z)
    BY <1>1 DEF Blocked
  <2>3. /\ Blocked(p, z) /\ All(p.items, f) = All(q.items, f)
        /\ Leading(p.items, f, z) = Leading(q.items, f, z)
    BY <2>1, <2>2
  <2> QED
    BY <2>3
<1>2. CASE Accepts(q)
  <2> DEFINE s == q.items
             r == p.items
  <2>1. s \in Seq(A) /\ r = Append(s, x)
    BY <1>2 DEF QueueOf, Push
  <2> HIDE DEF s, r
  <2>2. /\ Len(s) \in Nat /\ DOMAIN s = 1..Len(s) /\ DOMAIN r = 1 .. Len(s) + 1
        /\ \A i \in 1..Len(s) : r[i] = s[i]
        /\ r[Len(s) + 1] = x /\ Len(s) + 1 \in 1 .. Len(s) + 1
    BY <2>1, AppendProperties
  <2>3. All(s, f) \subseteq All(r, f) /\ One(f[x]) \subseteq All(r, f)
    <3>1. ASSUME NEW n \in All(s, f) PROVE n \in All(r, f)
      <4>1. PICK i \in DOMAIN s : f[s[i]] = n /\ n # 0
        BY <3>1 DEF All
      <4>2. i \in DOMAIN r /\ r[i] = s[i]
        BY <2>2
      <4> QED
        BY <4>1, <4>2 DEF All
    <3>2. One(f[x]) \subseteq All(r, f)
      BY <2>2 DEF All, One
    <3> QED
      BY <3>1, <3>2
  <2>4. /\ (\E i \in DOMAIN s : s[i] = z) => \E i \in DOMAIN r : r[i] = z
        /\ x = z => \E i \in DOMAIN r : r[i] = z
    <3>1. \A i \in DOMAIN s : i \in DOMAIN r
      BY <2>2
    <3> QED
      BY <2>2, <3>1
  <2>5. ASSUME NEW n \in Leading(r, f, z)
        PROVE  n \in Leading(s, f, z) \/ ((\A i \in DOMAIN s : s[i] # z) /\ n \in One(f[x]))
    <3>1. PICK i \in Ahead(r, z) : n = f[r[i]] /\ n # 0
      BY <2>5 DEF Leading
    <3>2. i \in DOMAIN r /\ \A j \in 1 .. i-1 : r[j] # z
      BY DEF Ahead
    <3>3. CASE i = Len(s) + 1
      <4>1. \A j \in DOMAIN s : j \in 1 .. i-1 /\ r[j] = s[j]
        BY <2>2, <3>3
      <4>2. n \in One(f[x])
        BY <2>2, <3>1, <3>3 DEF One
      <4> QED
        BY <3>2, <4>1, <4>2
    <3>4. CASE i # Len(s) + 1
      <4>1. i \in DOMAIN s /\ r[i] = s[i] /\ \A j \in 1 .. i-1 : s[j] = r[j]
        BY <2>2, <3>2, <3>4
      <4>2. i \in Ahead(s, z)
        BY <3>2, <4>1 DEF Ahead
      <4>3. n = f[s[i]]
        BY <3>1, <4>1
      <4>4. n \in Leading(s, f, z)
        BY <3>1, <4>2, <4>3 DEF Leading
      <4> QED
        BY <4>4
    <3> QED
      BY <3>3, <3>4
  <2> QED
    BY <1>2, <2>3, <2>4, <2>5 DEF Blocked, s, r
<1> QED
  BY <1>1, <1>2

\* What a pop does: the head led, and unless it is the NULL message the rest still leads.
LEMMA PopGap ==
    ASSUME NEW A, NEW f \in [A -> Nat], NEW z \in A, f[z] = 0,
           NEW q \in QueueOf(A), q.items # <<>>
    PROVE  /\ Head(q.items) \in A
           /\ All(q.items, f) \subseteq All(Pop(q).items, f) \cup One(f[Head(q.items)])
           /\ One(f[Head(q.items)]) \subseteq Leading(q.items, f, z)
           /\ Head(q.items) # z =>
                 /\ Leading(Pop(q).items, f, z) \subseteq Leading(q.items, f, z)
                 /\ Blocked(q, z) => Blocked(Pop(q), z)
<1> DEFINE p == Pop(q)
           x == Head(q.items)
           s == q.items
           r == p.items
<1>1. s \in Seq(A) /\ s # <<>> /\ r = Tail(s) /\ x = Head(s) /\ p.tail = q.tail
  BY DEF QueueOf, Pop
<1> HIDE DEF s, r
<1>2. /\ Len(s) \in Nat \ {0} /\ DOMAIN s = 1..Len(s) /\ DOMAIN r = 1 .. Len(s) - 1
      /\ \A i \in DOMAIN r : r[i] = s[i + 1]
      /\ s[1] = x /\ x \in A /\ 1 \in DOMAIN s
  BY <1>1, HeadTailProperties
<1>3. ASSUME NEW i \in DOMAIN s, i # 1 PROVE i - 1 \in DOMAIN r /\ r[i - 1] = s[i]
  <2>1. i - 1 \in DOMAIN r /\ (i - 1) + 1 = i
    BY <1>2, <1>3
  <2> QED
    BY <1>2, <2>1
<1>4. ASSUME NEW n \in All(s, f) PROVE n \in All(r, f) \cup One(f[x])
  <2>1. PICK i \in DOMAIN s : f[s[i]] = n /\ n # 0
    BY <1>4 DEF All
  <2> QED
    BY <1>2, <1>3, <2>1 DEF All, One
<1>5. One(f[x]) \subseteq Leading(s, f, z)
  <2>1. 1 \in Ahead(s, z)
    BY <1>2 DEF Ahead
  <2> QED
    BY <1>2, <2>1 DEF Leading, One
<1>6. ASSUME x # z, NEW n \in Leading(r, f, z) PROVE n \in Leading(s, f, z)
  <2>1. PICK i \in Ahead(r, z) : n = f[r[i]] /\ n # 0
    BY <1>6 DEF Leading
  <2>2. i \in DOMAIN r /\ \A j \in 1 .. i-1 : r[j] # z
    BY DEF Ahead
  <2>3. i + 1 \in DOMAIN s /\ s[i + 1] = r[i]
    BY <1>2, <2>2
  <2>4. ASSUME NEW j \in 1 .. (i + 1) - 1 PROVE s[j] # z
    <3>1. CASE j = 1
      BY <1>2, <1>6, <3>1
    <3>2. CASE j # 1
      <4>1. j - 1 \in 1 .. i-1 /\ j \in DOMAIN s
        BY <1>2, <2>2, <3>2
      <4> QED
        BY <1>3, <2>2, <3>2, <4>1
    <3> QED
      BY <3>1, <3>2
  <2>5. i + 1 \in Ahead(s, z)
    BY <2>3, <2>4 DEF Ahead
  <2> QED
    BY <2>1, <2>3, <2>5 DEF Leading
<1>7. ASSUME x # z, NEW i \in DOMAIN s, s[i] = z PROVE \E j \in DOMAIN r : r[j] = z
  BY <1>2, <1>3, <1>7
<1>8. Accepts(p) <=> Accepts(q)
  BY <1>1 DEF Accepts
<1> QED
  BY <1>2, <1>4, <1>5, <1>6, <1>7, <1>8 DEF Blocked, s, r

\* A thread that held nothing at stage j has popped the head of the queue q at
\* stage k.
Takes(S, F, Z, T, G, Y, j, k, q, f, z) ==
    /\ S[k] = All(q.items, f) /\ T[k] = All(Pop(q).items, f)
    /\ F[k] = Leading(q.items, f, z) /\ G[k] = Leading(Pop(q).items, f, z)
    /\ k \in Z <=> Blocked(q, z)
    /\ k \in Y <=> Blocked(Pop(q), z)
    /\ S[j] = {} /\ j \notin Z
    /\ T[j] = One(f[Head(q.items)]) /\ G[j] = One(f[Head(q.items)])
    /\ j \in Y <=> Head(q.items) = z
    /\ \A l \in 1..8 : l # j /\ l # k => S[l] = T[l] /\ G[l] \subseteq F[l] /\ (l \in Z => l \in Y)
    /\ \A b \in One(f[Head(q.items)]), a \in All(Pop(q).items, f) : b < a

\* Taking the head of a queue keeps it gapless.
LEMMA TakeGapless ==
    ASSUME NEW S, NEW F, NEW Z, NEW T, NEW G, NEW Y, NEW max, Gapless(S, F, Z, max),
           NEW j \in 1..8, NEW k \in 1..8, k = j + 1,
           NEW A, NEW f \in [A -> Nat], NEW z \in A, f[z] = 0,
           NEW q \in QueueOf(A), q.items # <<>>, Takes(S, F, Z, T, G, Y, j, k, q, f, z)
    PROVE  Gapless(T, G, Y, max)
<1> USE DEF Takes
<1> DEFINE p == Pop(q)
           x == Head(q.items)
<1>1. /\ x \in A
      /\ All(q.items, f) \subseteq All(p.items, f) \cup One(f[x])
      /\ One(f[x]) \subseteq Leading(q.items, f, z)
      /\ x # z => /\ Leading(p.items, f, z) \subseteq Leading(q.items, f, z)
                  /\ Blocked(q, z) => Blocked(p, z)
  BY PopGap
<1>2. ASSUME NEW n \in G[j] PROVE n \in F[k] /\ n \in Nat /\ \A y \in S[k] : ~(y < n)
  <2>1. n = f[x] /\ n \in Nat /\ n \in One(f[x])
    BY <1>1 DEF One
  <2>2. ASSUME NEW y \in S[k] PROVE ~(y < n)
    <3>1. CASE y \in One(f[x])
      BY <2>1, <3>1 DEF One
    <3>2. CASE y \in All(p.items, f)
      <4>1. n < y /\ y \in Nat
        <5>1. p.items \in Seq(A)
          BY DEF Pop, QueueOf
        <5>2. All(p.items, f) \subseteq Nat
          BY <5>1 DEF All
        <5> QED
          BY <2>1, <3>2, <5>2
      <4> QED
        BY <2>1, <4>1
    <3> QED
      BY <1>1, <3>1, <3>2
  <2> QED
    BY <1>1, <2>1, <2>2
<1>3. Passes(S, F, Z, T, G, Y, j, k)
  BY <1>1, <1>2 DEF Passes
<1> QED
  BY <1>3, PassGapless

\* A thread pushes the handle x it holds, at stage k, to the queue at stage j.
LEMMA PutGapless ==
    ASSUME NEW S, NEW F, NEW Z, NEW T, NEW G, NEW Y, NEW max, Gapless(S, F, Z, max),
           NEW j \in 1..8, NEW k \in 1..8, k = j + 1,
           NEW A, NEW f \in [A -> Nat], NEW z \in A, f[z] = 0,
           NEW q \in QueueOf(A), NEW x \in A, NEW p, p = Push(q, x),
           S[j] = All(q.items, f), F[j] = Leading(q.items, f, z), j \in Z <=> Blocked(q, z),
           T[j] = All(p.items, f), G[j] = Leading(p.items, f, z), j \in Y <=> Blocked(p, z),
           S[k] = One(f[x]), F[k] = One(f[x]), k \in Z <=> x = z, T[k] = {}, G[k] = {}, k \notin Y,
           \A l \in 1..8 : l # j /\ l # k =>
              S[l] = T[l] /\ G[l] \subseteq F[l] /\ (l \in Z => l \in Y)
    PROVE  Gapless(T, G, Y, max)
<1>1. /\ All(q.items, f) \subseteq All(p.items, f)
      /\ Blocked(q, z) => Blocked(p, z)
      /\ x = z => Blocked(p, z)
      /\ \A n \in Leading(p.items, f, z) :
            n \in Leading(q.items, f, z) \/ (~Blocked(q, z) /\ n \in One(f[x]))
      /\ ~Blocked(p, z) => One(f[x]) \subseteq All(p.items, f)
  BY PushGap
<1>2. \A n \in One(f[x]) : n \in Nat /\ \A y \in One(f[x]) : ~(y < n)
  BY DEF One
<1>3. Passes(S, F, Z, T, G, Y, j, k)
  BY <1>1, <1>2 DEF Passes
<1> QED
  BY <1>3, PassGapless

\* A handle that is no message for DDS goes into a queue.
LEMMA PutOther ==
    ASSUME NEW A, NEW f \in [A -> Nat], NEW z \in A, f[z] = 0,
           NEW q \in QueueOf(A), NEW x \in A, f[x] = 0, NEW p, p = Push(q, x)
    PROVE  /\ All(q.items, f) \subseteq All(p.items, f)
           /\ Leading(p.items, f, z) \subseteq Leading(q.items, f, z)
           /\ Blocked(q, z) => Blocked(p, z)
  BY PushGap DEF One
-----------------------------------------------------------------------------
(* The stages and their numbers *)

\* The numbers of handles and of messages, and those of the NULL message.
LEMMA ZeroHandle ==
    /\ DdsNum \in [Handles -> Nat] /\ ToDds(0) \in Handles /\ DdsNum[ToDds(0)] = 0
    /\ \A h \in Handles : DdsNum[h] = Num(h, D)
    /\ MsgNum \in [Nat -> Nat] /\ 0 \in Nat /\ MsgNum[0] = 0 /\ \A n \in Nat : MsgNum[n] = n
  BY NumType DEF DdsNum, MsgNum, Num, ToDds, Handles, D

\* The numbers in a queue of handles,
LEMMA AllHandles ==
    ASSUME NEW q \in QueueOf(Handles)
    PROVE  In(Nums(q.items, D)) = All(q.items, DdsNum)
<1> DEFINE s == q.items
<1>1. s \in Seq(Handles)
  BY DEF QueueOf
<1> HIDE DEF s
<1>2. \A i \in DOMAIN s : Nums(s, D)[i] = DdsNum[s[i]]
  BY <1>1, NumsType, ZeroHandle
<1>3. DOMAIN Nums(s, D) = DOMAIN s
  BY DEF Nums
<1> QED
  BY <1>2, <1>3 DEF In, All, s

\* and in rmsgq, as the lemmas on queues name them.
LEMMA AllMsgs ==
    ASSUME NEW q \in QueueOf(Nat)
    PROVE  In(q.items) = All(q.items, MsgNum)
<1> DEFINE s == q.items
<1>1. s \in Seq(Nat)
  BY DEF QueueOf
<1> HIDE DEF s
<1>2. \A i \in DOMAIN s : s[i] = MsgNum[s[i]]
  BY <1>1, ZeroHandle
<1> QED
  BY <1>2 DEF In, All, s

\* A thread has pushed the handle x it held at stage k to the queue q at stage j.
PutStep(S, F, Z, T, G, Y, j, k, q, x) ==
    /\ S[j] = In(Nums(q.items, D)) /\ T[j] = In(Nums(Push(q, x).items, D))
    /\ F[j] = Leading(q.items, DdsNum, ToDds(0))
    /\ G[j] = Leading(Push(q, x).items, DdsNum, ToDds(0))
    /\ j \in Z <=> Blocked(q, ToDds(0))
    /\ j \in Y <=> Blocked(Push(q, x), ToDds(0))
    /\ S[k] = One(Num(x, D)) /\ F[k] = One(Num(x, D)) /\ (k \in Z <=> x = ToDds(0))
    /\ T[k] = {} /\ G[k] = {} /\ k \notin Y
    /\ \A l \in 1..8 : l # j /\ l # k => S[l] = T[l] /\ G[l] \subseteq F[l] /\ (l \in Z => l \in Y)

\* The step PutStep names.
LEMMA PutHandle ==
    ASSUME NEW S, NEW F, NEW Z, NEW T, NEW G, NEW Y, NEW max, Gapless(S, F, Z, max),
           NEW j \in 1..8, NEW k \in 1..8, k = j + 1,
           NEW q \in QueueOf(Handles), NEW x \in Handles, PutStep(S, F, Z, T, G, Y, j, k, q, x)
    PROVE  Gapless(T, G, Y, max)
<1> USE DEF PutStep
<1> DEFINE p == Push(q, x)
<1>1. p \in QueueOf(Handles)
  BY PushType
<1>2. DdsNum[x] = Num(x, D)
  BY ZeroHandle
<1>3. S[j] = All(q.items, DdsNum) /\ T[j] = All(p.items, DdsNum)
  BY <1>1, AllHandles
<1> DEFINE f == DdsNum
           z == ToDds(0)
<1>4. /\ f \in [Handles -> Nat] /\ z \in Handles /\ f[z] = 0
      /\ S[k] = One(f[x]) /\ F[k] = One(f[x])
  BY <1>2, ZeroHandle
<1>5. /\ p = Push(q, x)
      /\ F[j] = Leading(q.items, f, z) /\ G[j] = Leading(p.items, f, z)
      /\ j \in Z <=> Blocked(q, z)
      /\ j \in Y <=> Blocked(p, z)
      /\ k \in Z <=> x = z
      /\ S[j] = All(q.items, f) /\ T[j] = All(p.items, f)
  BY <1>3
<1>6. /\ T[k] = {} /\ G[k] = {} /\ k \notin Y
      /\ \A l \in 1..8 : l # j /\ l # k =>
            S[l] = T[l] /\ G[l] \subseteq F[l] /\ (l \in Z => l \in Y)
  OBVIOUS
<1> HIDE DEF p, f, z, PutStep
<1> QED
  BY <1>4, <1>5, <1>6, PutGapless

\* The same of a queue of handles
TakeStep(S, F, Z, T, G, Y, j, k, q) ==
    /\ S[k] = In(Nums(q.items, D)) /\ T[k] = In(Nums(Pop(q).items, D))
    /\ F[k] = Leading(q.items, DdsNum, ToDds(0))
    /\ G[k] = Leading(Pop(q).items, DdsNum, ToDds(0))
    /\ k \in Z <=> Blocked(q, ToDds(0))
    /\ k \in Y <=> Blocked(Pop(q), ToDds(0))
    /\ S[j] = {} /\ j \notin Z
    /\ T[j] = One(Num(Head(q.items), D)) /\ G[j] = One(Num(Head(q.items), D))
    /\ j \in Y <=> Head(q.items) = ToDds(0)
    /\ \A l \in 1..8 : l # j /\ l # k => S[l] = T[l] /\ G[l] \subseteq F[l] /\ (l \in Z => l \in Y)

\* The step TakeStep names.
LEMMA TakeHandleGap ==
    ASSUME NEW S, NEW F, NEW Z, NEW T, NEW G, NEW Y, NEW max, Gapless(S, F, Z, max),
           NEW j \in 1..8, NEW k \in 1..8, k = j + 1,
           NEW q \in QueueOf(Handles), q.items # <<>>, Increasing(Nums(q.items, D)),
           TakeStep(S, F, Z, T, G, Y, j, k, q)
    PROVE  Gapless(T, G, Y, max)
<1> USE DEF TakeStep
<1> DEFINE p == Pop(q)
           x == Head(q.items)
<1>1. p \in QueueOf(Handles)
  BY PopType
<1>2. x \in Handles /\ DdsNum[x] = Num(x, D)
  <2>1. q.items \in Seq(Handles)
    BY DEF QueueOf
  <2>2. x \in Handles
    BY <2>1, HeadTailProperties
  <2> QED
    BY <2>2, ZeroHandle
<1>3. S[k] = All(q.items, DdsNum) /\ T[k] = All(p.items, DdsNum)
  BY <1>1, AllHandles
<1>4. \A b \in One(Num(x, D)), a \in In(Nums(p.items, D)) : b < a
  BY PopOrder
<1> DEFINE f == DdsNum
           z == ToDds(0)
<1>5. /\ f \in [Handles -> Nat] /\ z \in Handles /\ f[z] = 0
      /\ T[j] = One(f[x]) /\ G[j] = One(f[x])
      /\ \A b \in One(f[x]), a \in All(p.items, f) : b < a
  BY <1>2, <1>3, <1>4, ZeroHandle
<1>6. /\ p = Pop(q) /\ x = Head(q.items)
      /\ F[k] = Leading(q.items, f, z) /\ G[k] = Leading(p.items, f, z)
      /\ k \in Z <=> Blocked(q, z)
      /\ k \in Y <=> Blocked(p, z)
      /\ j \in Y <=> x = z
      /\ S[k] = All(q.items, f) /\ T[k] = All(p.items, f)
  BY <1>3
<1>7. /\ S[j] = {} /\ j \notin Z
      /\ \A l \in 1..8 : l # j /\ l # k =>
            S[l] = T[l] /\ G[l] \subseteq F[l] /\ (l \in Z => l \in Y)
  OBVIOUS
<1> HIDE DEF f, z, TakeStep
<1>8. Takes(S, F, Z, T, G, Y, j, k, q, f, z)
  BY <1>5, <1>6, <1>7 DEF Takes
<1> QED
  BY <1>5, <1>8, TakeGapless

\* A handle that carries a message
LEMMA Carries ==
    ASSUME NEW h \in Handles, h.type = D
    PROVE  /\ Num(h, D) = h.n /\ h.n \in Nat
           /\ h = ToDds(0) <=> h.n = 0
<1>1. h = [type |-> D, n |-> h.n]
  BY DEF Handles
<1> QED
  BY <1>1 DEF Handles, Num, ToDds, D
-----------------------------------------------------------------------------
(* The steps of the threads *)

\* A step that loses nothing and lets nothing through.
Stays ==
    /\ UNCHANGED recvd
    /\ \A l \in 1..8 : /\ ToDdsAt[l] \subseteq ToDdsAt'[l]
                       /\ ToDdsLeading'[l] \subseteq ToDdsLeading[l]
                       /\ l \in ToDdsShut => l \in ToDdsShut'

\* StayGapless, of the stages as they are.
LEMMA StaysGap == ASSUME GapNow, Stays PROVE GapNow'
<1> DEFINE S == ToDdsAt
           F == ToDdsLeading
           Z == ToDdsShut
           T == ToDdsAt'
           G == ToDdsLeading'
           Y == ToDdsShut'
<1>1. /\ Gapless(S, F, Z, recvd) /\ recvd' = recvd
      /\ \A l \in 1..8 : S[l] \subseteq T[l] /\ G[l] \subseteq F[l] /\ (l \in Z => l \in Y)
  BY DEF GapNow, Stays
<1> HIDE DEF S, F, Z, T, G, Y
<1>2. Gapless(T, G, Y, recvd)
  BY <1>1, StayGapless
<1> QED
  BY <1>1, <1>2 DEF GapNow, T, G, Y

\* A thread has no message for DDS in its hands, or keeps the one it has.
Free(t) == pc[t] \notin {"append", "work", "convert_last", "write"} \/ held[t].type # D

\* A thread's step does not change what it does with a message for DDS.
Keeps(t) ==
    \/ pc'[t] = pc[t] /\ held'[t] = held[t]
    \/ Free(t) /\ Free(t)'
    \/ /\ t = "dds" /\ held'[t] = held[t]
       /\ pc[t] \in {"work", "convert_last"} /\ pc'[t] \in {"convert_last", "write"}

\* What may come to a queue of handles without getting in the way of messages
Adds(q, p) ==
    /\ In(Nums(q.items, D)) \subseteq In(Nums(p.items, D))
    /\ Leading(p.items, DdsNum, ToDds(0)) \subseteq Leading(q.items, DdsNum, ToDds(0))
    /\ Blocked(q, ToDds(0)) => Blocked(p, ToDds(0))

\* A handle that is no message for DDS does not get in the way.
LEMMA AddsOther ==
    ASSUME NEW q \in QueueOf(Handles), NEW h \in Handles, h.type # D
    PROVE  Adds(q, q) /\ Adds(q, Push(q, h))
<1> DEFINE p == Push(q, h)
           f == DdsNum
           z == ToDds(0)
<1>1. p \in QueueOf(Handles) /\ f[h] = 0
  BY PushType, ZeroHandle DEF Num
<1>2. In(Nums(q.items, D)) = All(q.items, f) /\ In(Nums(p.items, D)) = All(p.items, f)
  BY <1>1, AllHandles
<1>3. f \in [Handles -> Nat] /\ z \in Handles /\ f[z] = 0 /\ p = Push(q, h)
  BY ZeroHandle
<1> HIDE DEF p, f, z
<1>4. /\ All(q.items, f) \subseteq All(p.items, f)
      /\ Leading(p.items, f, z) \subseteq Leading(q.items, f, z)
      /\ Blocked(q, z) => Blocked(p, z)
  BY <1>1, <1>3, PutOther
<1> QED
  BY <1>2, <1>4 DEF Adds, p, f, z

\* What a thread that keeps its hands as they are means to each stage.
LEMMA HandsKept ==
    ASSUME NEW t \in {"recv", "mqtt", "dds"}, Keeps(t),
           NEW labels \in {{"append"}, {"work"}, {"work", "convert_last", "write"}},
           labels = {"work"} => t = "mqtt",
           t = "dds" => labels = {"work", "convert_last", "write"}
    PROVE  Hand(t, D, labels)' = Hand(t, D, labels) /\ Stuck(t, labels)' = Stuck(t, labels)
<1>1. CASE pc'[t] = pc[t] /\ held'[t] = held[t]
  BY <1>1 DEF Hand, Stuck
<1>2. CASE Free(t) /\ Free(t)'
  BY <1>2 DEF Hand, Stuck, Free, One, Num, ToDds, D
<1>3. CASE /\ t = "dds" /\ held'[t] = held[t]
           /\ pc[t] \in {"work", "convert_last"} /\ pc'[t] \in {"convert_last", "write"}
  BY <1>3 DEF Hand, Stuck
<1> QED
  BY <1>1, <1>2, <1>3 DEF Keeps

\* A step that moves no message for DDS.
LEMMA QuietGap ==
    ASSUME GapNow, UNCHANGED <<recvd, rmsgq, ddsOut>>, Adds(ddsq, ddsq'), Adds(mqttq, mqttq'),
           \A t \in {"recv", "mqtt", "dds"} : Keeps(t)
    PROVE  GapNow'
<1> DEFINE R == {"append"}
           W == {"work"}
           C == {"work", "convert_last", "write"}
<1>1. /\ Hand("recv", D, R)' = Hand("recv", D, R) /\ Stuck("recv", R)' = Stuck("recv", R)
      /\ Hand("mqtt", D, R)' = Hand("mqtt", D, R) /\ Stuck("mqtt", R)' = Stuck("mqtt", R)
      /\ Hand("mqtt", D, W)' = Hand("mqtt", D, W) /\ Stuck("mqtt", W)' = Stuck("mqtt", W)
      /\ Hand("dds", D, C)' = Hand("dds", D, C) /\ Stuck("dds", C)' = Stuck("dds", C)
  BY HandsKept
<1>2. \A l \in 1..8 : ToDdsAt[l] \subseteq ToDdsAt'[l]
  BY <1>1 DEF ToDdsAt, DdsNums, Adds
<1>3. \A l \in 1..8 : ToDdsLeading'[l] \subseteq ToDdsLeading[l]
  BY <1>1 DEF ToDdsAt, ToDdsLeading, Adds
<1>4. \A l \in 1..8 : l \in ToDdsShut => l \in ToDdsShut'
  BY <1>1 DEF ToDdsShut, Adds
<1> QED
  BY <1>2, <1>3, <1>4, StaysGap DEF Stays

\* mqtt_recv_loop
LEMMA RecvGap == ASSUME OrderInv, Ready, GapNow, RecvLoop PROVE GapNow'
<1> DEFINE S == ToDdsAt
           F == ToDdsLeading
           Z == ToDdsShut
           T == ToDdsAt'
           G == ToDdsLeading'
           Y == ToDdsShut'
           x == held["recv"].n
<1> USE DEF OrderInv, At, Again, Goto, Hold, queues, net, out, mem
<1>0. Gapless(S, F, Z, recvd) /\ recvd \in Nat
  BY Types DEF GapNow
<1>1. CASE RecvPacket
  <2>1. /\ pc["recv"] = "recv" /\ pc'["recv"] = "append" /\ recvd' = recvd + 1
        /\ held'["recv"] \in {ToDds(0), ToDds(recvd + 1)}
        /\ \A t \in {"mqtt", "dds"} : pc'[t] = pc[t] /\ held'[t] = held[t]
        /\ UNCHANGED <<ddsq, mqttq, rmsgq, ddsOut>>
    BY <1>1, Types DEF RecvPacket
  <2>2. \A l \in 1..7 : S[l] = T[l] /\ G[l] = F[l] /\ (l \in Z => l \in Y)
    <3>1. \A l \in 1..7 : S[l] = T[l]
      BY SMTT(40), <2>1 DEF ToDdsAt, Hand, DdsNums
    <3>2. \A l \in 1..7 : G[l] = F[l]
      BY SMTT(40), <2>1 DEF ToDdsAt, ToDdsLeading, Hand, DdsNums
    <3>3. \A l \in 1..7 : l \in Z => l \in Y
      BY <2>1 DEF ToDdsShut, Stuck
    <3> QED
      BY <3>1, <3>2, <3>3
  <2>3. S[8] = {} /\ 8 \notin Z
    BY <2>1 DEF ToDdsAt, ToDdsShut, Hand, Stuck
  <2>4. (8 \in Y \/ T[8] = {recvd + 1}) /\ G[8] \subseteq {recvd + 1}
    <3>1. T[8] = One(Num(held'["recv"], D)) /\ G[8] = T[8]
      BY <2>1 DEF ToDdsAt, ToDdsLeading, Hand
    <3>2. 8 \in Y <=> held'["recv"] = ToDds(0)
      BY <2>1 DEF ToDdsShut, Stuck
    <3>3. One(Num(ToDds(recvd + 1), D)) = {recvd + 1} /\ One(Num(ToDds(0), D)) = {}
      BY <1>0 DEF One, Num, ToDds, D
    <3> HIDE DEF T, G, Y
    <3> QED
      BY <2>1, <3>1, <3>2, <3>3
  <2> HIDE DEF S, F, Z, T, G, Y
  <2>5. Gapless(T, G, Y, recvd + 1)
    BY <1>0, <2>2, <2>3, <2>4, EnterGapless
  <2> QED
    BY <2>1, <2>5 DEF GapNow, T, G, Y
<1>2. CASE RecvNothing
  <2>1. /\ pc["recv"] = "recv" /\ recvd' = recvd
        /\ pc'["recv"] = "append" /\ held'["recv"] = ToDds(0)
        /\ \A t \in {"mqtt", "dds"} : pc'[t] = pc[t] /\ held'[t] = held[t]
        /\ UNCHANGED <<ddsq, mqttq, rmsgq, ddsOut>>
    BY <1>2, Types DEF RecvNothing
  <2>2. \A l \in 1..8 : S[l] \subseteq T[l]
    BY <2>1 DEF ToDdsAt, Hand, DdsNums
  <2>3. \A l \in 1..8 : G[l] \subseteq F[l]
    BY <2>1 DEF ToDdsAt, ToDdsLeading, Hand, DdsNums, One, Num, ToDds, D
  <2>4. \A l \in 1..8 : l \in Z => l \in Y
    BY <2>1 DEF ToDdsShut, Stuck
  <2> QED
    BY <2>1, <2>2, <2>3, <2>4, StaysGap DEF Stays
<1>3. CASE RecvAppend
  <2>1. /\ pc["recv"] = "append" /\ rmsgqReady
        /\ rmsgq' = Push(rmsgq, x) /\ recvd' = recvd
        /\ pc'["recv"] = "recv"
        /\ \A t \in {"mqtt", "dds"} : pc'[t] = pc[t] /\ held'[t] = held[t]
        /\ UNCHANGED <<ddsq, mqttq, ddsOut>>
    BY <1>3, Types DEF RecvAppend, HandsOK, Ready
  <2>2. held["recv"] \in Handles /\ held["recv"].type = D
    BY <2>1, Types DEF HandsOK
  <2>3. /\ Num(held["recv"], D) = MsgNum[x] /\ x \in Nat
        /\ held["recv"] = ToDds(0) <=> x = 0
    BY <2>2, Carries, ZeroHandle
  <2>4. rmsgq \in QueueOf(Nat) /\ rmsgq' \in QueueOf(Nat)
    BY <2>1, <2>3, Types, PushType
  <2>5. /\ S[7] = All(rmsgq.items, MsgNum) /\ T[7] = All(rmsgq'.items, MsgNum)
        /\ F[7] = Leading(rmsgq.items, MsgNum, 0) /\ G[7] = Leading(rmsgq'.items, MsgNum, 0)
        /\ 7 \in Z <=> Blocked(rmsgq, 0)
        /\ 7 \in Y <=> Blocked(rmsgq', 0)
    BY <2>4, AllMsgs DEF ToDdsAt, ToDdsLeading, ToDdsShut
  <2>6. /\ S[8] = One(MsgNum[x]) /\ F[8] = One(MsgNum[x]) /\ (8 \in Z <=> x = 0)
        /\ T[8] = {} /\ G[8] = {} /\ 8 \notin Y
    BY <2>1, <2>3 DEF ToDdsAt, ToDdsLeading, ToDdsShut, Hand, Stuck
  <2>7. \A l \in 1..8 : l # 7 /\ l # 8 => S[l] = T[l] /\ G[l] \subseteq F[l] /\ (l \in Z => l \in Y)
    <3>1. \A l \in 1..6 : S[l] = T[l]
      BY SMTT(40), <2>1 DEF ToDdsAt, Hand, DdsNums
    <3>2. \A l \in 1..8 : l # 7 /\ l # 8 => G[l] \subseteq F[l]
      BY <2>1 DEF ToDdsAt, ToDdsLeading, Hand, DdsNums
    <3>3. \A l \in 1..8 : l # 7 /\ l # 8 => (l \in Z => l \in Y)
      BY <2>1 DEF ToDdsShut, Stuck
    <3> QED
      BY <3>1, <3>2, <3>3
  <2>8. 7 \in 1..8 /\ 8 \in 1..8 /\ 8 = 7 + 1
    OBVIOUS
  <2> HIDE DEF S, F, Z, T, G, Y, x
  <2>9. Gapless(T, G, Y, recvd)
    BY <1>0, <2>1, <2>3, <2>4, <2>5, <2>6, <2>7, <2>8, ZeroHandle, PutGapless
  <2> QED
    BY <2>1, <2>9 DEF GapNow, T, G, Y
<1> QED
  BY <1>1, <1>2, <1>3 DEF RecvLoop

\* mqtt_loop
LEMMA MqttGap == ASSUME OrderInv, GapNow, MqttLoop PROVE GapNow' \/ oom' # 0
<1> DEFINE S == ToDdsAt
           F == ToDdsLeading
           Z == ToDdsShut
           T == ToDdsAt'
           G == ToDdsLeading'
           Y == ToDdsShut'
           h == held["mqtt"]
           Rest(t) == pc'[t] = pc[t] /\ held'[t] = held[t]
<1> USE DEF OrderInv, At, Again, Goto, Hold, queues, net, out, mem
<1>0. /\ Gapless(S, F, Z, recvd) /\ recvd \in Nat
      /\ ddsq \in QueueOf(Handles) /\ mqttq \in QueueOf(Handles) /\ h \in Handles
      /\ NullHandle \in Handles /\ NullHandle.type # D
      /\ Adds(ddsq, ddsq) /\ Adds(mqttq, mqttq)
  <2>1. ddsq \in QueueOf(Handles) /\ mqttq \in QueueOf(Handles) /\ h \in Handles
    BY Types
  <2>2. NullHandle \in Handles /\ NullHandle.type # D
    BY DEF NullHandle, Handles, D
  <2> QED
    BY <2>1, <2>2, Types, AddsOther DEF GapNow
<1>1. UNCHANGED recvd /\ \A t \in {"recv", "dds"} : Rest(t)
  <2>1. \A t \in {"recv", "dds"} : t \in Threads /\ t # "mqtt"
    BY DEF Threads
  <2> QED
    BY <2>1, Types
       DEF MqttLoop, MqttCheck, TakeHandle, MqttRecvNull, End, MqttRecvNothing, MqttRecvMsg,
           MkHandle, MqttAppend, MqttForward, MqttReadFirst, MqttPublish
<1>2. CASE MqttCheck
  <2>1. /\ pc["mqtt"] = "check" /\ h = NullHandle
        /\ UNCHANGED <<ddsq, rmsgq, ddsOut>>
    BY <1>2 DEF MqttCheck, HandsOK
  <2>2. CASE mqttq.items = <<>>
    <3>1. mqttq' = mqttq /\ pc'["mqtt"] = "recv"
      BY <1>2, <2>2, Types DEF MqttCheck, TakeHandle
    <3>2. Keeps("mqtt")
      BY <2>1, <3>1 DEF Keeps, Free
    <3> QED
      BY <1>0, <1>1, <2>1, <3>1, <3>2, QuietGap DEF Keeps
  <2>3. CASE mqttq.items # <<>>
    <3> DEFINE x == Head(mqttq.items)
    <3>1. /\ mqttq' = Pop(mqttq) /\ held'["mqtt"] = x
          /\ pc'["mqtt"] = IF x = NullHandle THEN "recv" ELSE "work"
      BY <1>2, <2>3, Types DEF MqttCheck, TakeHandle
    <3>2. /\ One(Num(NullHandle, D)) = {} /\ NullHandle # ToDds(0)
      BY NullNum DEF NullHandle, ToDds
    <3>3. /\ S[4] = {} /\ 4 \notin Z
          /\ T[4] = One(Num(x, D)) /\ G[4] = One(Num(x, D))
          /\ 4 \in Y <=> x = ToDds(0)
      BY <2>1, <3>1, <3>2 DEF ToDdsAt, ToDdsLeading, ToDdsShut, Hand, Stuck
    <3>4. /\ S[5] = In(Nums(mqttq.items, D)) /\ T[5] = In(Nums(Pop(mqttq).items, D))
          /\ F[5] = Leading(mqttq.items, DdsNum, ToDds(0))
          /\ G[5] = Leading(Pop(mqttq).items, DdsNum, ToDds(0))
          /\ 5 \in Z <=> Blocked(mqttq, ToDds(0))
          /\ 5 \in Y <=> Blocked(Pop(mqttq), ToDds(0))
      BY <3>1 DEF ToDdsAt, ToDdsLeading, ToDdsShut
    <3>5. \A l \in 1..8 : l # 4 /\ l # 5 =>
             S[l] = T[l] /\ G[l] \subseteq F[l] /\ (l \in Z => l \in Y)
      <4>1. (\A l \in 1..3 : S[l] = T[l]) /\ \A l \in 6..8 : S[l] = T[l]
        BY <1>1, <2>1, <3>1, <3>2 DEF ToDdsAt, Hand, DdsNums
      <4>2. \A l \in 1..8 : l # 4 /\ l # 5 => G[l] \subseteq F[l]
        BY <1>1, <2>1, <3>1, <3>2 DEF ToDdsAt, ToDdsLeading, Hand, DdsNums
      <4>3. \A l \in 1..8 : l # 4 /\ l # 5 => (l \in Z => l \in Y)
        BY <1>1, <2>1, <3>1, <3>2 DEF ToDdsShut, Stuck
      <4> QED
        BY <4>1, <4>2, <4>3
    <3>6. 4 \in 1..8 /\ 5 \in 1..8 /\ 5 = 4 + 1 /\ Increasing(Nums(mqttq.items, D))
      BY DEF ToDdsOrder
    <3> HIDE DEF S, F, Z, T, G, Y
    <3>7. TakeStep(S, F, Z, T, G, Y, 4, 5, mqttq)
      BY <3>3, <3>4, <3>5 DEF TakeStep
    <3>8. Gapless(T, G, Y, recvd)
      BY <1>0, <2>3, <3>6, <3>7, TakeHandleGap
    <3> QED
      BY <1>1, <3>8 DEF GapNow, T, G, Y
  <2> QED
    BY <2>2, <2>3
<1>3. CASE MqttRecvNull \/ MqttRecvNothing
  <2>1. UNCHANGED <<ddsq, mqttq, rmsgq, ddsOut>> /\ Keeps("mqtt")
    BY <1>3, Types DEF MqttRecvNull, MqttRecvNothing, End, Keeps, Free
  <2> QED
    BY <1>0, <1>1, <2>1, QuietGap DEF Keeps
<1>4. CASE MqttRecvMsg
  <2> DEFINE x == Head(rmsgq.items)
  <2>0. SUFFICES ASSUME oom' = 0 PROVE GapNow'
    OBVIOUS
  <2>1. /\ pc["mqtt"] = "recv" /\ pc'["mqtt"] = "append"
        /\ rmsgq.items # <<>> /\ rmsgq' = Pop(rmsgq) /\ UNCHANGED <<ddsq, mqttq, ddsOut>>
    BY <1>4, Types DEF MqttRecvMsg
  <2>2. held'["mqtt"] = ToDds(x)
    <3>1. oom \in Nat
      BY ProxyAssumption DEF TypeOK, RunOK
    <3> QED
      BY <1>4, <2>0, <3>1, Types DEF MqttRecvMsg, MkHandle
  <2>3. rmsgq \in QueueOf(Nat) /\ rmsgq' \in QueueOf(Nat) /\ x \in Nat /\ rmsgq.items \in Seq(Nat)
    <3>1. rmsgq.items \in Seq(Nat)
      BY Types DEF QueueOf
    <3> QED
      BY <2>1, <3>1, Types, PopType, InTail
  <2>4. \A b \in One(x), a \in In(rmsgq'.items) : b < a
    <3>1. rmsgq'.items = Tail(rmsgq.items) /\ Increasing(rmsgq.items)
      BY <2>1, <2>3 DEF Pop, QueueOf, ToDdsOrder
    <3> QED
      BY <2>1, <2>3, <3>1, InTail
  <2>5. /\ x = MsgNum[x] /\ (ToDds(x) = ToDds(0) <=> x = 0)
        /\ Num(ToDds(x), D) = x
    BY <2>3, ZeroHandle DEF Num, ToDds, D
  <2>6. /\ S[7] = All(rmsgq.items, MsgNum) /\ T[7] = All(rmsgq'.items, MsgNum)
        /\ F[7] = Leading(rmsgq.items, MsgNum, 0) /\ G[7] = Leading(rmsgq'.items, MsgNum, 0)
        /\ 7 \in Z <=> Blocked(rmsgq, 0)
        /\ 7 \in Y <=> Blocked(rmsgq', 0)
        /\ In(rmsgq'.items) = All(rmsgq'.items, MsgNum)
    BY <2>3, AllMsgs DEF ToDdsAt, ToDdsLeading, ToDdsShut
  <2>7. /\ S[6] = {} /\ 6 \notin Z
        /\ T[6] = One(x) /\ G[6] = One(x)
        /\ 6 \in Y <=> x = 0
    BY <2>1, <2>2, <2>5 DEF ToDdsAt, ToDdsLeading, ToDdsShut, Hand, Stuck
  <2>8. \A l \in 1..8 : l # 6 /\ l # 7 => S[l] = T[l] /\ G[l] \subseteq F[l] /\ (l \in Z => l \in Y)
    <3>1. (\A l \in 1..5 : S[l] = T[l]) /\ \A l \in 8..8 : S[l] = T[l]
      BY <1>1, <2>1 DEF ToDdsAt, Hand, DdsNums
    <3>2. \A l \in 1..8 : l # 6 /\ l # 7 => G[l] \subseteq F[l]
      BY <1>1, <2>1 DEF ToDdsAt, ToDdsLeading, Hand, DdsNums
    <3>3. \A l \in 1..8 : l # 6 /\ l # 7 => (l \in Z => l \in Y)
      BY <1>1, <2>1 DEF ToDdsShut, Stuck
    <3> QED
      BY <3>1, <3>2, <3>3
  <2>9. 6 \in 1..8 /\ 7 \in 1..8 /\ 7 = 6 + 1
    OBVIOUS
  <2> HIDE DEF S, F, Z, T, G, Y
  <2>10. Takes(S, F, Z, T, G, Y, 6, 7, rmsgq, MsgNum, 0)
    BY <2>1, <2>4, <2>5, <2>6, <2>7, <2>8 DEF Takes
  <2>11. Gapless(T, G, Y, recvd)
    BY <1>0, <2>1, <2>3, <2>9, <2>10, ZeroHandle, TakeGapless
  <2> QED
    BY <1>1, <2>11 DEF GapNow, T, G, Y
<1>5. CASE MqttAppend
  <2>1. /\ pc["mqtt"] = "append" /\ pc'["mqtt"] = "check"
        /\ mqttq' = Push(mqttq, h) /\ UNCHANGED <<ddsq, rmsgq, ddsOut>>
    BY <1>5, Types DEF MqttAppend
  <2>2. /\ S[5] = In(Nums(mqttq.items, D)) /\ T[5] = In(Nums(Push(mqttq, h).items, D))
        /\ F[5] = Leading(mqttq.items, DdsNum, ToDds(0))
        /\ G[5] = Leading(Push(mqttq, h).items, DdsNum, ToDds(0))
        /\ 5 \in Z <=> Blocked(mqttq, ToDds(0))
        /\ 5 \in Y <=> Blocked(Push(mqttq, h), ToDds(0))
    BY <2>1 DEF ToDdsAt, ToDdsLeading, ToDdsShut
  <2>3. /\ S[6] = One(Num(h, D)) /\ F[6] = One(Num(h, D)) /\ (6 \in Z <=> h = ToDds(0))
        /\ T[6] = {} /\ G[6] = {} /\ 6 \notin Y
    BY <2>1 DEF ToDdsAt, ToDdsLeading, ToDdsShut, Hand, Stuck
  <2>4. \A l \in 1..8 : l # 5 /\ l # 6 => S[l] = T[l] /\ G[l] \subseteq F[l] /\ (l \in Z => l \in Y)
    <3>1. (\A l \in 1..4 : S[l] = T[l]) /\ \A l \in 7..8 : S[l] = T[l]
      BY <1>1, <2>1 DEF ToDdsAt, Hand, DdsNums
    <3>2. \A l \in 1..8 : l # 5 /\ l # 6 => G[l] \subseteq F[l]
      BY <1>1, <2>1 DEF ToDdsAt, ToDdsLeading, Hand, DdsNums
    <3>3. \A l \in 1..8 : l # 5 /\ l # 6 => (l \in Z => l \in Y)
      BY <1>1, <2>1 DEF ToDdsShut, Stuck
    <3> QED
      BY <3>1, <3>2, <3>3
  <2>5. 5 \in 1..8 /\ 6 \in 1..8 /\ 6 = 5 + 1
    OBVIOUS
  <2> HIDE DEF S, F, Z, T, G, Y, h
  <2>6. PutStep(S, F, Z, T, G, Y, 5, 6, mqttq, h)
    BY <2>2, <2>3, <2>4 DEF PutStep
  <2>7. Gapless(T, G, Y, recvd)
    BY <1>0, <2>5, <2>6, PutHandle
  <2> QED
    BY <1>1, <2>7 DEF GapNow, T, G, Y
<1>6. CASE MqttForward
  <2>1. /\ pc["mqtt"] = "work" /\ pc'["mqtt"] = "check"
        /\ ddsq' = Push(ddsq, h) /\ UNCHANGED <<mqttq, rmsgq, ddsOut>>
    BY <1>6, Types DEF MqttForward
  <2>2. /\ S[3] = In(Nums(ddsq.items, D)) /\ T[3] = In(Nums(Push(ddsq, h).items, D))
        /\ F[3] = Leading(ddsq.items, DdsNum, ToDds(0))
        /\ G[3] = Leading(Push(ddsq, h).items, DdsNum, ToDds(0))
        /\ 3 \in Z <=> Blocked(ddsq, ToDds(0))
        /\ 3 \in Y <=> Blocked(Push(ddsq, h), ToDds(0))
    BY <2>1 DEF ToDdsAt, ToDdsLeading, ToDdsShut
  <2>3. /\ S[4] = One(Num(h, D)) /\ F[4] = One(Num(h, D)) /\ (4 \in Z <=> h = ToDds(0))
        /\ T[4] = {} /\ G[4] = {} /\ 4 \notin Y
    BY <2>1 DEF ToDdsAt, ToDdsLeading, ToDdsShut, Hand, Stuck
  <2>4. \A l \in 1..8 : l # 3 /\ l # 4 => S[l] = T[l] /\ G[l] \subseteq F[l] /\ (l \in Z => l \in Y)
    <3>1. (\A l \in 1..2 : S[l] = T[l]) /\ \A l \in 5..8 : S[l] = T[l]
      BY <1>1, <2>1 DEF ToDdsAt, Hand, DdsNums
    <3>2. \A l \in 1..8 : l # 3 /\ l # 4 => G[l] \subseteq F[l]
      BY <1>1, <2>1 DEF ToDdsAt, ToDdsLeading, Hand, DdsNums
    <3>3. \A l \in 1..8 : l # 3 /\ l # 4 => (l \in Z => l \in Y)
      BY <1>1, <2>1 DEF ToDdsShut, Stuck
    <3> QED
      BY <3>1, <3>2, <3>3
  <2>5. 3 \in 1..8 /\ 4 \in 1..8 /\ 4 = 3 + 1
    OBVIOUS
  <2> HIDE DEF S, F, Z, T, G, Y, h
  <2>6. PutStep(S, F, Z, T, G, Y, 3, 4, ddsq, h)
    BY <2>2, <2>3, <2>4 DEF PutStep
  <2>7. Gapless(T, G, Y, recvd)
    BY <1>0, <2>5, <2>6, PutHandle
  <2> QED
    BY <1>1, <2>7 DEF GapNow, T, G, Y
<1>7. CASE MqttReadFirst \/ MqttPublish
  <2>1. UNCHANGED <<ddsq, mqttq, rmsgq, ddsOut>> /\ Keeps("mqtt")
    BY <1>7, Types DEF MqttReadFirst, MqttPublish, Keeps, Free, D
  <2> QED
    BY <1>0, <1>1, <2>1, QuietGap DEF Keeps
<1> QED
  BY <1>2, <1>3, <1>4, <1>5, <1>6, <1>7 DEF MqttLoop

\* What is written next has the next number.
LEMMA WriteNumber ==
    ASSUME OrderInv, GapNow, Numbered, pc["dds"] = "write"
    PROVE  buf[1].n = Len(ddsOut) + 1
<1> DEFINE n == buf[1].n
           m == Len(ddsOut)
           S == ToDdsAt
<1> USE DEF OrderInv
<1>1. n = held["dds"].n /\ n \in Nat \ {0}
  <2>1. buf[1] = OfMqtt(held["dds"].n) /\ Convertible(held["dds"].n)
    BY DEF Converted
  <2>2. held["dds"] \in Handles
    BY Types
  <2> QED
    BY <2>1, <2>2 DEF OfMqtt, Convertible, Handles
<1>2. S[2] = {n} /\ ToDdsLeading[2] = {n}
  BY <1>1 DEF HandsOK, ToDdsAt, ToDdsLeading, Hand, One, Num
<1>3. m \in Nat /\ DOMAIN ddsOut = 1..m /\ S[1] = 1..m
  <2>1. m \in Nat /\ DOMAIN ddsOut = 1..m
    BY DEF TypeOK, OutOK
  <2>2. DOMAIN DdsNums = 1..m /\ \A i \in 1..m : DdsNums[i] = i
    BY <2>1 DEF Numbered, DdsNums, Written
  <2>3. S[1] = In(DdsNums)
    BY DEF ToDdsAt
  <2> HIDE DEF m, S
  <2> QED
    BY <2>1, <2>2, <2>3 DEF In
<1>4. \A a \in S[1] : a < n
  <2>1. Ordered(S) /\ n \in S[2]
    BY <1>2 DEF ToDdsOrder
  <2> HIDE DEF S, n
  <2> QED
    BY <2>1 DEF Ordered
<1>5. 1 .. n-1 \subseteq UpTo(S, 2)
  <2>1. Clear(ToDdsShut, 2)
    BY DEF Clear, ToDdsShut
  <2>2. n \in ToDdsLeading[2] /\ 2 \in 1..8
    BY <1>2
  <2> HIDE DEF S, n
  <2> QED
    BY <2>1, <2>2 DEF GapNow, Gapless, S
<1> HIDE DEF S, n, m
<1>6. 1 .. n-1 \subseteq 1..m
  <2> SUFFICES ASSUME NEW a \in 1 .. n-1 PROVE a \in 1..m
    OBVIOUS
  <2>1. PICK l \in 1..2 : a \in S[l]
    BY <1>5 DEF UpTo
  <2>2. l # 2
    BY <1>1, <1>2, <2>1
  <2> QED
    BY <1>3, <2>1, <2>2
<1>7. m <= n - 1
  <2>1. CASE m = 0
    BY <1>1, <2>1
  <2>2. CASE m # 0
    <3>1. m \in 1..m
      BY <1>3, <2>2
    <3>2. m < n
      BY <1>3, <1>4, <3>1
    <3> QED
      BY <1>1, <1>3, <3>2
  <2> QED
    BY <2>1, <2>2
<1>8. n - 1 <= m
  <2>1. CASE n = 1
    BY <1>3, <2>1
  <2>2. CASE n # 1
    <3>1. n - 1 \in 1 .. n-1
      BY <1>1, <2>2
    <3> QED
      BY <1>3, <1>6, <3>1
  <2> QED
    BY <2>1, <2>2
<1> QED
  BY <1>1, <1>3, <1>7, <1>8 DEF n, m

\* dds_client
LEMMA DdsGap == ASSUME OrderInv, GapNow, DdsClient PROVE GapNow'
<1> DEFINE S == ToDdsAt
           F == ToDdsLeading
           Z == ToDdsShut
           T == ToDdsAt'
           G == ToDdsLeading'
           Y == ToDdsShut'
           h == held["dds"]
<1> USE DEF OrderInv, At, Again, Goto, Hold, queues, net, out, mem
<1>0. /\ Gapless(S, F, Z, recvd) /\ recvd \in Nat
      /\ ddsq \in QueueOf(Handles) /\ mqttq \in QueueOf(Handles) /\ h \in Handles
      /\ NullHandle.type # D /\ \A n : ToMqtt(n).type # D
      /\ Adds(ddsq, ddsq) /\ Adds(mqttq, mqttq)
  <2>1. ddsq \in QueueOf(Handles) /\ mqttq \in QueueOf(Handles) /\ h \in Handles
    BY Types
  <2>2. NullHandle \in Handles /\ NullHandle.type # D /\ \A n : ToMqtt(n).type # D
    BY DEF NullHandle, ToMqtt, Handles, D
  <2> QED
    BY <2>1, <2>2, Types, AddsOther DEF GapNow
<1>1. CASE StartMqtt \/ AllocRmsgq \/ StartRecv \/ Subscribe
  <2>1. /\ UNCHANGED <<recvd, ddsq, mqttq, rmsgq, ddsOut>>
        /\ \/ Free("recv") /\ Free("recv")'
           \/ pc'["recv"] = pc["recv"] /\ held'["recv"] = held["recv"]
        /\ \/ Free("mqtt") /\ Free("mqtt")'
           \/ pc'["mqtt"] = pc["mqtt"] /\ held'["mqtt"] = held["mqtt"]
        /\ Free("dds") /\ Free("dds")'
    BY <1>1, Types DEF StartMqtt, AllocRmsgq, StartRecv, Subscribe, HandsOK, Free
  <2> QED
    BY <1>0, <2>1, QuietGap DEF Keeps
<1>2. CASE \E how : End(how)
  <2>1. UNCHANGED <<recvd, ddsq, mqttq, rmsgq, ddsOut, pc, held>>
    BY <1>2 DEF End
  <2> QED
    BY <1>0, <2>1, QuietGap DEF Keeps
<1>3. CASE DdsTakeNothing \/ DdsTakeFirst \/ DdsTakeInvalid \/ DdsTakeLast
  <2>1. /\ UNCHANGED <<recvd, ddsq, mqttq, rmsgq, ddsOut>>
        /\ pc["dds"] \in {"take", "take_last"} /\ pc'["dds"] \in {"check", "take_last", "append"}
        /\ \A t \in {"recv", "mqtt"} : pc'[t] = pc[t] /\ held'[t] = held[t]
    BY <1>3, Types DEF DdsTakeNothing, DdsTakeFirst, DdsTakeInvalid, DdsTakeLast, MkHandle
  <2>2. pc'["dds"] = "append" => held'["dds"].type # D
    BY <1>0, <1>3, Types DEF DdsTakeNothing, DdsTakeFirst, DdsTakeInvalid, DdsTakeLast, MkHandle
  <2>3. Free("dds") /\ Free("dds")'
    BY <2>1, <2>2 DEF Free
  <2> QED
    BY <1>0, <2>1, <2>3, QuietGap DEF Keeps
<1>4. CASE DdsAppend \/ DdsForward
  <2>1. /\ UNCHANGED <<recvd, rmsgq, ddsOut>>
        /\ ddsq' \in {ddsq, Push(ddsq, h)} /\ mqttq' \in {mqttq, Push(mqttq, h)}
        /\ \A t \in {"recv", "mqtt"} : pc'[t] = pc[t] /\ held'[t] = held[t]
        /\ pc'["dds"] = "check"
    BY <1>4, Types DEF DdsAppend, DdsForward
  <2>2. h.type # D
    BY <1>4 DEF DdsAppend, DdsForward, HandsOK, D
  <2>3. Free("dds") /\ Free("dds")'
    BY <2>1, <2>2 DEF Free
  <2>4. Adds(ddsq, ddsq') /\ Adds(mqttq, mqttq')
    BY <1>0, <2>1, <2>2, AddsOther
  <2> QED
    BY <2>1, <2>3, <2>4, QuietGap DEF Keeps
<1>5. CASE DdsConvertFirst \/ DdsConvertLast
  <2>1. /\ UNCHANGED <<recvd, ddsq, mqttq, rmsgq, ddsOut, held>>
        /\ pc["dds"] \in {"work", "convert_last"} /\ pc'["dds"] \in {"convert_last", "write"}
        /\ \A t \in {"recv", "mqtt"} : pc'[t] = pc[t]
    BY <1>5, Types DEF DdsConvertFirst, DdsConvertLast
  <2> QED
    BY <1>0, <2>1, QuietGap DEF Keeps
<1>6. CASE DdsCheck
  <2>1. /\ pc["dds"] = "check" /\ h = NullHandle
        /\ UNCHANGED <<recvd, mqttq, rmsgq, ddsOut>>
        /\ \A t \in {"recv", "mqtt"} : pc'[t] = pc[t] /\ held'[t] = held[t]
    BY <1>6, Types DEF DdsCheck, TakeHandle, HandsOK
  <2>2. CASE ddsq.items = <<>>
    <3>1. ddsq' = ddsq /\ pc'["dds"] = "take"
      BY <1>6, <2>2, Types DEF DdsCheck, TakeHandle
    <3>2. Keeps("dds")
      BY <2>1, <3>1 DEF Keeps, Free
    <3> QED
      BY <1>0, <2>1, <3>1, <3>2, QuietGap DEF Keeps
  <2>3. CASE ddsq.items # <<>>
    <3> DEFINE x == Head(ddsq.items)
    <3>1. /\ ddsq' = Pop(ddsq) /\ held'["dds"] = x
          /\ pc'["dds"] = IF x = NullHandle THEN "take" ELSE "work"
      BY <1>6, <2>3, Types DEF DdsCheck, TakeHandle
    <3>2. One(Num(NullHandle, D)) = {} /\ NullHandle # ToDds(0)
      BY NullNum DEF NullHandle, ToDds
    <3>3. /\ S[2] = {} /\ 2 \notin Z
          /\ T[2] = One(Num(x, D)) /\ G[2] = One(Num(x, D))
          /\ 2 \in Y <=> x = ToDds(0)
      BY <2>1, <3>1, <3>2 DEF ToDdsAt, ToDdsLeading, ToDdsShut, Hand, Stuck
    <3>4. /\ S[3] = In(Nums(ddsq.items, D)) /\ T[3] = In(Nums(Pop(ddsq).items, D))
          /\ F[3] = Leading(ddsq.items, DdsNum, ToDds(0))
          /\ G[3] = Leading(Pop(ddsq).items, DdsNum, ToDds(0))
          /\ 3 \in Z <=> Blocked(ddsq, ToDds(0))
          /\ 3 \in Y <=> Blocked(Pop(ddsq), ToDds(0))
      BY <3>1 DEF ToDdsAt, ToDdsLeading, ToDdsShut
    <3>5. \A l \in 1..8 : l # 2 /\ l # 3 =>
             S[l] = T[l] /\ G[l] \subseteq F[l] /\ (l \in Z => l \in Y)
      <4>1. (\A l \in 1..1 : S[l] = T[l]) /\ \A l \in 4..8 : S[l] = T[l]
        BY <2>1, <3>1, <3>2 DEF ToDdsAt, Hand, DdsNums
      <4>2. \A l \in 1..8 : l # 2 /\ l # 3 => G[l] \subseteq F[l]
        BY <2>1, <3>1, <3>2 DEF ToDdsAt, ToDdsLeading, Hand, DdsNums
      <4>3. \A l \in 1..8 : l # 2 /\ l # 3 => (l \in Z => l \in Y)
        BY <2>1, <3>1, <3>2 DEF ToDdsShut, Stuck
      <4> QED
        BY <4>1, <4>2, <4>3
    <3>6. 2 \in 1..8 /\ 3 \in 1..8 /\ 3 = 2 + 1 /\ Increasing(Nums(ddsq.items, D))
      BY DEF ToDdsOrder
    <3> HIDE DEF S, F, Z, T, G, Y
    <3>7. TakeStep(S, F, Z, T, G, Y, 2, 3, ddsq)
      BY <3>3, <3>4, <3>5 DEF TakeStep
    <3>8. Gapless(T, G, Y, recvd)
      BY <1>0, <2>3, <3>6, <3>7, TakeHandleGap
    <3> QED
      BY <2>1, <3>8 DEF GapNow, T, G, Y
  <2> QED
    BY <2>2, <2>3
<1>7. CASE DdsWrite /\ ~End("exit")
  <2>1. /\ pc["dds"] = "write" /\ pc'["dds"] = "check" /\ ddsOut' = Append(ddsOut, buf)
        /\ UNCHANGED <<recvd, ddsq, mqttq, rmsgq>>
        /\ \A t \in {"recv", "mqtt"} : pc'[t] = pc[t] /\ held'[t] = held[t]
    BY <1>7, Types DEF DdsWrite
  <2>2. /\ h.type = D /\ buf[1].n = h.n /\ h.n \in Nat \ {0}
        /\ One(Num(h, D)) = One(buf[1].n) /\ h # ToDds(0)
    <3>1. h.type = D /\ buf[1] = OfMqtt(h.n) /\ h.n # 0
      BY <2>1 DEF HandsOK, Converted, Convertible
    <3>2. h.n \in Nat
      BY <1>0 DEF Handles
    <3> QED
      BY <3>1, <3>2 DEF OfMqtt, Num, ToDds
  <2>3. S[1] = In(DdsNums) /\ T[1] = In(DdsNums) \cup One(buf[1].n)
    <3>1. DdsNums \in Seq(Nat) /\ DdsNums' = Append(DdsNums, buf[1].n) /\ buf[1].n \in Nat
      BY <2>1, <2>2, DdsNumsAppend
    <3>2. In(DdsNums') = In(DdsNums) \cup One(buf[1].n)
      BY <3>1, InAppend
    <3> QED
      BY <3>2 DEF ToDdsAt
  <2>4. /\ G[1] = {} /\ 1 \notin Z
        /\ S[2] = One(buf[1].n) /\ T[2] = {} /\ G[2] = {} /\ 2 \notin Z
    BY <2>1, <2>2 DEF ToDdsAt, ToDdsLeading, ToDdsShut, Hand, Stuck
  <2>5. \A l \in 1..8 : l # 1 /\ l # 2 => S[l] = T[l] /\ G[l] \subseteq F[l] /\ (l \in Z => l \in Y)
    <3>1. /\ S[3] = T[3] /\ S[4] = T[4] /\ S[5] = T[5]
          /\ S[6] = T[6] /\ S[7] = T[7] /\ S[8] = T[8]
      BY <2>1 DEF ToDdsAt, Hand
    <3>2. \A l \in 1..8 : l # 1 /\ l # 2 => G[l] \subseteq F[l]
      BY <2>1 DEF ToDdsAt, ToDdsLeading, Hand
    <3>3. \A l \in 1..8 : l # 1 /\ l # 2 => (l \in Z => l \in Y)
      BY <2>1 DEF ToDdsShut, Stuck
    <3> QED
      BY <3>1, <3>2, <3>3
  <2>6. 1 \in 1..8 /\ 2 \in 1..8 /\ 2 = 1 + 1
    OBVIOUS
  <2> HIDE DEF S, F, Z, T, G, Y
  <2>7. Passes(S, F, Z, T, G, Y, 1, 2)
    BY <2>3, <2>4, <2>5 DEF Passes
  <2>8. Gapless(T, G, Y, recvd)
    BY <1>0, <2>6, <2>7, PassGapless
  <2> QED
    BY <2>1, <2>8 DEF GapNow, T, G, Y
<1>8. DdsSetup \/ DdsTakeFails \/ DdsConvertNull \/ DdsWrite =>
         \/ \E how : End(how)
         \/ DdsWrite /\ ~End("exit")
         \/ DdsSetup /\ ~End("exit")
  BY DEF DdsTakeFails, DdsConvertNull
<1>9. CASE DdsSetup /\ ~End("exit")
  <2>1. /\ UNCHANGED <<recvd, ddsq, mqttq, rmsgq, ddsOut, held>>
        /\ Free("dds") /\ Free("dds")'
        /\ \A t \in {"recv", "mqtt"} : pc'[t] = pc[t]
    BY <1>9, Types DEF DdsSetup, Free
  <2> QED
    BY <1>0, <2>1, QuietGap DEF Keeps
<1> QED
  BY <1>1, <1>2, <1>3, <1>4, <1>5, <1>6, <1>7, <1>8, <1>9 DEF DdsClient
-----------------------------------------------------------------------------
(* Every reachable state is without gaps *)

\* At first there is nothing on the way.
LEMMA InitGap == Init => GapInv
<1> SUFFICES ASSUME Init PROVE Ready /\ GapNow /\ Numbered
  BY DEF GapInv
<1> USE DEF Init
<1>1. pc["dds"] = "start_mqtt" /\ pc["mqtt"] = "off" /\ pc["recv"] = "off"
  BY InitTypeOK, Types
<1>2. ddsq.items = <<>> /\ mqttq.items = <<>> /\ rmsgq.items = <<>>
  BY DEF NewQueue
<1>3. Nums(<<>>, D) = <<>> /\ DdsNums = <<>>
  BY DEF Nums, DdsNums, Written
<1>4. \A f, z : Leading(<<>>, f, z) = {}
  BY DEF Leading, Ahead
<1>5. \A l \in 1..8 : ToDdsLeading[l] = {}
  BY <1>1, <1>2, <1>4 DEF ToDdsLeading, ToDdsAt, Hand
<1>6. 1..0 \subseteq UpTo(ToDdsAt, 8)
  OBVIOUS
<1>7. GapNow
  BY <1>5, <1>6 DEF GapNow, Gapless
<1> QED
  BY <1>1, <1>7 DEF Ready, Numbered

\* Only nftp_vec_alloc's failure leaves rmsgq NULL.
LEMMA ReadyKept ==
    ASSUME OrderInv, Ready, RecvLoop \/ MqttLoop \/ DdsClient, oom' = 0
    PROVE  Ready'
<1> USE DEF OrderInv, At, Again, Goto, Hold, queues, net, out, mem, Ready, End
<1>0. oom \in Nat
  BY ProxyAssumption DEF TypeOK, RunOK
<1>1. CASE RecvLoop
  BY <1>1, Types DEF RecvLoop, RecvPacket, RecvNothing, RecvAppend
<1>2. CASE MqttLoop
  BY <1>2, Types DEF MqttLoop, MqttCheck, TakeHandle, MqttRecvNull, MqttRecvNothing, MqttRecvMsg,
         MqttAppend, MqttForward, MqttReadFirst, MqttPublish
<1>3. CASE AllocRmsgq
  BY <1>0, <1>3 DEF AllocRmsgq
<1>4. CASE DdsClient /\ ~AllocRmsgq
  <2>1. rmsgqReady' = rmsgqReady
    BY <1>4 DEF DdsClient, StartMqtt, StartRecv, Subscribe, DdsSetup, DdsCheck, DdsTakeNothing,
           DdsTakeFails, DdsTakeFirst, DdsTakeLast, DdsTakeInvalid, DdsAppend, DdsForward,
           DdsConvertNull, DdsConvertFirst, DdsConvertLast, DdsWrite
  <2>2. pc["dds"] \in {"start_mqtt", "alloc_rmsgq"} => pc'["dds"] \in {"start_mqtt", "alloc_rmsgq"}
    BY <1>4, Types
       DEF DdsClient, StartMqtt, StartRecv, Subscribe, DdsSetup, DdsCheck, DdsTakeNothing,
           DdsTakeFails, DdsTakeFirst, DdsTakeLast, DdsTakeInvalid, DdsAppend, DdsForward,
           DdsConvertNull, DdsConvertFirst, DdsConvertLast, DdsWrite
  <2> QED
    BY <2>1, <2>2
<1> QED
  BY <1>1, <1>2, <1>3, <1>4

\* dds_write continues the numbers, and nothing else writes.
LEMMA NumberedKept ==
    ASSUME OrderInv, GapNow, Numbered, RecvLoop \/ MqttLoop \/ DdsClient
    PROVE  Numbered'
<1> USE DEF OrderInv, At, Again, Goto, Hold, queues, net, out, mem, End
<1>1. CASE ddsOut' = ddsOut
  BY <1>1 DEF Numbered
<1>2. CASE DdsWrite /\ ddsOut' # ddsOut
  <2> DEFINE s == ddsOut
             r == ddsOut'
  <2>1. pc["dds"] = "write" /\ r = Append(s, buf) /\ s \in Seq([1..2 -> Contents])
    BY <1>2 DEF DdsWrite, TypeOK, OutOK
  <2>2. buf[1].n = Len(s) + 1 /\ buf \in [1..2 -> Contents]
    BY <2>1, WriteNumber, Types
  <2> HIDE DEF s, r
  <2>3. /\ DOMAIN s = 1..Len(s) /\ DOMAIN r = 1 .. Len(s) + 1 /\ Len(s) \in Nat
        /\ \A i \in 1..Len(s) : r[i] = s[i]
        /\ r[Len(s) + 1] = buf
    BY <2>1, <2>2, AppendProperties
  <2>4. ASSUME NEW i \in DOMAIN r PROVE r[i][1].n = i
    <3>1. CASE i \in DOMAIN s
      <4>1. r[i] = s[i]
        BY <2>3, <3>1
      <4> QED
        BY <3>1, <4>1 DEF Numbered, s
    <3>2. CASE i \notin DOMAIN s
      <4>1. i = Len(s) + 1 /\ r[i] = buf
        BY <2>3, <3>2
      <4> QED
        BY <2>2, <4>1
    <3> QED
      BY <3>1, <3>2
  <2> QED
    BY <2>4 DEF Numbered, r
<1>3. CASE RecvLoop
  BY <1>1, <1>3 DEF RecvLoop, RecvPacket, RecvNothing, RecvAppend
<1>4. CASE MqttLoop
  BY <1>1, <1>4 DEF MqttLoop, MqttCheck, MqttRecvNull, MqttRecvNothing, MqttRecvMsg,
         MqttAppend, MqttForward, MqttReadFirst, MqttPublish
<1>5. CASE DdsClient /\ ~DdsWrite
  BY <1>1, <1>5 DEF DdsClient, StartMqtt, AllocRmsgq, StartRecv, Subscribe, DdsSetup, DdsCheck,
         DdsTakeNothing, DdsTakeFails, DdsTakeFirst, DdsTakeLast, DdsTakeInvalid, DdsAppend,
         DdsForward, DdsConvertNull, DdsConvertFirst, DdsConvertLast
<1> QED
  BY <1>1, <1>2, <1>3, <1>4, <1>5

\* Every step keeps the invariant.
LEMMA NextGap == OrderInv /\ GapInv /\ [Next]_vars => GapInv'
<1> SUFFICES ASSUME OrderInv, GapInv, [Next]_vars, oom' = 0
             PROVE  Ready' /\ GapNow' /\ Numbered'
  BY DEF GapInv
<1> USE DEF vars, queues, mem, net, out
<1>1. CASE RecvLoop \/ MqttLoop \/ DdsClient
  <2>1. oom = 0
    <3>1. oom \in Nat
      BY ProxyAssumption DEF OrderInv, TypeOK, RunOK
    <3>2. oom' = oom \/ oom' = oom + 1
      BY <1>1
         DEF RecvLoop, RecvPacket, RecvNothing, RecvAppend, MqttLoop, MqttCheck, MqttRecvNull,
             MqttRecvNothing, MqttRecvMsg, MkHandle, MqttAppend, MqttForward, MqttReadFirst,
             MqttPublish, DdsClient, StartMqtt, AllocRmsgq, StartRecv, Subscribe, DdsSetup,
                DdsCheck,
             DdsTakeNothing, DdsTakeFails, DdsTakeFirst, DdsTakeLast, DdsTakeInvalid, DdsAppend,
             DdsForward, DdsConvertNull, DdsConvertFirst, DdsConvertLast, DdsWrite, End
    <3> QED
      BY <3>1, <3>2
  <2>2. Ready /\ GapNow /\ Numbered
    BY <2>1 DEF GapInv
  <2>3. GapNow'
    BY <1>1, <2>2, RecvGap, MqttGap, DdsGap
  <2> QED
    BY <1>1, <2>2, <2>3, ReadyKept, NumberedKept
<1>2. CASE UNCHANGED <<pc, held, queues, oom, recvd, ddsOut>>
  <2>1. Ready /\ GapNow /\ Numbered
    BY <1>2 DEF GapInv
  <2>2. Adds(ddsq, ddsq) /\ Adds(mqttq, mqttq)
    BY DEF Adds
  <2>3. GapNow'
    BY <1>2, <2>1, <2>2, QuietGap DEF Keeps
  <2> QED
    BY <1>2, <2>1, <2>3 DEF Ready, Numbered
<1> QED
  BY <1>1, <1>2 DEF Next, MqttArrives, SampleArrives, Ended

\* What dds_write is given are the first messages that mqtt_recv_loop has
\* received, as long as malloc does not fail: a queue that overflows loses all
\* that follows, never one message between two others.
THEOREM NothingSkipped == Spec => []MqttToDdsNoGap
<1>1. OrderInv /\ GapInv => MqttToDdsNoGap
  BY DEF MqttToDdsNoGap, GapInv, Numbered, OrderInv, Converted
<1>2. Init => OrderInv /\ GapInv
  BY InitOrder, InitGap
<1>3. (OrderInv /\ GapInv) /\ [Next]_vars => (OrderInv /\ GapInv)'
  BY NextOrder, NextGap
<1> QED
  BY <1>1, <1>2, <1>3, PTL DEF Spec
=============================================================================
