-------------------------------- MODULE Proxy --------------------------------
(***************************************************************************)
(* "dds2mqtt proxy": the three threads of dds_proxy and the queues and     *)
(* the sample buffer they share.                                           *)
(*                                                                         *)
(*   recv   mqtt_recv_loop: polls the MQTT socket, fills rmsgq.            *)
(*   mqtt   mqtt_loop: turns entries of rmsgq into handles, forwards       *)
(*          handles for DDS to ddsq, publishes handles for MQTT.           *)
(*   dds    the main thread: starts the other two (mqtt_connect), then     *)
(*          dds_client: takes samples, forwards handles for MQTT to mqttq, *)
(*          writes handles for DDS to the DDS network.                     *)
(*                                                                         *)
(* Every access to a handle queue is one pthread_mutex critical section,   *)
(* and is one step here; HandleQueue.tla justifies it.  samples[0] is      *)
(* accessed without a lock, so it is two words, each accessed in a step of *)
(* its own, that stand for the fields written first and last.              *)
(***************************************************************************)
EXTENDS Fifo, FiniteSets

CONSTANTS
    Inbound,    \* what the broker sends, in order: a sequence of packet kinds
    NSamples,   \* how many samples the DDS network offers
    MaxOom      \* bound on failing calls of malloc

Kinds == {"publish",   \* a PUBLISH whose payload has all the fields
          "garbled",   \* a PUBLISH whose payload does not parse or lacks a field
          "other"}     \* a packet that is not a PUBLISH

ASSUME ProxyAssumption ==
    /\ Inbound \in Seq(Kinds)
    /\ NSamples \in Nat
    /\ MaxOom \in Nat

VARIABLES
    fate,        \* "up", or how the process ended: "segv" or "exit"
    pc,          \* pc[t]: the next step of thread t
    held,        \* held[t]: the handle (nng_msg, for recv) in t's local variable
    ddsq,        \* ddscli.handleq
    mqttq,       \* mqttcli.handleq
    rmsgq,       \* the static rmsgq of mqtt_client.c
    rmsgqReady,  \* rmsgq # NULL
    buf,         \* the memory samples[0] points to, in two words
    half,        \* what the mqtt thread has read of buf
    subscribed,  \* the broker has granted the subscription
    arrived,     \* how many packets the broker has delivered to the socket
    recvd,       \* how many of them nng_recvmsg has returned
    offered,     \* how many samples the DDS network has offered
    reader,      \* the sample in the DDS reader's cache; 0 when it is empty
    oom,         \* how many calls of malloc have failed
    ddsOut,      \* history: what dds_write has written
    mqttOut      \* history: what mqtt_publish has sent, each with the handle

queues == <<ddsq, mqttq, rmsgq, rmsgqReady>>
mem    == <<buf, half>>
net    == <<subscribed, arrived, recvd, offered, reader>>
out    == <<ddsOut, mqttOut>>
vars   == <<fate, pc, held, queues, mem, net, oom, out>>

Threads == {"recv", "mqtt", "dds"}
-----------------------------------------------------------------------------
(* Handles and contents.  A handle for DDS carries nng message n, 0 being a *)
(* NULL pointer; a handle for MQTT always points to samples[0], and n only  *)
(* records the sample it was made for.                                      *)

NullHandle == [type |-> "NULL", n |-> 0]
ToDds(n)   == [type |-> "HANDLE_TO_DDS", n |-> n]
ToMqtt(n)  == [type |-> "HANDLE_TO_MQTT", n |-> n]

Handles  == [type : {"NULL", "HANDLE_TO_DDS", "HANDLE_TO_MQTT"}, n : Nat]
Contents == [net : {"none", "mqtt", "dds"}, n : Nat]

Blank    == [net |-> "none", n |-> 0]
OfDds(n)  == [net |-> "dds", n |-> n]
OfMqtt(n) == [net |-> "mqtt", n |-> n]

Goto(t, label) == pc' = [pc EXCEPT ![t] = label]

\* Thread t is at the given step of a process that still runs.
At(t, label) == fate = "up" /\ pc[t] = label

End(how) ==
    /\ fate' = how
    /\ UNCHANGED <<pc, held, queues, mem, net, oom, out>>

\* mk_handle: h is the handle it would make, and the result is NULL when
\* malloc fails.
MkHandle(t, h) ==
    \/ held' = [held EXCEPT ![t] = h] /\ UNCHANGED oom
    \/ /\ oom < MaxOom
       /\ oom' = oom + 1
       /\ held' = [held EXCEPT ![t] = NullHandle]

Hold(t, h) == held' = [held EXCEPT ![t] = h]

\* The next iteration of thread t's loop, which starts with hd = NULL.
Again(t, label) == Hold(t, NullHandle) /\ Goto(t, label)

\* The head of a handle queue is popped under its mutex; an empty queue, or
\* a NULL entry, leaves the thread to look for a message.
TakeHandle(t, q, look) ==
    IF q.items = <<>>
    THEN Goto(t, look) /\ UNCHANGED held
    ELSE /\ Hold(t, Head(q.items))
         /\ Goto(t, IF Head(q.items) = NullHandle THEN look ELSE "work")
-----------------------------------------------------------------------------
(* dds_proxy and mqtt_connect, on the main thread *)

Startup == {"start_mqtt", "alloc_rmsgq", "start_recv", "subscribe", "setup"}

\* dds_client_init, client_connect and the first half of mqtt_connect run
\* before there is a second thread.
Init ==
    /\ fate = "up"
    /\ pc = [t \in Threads |-> IF t = "dds" THEN "start_mqtt" ELSE "off"]
    /\ held = [t \in Threads |-> NullHandle]
    /\ ddsq = NewQueue /\ mqttq = NewQueue /\ rmsgq = NewQueue
    /\ rmsgqReady = FALSE
    /\ buf = <<Blank, Blank>>
    /\ half = Blank
    /\ subscribed = FALSE
    /\ arrived = 0 /\ recvd = 0 /\ offered = 0 /\ reader = 0
    /\ oom = 0
    /\ ddsOut = <<>> /\ mqttOut = <<>>

StartMqtt ==
    /\ At("dds", "start_mqtt")
    /\ pc' = [pc EXCEPT !["dds"] = "alloc_rmsgq", !["mqtt"] = "check"]
    /\ UNCHANGED <<fate, held, queues, mem, net, oom, out>>

\* nftp_vec_alloc(&rmsgq); its result is ignored.
AllocRmsgq ==
    /\ At("dds", "alloc_rmsgq")
    /\ Goto("dds", "start_recv")
    /\ \/ rmsgqReady' = TRUE /\ UNCHANGED oom
       \/ oom < MaxOom /\ oom' = oom + 1 /\ UNCHANGED rmsgqReady
    /\ UNCHANGED <<fate, held, ddsq, mqttq, rmsgq, mem, net, out>>

StartRecv ==
    /\ At("dds", "start_recv")
    /\ pc' = [pc EXCEPT !["dds"] = "subscribe", !["recv"] = "recv"]
    /\ UNCHANGED <<fate, held, queues, mem, net, oom, out>>

\* mqtt_subscribe is synchronous; its result is ignored.
Subscribe ==
    /\ At("dds", "subscribe")
    /\ Goto("dds", "setup")
    /\ subscribed' \in BOOLEAN
    /\ UNCHANGED <<fate, held, queues, mem, arrived, recvd, offered, reader, oom, out>>

\* The DDS entities; DDS_FATAL ends the process when one cannot be created.
DdsSetup ==
    /\ At("dds", "setup")
    /\ \/ /\ Goto("dds", "check")
          /\ UNCHANGED <<fate, held, queues, mem, net, oom, out>>
       \/ End("exit")
-----------------------------------------------------------------------------
(* mqtt_recv_loop *)

\* client_recv2 returns 0 with a PUBLISH; a packet of another type is taken
\* off the socket too, but msg stays NULL.
RecvPacket ==
    /\ At("recv", "recv")
    /\ recvd < arrived
    /\ recvd' = recvd + 1
    /\ Hold("recv", ToDds(IF Inbound[recvd + 1] = "other" THEN 0 ELSE recvd + 1))
    /\ Goto("recv", "append")
    /\ UNCHANGED <<fate, queues, mem, subscribed, arrived, offered, reader, oom, out>>

\* nng_recvmsg has nothing to return (NNG_FLAG_NONBLOCK): msg stays NULL.
RecvNothing ==
    /\ At("recv", "recv")
    /\ recvd = arrived
    /\ Hold("recv", ToDds(0))
    /\ Goto("recv", "append")
    /\ UNCHANGED <<fate, queues, mem, net, oom, out>>

\* The result of client_recv2 is ignored: msg is appended, NULL or not.
RecvAppend ==
    /\ At("recv", "append")
    /\ rmsgq' = IF rmsgqReady THEN Push(rmsgq, held["recv"].n) ELSE rmsgq
    /\ Again("recv", "recv")
    /\ UNCHANGED <<fate, ddsq, mqttq, rmsgqReady, mem, net, oom, out>>

RecvLoop == RecvPacket \/ RecvNothing \/ RecvAppend
-----------------------------------------------------------------------------
(* mqtt_loop *)

MqttCheck ==
    /\ At("mqtt", "check")
    /\ TakeHandle("mqtt", mqttq, "recv")
    /\ mqttq' = IF mqttq.items = <<>> THEN mqttq ELSE Pop(mqttq)
    /\ UNCHANGED <<fate, ddsq, rmsgq, rmsgqReady, mem, net, oom, out>>

\* client_recv: nftp_vec_len dereferences rmsgq, NULL or not.
MqttRecvNull ==
    /\ At("mqtt", "recv")
    /\ ~rmsgqReady
    /\ End("segv")

\* client_recv returns 1: sleep, then look again.
MqttRecvNothing ==
    /\ At("mqtt", "recv")
    /\ rmsgqReady
    /\ rmsgq.items = <<>>
    /\ Again("mqtt", "check")
    /\ UNCHANGED <<fate, queues, mem, net, oom, out>>

\* client_recv returns 0 and the message, NULL or not, gets a handle.
MqttRecvMsg ==
    /\ At("mqtt", "recv")
    /\ rmsgqReady
    /\ rmsgq.items # <<>>
    /\ MkHandle("mqtt", ToDds(Head(rmsgq.items)))
    /\ rmsgq' = Pop(rmsgq)
    /\ Goto("mqtt", "append")
    /\ UNCHANGED <<fate, ddsq, mqttq, rmsgqReady, mem, net, out>>

MqttAppend ==
    /\ At("mqtt", "append")
    /\ mqttq' = Push(mqttq, held["mqtt"])
    /\ Again("mqtt", "check")
    /\ UNCHANGED <<fate, ddsq, rmsgq, rmsgqReady, mem, net, oom, out>>

\* Fault: hd is not reset for the next iteration.
MqttForwardKeeps ==
    /\ At("mqtt", "work")
    /\ held["mqtt"].type = "HANDLE_TO_DDS"
    /\ ddsq' = Push(ddsq, held["mqtt"])
    /\ Goto("mqtt", "check")
    /\ UNCHANGED <<fate, held, mqttq, rmsgq, rmsgqReady, mem, net, oom, out>>

\* Fault: the handle is given up when the other client's mutex is taken.
MqttForwardTries ==
    /\ At("mqtt", "work")
    /\ held["mqtt"].type = "HANDLE_TO_DDS"
    /\ ddsq' \in {ddsq, Push(ddsq, held["mqtt"])}
    /\ Again("mqtt", "check")
    /\ UNCHANGED <<fate, mqttq, rmsgq, rmsgqReady, mem, net, oom, out>>

\* HANDLE_TO_DDS: put to the DDS client's handle queue.
MqttForward ==
    /\ At("mqtt", "work")
    /\ held["mqtt"].type = "HANDLE_TO_DDS"
    /\ ddsq' = Push(ddsq, held["mqtt"])
    /\ Again("mqtt", "check")
    /\ UNCHANGED <<fate, mqttq, rmsgq, rmsgqReady, mem, net, oom, out>>

\* HANDLE_TO_MQTT: HelloWorld_to_MQTT reads the fields of *ddsmsg in turn.
MqttReadFirst ==
    /\ At("mqtt", "work")
    /\ held["mqtt"].type = "HANDLE_TO_MQTT"
    /\ half' = buf[1]
    /\ Goto("mqtt", "read")
    /\ UNCHANGED <<fate, held, queues, buf, net, oom, out>>

\* Fault: a message that could not be sent is put back to be tried again.
MqttPublishRetries ==
    /\ At("mqtt", "read")
    /\ \/ /\ mqttOut' = Append(mqttOut, [sample  |-> held["mqtt"].n,
                                         payload |-> <<half, buf[2]>>])
          /\ UNCHANGED mqttq
       \/ /\ mqttq' = Push(mqttq, held["mqtt"])
          /\ UNCHANGED mqttOut
    /\ half' = Blank
    /\ Again("mqtt", "check")
    /\ UNCHANGED <<fate, ddsq, rmsgq, rmsgqReady, buf, net, oom, ddsOut>>

\* The last fields, then client_publish, whose result is ignored: the
\* non-blocking nng_sendmsg sends the message or fails.
MqttPublish ==
    /\ At("mqtt", "read")
    /\ \/ mqttOut' = Append(mqttOut, [sample  |-> held["mqtt"].n,
                                      payload |-> <<half, buf[2]>>])
       \/ UNCHANGED mqttOut
    /\ half' = Blank
    /\ Again("mqtt", "check")
    /\ UNCHANGED <<fate, queues, buf, net, oom, ddsOut>>

MqttLoop ==
    \/ MqttCheck \/ MqttRecvNull \/ MqttRecvNothing \/ MqttRecvMsg
    \/ MqttAppend \/ MqttForward \/ MqttReadFirst \/ MqttPublish
-----------------------------------------------------------------------------
(* dds_client *)

\* Fault: a handle that is popped is not worked on.
DdsCheckIdly ==
    /\ At("dds", "check")
    /\ Goto("dds", "take")
    /\ ddsq' = IF ddsq.items = <<>> THEN ddsq ELSE Pop(ddsq)
    /\ UNCHANGED <<fate, held, mqttq, rmsgq, rmsgqReady, mem, net, oom, out>>

DdsCheck ==
    /\ At("dds", "check")
    /\ TakeHandle("dds", ddsq, "take")
    /\ ddsq' = IF ddsq.items = <<>> THEN ddsq ELSE Pop(ddsq)
    /\ UNCHANGED <<fate, mqttq, rmsgq, rmsgqReady, mem, net, oom, out>>

\* dds_take has no sample: sleep, then look again.
DdsTakeNothing ==
    /\ At("dds", "take")
    /\ reader = 0
    /\ Again("dds", "check")
    /\ UNCHANGED <<fate, queues, mem, net, oom, out>>

DdsTakeFails ==
    /\ At("dds", "take")
    /\ End("exit")

\* dds_take copies a sample to samples[0], over what was there.  When the
\* writer of an earlier sample has gone, it reports that with a sample that
\* is not valid_data, and samples[0] is cleared.
DdsTakeFirst ==
    /\ At("dds", "take")
    /\ offered > 0
    /\ buf' = [buf EXCEPT ![1] = IF reader = 0 THEN Blank ELSE OfDds(reader)]
    /\ reader' = 0
    /\ Goto("dds", "take_last")
    /\ UNCHANGED <<fate, held, queues, half, subscribed, arrived, recvd, offered,
                   oom, out>>

\* Fault: a copy that keeps the last fields of the sample before.
DdsTakeShallow ==
    /\ At("dds", "take_last")
    /\ buf[1] # Blank
    /\ buf' = [buf EXCEPT ![2] = IF @ = Blank THEN buf[1] ELSE @]
    /\ MkHandle("dds", ToMqtt(buf[1].n))
    /\ Goto("dds", "append")
    /\ UNCHANGED <<fate, queues, half, net, out>>

\* A valid sample: samples[0] itself, not a copy, goes to a handle.
DdsTakeLast ==
    /\ At("dds", "take_last")
    /\ buf[1] # Blank
    /\ buf' = [buf EXCEPT ![2] = buf[1]]
    /\ MkHandle("dds", ToMqtt(buf[1].n))
    /\ Goto("dds", "append")
    /\ UNCHANGED <<fate, queues, half, net, out>>

\* A sample that is not valid: sleep, then look again.
DdsTakeInvalid ==
    /\ At("dds", "take_last")
    /\ buf[1] = Blank
    /\ buf' = [buf EXCEPT ![2] = Blank]
    /\ Again("dds", "check")
    /\ UNCHANGED <<fate, queues, half, net, oom, out>>

DdsAppend ==
    /\ At("dds", "append")
    /\ ddsq' = Push(ddsq, held["dds"])
    /\ Again("dds", "check")
    /\ UNCHANGED <<fate, mqttq, rmsgq, rmsgqReady, mem, net, oom, out>>

\* HANDLE_TO_MQTT: put to the MQTT client's handle queue.
DdsForward ==
    /\ At("dds", "work")
    /\ held["dds"].type = "HANDLE_TO_MQTT"
    /\ mqttq' = Push(mqttq, held["dds"])
    /\ Again("dds", "check")
    /\ UNCHANGED <<fate, ddsq, rmsgq, rmsgqReady, mem, net, oom, out>>

Convertible(n) == n # 0 /\ Inbound[n] = "publish"

\* HANDLE_TO_DDS: MQTT_to_HelloWorld fills samples[0], field after field.
DdsConvertFirst ==
    /\ At("dds", "work")
    /\ held["dds"].type = "HANDLE_TO_DDS"
    /\ held["dds"].n # 0
    /\ buf' = [buf EXCEPT ![1] = OfMqtt(held["dds"].n)]
    /\ Goto("dds", "convert_last")
    /\ UNCHANGED <<fate, held, queues, half, net, oom, out>>

\* Fault: a field that is missing is passed over.
DdsConvertAny ==
    /\ At("dds", "convert_last")
    /\ buf' = [buf EXCEPT ![2] = OfMqtt(held["dds"].n)]
    /\ Goto("dds", "write")
    /\ UNCHANGED <<fate, held, queues, half, net, oom, out>>

DdsConvertLast ==
    /\ At("dds", "convert_last")
    /\ Convertible(held["dds"].n)
    /\ buf' = [buf EXCEPT ![2] = OfMqtt(held["dds"].n)]
    /\ Goto("dds", "write")
    /\ UNCHANGED <<fate, held, queues, half, net, oom, out>>

\* The message is NULL, or MQTT_to_HelloWorld misses a field, the first or,
\* with samples[0] half filled, a later one: a NULL pointer is dereferenced.
DdsConvertNull ==
    /\ At("dds", "work") \/ At("dds", "convert_last")
    /\ held["dds"].type = "HANDLE_TO_DDS"
    /\ ~Convertible(held["dds"].n)
    /\ End("segv")

\* Fault: the handle is written again and again.
DdsWriteRepeats ==
    /\ At("dds", "write")
    /\ ddsOut' = Append(ddsOut, buf)
    /\ UNCHANGED <<fate, pc, held, queues, mem, net, oom, mqttOut>>

\* dds_write of samples[0], then free(hd).
DdsWrite ==
    /\ At("dds", "write")
    /\ \/ /\ ddsOut' = Append(ddsOut, buf)
          /\ Again("dds", "check")
          /\ UNCHANGED <<fate, queues, mem, net, oom, mqttOut>>
       \/ End("exit")

DdsClient ==
    \/ StartMqtt \/ AllocRmsgq \/ StartRecv \/ Subscribe \/ DdsSetup
    \/ DdsCheck \/ DdsTakeNothing \/ DdsTakeFails \/ DdsTakeFirst \/ DdsTakeLast
    \/ DdsTakeInvalid \/ DdsAppend \/ DdsForward \/ DdsConvertNull \/ DdsConvertFirst
    \/ DdsConvertLast \/ DdsWrite
-----------------------------------------------------------------------------
(* The networks *)

\* The broker sends the next packet to the subscribed socket.
MqttArrives ==
    /\ fate = "up"
    /\ subscribed
    /\ arrived < Len(Inbound)
    /\ arrived' = arrived + 1
    /\ UNCHANGED <<fate, pc, held, queues, mem, subscribed, recvd, offered, reader,
                   oom, out>>

\* The reader is created with the default history, KEEP_LAST with depth 1:
\* a sample that has not been taken gives way to the next one.
SampleArrives ==
    /\ fate = "up"
    /\ pc["dds"] \notin Startup
    /\ offered < NSamples
    /\ offered' = offered + 1
    /\ reader' = offered + 1
    /\ UNCHANGED <<fate, pc, held, queues, mem, subscribed, arrived, recvd, oom, out>>

\* The process is gone.  No other state is without a successor.
Ended ==
    /\ fate # "up"
    /\ UNCHANGED vars

Next == RecvLoop \/ MqttLoop \/ DdsClient \/ MqttArrives \/ SampleArrives \/ Ended

Spec == Init /\ [][Next]_vars

\* None of the threads ever blocks, and the operating system runs each.
\* The networks owe nothing.
FairSpec ==
    Spec /\ WF_vars(RecvLoop) /\ WF_vars(MqttLoop) /\ WF_vars(DdsClient)
-----------------------------------------------------------------------------
(* Properties *)

Labels ==
    Startup \cup {"off", "recv", "append", "check", "work", "read",
                  "take", "take_last", "convert_last", "write"}

RunOK ==
    /\ fate \in {"up", "segv", "exit"}
    /\ pc \in [Threads -> Labels]
    /\ held \in [Threads -> Handles]
    /\ oom \in 0..MaxOom

QueuesOK ==
    /\ ddsq \in QueueOf(Handles)
    /\ mqttq \in QueueOf(Handles)
    /\ rmsgq \in QueueOf(Nat)
    /\ rmsgqReady \in BOOLEAN

MemOK ==
    /\ buf \in [1..2 -> Contents]
    /\ half \in Contents

NetOK ==
    /\ subscribed \in BOOLEAN
    /\ arrived \in 0..Len(Inbound)
    /\ recvd \in 0..arrived
    /\ offered \in 0..NSamples
    /\ reader \in 0..offered

OutOK ==
    /\ ddsOut \in Seq([1..2 -> Contents])
    /\ mqttOut \in Seq([sample : Nat, payload : [1..2 -> Contents]])

\* The type invariant: in particular the socket never gives more packets than
\* arrived, and the reader never a sample that was not offered.
TypeOK == RunOK /\ QueuesOK /\ MemOK /\ NetOK /\ OutOK

Whole(c) == <<c, c>>          \* both words of the sample buffer hold c

\* What the proxy writes to the DDS network are MQTT messages, each whole,
\* each at most once and in the order in which the broker sent them, though
\* they cross three queues and two threads and share two of the queues and
\* the sample buffer with the traffic the other way (mqtt_loop, dds_client).
MqttToDdsInOrder ==
    \A i \in DOMAIN ddsOut :
        /\ Convertible(ddsOut[i][1].n)
        /\ ddsOut[i] = Whole(OfMqtt(ddsOut[i][1].n))
        /\ \A j \in 1 .. i-1 : ddsOut[j][1].n < ddsOut[i][1].n

\* Overflow is permanent, so unless malloc fails nothing is lost between two
\* messages that arrive: the samples written are the first messages received.
MqttToDdsNoGap ==
    oom = 0 => \A i \in DOMAIN ddsOut : ddsOut[i] = Whole(OfMqtt(i))

Occurs(s, x) == Cardinality({i \in DOMAIN s : s[i] = x})

\* Every message and every sample is with one owner: it is held by one
\* thread, or stands once in one queue, or has been written or sent.  After
\* free(hd) in dds_client no queue still has the handle.
OneOwner ==
    LET Holders(h) == Cardinality({t \in Threads : held[t] = h})
        Queued(h)  == Occurs(ddsq.items, h) + Occurs(mqttq.items, h)
        Sent(k)    == Cardinality({i \in DOMAIN mqttOut : mqttOut[i].sample = k})
    IN  /\ \A m \in 1..recvd :
              Holders(ToDds(m)) + Queued(ToDds(m)) + Occurs(rmsgq.items, m)
                + Occurs(ddsOut, Whole(OfMqtt(m))) <= 1
        /\ \A k \in 1..offered :
              Holders(ToMqtt(k)) + Queued(ToMqtt(k)) + Sent(k) <= 1

\* samples[0] may be overwritten before it is published, but never by
\* something older: a word that comes from the DDS network is at least as new
\* as the sample the handle was made for, and published words never go back.
PublishedNeverOlder ==
    \A i \in DOMAIN mqttOut, w \in 1..2 :
        mqttOut[i].payload[w].net = "dds" =>
            /\ mqttOut[i].payload[w].n >= mqttOut[i].sample
            /\ \A j \in 1 .. i-1 :
                  mqttOut[j].payload[w].net = "dds" =>
                      mqttOut[j].payload[w].n <= mqttOut[i].payload[w].n

\* No vector slot is used twice (nftp_vec_pop moves low up, nothing moves it
\* back), so both directions together forward at most Lifetime messages.
ForwardedWithinLifetime == Len(ddsOut) + Len(mqttOut) <= Lifetime

\* A message that has reached the DDS client's queue is written to the DDS
\* network, unless the process ends first: handles are served before samples.
QueuedIsWritten ==
    \A m \in 1..Len(Inbound) :
        Occurs(ddsq.items, ToDds(m)) > 0 ~>
            (fate # "up" \/ Occurs(ddsOut, Whole(OfMqtt(m))) > 0)
=============================================================================
