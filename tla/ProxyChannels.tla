--------------------------- MODULE ProxyChannels ----------------------------
(***************************************************************************)
(* Each direction of the proxy is a channel that may lose messages, but    *)
(* nothing worse, though the two share queues, threads and a buffer.       *)
(***************************************************************************)
EXTENDS Proxy

-----------------------------------------------------------------------------
(* The numbers of messages.  Number 0 stands for what is none of either way.  *)

D == "HANDLE_TO_DDS"
M == "HANDLE_TO_MQTT"

Num(h, type) == IF h.type = type THEN h.n ELSE 0

\* The numbers of the handles of a type in a queue, each at its place.
Nums(s, type) == [i \in DOMAIN s |-> Num(s[i], type)]

\* The numbers of what has been written, and of what has been published.
Written(s) == [i \in DOMAIN s |-> s[i][1].n]
Sampled(s) == [i \in DOMAIN s |-> s[i].sample]

DdsNums  == Written(ddsOut)
MqttNums == Sampled(mqttOut)

One(x) == {x} \ {0}
In(s)  == {s[i] : i \in DOMAIN s} \ {0}

\* The number a thread holds, if it is at one of these steps.
Hand(t, type, labels) == IF pc[t] \in labels THEN One(Num(held[t], type)) ELSE {}

-----------------------------------------------------------------------------
(* The channels *)

\* A message that is written torn or mixed counts as number 0.
WrittenToDds ==
    [i \in DOMAIN ddsOut |->
        IF ddsOut[i] = Whole(OfMqtt(ddsOut[i][1].n)) THEN ddsOut[i][1].n ELSE 0]

\* On the way from nng_recvmsg to dds_write: rmsgq, mqttq, ddsq.
InsideToDds ==
    Hand("dds", D, {"work", "convert_last", "write"})
        \cup In(Nums(ddsq.items, D)) \cup Hand("mqtt", D, {"work"})
        \cup In(Nums(mqttq.items, D)) \cup Hand("mqtt", D, {"append"})
        \cup In(rmsgq.items) \cup Hand("recv", D, {"append"})

\* On the way from the DDS reader's cache to nng_sendmsg: ddsq, mqttq.
InsideToMqtt ==
    Hand("mqtt", M, {"work", "read"})
        \cup In(Nums(mqttq.items, M)) \cup Hand("dds", M, {"work"})
        \cup In(Nums(ddsq.items, M)) \cup Hand("dds", M, {"append"})
        \cup (IF pc["dds"] = "take_last" THEN One(buf[1].n) ELSE {}) \cup One(reader)

TowardsDds ==
    INSTANCE LossyChannel WITH
        entered <- recvd, inside <- InsideToDds, delivered <- WrittenToDds

\* Here handles are followed: what samples[0] holds by the time they are published is the
\* question of PublishedIsTheSample.
TowardsMqtt ==
    INSTANCE LossyChannel WITH
        entered <- offered, inside <- InsideToMqtt, delivered <- MqttNums

\* A message from the broker that has been received is written once at most, whole, after
\* those received before it and before those received after it; until then it is on its
\* way, or lost (mqtt_recv_loop, mqtt_loop, dds_client).
MqttToDdsIsChannel == TowardsDds!Spec

\* The same for the handles of samples, from the reader's cache to the broker.
DdsToMqttIsChannel == TowardsMqtt!Spec
=============================================================================
