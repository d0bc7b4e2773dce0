------------------------------- MODULE System -------------------------------
(***************************************************************************)
(* The commands of dds2mqtt together: processes of "dds2mqtt pub" write to *)
(* the DDS network, "dds2mqtt proxy", which may end and be started again,  *)
(* carries messages both ways, "dds2mqtt sub" prints what it takes from    *)
(* the DDS network, and clients of the broker post messages.               *)
(*                                                                         *)
(* Each direction of the proxy is a LossyChannel, which Proxy implements   *)
(* (ProxyChannels); the numbers are of the handles it passes on.  All that *)
(* it takes, converts or publishes is in one sample, samples[0], which     *)
(* holds a whole message here: halves of messages are in Proxy.            *)
(***************************************************************************)
EXTENDS Naturals, FiniteSets, Sequences

CONSTANTS
    Publishers,  \* the processes of "dds2mqtt pub"
    MaxPosts,    \* bound on messages that clients of the broker post
    MaxStarts    \* bound on starts of the proxy

ASSUME SystemAssumption ==
    /\ IsFiniteSet(Publishers)
    /\ MaxPosts \in Nat
    /\ MaxStarts \in Nat

VARIABLES
    proxy,      \* "down" or "up"
    starts,     \* how often it has been started
    mEntered, mInside, mDelivered,  \* the channel from MQTT to DDS
    mWhat,      \* the messages that its numbers stand for
    dEntered, dInside, dDelivered,  \* the channel from DDS to MQTT
    dWhat,
    shared,     \* the message that samples[0] of the proxy holds
    taken,      \* the number of the sample that it took last
    onMqtt,     \* what it has published, for the samples in dDelivered
    posted,     \* how many messages clients of the broker have posted
    pub,        \* pub[p]: where process p of "dds2mqtt pub" is
    matched,    \* matched[p]: PUBLICATION_MATCHED of its writer has changed
    written,    \* how many samples these processes have written
    sub,        \* "off", "on" or "ended": the process of "dds2mqtt sub"
    cache,      \* the sample in its reader's cache
    gone,       \* a writer has gone, which its reader is yet to report
    printed     \* the samples it has printed

mqttToDds == <<mEntered, mInside, mDelivered, mWhat>>
ddsToMqtt == <<dEntered, dInside, dDelivered, dWhat>>
buffer    == <<shared, taken, onMqtt>>
peers     == <<pub, matched, written>>
reading   == <<sub, cache, gone, printed>>
vars      == <<proxy, starts, mqttToDds, ddsToMqtt, buffer, posted, peers, reading>>

ToDds == INSTANCE LossyChannel WITH
    entered <- mEntered, inside <- mInside, delivered <- mDelivered

ToMqtt == INSTANCE LossyChannel WITH
    entered <- dEntered, inside <- dInside, delivered <- dDelivered

Nothing    == [net |-> "none", n |-> 0]
Posted(n)  == [net |-> "mqtt", n |-> n]
Written(n) == [net |-> "dds", n |-> n]

Messages ==
    {Posted(n) : n \in 1..MaxPosts} \cup {Written(n) : n \in 1..Cardinality(Publishers)}
-----------------------------------------------------------------------------
(* The topics, and who gets what is sent on them *)

MqttRecvTopic == "DDSCMD/HelloWorld"     \* mqttcli.mqttrecv_topic
MqttSendTopic == "DDS/HelloWorld"        \* mqttcli.mqttsend_topic
DdsRecvTopic  == "MQTTCMD/HelloWorld"    \* ddscli.ddsrecv_topic

\* Fault: the proxy writes to the topic that it reads.
DdsSendTopicSame == DdsRecvTopic

DdsSendTopic    == "MQTT/HelloWorld"     \* ddscli.ddssend_topic
PublisherTopic  == "MQTTCMD/HelloWorld"
SubscriberTopic == "MQTT/HelloWorld"

\* A sample goes to every reader of its topic that is there and has been discovered.
\* Readers keep one sample.
OnDds(topic, msg) ==
    /\ \/ /\ proxy = "up" /\ topic = DdsRecvTopic
          /\ ToMqtt!Enter
          /\ dWhat' = Append(dWhat, msg)
       \/ ~(proxy = "up" /\ topic = DdsRecvTopic) /\ UNCHANGED ddsToMqtt
    /\ \/ sub = "on" /\ topic = SubscriberTopic /\ cache' = msg
       \/ UNCHANGED cache

\* A message goes to the proxy while it is connected: its session is clean.
OnMqtt(topic, msg) ==
    \/ /\ proxy = "up" /\ topic = MqttRecvTopic
       /\ ToDds!Enter
       /\ mWhat' = Append(mWhat, msg)
    \/ ~(proxy = "up" /\ topic = MqttRecvTopic) /\ UNCHANGED mqttToDds
-----------------------------------------------------------------------------
Init ==
    /\ proxy = "down" /\ starts = 0
    /\ ToDds!Init /\ mWhat = <<>>
    /\ ToMqtt!Init /\ dWhat = <<>>
    /\ shared = Nothing /\ taken = 0 /\ onMqtt = <<>>
    /\ posted = 0 /\ written = 0
    /\ pub = [p \in Publishers |-> "off"]
    /\ matched = [p \in Publishers |-> FALSE]
    /\ sub = "off" /\ cache = Nothing /\ gone = FALSE /\ printed = <<>>

(* dds2mqtt proxy *)

StartProxy ==
    /\ proxy = "down"
    /\ starts < MaxStarts
    /\ proxy' = "up"
    /\ starts' = starts + 1
    /\ UNCHANGED <<mqttToDds, ddsToMqtt, buffer, posted, peers, reading>>

\* However the process ends, nothing of its memory is kept, and the reader of
\* the subscriber finds that a writer has gone if it had discovered it.
StopProxy ==
    /\ proxy = "up"
    /\ proxy' = "down"
    /\ mInside' = {} /\ dInside' = {} /\ shared' = Nothing
    /\ \/ sub = "on" /\ gone' = TRUE
       \/ UNCHANGED gone
    /\ UNCHANGED <<starts, mEntered, mDelivered, mWhat, dEntered, dDelivered, dWhat,
                   taken, onMqtt, posted, peers, sub, cache, printed>>

Oldest(n, places) == n \in places /\ \A m \in places : n <= m

\* The loop of the DDS side writes what it has converted before it takes anything.
Writing == \E n \in mInside : shared = mWhat[n]

\* The handle of the sample refers to samples[0].
ProxyTakes ==
    /\ proxy = "up" /\ ~Writing
    /\ \E n \in dInside :
          Oldest(n, {m \in dInside : m > taken}) /\ taken' = n /\ shared' = dWhat[n]
    /\ UNCHANGED <<proxy, starts, mqttToDds, ddsToMqtt, onMqtt, posted, peers, reading>>

\* The reader reports that a writer has gone: no handle is made, but samples[0] is cleared.
ProxyTakesInvalid ==
    /\ proxy = "up" /\ ~Writing
    /\ \E p \in Publishers : matched[p] /\ pub[p] \in {"done", "failed"}
    /\ shared' = Nothing
    /\ UNCHANGED <<proxy, starts, mqttToDds, ddsToMqtt, taken, onMqtt, posted, peers, reading>>

\* The oldest message from the broker is converted into samples[0],
ProxyConverts ==
    /\ proxy = "up" /\ ~Writing
    /\ \E n \in mInside : Oldest(n, mInside) /\ shared' = mWhat[n]
    /\ UNCHANGED <<proxy, starts, mqttToDds, ddsToMqtt, taken, onMqtt, posted, peers, reading>>

\* and samples[0] is written.
ProxyWrites ==
    /\ proxy = "up"
    /\ \E n \in mInside :
          shared = mWhat[n] /\ ToDds!Deliver(n) /\ OnDds(DdsSendTopic, shared)
    /\ UNCHANGED <<proxy, starts, mWhat, buffer, posted, peers, sub, gone, printed>>

\* Fault: the payload of the first publication is kept and sent each time.
ProxyPublishesFirst ==
    /\ proxy = "up"
    /\ \E n \in dInside : n <= taken /\ ToMqtt!Deliver(n)
    /\ onMqtt' = Append(onMqtt, IF onMqtt = <<>> THEN shared ELSE onMqtt[1])
    /\ OnMqtt(MqttSendTopic, shared)
    /\ UNCHANGED <<proxy, starts, dWhat, shared, taken, posted, peers, reading>>

\* The handle of the oldest sample taken comes to the MQTT side, which publishes
\* what samples[0] holds by then.
ProxyPublishes ==
    /\ proxy = "up"
    /\ \E n \in dInside : n <= taken /\ ToMqtt!Deliver(n)
    /\ onMqtt' = Append(onMqtt, shared)
    /\ OnMqtt(MqttSendTopic, shared)
    /\ UNCHANGED <<proxy, starts, dWhat, shared, taken, posted, peers, reading>>

ProxyLoses ==
    /\ \/ ToDds!Lose /\ UNCHANGED ddsToMqtt
       \/ ToMqtt!Lose /\ UNCHANGED mqttToDds
    /\ UNCHANGED <<proxy, starts, mWhat, dWhat, buffer, posted, peers, reading>>

\* A client of the broker posts the next message.
Post ==
    /\ posted < MaxPosts
    /\ posted' = posted + 1
    /\ OnMqtt(MqttRecvTopic, Posted(posted'))
    /\ UNCHANGED <<proxy, starts, ddsToMqtt, buffer, peers, reading>>
-----------------------------------------------------------------------------
(* dds2mqtt pub *)

PubGoto(p, from, to) ==
    /\ pub[p] = from
    /\ pub' = [pub EXCEPT ![p] = to]

StartPublisher(p) ==
    /\ PubGoto(p, "off", "wait")
    /\ UNCHANGED <<proxy, starts, mqttToDds, ddsToMqtt, buffer, posted, matched, written, reading>>

\* The writer is matched with the proxy's reader, and keeps the status if the proxy ends.
Discover(p) ==
    /\ proxy = "up" /\ PublisherTopic = DdsRecvTopic
    /\ pub[p] = "wait" /\ ~matched[p]
    /\ matched' = [matched EXCEPT ![p] = TRUE]
    /\ UNCHANGED <<proxy, starts, mqttToDds, ddsToMqtt, buffer, posted, pub, written, reading>>

\* Fault: the status is reset when it is read, and tested afterwards.
PollResets(p) ==
    /\ pub[p] = "wait" /\ matched[p]
    /\ matched' = [matched EXCEPT ![p] = FALSE]
    /\ UNCHANGED <<proxy, starts, mqttToDds, ddsToMqtt, buffer, posted, pub, written, reading>>

\* A poll that finds no match changes nothing.
Poll(p) ==
    /\ matched[p]
    /\ PubGoto(p, "wait", "write")
    /\ UNCHANGED <<proxy, starts, mqttToDds, ddsToMqtt, buffer, posted, matched, written, reading>>

\* Fault: the loop around dds_write is not left.
WriteRepeats(p) ==
    /\ pub[p] = "write"
    /\ written' = written + 1
    /\ OnDds(PublisherTopic, Written(written'))
    /\ UNCHANGED <<proxy, starts, mqttToDds, buffer, posted, pub, matched, sub, gone, printed>>

Write(p) ==
    /\ PubGoto(p, "write", "delete")
    /\ written' = written + 1
    /\ OnDds(PublisherTopic, Written(written'))
    /\ UNCHANGED <<proxy, starts, mqttToDds, buffer, posted, matched, sub, gone, printed>>

Delete(p) ==
    /\ PubGoto(p, "delete", "done")
    /\ UNCHANGED <<proxy, starts, mqttToDds, ddsToMqtt, buffer, posted, matched, written, reading>>

\* DDS_FATAL: any call may fail.
PublisherFails(p) ==
    /\ \E from \in {"off", "wait", "write", "delete"} : PubGoto(p, from, "failed")
    /\ UNCHANGED <<proxy, starts, mqttToDds, ddsToMqtt, buffer, posted, matched, written, reading>>

Publisher(p) == Poll(p) \/ Write(p) \/ Delete(p)
-----------------------------------------------------------------------------
(* dds2mqtt sub *)

StartSubscriber ==
    /\ sub = "off"
    /\ sub' = "on"
    /\ UNCHANGED <<proxy, starts, mqttToDds, ddsToMqtt, buffer, posted, peers, cache, gone,
                   printed>>

\* Fault: dds_read, which leaves the sample in the cache.
TakeReads ==
    /\ sub = "on" /\ cache # Nothing
    /\ printed' = Append(printed, cache)
    /\ UNCHANGED <<proxy, starts, mqttToDds, ddsToMqtt, buffer, posted, peers, sub, cache, gone>>

\* Fault: the test of infos[0].valid_data is the wrong way round.
TakeSkips ==
    /\ sub = "on" /\ cache # Nothing
    /\ cache' = Nothing
    /\ UNCHANGED <<proxy, starts, mqttToDds, ddsToMqtt, buffer, posted, peers, sub, gone, printed>>

\* A sample reports with it that a writer has gone.
Take ==
    /\ sub = "on" /\ cache # Nothing
    /\ printed' = Append(printed, cache)
    /\ cache' = Nothing
    /\ gone' = FALSE
    /\ UNCHANGED <<proxy, starts, mqttToDds, ddsToMqtt, buffer, posted, peers, sub>>

\* A sample that is not valid_data is not printed.
TakeInvalid ==
    /\ sub = "on" /\ cache = Nothing /\ gone
    /\ gone' = FALSE
    /\ UNCHANGED <<proxy, starts, mqttToDds, ddsToMqtt, buffer, posted, peers, sub, cache, printed>>

\* DDS_FATAL; the reader's cache goes with the process.
SubscriberFails ==
    /\ sub \in {"off", "on"}
    /\ sub' = "ended"
    /\ cache' = Nothing
    /\ gone' = FALSE
    /\ UNCHANGED <<proxy, starts, mqttToDds, ddsToMqtt, buffer, posted, peers, printed>>
-----------------------------------------------------------------------------
\* main: one command, or another argument, which starts nothing.
Main(argument) ==
    \/ argument = "sub" /\ StartSubscriber
    \/ argument = "pub" /\ \E p \in Publishers : StartPublisher(p)
    \/ argument = "proxy" /\ StartProxy

Next ==
    \/ \E argument \in {"sub", "pub", "proxy", "other"} : Main(argument)
    \/ StopProxy \/ ProxyTakes \/ ProxyTakesInvalid \/ ProxyConverts \/ ProxyWrites
    \/ ProxyPublishes \/ ProxyLoses \/ Post
    \/ \E p \in Publishers : Discover(p) \/ Publisher(p) \/ PublisherFails(p)
    \/ Take \/ TakeInvalid \/ SubscriberFails

Spec == Init /\ [][Next]_vars

\* The loops of pub and sub sleep and poll, so they run on; and DDS lets a
\* writer and a reader that stay there discover each other.
FairSpec ==
    /\ Spec
    /\ \A p \in Publishers : WF_vars(Publisher(p)) /\ WF_vars(Discover(p))
    /\ WF_vars(Take)
-----------------------------------------------------------------------------
(* Properties *)

\* The type invariant: in particular each publisher writes one sample at most, and
\* what enters the proxy has been posted or written.
TypeOK ==
    /\ proxy \in {"down", "up"} /\ starts \in 0..MaxStarts
    /\ posted \in 0..MaxPosts /\ written \in 0..Cardinality(Publishers)
    /\ mEntered = Len(mWhat) /\ dEntered = Len(dWhat)
    /\ mWhat \in Seq(Messages) /\ dWhat \in Seq(Messages)
    /\ mInside \subseteq 1..mEntered /\ dInside \subseteq 1..dEntered
    /\ shared \in Messages \cup {Nothing} /\ taken \in 0..dEntered
    /\ onMqtt \in Seq(Messages \cup {Nothing})
    /\ pub \in [Publishers -> {"off", "wait", "write", "delete", "done", "failed"}]
    /\ matched \in [Publishers -> BOOLEAN]
    /\ sub \in {"off", "on", "ended"} /\ gone \in BOOLEAN
    /\ cache \in Messages \cup {Nothing}
    /\ printed \in Seq(Messages)

\* The numbers of messages that are from net; in a sequence 0 is one from elsewhere.
NumbersIn(net, set) == {m.n : m \in {x \in set : x.net = net}}
NumbersOf(net, s)   == [i \in DOMAIN s |-> IF s[i].net = net THEN s[i].n ELSE 0]

PostsChannel == INSTANCE LossyChannel WITH
    entered   <- posted,
    inside    <- NumbersIn("mqtt", {cache} \cup {mWhat[n] : n \in mInside}),
    delivered <- NumbersOf("mqtt", printed)

SamplesChannel == INSTANCE LossyChannel WITH
    entered   <- written,
    inside    <- NumbersIn("dds", {dWhat[n] : n \in dInside}),
    delivered <- NumbersOf("dds", [i \in DOMAIN dDelivered |-> dWhat[dDelivered[i]]])

\* From a client of the broker through the proxy to the subscriber's screen, messages may be
\* lost, but none is printed twice, out of order or out of nothing, though the proxy is
\* started again in between and the subscriber's reader keeps one sample and reports
\* writers that go (dds_proxy, subscriber).
PostsReachSubscriber == PostsChannel!Spec

\* The proxy publishes once at most for each sample of a publisher, and for them in
\* order, though it is started again in between; what it writes does not come back to it,
\* for "Topics for writer and reader MUST be different. Or Circle messages happened"
\* (dds_client).  What it publishes for a sample is not said here: a later sample, or a
\* message from the broker, may be in samples[0] by then.
OnePublicationPerSample == SamplesChannel!Spec

\* What is published for a sample is never an older one, and no sample is published after
\* a later one: samples[0] is refilled while handles wait, from two sides, but a reader
\* takes samples in order (dds_take, HelloWorld_to_MQTT).
PublishedNeverGoesBack ==
    \A i \in DOMAIN onMqtt : onMqtt[i].net = "dds" =>
        /\ onMqtt[i].n \in dWhat[dDelivered[i]].n .. written
        /\ \A j \in 1..i : onMqtt[j].net = "dds" => onMqtt[j].n <= onMqtt[i].n

\* When the proxy stays up in the end, every publisher that is started ends: it does not
\* poll for ever for a reader to be discovered.
PublisherEnds ==
    <>[](proxy = "up") => \A p \in Publishers : pub[p] # "off" ~> pub[p] \in {"done", "failed"}

\* A sample that is in the subscriber's cache is printed, or a newer one is, unless the
\* subscriber ends, whatever becomes of the proxy that wrote it.
NewestIsPrinted ==
    \A n \in 1..MaxPosts :
        cache = Posted(n) ~>
            \/ sub = "ended"
            \/ \E i \in DOMAIN printed : printed[i] \in {Posted(k) : k \in n..MaxPosts}
=============================================================================
