---------------------------- MODULE ProxyClaims ----------------------------
(* What the repository says of the proxy and the code does not do.  TLC     *)
(* finds each of these violated.                                            *)
EXTENDS Proxy

\* mqtt_client.c:158, on client_recv: "Return 0 when got msg."  A thread that
\* goes on to make a handle has been given a message, not a NULL pointer.
ClientRecvGivesMessage ==
    pc["mqtt"] = "append" => held["mqtt"] # ToDds(0)

\* dds2mqtt.config:4: "It receive messages from DDS network [...] and send
\* them to MQTT network".  What is published for a sample is that sample, not
\* another one and not a message that came from the broker.
PublishedIsTheSample ==
    \A i \in DOMAIN mqttOut :
        mqttOut[i].payload = Whole(OfDds(mqttOut[i].sample))

\* README.md:27-31, step 2 of the test: the proxy starts.  The process does
\* not dereference NULL before the main thread has started both others.
ProxyStarts ==
    pc["dds"] \in {"start_mqtt", "alloc_rmsgq", "start_recv"} => fate # "segv"
=============================================================================
