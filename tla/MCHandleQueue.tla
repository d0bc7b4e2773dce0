--------------------------- MODULE MCHandleQueue ---------------------------
(* Instances of HandleQueue for TLC; the threads are the proxy's. *)
EXTENDS HandleQueue

CONSTANTS recv, mqtt, dds

\* ddsq and mqttq: both loops append to each, and one of them takes from it.
\* Here both take, so that the instance stands for the two of them.
ClientQueue ==
    [producers |-> {mqtt, dds}, consumers |-> {mqtt, dds}, outer |-> TRUE]

\* rmsgq
RecvQueue ==
    [producers |-> {recv}, consumers |-> {mqtt}, outer |-> FALSE]

ProxyQueues == {ClientQueue, RecvQueue}
=============================================================================
