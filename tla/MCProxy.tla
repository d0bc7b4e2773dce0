------------------------------ MODULE MCProxy ------------------------------
(* Instances of Proxy for TLC. *)
EXTENDS ProxyClaims, ProxyChannels

\* Messages that overtake, merge or get lost.
Publishes2 == <<"publish", "publish">>

\* A message, a packet that is none, and a message that cannot be converted.
ThenGarbled == <<"publish", "other", "garbled">>
=============================================================================
