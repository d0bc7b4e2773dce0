------------------------------ MODULE MCSystem ------------------------------
(* An instance of System for TLC. *)
EXTENDS System

CONSTANTS p1, p2

TwoPublishers == {p1, p2}
=============================================================================
