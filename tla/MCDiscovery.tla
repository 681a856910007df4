---------------------------- MODULE MCDiscovery ----------------------------
(* Instances of Discovery for TLC. *)
EXTENDS Discovery

CONSTANTS acme, Acme, beta

(* Two spellings of one customer, and another customer. *)
Folded == [n \in Names |-> IF n = Acme THEN acme ELSE n]
============================================================================
