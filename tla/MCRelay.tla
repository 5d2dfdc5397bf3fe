------------------------------- MODULE MCRelay -------------------------------
(* Relay as TLC runs it.  Clients, tokens and sockets are interchangeable:   *)
(* no action tells one from another and only safety is checked.              *)
EXTENDS Relay, TLC

Symmetry == Permutations(Clients) \cup Permutations(Tokens) \cup Permutations(Sockets)
=============================================================================
