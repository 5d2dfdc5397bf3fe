------------------------------ MODULE MCPairing ------------------------------
(* Pairing as TLC runs it.  Attempts and offers are plain model values; the  *)
(* run checks liveness, so they are not declared symmetric.                  *)
EXTENDS Pairing
=============================================================================
