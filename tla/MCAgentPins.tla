----------------------------- MODULE MCAgentPins -----------------------------
(* Instances of AgentPins for TLC. *)
EXTENDS AgentPins, TLC

CONSTANTS f1, m2

\* Every revocation is signed by f1; m2 is issued one tick after the others.
MCIssuer   == [m \in Revocations |-> f1]
MCIssuedAt == [m \in Revocations |-> IF m = m2 THEN 1 ELSE 0]
Threads    == Permutations(Sessions)

\* The invariants of this run say nothing of a store two processes overwrote.
NotRaced   == ~ raced

\* A clock that is never corrected backwards, as the comment of RevocationAppliesOnce
\* supposes.
ClockForward == clock' >= clock
=============================================================================
