------------------------------ MODULE AgentFlag ------------------------------
(* The one variable the threads of a running agent share: the flag that     *)
(* commands/run.rs calls `running`.  Every loop reads it; the control       *)
(* handler, Ctrl-C and the end of `execute` clear it.                       *)
VARIABLE running
=============================================================================
