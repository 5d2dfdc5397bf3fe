----------------------------- MODULE AtomicFiles -----------------------------
(***************************************************************************)
(* What the agent's files promise to the code that reads them: a file      *)
(* holds one whole value or does not exist, and a save that no other save  *)
(* of the same file overlaps replaces the value in one step or leaves it   *)
(* alone.  What overlapping saves leave of their file is anything, until   *)
(* a save that met no other takes effect.                                  *)
(* Module DataDir, whose saves are a truncation, writes, a flush and a     *)
(* rename, interrupted by crashes, is shown to implement it.               *)
(***************************************************************************)
CONSTANTS
    Files,      \* the files of the data directory
    Values,     \* what a file can hold
    Procs,      \* processes of the agent
    Absent,     \* a file that does not exist
    Corrupt,    \* a file that holds no value
    Idle        \* the process is not saving

VARIABLES
    file,       \* the value of each file
    pending,    \* the file a process is saving and its value, or Idle
    overlap     \* "none", saves of the file overlap "now", or did in the "past"

vars == <<file, pending, overlap>>

Init ==
    /\ file = [f \in Files |-> Absent]
    /\ pending = [p \in Procs |-> Idle]
    /\ overlap = [f \in Files |-> "none"]

(* A step may change a file that saves have overlapped on, and no other. *)
OnlyOverlapped(fs) ==
    /\ file' \in [Files -> Values \cup {Absent, Corrupt}]
    /\ \A f \in Files \ fs : file'[f] = file[f]

Begin(p, save) ==
    /\ pending[p] = Idle
    /\ pending' = [pending EXCEPT ![p] = save]
    /\ overlap' = [overlap EXCEPT ![save.file] =
                     IF \E q \in Procs \ {p} : pending[q] # Idle /\ pending[q].file = save.file
                     THEN "now" ELSE IF @ = "now" THEN "past" ELSE @]
    /\ UNCHANGED file

(* The save takes effect, and only then reports success. *)
Commit(p) ==
    /\ pending[p] # Idle
    /\ LET f == pending[p].file IN
       \/ /\ overlap[f] # "now"
          /\ file' = [file EXCEPT ![f] = pending[p].value]
          /\ overlap' = [overlap EXCEPT ![f] = "none"]
       \/ /\ overlap[f] = "now"
          /\ OnlyOverlapped({f})
          /\ UNCHANGED overlap
    /\ pending' = [pending EXCEPT ![p] = Idle]

(* Saves that fail, or whose processes die, and saves in progress leave     *)
(* every file alone that no saves have overlapped on.                       *)
Interrupt(ps) ==
    /\ pending' = [p \in Procs |-> IF p \in ps THEN Idle ELSE pending[p]]
    /\ OnlyOverlapped({f \in Files : overlap[f] # "none"})
    /\ UNCHANGED overlap

Next ==
    \/ \E ps \in SUBSET Procs : Interrupt(ps)
    \/ \E p \in Procs : Commit(p)
    \/ \E p \in Procs, save \in [file : Files, value : Values] : Begin(p, save)

Spec == Init /\ [][Next]_vars
=============================================================================
