---------------------------- MODULE MCComponents ----------------------------
(* The history ring, the collector, the encrypted transport, the installer   *)
(* and the data directory share no state: a behaviour of this run is a       *)
(* behaviour of one of them, the others stay as they began.                  *)
EXTENDS MetricsRing, Collector, NoiseTransport, ServiceSetup, DataDir, TLC

VARIABLE component

vars == <<component, ringVars, collectorVars, noiseVars, setupVars, dirVars>>

Init ==
    /\ component \in {"ring", "collector", "noise", "setup", "directory"}
    /\ RingInit /\ CollectorInit /\ NoiseInit /\ SetupInit /\ DirInit
    /\ component # "collector" => cpu = "same" /\ net.known

Next ==
    /\ UNCHANGED component
    /\ \/ /\ component = "ring" /\ RingNext
          /\ UNCHANGED <<collectorVars, noiseVars, setupVars, dirVars>>
       \/ /\ component = "collector" /\ CollectorNext
          /\ UNCHANGED <<ringVars, noiseVars, setupVars, dirVars>>
       \/ /\ component = "noise" /\ NoiseNext
          /\ UNCHANGED <<ringVars, collectorVars, setupVars, dirVars>>
       \/ /\ component = "setup" /\ SetupNext
          /\ UNCHANGED <<ringVars, collectorVars, noiseVars, dirVars>>
       \/ /\ component = "directory" /\ DirNext
          /\ UNCHANGED <<ringVars, collectorVars, noiseVars, setupVars>>

Spec == Init /\ [][Next]_vars

\* Adapters are interchangeable, and so are the processes of the agent.
Alike == Permutations(Adapters) \cup Permutations(Procs)

\* One complication of the directory at a time keeps the instance small: saves
\* of one file overlap, or two processes took the directory for new (which makes
\* saves of the identity overlap), or peers are pinned.
OneComplication ==
    LET overlapped == {f \in Files : overlap[f] # "none"} IN
    /\ Cardinality(overlapped) <= 1
    /\ raced => overlapped \subseteq {"identity"}
    /\ raced \/ overlapped # {} => \A p \in Procs : mem[p] # Absent => mem[p].peers = {}
=============================================================================
