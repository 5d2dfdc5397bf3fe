---------------------------- MODULE ServiceProofs ----------------------------
(***************************************************************************)
(* Proofs about the agent as a Windows service: what is left of it when it *)
(* says it is stopped (AgentLifecycle), for any number of console sessions *)
(* and any timers, and the order in which it is installed and removed      *)
(* (ServiceSetup), for any number of starts.                               *)
(***************************************************************************)
EXTENDS AgentLifecycle, ServiceSetup, TLAPS

(* Nothing that execute starts is alive. *)
Quiet == RelayGone /\ HelperGone /\ session = "none" /\ ~ watcher

(* Where the service thread is says what can be alive: nothing before       *)
(* StartThreads and after Joined, also where service_main has returned      *)
(* early, no session once the scope is joined, no mDNS daemon without the   *)
(* process.                                                                 *)
LifeInv ==
    /\ mpc \in {"down", "returned", "opening", "binding", "starting", "leaving", "reporting"}
         => Quiet
    /\ mpc = "joining" => session = "none"
    /\ mpc = "down" => advertised # "yes"
    /\ status = "Stopped" => mpc = "down"

-----------------------------------------------------------------------------
(* The service starts in the invariant. *)
LEMMA LifeInvInit == Init => LifeInv
  BY DEF Init, RelayInit, HelperInit, LifeInv, Quiet, RelayGone, HelperGone

(* A supervisor thread that was not started or has ended takes no step:     *)
(* only the network, the relay and the users do.                            *)
LEMMA RelayStaysGone == ASSUME RelayNext, RelayGone PROVE RelayGone'
  BY DEF RelayNext, RelayGone, RelayThread, RelayHead, ConnectOk, ConnectFails, UpgradeOk,
     UpgradeFails, PumpStops, SendPing, PongOverdue, ReadPong, LinkTick, BackoffTick, Closed,
     NetChanges, RelayRevokes

(* A helper supervisor that has ended does nothing more. *)
LEMMA HelperStaysGone == ASSUME HelperNext, HelperGone PROVE HelperGone'
  BY DEF HelperNext, HelperGone, HelperThread, HelperPoll, HelperSpawnOk, HelperSpawnFails,
     HelperSpawnNone, HelperSleeps, HelperStops, SignOut, HelperCrashes, SwitchUser

(* Every step of the service, its threads and its surroundings preserves it. *)
LEMMA LifeInvStep == LifeInv /\ [Next]_vars => LifeInv'
<1> SUFFICES ASSUME LifeInv, [Next]_vars PROVE LifeInv'
  OBVIOUS
<1> USE DEF LifeInv, Quiet, relayVars, helperVars, mainVars
<1>1. CASE ScmStarts
  BY <1>1 DEF ScmStarts, RelayGone, HelperGone
<1>2. CASE StopControl
  BY <1>2 DEF StopControl, RelayGone, HelperGone
<1>3. CASE MainThread
  <2>1. CASE StartThreads
    BY <2>1 DEF StartThreads
  <2>2. CASE Joined
    BY <2>2 DEF Joined, RelayGone, HelperGone
  <2>3. CASE OpenFails \/ ReportFails \/ ReportRunning \/ BindFails \/ Publish \/ LoopEnds
               \/ ScopeJoined \/ DropAdvertisement \/ ReportStopPending \/ ReportStopped
    BY <2>3 DEF OpenFails, ReportFails, ReportRunning, BindFails, Publish, LoopEnds, ScopeJoined,
       DropAdvertisement, ReportStopPending, ReportStopped, Unanswered, RelayGone, HelperGone
  <2> QED
    BY <1>3, <2>1, <2>2, <2>3 DEF MainThread
<1>4. CASE AcceptSession \/ SessionRegisters \/ SessionEnds \/ AcceptFails \/ WatcherExits
             \/ RecordExpires
  BY <1>4 DEF AcceptSession, SessionRegisters, SessionEnds, AcceptFails, WatcherExits,
     RecordExpires, RelayGone, HelperGone
<1>5. CASE ProcessDies
  BY <1>5 DEF ProcessDies, Unanswered, RelayGone, HelperGone
<1>6. CASE RelayNext /\ UNCHANGED <<helperVars, mainVars, config>>
  BY <1>6, RelayStaysGone DEF HelperGone
<1>7. CASE HelperNext /\ UNCHANGED <<relayVars, mainVars, config>>
  BY <1>7, HelperStaysGone DEF RelayGone
<1>8. CASE UNCHANGED vars
  BY <1>8 DEF vars, RelayGone, HelperGone
<1> QED
  BY <1>1, <1>2, <1>3, <1>4, <1>5, <1>6, <1>7, <1>8 DEF Next

(* When serve has reported SERVICE_STOPPED no thread of execute, no session *)
(* and no mDNS daemon of it is left, whatever failed on the way and however *)
(* the earlier lives of the process ended.                                  *)
THEOREM StoppedIsQuiet == Spec => []StoppedMeansQuiet
<1>1. Init => LifeInv
  BY LifeInvInit
<1>2. LifeInv /\ [Next]_vars => LifeInv'
  BY LifeInvStep
<1>3. LifeInv => StoppedMeansQuiet
  BY DEF LifeInv, Quiet, StoppedMeansQuiet
<1> QED
  BY <1>1, <1>2, <1>3, PTL DEF Spec

-----------------------------------------------------------------------------
(* install and uninstall.  What guards the keys is the hardening that comes *)
(* before create_service, and what makes a removed service a stopped one is *)
(* the wait that comes before delete.                                       *)
SetupInv ==
    /\ scm # "Stopped" => hardened
    /\ registered # "no" => hardened
    /\ setup = "create" => hardened
    /\ registered # "yes" => scm = "Stopped" \/ again
    /\ setup = "delete" => scm = "Stopped" \/ again

(* Every call of install and uninstall preserves the order. *)
LEMMA SetupInvStep == SetupInv /\ [SetupNext]_setupVars => SetupInv'
<1> SUFFICES ASSUME SetupInv, [SetupNext]_setupVars PROVE SetupInv'
  OBVIOUS
<1> USE DEF SetupInv
<1>1. CASE InstallSecures \/ InstallCreates \/ InstallActions \/ InstallReported
             \/ InstallRule \/ InstallEnds
  BY <1>1 DEF InstallSecures, InstallCreates, InstallActions, InstallReported, InstallRule,
     InstallEnds
<1>2. CASE UninstallOpens \/ UninstallStops \/ UninstallWaits \/ UninstallRule
  BY <1>2 DEF UninstallOpens, UninstallStops, UninstallWaits, UninstallRule
<1>3. CASE UninstallDeletes
  BY <1>3 DEF UninstallDeletes, Kept
<1>4. CASE SetupFails
  BY <1>4 DEF SetupFails, Kept
<1>5. CASE ServiceStarts \/ ServiceRuns \/ StopRequested
  BY <1>5 DEF ServiceStarts, ServiceRuns, StopRequested
<1>6. CASE ServiceGone
  BY <1>6 DEF ServiceGone, Kept
<1>7. CASE UNCHANGED setupVars
  BY <1>7 DEF setupVars
<1> QED
  BY <1>1, <1>2, <1>3, <1>4, <1>5, <1>6, <1>7 DEF SetupNext

(* Whichever call of install or uninstall fails, and whenever the service   *)
(* manager starts the service or it stops, dies or hangs: it never runs     *)
(* over a directory that is not hardened, and a service that is gone was    *)
(* not running when it was deleted, unless it was started once more.        *)
THEOREM SetupOrdered == SetupSpec => []SetupIsOrdered
<1>1. SetupInit => SetupInv
  BY DEF SetupInit, SetupInv
<1>2. SetupInv /\ [SetupNext]_setupVars => SetupInv'
  BY SetupInvStep
<1>3. SetupInv => SetupIsOrdered
  BY DEF SetupInv, SetupIsOrdered, KeysAreGuarded, RemovedIsStopped
<1> QED
  BY <1>1, <1>2, <1>3, PTL DEF SetupSpec
=============================================================================
