---------------------------- MODULE AgentLifecycle ----------------------------
(***************************************************************************)
(* One life of the agent as a Windows service, and the next                *)
(* (commands/run.rs execute, service/windows_impl.rs, discovery.rs): the   *)
(* service control manager starts it, `execute` starts the relay and       *)
(* helper supervisors and the revocation watcher and accepts sessions      *)
(* until the shared flag is cleared or accepting fails, then everything is *)
(* joined in order and the outcome is reported.                            *)
(*                                                                         *)
(* The agent composes RelaySupervisor and HelperSupervisor: their threads  *)
(* see each other only through the flag.  Sessions are reduced to one slot *)
(* (module AgentPins has their detail), the metrics engine to the join     *)
(* that its Drop performs (MetricsEngine, StopCompletes).                  *)
(***************************************************************************)
EXTENDS RelaySupervisor, HelperSupervisor

CONSTANT Installations      \* which of "relay" and "helper" the agents have to supervise

ASSUME LifecycleAssumption == Installations \subseteq SUBSET {"relay", "helper"}

VARIABLES
    status,         \* what the SCM was told: "Stopped", "StartPending", "Running", "StopPending";
                    \* "Dead" when the process is gone without saying so
    failed,         \* the exit code last reported is not NO_ERROR
    mpc,            \* the service thread; "returned" when service_main has returned early,
                    \* "down" when there is no process
    session,        \* "none", "handshake", "live" (registered), "shut"
    watcher,        \* the revocation watcher runs
    advertised,     \* the mDNS record: "no", "yes" while a daemon answers for it, "expiring"
                    \* when it lives on in caches
    enrolled,       \* relay_target finds an enrolment
    helperPresent   \* the helper executable is beside the agent's

mainVars == <<status, failed, mpc, session, watcher, advertised>>
config == <<enrolled, helperPresent>>
vars == <<running, relayVars, helperVars, mainVars, config>>

RelayGone == rpc \in {"off", "done"}
HelperGone == hpc \in {"off", "done"}

-----------------------------------------------------------------------------
(* serve *)

(* The SCM starts the process: on demand, and as the recovery action after  *)
(* an exit code that is not NO_ERROR or a death without one.                *)
ScmStarts ==
    /\ mpc = "down"
    /\ running' = TRUE /\ mpc' = "opening" /\ status' = "StartPending" /\ failed' = FALSE
    /\ rpc' = "off" /\ hpc' = "off"
    /\ UNCHANGED <<net, revoked, linkVars, delay, wait, console, strays, seen, childVars,
                   session, watcher, advertised, config>>

(* The layout or Host::open fails: the `?` leaves serve, and service_main    *)
(* logs it and returns.  Nothing is reported, so the dispatcher does not     *)
(* return and the process stays as it is.                                    *)
OpenFails ==
    /\ mpc = "opening"
    /\ mpc' = "returned"
    /\ UNCHANGED <<running, relayVars, helperVars, status, failed, session, watcher, advertised,
                   config>>

(* So does a report that fails: of Running, of StopPending or of Stopped. *)
ReportFails ==
    /\ mpc \in {"opening", "reporting"}
    /\ mpc' = "returned"
    /\ UNCHANGED <<running, relayVars, helperVars, status, failed, session, watcher, advertised,
                   config>>

(* From here on the control handler is sent Stop. *)
ReportRunning ==
    /\ mpc = "opening"
    /\ mpc' = "binding" /\ status' = "Running"
    /\ UNCHANGED <<running, relayVars, helperVars, failed, session, watcher, advertised, config>>

StopControl ==
    /\ status = "Running" /\ running
    /\ running' = FALSE
    /\ UNCHANGED <<relayVars, helperVars, mainVars, config>>

-----------------------------------------------------------------------------
(* execute *)

BindFails ==
    /\ mpc = "binding"
    /\ mpc' = "reporting" /\ failed' = TRUE
    /\ UNCHANGED <<running, relayVars, helperVars, status, session, watcher, advertised, config>>

(* The listener is bound and Advertisement::publish tried; the agent goes   *)
(* on without it when it is switched off, has no address or fails.          *)
Publish ==
    /\ mpc = "binding"
    /\ mpc' = "starting" /\ advertised' \in {advertised, "yes"}
    /\ UNCHANGED <<running, relayVars, helperVars, status, failed, session, watcher, config>>

(* The metrics engine, the two supervisors, whose threads may fail to start, *)
(* and the watcher are started.                                             *)
StartThreads ==
    /\ mpc = "starting"
    /\ mpc' = "accepting"
    /\ watcher' = TRUE
    /\ rpc' \in IF enrolled THEN {"head", "off"} ELSE {"off"}
    /\ delay' = 1 /\ wait' = 0 /\ FreshLink
    /\ hpc' \in IF helperPresent THEN {"poll", "off"} ELSE {"off"}
    /\ UNCHANGED <<running, net, revoked, console, strays, seen,
                   childVars, status, failed, session, advertised, config>>

AcceptSession ==
    /\ mpc = "accepting" /\ running /\ session = "none"
    /\ session' = "handshake"
    /\ UNCHANGED <<running, relayVars, helperVars, status, failed, mpc, watcher, advertised, config>>

SessionRegisters ==
    /\ session = "handshake" /\ session' = "live"
    /\ UNCHANGED <<running, relayVars, helperVars, status, failed, mpc, watcher, advertised, config>>

(* The peer leaves, goes idle, is refused or never finishes its handshake,  *)
(* or the socket was shut down.                                             *)
SessionEnds ==
    /\ session # "none" /\ session' = "none"
    /\ UNCHANGED <<running, relayVars, helperVars, status, failed, mpc, watcher, advertised, config>>

(* accept_timeout fails: the `?` leaves the scope past revoke_all, with the *)
(* flag still set.                                                          *)
AcceptFails ==
    /\ mpc = "accepting" /\ running
    /\ mpc' = "scope" /\ failed' = TRUE
    /\ UNCHANGED <<running, relayVars, helperVars, status, session, watcher, advertised, config>>

(* The loop ends; registry.revoke_all shuts the registered sessions down. *)
LoopEnds ==
    /\ mpc = "accepting" /\ ~ running
    /\ mpc' = "scope"
    /\ session' = IF session = "live" THEN "shut" ELSE session
    /\ UNCHANGED <<running, relayVars, helperVars, status, failed, watcher, advertised, config>>

(* A slip: the flag is left to whoever asked for the stop. *)
ScopeJoinedFlagKept ==
    /\ mpc = "scope" /\ session = "none"
    /\ mpc' = "joining"
    /\ UNCHANGED <<running, relayVars, helperVars, status, failed, session, watcher, advertised,
                   config>>

(* The scope's implicit join, then the flag, which an accept error had not  *)
(* cleared.                                                                 *)
ScopeJoined ==
    /\ mpc = "scope" /\ session = "none"
    /\ running' = FALSE
    /\ mpc' = "joining"
    /\ UNCHANGED <<relayVars, helperVars, status, failed, session, watcher, advertised, config>>

WatcherExits ==
    /\ watcher /\ ~ running
    /\ watcher' = FALSE
    /\ UNCHANGED <<running, relayVars, helperVars, status, failed, mpc, session, advertised, config>>

(* A slip: the relay thread is not joined. *)
JoinedWithoutRelay ==
    /\ mpc = "joining" /\ ~ watcher /\ HelperGone
    /\ mpc' = "leaving"
    /\ UNCHANGED <<running, relayVars, helperVars, status, failed, session, watcher, advertised,
                   config>>

(* The watcher, the relay and the helper supervisor are joined. *)
Joined ==
    /\ mpc = "joining" /\ ~ watcher /\ RelayGone /\ HelperGone
    /\ mpc' = "leaving"
    /\ UNCHANGED <<running, relayVars, helperVars, status, failed, session, watcher, advertised,
                   config>>

(* A record a daemon no longer answers for. *)
Unanswered == IF advertised = "yes" THEN "expiring" ELSE advertised

(* Leaving execute drops the metrics engine, the advertisement and the      *)
(* listener.  The record is taken back, or the deregistration is not        *)
(* confirmed and it stays until its time is over; a daemon that cannot be   *)
(* told to shut down goes on answering.                                     *)
DropAdvertisement ==
    /\ mpc = "leaving"
    /\ mpc' = "reporting"
    /\ advertised' \in IF advertised = "yes" THEN {"no", "expiring", "yes"} ELSE {advertised}
    /\ UNCHANGED <<running, relayVars, helperVars, status, failed, session, watcher, config>>

RecordExpires ==
    /\ advertised = "expiring" /\ advertised' = "no"
    /\ UNCHANGED <<running, relayVars, helperVars, status, failed, mpc, session, watcher, config>>

ReportStopPending ==
    /\ mpc = "reporting" /\ status = "Running"
    /\ status' = "StopPending"
    /\ UNCHANGED <<running, relayVars, helperVars, failed, mpc, session, watcher, advertised, config>>

(* A slip: a failed run is reported as a clean stop. *)
ReportStoppedClean ==
    /\ mpc = "reporting" /\ status = "StopPending"
    /\ status' = "Stopped" /\ mpc' = "down" /\ failed' = FALSE /\ advertised' = Unanswered
    /\ UNCHANGED <<running, relayVars, helperVars, session, watcher, config>>

(* The last report: the dispatcher returns and the process ends. *)
ReportStopped ==
    /\ mpc = "reporting" /\ status = "StopPending"
    /\ status' = "Stopped" /\ mpc' = "down" /\ advertised' = Unanswered
    /\ UNCHANGED <<running, relayVars, helperVars, failed, session, watcher, config>>

(* The process is killed; its helper is not. *)
ProcessDies ==
    /\ mpc # "down"
    /\ mpc' = "down" /\ status' = "Dead"
    /\ rpc' = "off" /\ FreshLink /\ delay' = 1 /\ wait' = 0
    /\ hpc' = "off" /\ Forget(1, 0) /\ seen' = NoUser
    /\ session' = "none" /\ watcher' = FALSE /\ advertised' = Unanswered
    /\ UNCHANGED <<running, net, revoked, console, failed, config>>

-----------------------------------------------------------------------------
(* The supervisors are started independently of each other: for a relay     *)
(* enrolment, and for a helper beside the agent.                            *)
Init ==
    /\ running = FALSE /\ RelayInit /\ HelperInit
    /\ status = "Stopped" /\ failed = FALSE /\ mpc = "down"
    /\ session = "none" /\ watcher = FALSE /\ advertised = "no"
    /\ \E i \in Installations : enrolled = ("relay" \in i) /\ helperPresent = ("helper" \in i)

MainThread ==
    \/ OpenFails \/ ReportFails \/ ReportRunning \/ BindFails \/ Publish \/ StartThreads \/ LoopEnds
    \/ ScopeJoined \/ Joined \/ DropAdvertisement \/ ReportStopPending \/ ReportStopped

Next ==
    \/ ScmStarts \/ StopControl \/ MainThread
    \/ AcceptSession \/ SessionRegisters \/ SessionEnds \/ AcceptFails
    \/ WatcherExits \/ RecordExpires \/ ProcessDies
    \/ enrolled /\ RelayNext /\ UNCHANGED <<helperVars, mainVars, config>>
    \/ helperPresent /\ HelperNext /\ UNCHANGED <<relayVars, mainVars, config>>

Spec == Init /\ [][Next]_vars

(* The recovery actions of install: the SCM restarts what failed. *)
ScmRecovers == (status = "Dead" \/ (status = "Stopped" /\ failed)) /\ ScmStarts

(* Threads run; a handshake has a bounded number of reads under a read      *)
(* timeout; a session whose socket was shut down ends; the SCM carries out  *)
(* the recovery actions.  A live session ends when its peer lets it.        *)
Fairness ==
    /\ RelayFairness /\ HelperFairness
    /\ WF_vars(MainThread) /\ WF_vars(WatcherExits)
    /\ WF_vars(session = "handshake" /\ (SessionRegisters \/ SessionEnds))
    /\ WF_vars(session = "shut" /\ SessionEnds)
    /\ WF_vars(ScmRecovers)

FairSpec == Spec /\ Fairness

-----------------------------------------------------------------------------
(* Properties *)

(* When the service says it is stopped nothing of it is left: no thread, no *)
(* session, no daemon that answers for a port nobody listens on.  A record  *)
(* that was not taken back may live on in caches until it expires.          *)
StoppedMeansQuiet ==
    status = "Stopped" =>
        RelayGone /\ HelperGone /\ session = "none" /\ ~ watcher /\ advertised # "yes"

(* No peer keeps its session alive for ever. *)
PeersLetGo == []<>(session # "live")

(* The service is at its end, or service_main has returned early. *)
AtEnd == status \in {"Stopped", "Dead"} \/ mpc = "returned"

(* A stop is carried out, whatever the network, the helper and the threads  *)
(* do meanwhile, and so is the end after an accept error, which leaves the  *)
(* flag set and the sessions unrevoked (execute).  It needs two things the  *)
(* code does not enforce: that no peer keeps a session alive that           *)
(* revoke_all did not reach (LateRegistration.cfg, HeldFailure.cfg), and    *)
(* that the relay ends an upgrade it was asked for (ParkedUpgrade.cfg).     *)
ServiceStops ==
    PeersLetGo /\ UpgradesEnd => (status = "Running" /\ (~ running \/ failed) ~> AtEnd)

(* A failure is not the end: a killed process is started again, and so is a *)
(* service whose port could not be bound or whose accept loop failed, once  *)
(* it gets to its last report and unless a report fails.  A store that      *)
(* cannot be opened is outside it (SilentReturn.cfg).                       *)
FailureRestarts ==
    /\ status = "Dead" ~> status = "StartPending"
    /\ PeersLetGo /\ UpgradesEnd => (failed ~> status = "StartPending" \/ mpc = "returned")

(* The stop does not depend on the relay.  attach says that a read without a *)
(* deadline would park the thread for ever, and sets one                     *)
(* (ParkedUpgrade.cfg).                                                      *)
StopsWithoutRelay == PeersLetGo => (status = "Running" /\ ~ running ~> AtEnd)

(* "The SCM must learn the service is on its way down whether it is stopping *)
(* cleanly or because the accept loop failed" (HeldFailure.cfg).             *)
FailureIsReported == UpgradesEnd => (failed ~> status # "Running" \/ mpc = "returned")

(* What service_main says of itself: "Returns only when the service is      *)
(* stopping" (SilentReturn.cfg).                                            *)
ReturnsWhenStopping == mpc = "returned" => status # "StartPending"

(* What report says of the control handler, "stops accepting even that the  *)
(* moment it begins stopping": a service that is stopping no longer shows   *)
(* Running, the one state in which it is sent Stop (SecondStop.cfg).        *)
StopAcceptedOnce == status = "Running" => running

(* What keeps failing before it has lasted, a link the relay drops or a     *)
(* helper that dies, is retried at its ceiling: one short success does not  *)
(* start the backoff over.                                                  *)
FailuresBackOff == FlappingLinkBacksOff /\ CrashLoopBacksOff
=============================================================================
