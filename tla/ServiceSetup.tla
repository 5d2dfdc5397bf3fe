----------------------------- MODULE ServiceSetup -----------------------------
(***************************************************************************)
(* `install` and `uninstall` against the service control manager           *)
(* (service/windows_impl.rs, service/acl.rs, service/firewall.rs).  Each   *)
(* is a sequence of calls, any of which may fail and end the command with  *)
(* what it has done so far in place.  Meanwhile the service manager starts *)
(* the service when it is registered (at boot, by hand, as a recovery      *)
(* action), and the service stops, fails, dies or hangs on its way down.   *)
(*                                                                         *)
(* One elevated command runs at a time.  What the service does between its *)
(* start and its stop is module AgentLifecycle.                            *)
(***************************************************************************)
EXTENDS Naturals

CONSTANT MaxStarts      \* bound on the starts of the service

ASSUME SetupAssumption == MaxStarts \in Nat

VARIABLES
    registered,     \* "no", "yes", or "marked" for deletion
    recovery,       \* failures that restart it: subset of {"death", "reported"}
    hardened,       \* the data directory has its own DACL
    rule,           \* the firewall rule exists
    scm,            \* the service's state
    setup,          \* what the elevated command does next
    handle,         \* `uninstall` holds the service open
    starts,         \* starts so far
    again           \* history: the service was started after `uninstall` saw it stopped

setupVars == <<registered, recovery, hardened, rule, scm, setup, handle, starts, again>>

(* The service manager drops a service that is marked, stopped and not held *)
(* open by anyone.                                                          *)
Kept(reg, state, held) == IF reg = "marked" /\ state = "Stopped" /\ ~ held THEN "no" ELSE reg

-----------------------------------------------------------------------------
(* install *)

(* DataLayout::create_default and harden_data_dir, which can be repeated. *)
InstallSecures ==
    /\ setup = "idle" /\ setup' = "create"
    /\ hardened' = TRUE
    /\ UNCHANGED <<registered, recovery, rule, scm, handle, starts, again>>

(* create_service and set_description.  A name in use is refused. *)
InstallCreates ==
    /\ setup = "create" /\ registered = "no"
    /\ registered' = "yes" /\ recovery' = {}
    /\ setup' = "actions"
    /\ UNCHANGED <<hardened, rule, scm, handle, starts, again>>

(* update_failure_actions: the recovery after a death. *)
InstallActions ==
    /\ setup = "actions"
    /\ recovery' = recovery \cup {"death"}
    /\ setup' = "reported"
    /\ UNCHANGED <<registered, hardened, rule, scm, handle, starts, again>>

(* set_failure_actions_on_non_crash_failures *)
InstallReported ==
    /\ setup = "reported"
    /\ recovery' = recovery \cup {"reported"}
    /\ setup' = "rule"
    /\ UNCHANGED <<registered, hardened, rule, scm, handle, starts, again>>

(* firewall::allow_inbound, if asked for: an old rule is removed first, so  *)
(* that a failure half way leaves none.                                     *)
InstallRule ==
    /\ setup = "rule"
    /\ \/ rule' = TRUE /\ setup' = "start"
       \/ rule' = FALSE /\ setup' = "idle"
       \/ UNCHANGED rule /\ setup' = "start"
    /\ UNCHANGED <<registered, recovery, hardened, scm, handle, starts, again>>

(* service.start, if asked for, is ScmStarts; either way the command ends. *)
InstallEnds ==
    /\ setup = "start" /\ setup' = "idle"
    /\ UNCHANGED <<registered, recovery, hardened, rule, scm, handle, starts, again>>

-----------------------------------------------------------------------------
(* uninstall *)

UninstallOpens ==
    /\ setup = "idle" /\ registered # "no"
    /\ setup' = "query" /\ handle' = TRUE
    /\ UNCHANGED <<registered, recovery, hardened, rule, scm, starts, again>>

(* A service that is stopped is not stopped again.  The control is taken    *)
(* until the service reports that it is stopping, which it does only once   *)
(* its threads are joined; otherwise the call fails (SetupFails).           *)
UninstallStops ==
    /\ setup = "query"
    /\ \/ scm = "Stopped" /\ setup' = "delete" /\ again' = FALSE /\ UNCHANGED scm
       \/ scm \in {"Running", "Stopping"} /\ setup' = "wait" /\ scm' = "Stopping" /\ UNCHANGED again
    /\ UNCHANGED <<registered, recovery, hardened, rule, handle, starts>>

(* A slip: when the limit is reached the service is taken to be stopped. *)
UninstallWaitsOnce ==
    /\ setup = "wait"
    /\ setup' = "delete" /\ again' = FALSE
    /\ UNCHANGED <<registered, recovery, hardened, rule, scm, handle, starts>>

(* wait_for_stop; past its limit it fails (SetupFails). *)
UninstallWaits ==
    /\ setup = "wait" /\ scm = "Stopped"
    /\ setup' = "delete" /\ again' = FALSE
    /\ UNCHANGED <<registered, recovery, hardened, rule, scm, handle, starts>>

(* delete marks the service, and dropping the handle lets it go. *)
UninstallDeletes ==
    /\ setup = "delete" /\ registered = "yes"
    /\ registered' = Kept("marked", scm, FALSE)
    /\ handle' = FALSE /\ setup' = "unrule"
    /\ UNCHANGED <<recovery, hardened, rule, scm, starts, again>>

(* firewall::remove_inbound, if asked for. *)
UninstallRule ==
    /\ setup = "unrule" /\ setup' = "idle"
    /\ rule' \in {rule, FALSE}
    /\ UNCHANGED <<registered, recovery, hardened, scm, handle, starts, again>>

(* Any call fails, and the `?` ends the command. *)
SetupFails ==
    /\ setup # "idle" /\ setup' = "idle"
    /\ handle' = FALSE /\ registered' = Kept(registered, scm, FALSE)
    /\ UNCHANGED <<recovery, hardened, rule, scm, starts, again>>

-----------------------------------------------------------------------------
(* The service manager and the service (external; see AgentLifecycle) *)

(* At boot, by hand or by install; after a failure as its recovery action. *)
ServiceStarts ==
    /\ registered = "yes" /\ scm = "Stopped" /\ starts < MaxStarts
    /\ scm' = "Starting" /\ starts' = starts + 1 /\ again' = TRUE
    /\ UNCHANGED <<registered, recovery, hardened, rule, setup, handle>>

ServiceRuns ==
    /\ scm = "Starting" /\ scm' = "Running"
    /\ UNCHANGED <<registered, recovery, hardened, rule, setup, handle, starts, again>>

StopRequested ==
    /\ scm = "Running" /\ scm' = "Stopping"
    /\ UNCHANGED <<registered, recovery, hardened, rule, setup, handle, starts, again>>

(* It reports its stop, clean or not, or dies. *)
ServiceGone ==
    /\ scm # "Stopped" /\ scm' = "Stopped"
    /\ registered' = Kept(registered, "Stopped", handle)
    /\ UNCHANGED <<recovery, hardened, rule, setup, handle, starts, again>>

SetupInit ==
    /\ registered = "no" /\ recovery = {} /\ hardened = FALSE /\ rule = FALSE
    /\ scm = "Stopped" /\ setup = "idle" /\ handle = FALSE
    /\ starts = 0 /\ again = FALSE

SetupNext ==
    \/ InstallSecures \/ InstallCreates \/ InstallActions \/ InstallReported
    \/ InstallRule \/ InstallEnds
    \/ UninstallOpens \/ UninstallStops \/ UninstallWaits \/ UninstallDeletes \/ UninstallRule
    \/ SetupFails
    \/ ServiceStarts \/ ServiceRuns \/ StopRequested \/ ServiceGone

SetupSpec == SetupInit /\ [][SetupNext]_setupVars

-----------------------------------------------------------------------------
(* Properties *)

(* The service never opens a data directory with inherited permissions:     *)
(* "the SCM could start the service the moment `create_service` returns",   *)
(* whatever failed in the install before or in an earlier one.              *)
KeysAreGuarded == scm # "Stopped" => hardened

(* A service that was removed is not running, unless it was started again   *)
(* after `uninstall` had seen it stopped: a stop that hangs, fails or comes *)
(* while it starts ends the command and leaves the service registered.      *)
RemovedIsStopped == registered # "yes" => scm = "Stopped" \/ again

(* Setting the service up and taking it away keep their order, whatever     *)
(* fails and whatever the service does meanwhile (install, uninstall).      *)
SetupIsOrdered == KeysAreGuarded /\ RemovedIsStopped
=============================================================================
