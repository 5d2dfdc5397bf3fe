--------------------------- MODULE HelperSupervisor ---------------------------
(***************************************************************************)
(* The thread that keeps a helper process in the user's session            *)
(* (helper/supervisor.rs, helper/spawn.rs).  One pass of its loop reads    *)
(* the console session and checks on the child (HelperPoll), starts one if *)
(* that is due (HelperSpawn), where the session is read a second time, and *)
(* sleeps.  The helper itself stays until it is killed or its session ends *)
(* (osprey-helper).                                                        *)
(***************************************************************************)
EXTENDS AgentFlag, Integers

CONSTANTS
    Users,              \* console sessions
    NoUser,             \* no session is attached to the console
    RespawnMax,         \* RESPAWN_MAX_DELAY, in units of RESPAWN_BASE_DELAY
    HelperHealthyAfter  \* HEALTHY_AFTER, in passes of the loop

ASSUME HelperAssumption ==
    NoUser \notin Users /\ RespawnMax \in Nat \ {0} /\ HelperHealthyAfter \in Nat

VARIABLES
    console,        \* the active console session
    strays,         \* sessions with a live helper the supervisor does not know
    hpc,            \* the thread: "off", "poll", "spawn", "sleep", "done"
    seen,           \* the session this pass read
    child,          \* the session of the child's handle, or NoUser
    exited,         \* the child's process has exited
    lasted,         \* passes since it was started
    respawn,        \* `delay`
    retry,          \* passes until retry_at
    helperUp        \* HelperStatus.running

childVars == <<child, exited, lasted, respawn, retry, helperUp>>
helperVars == <<console, strays, hpc, seen, childVars>>

Least(n, cap) == IF n < cap THEN n ELSE cap

(* What forgetting the child leaves behind: its process, if it is alive. *)
Forgotten == IF child # NoUser /\ ~ exited THEN strays \cup {child} ELSE strays

-----------------------------------------------------------------------------
(* The machine (external) *)

(* A fast user switch: the old session and its helper live on. *)
SwitchUser(u) ==
    /\ console # u /\ console' = u
    /\ UNCHANGED <<strays, hpc, seen, childVars>>

(* Signing out ends every process of the session. *)
SignOut ==
    /\ console # NoUser /\ console' = NoUser
    /\ strays' = strays \ {console}
    /\ exited' = (exited \/ child = console)
    /\ UNCHANGED <<hpc, seen, child, lasted, respawn, retry, helperUp>>

HelperCrashes ==
    /\ child # NoUser /\ ~ exited
    /\ exited' = TRUE
    /\ UNCHANGED <<console, strays, hpc, seen, child, lasted, respawn, retry, helperUp>>

-----------------------------------------------------------------------------
Forget(nextRespawn, nextRetry) ==
    /\ child' = NoUser /\ exited' = FALSE /\ lasted' = 0 /\ helperUp' = FALSE
    /\ respawn' = nextRespawn /\ retry' = nextRetry
    /\ strays' = Forgotten

(* Step 1: the session is gone or another one has the console. *)
SessionChanged ==
    /\ child # NoUser /\ child # console
    /\ Forget(1, 0)

(* Step 2: the helper has exited.  Only one that lasted ends the backoff. *)
ChildExited ==
    LET next == IF lasted >= HelperHealthyAfter THEN 1 ELSE Least(2 * respawn, RespawnMax) IN
    /\ child # NoUser /\ child = console /\ exited
    /\ Forget(next, next)

(* Step 2: it cannot be checked on, and is assumed to be gone. *)
CheckFails ==
    /\ child # NoUser /\ child = console
    /\ Forget(respawn, respawn)

ChildFine ==
    /\ child = NoUser \/ (child = console /\ ~ exited)
    /\ UNCHANGED <<childVars, strays>>

(* A slip: the console session is not compared with the child's. *)
HelperPollStaysPut ==
    /\ hpc = "poll" /\ running
    /\ seen' = console /\ hpc' = "spawn"
    /\ ChildFine \/ CheckFails \/ ChildExited
       \/ (child # console /\ UNCHANGED <<childVars, strays>>)
    /\ UNCHANGED console

HelperPoll ==
    /\ hpc = "poll" /\ running
    /\ seen' = console /\ hpc' = "spawn"
    /\ SessionChanged \/ ChildExited \/ CheckFails \/ ChildFine
    /\ UNCHANGED console

SpawnDue == child = NoUser /\ seen # NoUser /\ retry = 0

(* Step 3: spawn_into_active_session reads the console session itself. *)
HelperSpawnOk ==
    /\ hpc = "spawn" /\ SpawnDue /\ console # NoUser
    /\ child' = console /\ exited' = FALSE /\ lasted' = 0 /\ helperUp' = TRUE
    /\ hpc' = "sleep" /\ seen' = NoUser
    /\ UNCHANGED <<console, strays, respawn, retry>>

HelperSpawnFails ==
    /\ hpc = "spawn" /\ SpawnDue
    /\ respawn' = Least(2 * respawn, RespawnMax) /\ retry' = respawn'
    /\ hpc' = "sleep" /\ seen' = NoUser
    /\ UNCHANGED <<console, strays, child, exited, lasted, helperUp>>

HelperSpawnNone ==
    /\ hpc = "spawn" /\ ~ SpawnDue
    /\ hpc' = "sleep" /\ seen' = NoUser
    /\ UNCHANGED <<console, strays, childVars>>

HelperSleeps ==
    /\ hpc = "sleep"
    /\ hpc' = "poll"
    /\ retry' = IF retry = 0 THEN 0 ELSE retry - 1
    /\ lasted' = IF child = NoUser THEN 0 ELSE Least(lasted + 1, HelperHealthyAfter)
    /\ UNCHANGED <<console, strays, seen, child, exited, respawn, helperUp>>

(* The loop ends; the helper is left to its session. *)
HelperStops ==
    /\ hpc = "poll" /\ ~ running
    /\ hpc' = "done"
    /\ Forget(1, 0)
    /\ UNCHANGED <<console, seen>>

HelperInit ==
    /\ console \in Users \cup {NoUser} /\ strays = {}
    /\ hpc = "off" /\ seen = NoUser
    /\ child = NoUser /\ exited = FALSE /\ lasted = 0
    /\ respawn = 1 /\ retry = 0 /\ helperUp = FALSE

HelperThread ==
    \/ HelperPoll \/ HelperSpawnOk \/ HelperSpawnFails \/ HelperSpawnNone
    \/ HelperSleeps \/ HelperStops

HelperNext ==
    /\ \/ HelperThread \/ SignOut \/ HelperCrashes
       \/ \E u \in Users : SwitchUser(u)
    /\ UNCHANGED running

(* The thread runs, and starting a process does not fail for ever. *)
HelperFairness ==
    /\ WF_<<running, helperVars>>(HelperThread /\ UNCHANGED running)
    /\ SF_<<running, helperVars>>(HelperSpawnOk /\ UNCHANGED running)

-----------------------------------------------------------------------------
(* Properties *)

(* The helper follows the user: once the console stays with a session and   *)
(* helpers stop dying there, it has a running helper for good, whatever     *)
(* switches, sign-outs, crashes and failed starts came before.              *)
HelperFollows ==
    \A u \in Users :
        /\ <>[](console = u /\ running /\ hpc # "off")
        /\ <>[][~ (HelperCrashes \/ (CheckFails /\ hpc = "poll"))]_helperVars
        => <>[](child = u /\ ~ exited /\ helperUp)

(* A helper that keeps dying before it has lasted is restarted at the       *)
(* ceiling, as long as the console stays where it is.                       *)
CrashLoopBacksOff ==
    (\E u \in Users : <>[](console = u /\ hpc # "off"))
        /\ <>[](lasted < HelperHealthyAfter)
        /\ <>[][~ (CheckFails /\ hpc = "poll")]_helperVars
        => <>[](retry > 0 => respawn = RespawnMax)

(* "Keeps exactly one helper alive in whichever session the user is signed  *)
(* in to."                                                                  *)
OneHelper == child # NoUser /\ ~ exited => child \notin strays
=============================================================================
