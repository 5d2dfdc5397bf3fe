--------------------------- MODULE RelaySupervisor ---------------------------
(***************************************************************************)
(* The thread that keeps the agent attached to the relay                   *)
(* (relay/supervisor.rs, relay/link.rs): connect, pump frames under an     *)
(* application keepalive, back off, come back.                             *)
(*                                                                         *)
(* Time passes in ticks while the thread is in its pump or its backoff.    *)
(* Payloads are opaque to the thread and left out, and so is the jitter.   *)
(***************************************************************************)
EXTENDS AgentFlag, Integers

CONSTANTS
    KeepaliveInterval, KeepaliveTimeout,    \* KEEPALIVE_INTERVAL, KEEPALIVE_TIMEOUT
    LinkHealthyAfter,                       \* HEALTHY_AFTER
    BackoffCap                              \* BACKOFF_CAP, in units of BACKOFF_BASE

ASSUME RelayAssumption ==
    /\ KeepaliveInterval \in Nat /\ KeepaliveTimeout \in Nat
    /\ LinkHealthyAfter \in Nat /\ BackoffCap \in Nat \ {0}

VARIABLES
    net,            \* the path to the relay: "up", "refusing", "silent" (nothing arrives)
    revoked,        \* the relay no longer accepts this device's token
    rpc,            \* the thread: "off", "head", "connecting", "upgrading", "attached", "backoff",
                    \* "done"
    age,            \* ticks since the link was established
    lastPing,       \* ticks since last_ping
    awaiting,       \* ticks since awaiting_pong_since, or -1
    pong,           \* an answer to the last ping is on its way
    delay,          \* what next_delay returns next
    wait            \* ticks of backoff left

linkVars == <<age, lastPing, awaiting, pong>>
relayVars == <<net, revoked, rpc, linkVars, delay, wait>>

AtMost(n, cap) == IF n < cap THEN n ELSE cap

-----------------------------------------------------------------------------
(* The network and the relay (external) *)

NetChanges ==
    /\ net' \in {"up", "refusing", "silent"} \ {net}
    /\ pong' = FALSE
    /\ UNCHANGED <<revoked, rpc, age, lastPing, awaiting, delay, wait>>

RelayRevokes ==
    /\ ~ revoked /\ revoked' = TRUE
    /\ UNCHANGED <<net, rpc, linkVars, delay, wait>>

-----------------------------------------------------------------------------
(* A RelayLink, just made or dropped *)
FreshLink == age' = 0 /\ lastPing' = 0 /\ awaiting' = -1 /\ pong' = FALSE

(* sleep_unless_stopping(backoff.next_delay()) begins, after a reset or not. *)
BackOff(reset) ==
    LET now == IF reset THEN 1 ELSE delay IN
    /\ wait' = now
    /\ delay' = AtMost(2 * now, BackoffCap)
    /\ rpc' = "backoff"

(* The head of supervise's loop *)
RelayHead ==
    /\ rpc = "head"
    /\ rpc' = IF running THEN "connecting" ELSE "done"
    /\ UNCHANGED <<net, revoked, linkVars, delay, wait>>

(* tungstenite::connect: the TCP connection, whose own deadline is the      *)
(* system's.                                                                *)
ConnectOk ==
    /\ rpc = "connecting" /\ net = "up"
    /\ rpc' = "upgrading"
    /\ UNCHANGED <<net, revoked, linkVars, delay, wait>>

ConnectFails ==
    /\ rpc = "connecting" /\ net # "up"
    /\ BackOff(FALSE)
    /\ UNCHANGED <<net, revoked, linkVars>>

(* Then its upgrade.  The thread reads without a deadline, which is set     *)
(* only once the upgrade is done: an answer that does not come is waited    *)
(* for, and nothing says that it comes.                                     *)
UpgradeOk ==
    /\ rpc = "upgrading" /\ net = "up" /\ ~ revoked
    /\ rpc' = "attached" /\ FreshLink
    /\ UNCHANGED <<net, revoked, delay, wait>>

(* The connection is reset, or the upgrade answered with an error: 401 for  *)
(* a revoked token is one more failure to retry.                            *)
UpgradeFails ==
    /\ rpc = "upgrading" /\ (net = "refusing" \/ (net = "up" /\ revoked))
    /\ BackOff(FALSE)
    /\ UNCHANGED <<net, revoked, linkVars>>

(* A slip: any link that was established counts as healthy. *)
EndedAlwaysResets(terminal) ==
    /\ IF terminal THEN rpc' = "done" /\ UNCHANGED <<delay, wait>>
                   ELSE BackOff(TRUE)
    /\ FreshLink
    /\ UNCHANGED <<net, revoked>>

(* The end of a link: the delay starts over only if it lasted. *)
Ended(terminal) ==
    /\ IF terminal THEN rpc' = "done" /\ UNCHANGED <<delay, wait>>
                   ELSE BackOff(age >= LinkHealthyAfter)
    /\ FreshLink
    /\ UNCHANGED <<net, revoked>>

(* pump's loop condition *)
PumpStops ==
    /\ rpc = "attached" /\ ~ running
    /\ rpc' = "done" /\ FreshLink
    /\ UNCHANGED <<net, revoked, delay, wait>>

(* tick_keepalive: a ping that is due. *)
SendPing ==
    /\ rpc = "attached" /\ running
    /\ awaiting = -1 /\ lastPing >= KeepaliveInterval
    /\ lastPing' = 0 /\ awaiting' = 0
    /\ pong' = (net = "up")
    /\ UNCHANGED <<net, revoked, rpc, age, delay, wait>>

(* A slip: a ping that goes unanswered is followed by another. *)
PongOverdueIgnored ==
    /\ rpc = "attached" /\ running /\ awaiting >= KeepaliveTimeout
    /\ awaiting' = -1
    /\ UNCHANGED <<net, revoked, rpc, age, lastPing, pong, delay, wait>>

(* tick_keepalive: the pong is overdue and the link counts as dead. *)
PongOverdue ==
    /\ rpc = "attached" /\ running /\ awaiting >= KeepaliveTimeout
    /\ Ended(FALSE)

(* poll reads the pong.  Other frames change nothing. *)
ReadPong ==
    /\ rpc = "attached" /\ running /\ awaiting < KeepaliveTimeout
    /\ pong
    /\ awaiting' = -1 /\ pong' = FALSE
    /\ UNCHANGED <<net, revoked, rpc, age, lastPing, delay, wait>>

(* poll reads a close or an error: classify_close.  4001 and 4003 are       *)
(* final, and the relay may send them to any device; every other close, a   *)
(* failed read and a ping that cannot be sent are retried.                  *)
Closed ==
    /\ rpc = "attached" /\ running /\ awaiting < KeepaliveTimeout
    /\ net # "silent"
    /\ \E terminal \in BOOLEAN : Ended(terminal)

(* Reads return within READ_SLICE, so a timer that has run out is seen      *)
(* before the next tick.                                                    *)
LinkTick ==
    /\ rpc = "attached" /\ running
    /\ awaiting < KeepaliveTimeout /\ (awaiting = -1 => lastPing < KeepaliveInterval)
    /\ age' = AtMost(age + 1, LinkHealthyAfter)
    /\ lastPing' = AtMost(lastPing + 1, KeepaliveInterval)
    /\ awaiting' = IF awaiting = -1 THEN -1 ELSE awaiting + 1
    /\ UNCHANGED <<net, revoked, rpc, pong, delay, wait>>

(* sleep_unless_stopping, in slices *)
BackoffTick ==
    /\ rpc = "backoff"
    /\ IF ~ running THEN rpc' = "done" /\ wait' = 0
       ELSE IF wait > 0 THEN wait' = wait - 1 /\ UNCHANGED rpc
       ELSE rpc' = "head" /\ UNCHANGED wait
    /\ UNCHANGED <<net, revoked, linkVars, delay>>

RelayInit ==
    /\ net = "up" /\ revoked = FALSE /\ rpc = "off"
    /\ age = 0 /\ lastPing = 0 /\ awaiting = -1 /\ pong = FALSE
    /\ delay = 1 /\ wait = 0

(* A step the thread takes by itself; the end of an upgrade and a close are *)
(* the relay's doing.                                                       *)
RelayThread ==
    \/ RelayHead \/ ConnectOk \/ ConnectFails \/ PumpStops \/ SendPing \/ PongOverdue
    \/ ReadPong \/ LinkTick \/ BackoffTick

RelayNext ==
    /\ RelayThread \/ UpgradeOk \/ UpgradeFails \/ Closed \/ NetChanges \/ RelayRevokes
    /\ UNCHANGED running

(* The scheduler runs the thread and time passes; nothing is assumed of the *)
(* network or the relay, not that an upgrade is ever answered.              *)
RelayFairness == WF_<<running, relayVars>>(RelayThread /\ UNCHANGED running)

-----------------------------------------------------------------------------
(* Properties *)

(* A link over which nothing arrives any more is noticed: the agent does    *)
(* not go on believing it is attached ("liveness is entirely the agent's    *)
(* problem").                                                               *)
HalfOpenNoticed == <>[](net = "silent") => <>[](rpc # "attached")

(* The relay, or the network's end of the connection, ends every upgrade. *)
UpgradesEnd == []<>(rpc # "upgrading")

(* After any outage the agent comes back by itself, as long as it runs, the *)
(* relay is reachable, the device is neither revoked nor sent away for good *)
(* and upgrades come to an end.                                             *)
LinkReconnects ==
    /\ UpgradesEnd
    /\ <>[](running /\ net = "up" /\ ~ revoked /\ rpc \notin {"off", "done"})
    => []<>(rpc = "attached")

(* The link follows the network: it is given up when the network is gone    *)
(* without a word and made again when it is back (supervise, the keepalive). *)
LinkFollowsNetwork == HalfOpenNoticed /\ LinkReconnects

(* A relay that drops every link before it has lasted is retried at the     *)
(* ceiling: a connection that is accepted and dropped at once does not      *)
(* start the backoff over.                                                  *)
FlappingLinkBacksOff ==
    <>[](rpc # "off" /\ age < LinkHealthyAfter) => <>[](rpc = "backoff" => delay = BackoffCap)

(* A disconnect that no reconnection can fix is not retried (supervisor.rs,  *)
(* lines 4 to 6): a revoked device that is not attached stops trying to be, *)
(* where the relay can be reached and answers its upgrades.                 *)
RevokedStopsTrying ==
    UpgradesEnd /\ <>[](net = "up")
    => []<>(~ revoked \/ rpc \in {"off", "done", "attached"})
=============================================================================
