---------------------------- MODULE MetricsEngine ----------------------------
(***************************************************************************)
(* The metrics engine of the agent and the sessions that stream from it    *)
(* (metrics/engine.rs, the loop and dispatch of session.rs, pacing.rs).    *)
(* One sampler thread waits on a condition variable, on the live interval  *)
(* when there is a subscriber and on the idle interval otherwise, reads    *)
(* the platform and delivers the sample into every subscriber's bounded    *)
(* channel.  A session thread drains its channel onto the wire between two *)
(* waits for its peer's next request.                                      *)
(*                                                                         *)
(* A channel stays in the engine's list after its receiver is dropped,     *)
(* until a delivery finds it disconnected.  A queue is its length: channels *)
(* keep the order by themselves.  The length of an interval is left out: a *)
(* wait may time out at any moment.  What history stores is module         *)
(* MetricsRing, what a sample contains is module Collector.                *)
(***************************************************************************)
EXTENDS Integers, FiniteSets

CONSTANTS
    Sessions,       \* session threads
    Channels,       \* channels in use at once, the ones not yet removed included
    None,           \* no stream
    QueueDepth,     \* SUBSCRIBER_QUEUE_DEPTH
    IdleSlices      \* SESSION_IDLE_TIMEOUT, in expired waits

ASSUME EngineAssumption ==
    /\ QueueDepth \in Nat \ {0} /\ IdleSlices \in Nat
    /\ None \notin Channels

VARIABLES
    running,        \* Shared.running
    subscribers,    \* Shared.subscribers: channels with a sender in the list
    queue,          \* how many samples are in each channel
    spc,            \* the sampler thread
    interval,       \* the interval it waits on
    notified,       \* a notify_all has reached its wait
    owner,          \* `run`: "serving", "dropping" (the flag is cleared), "joining", "down"
    pc,             \* each session thread
    stream,         \* Runtime.stream: the channel whose receiver the session holds
    quiet           \* waits that expired since the session's last activity

sampler == <<spc, interval, notified>>
sessions == <<pc, stream, quiet>>
vars == <<running, subscribers, queue, sampler, owner, sessions>>

Held == {stream[s] : s \in Sessions} \ {None}
Free == Channels \ (subscribers \cup Held)

(* condvar.notify_all: only a thread that waits is woken. *)
Notify == notified' = (notified \/ spc = "waiting")

-----------------------------------------------------------------------------
(* The sampler thread *)

(* A slip: the lock is released between reading the interval and waiting. *)
SamplerWaitsUnlocked ==
    \/ /\ spc = "check" /\ running
       /\ interval' = IF subscribers = {} THEN "idle" ELSE "live"
       /\ spc' = "unlocked"
       /\ UNCHANGED <<running, subscribers, queue, notified, owner, sessions>>
    \/ /\ spc = "unlocked"
       /\ spc' = "waiting"
       /\ UNCHANGED <<running, subscribers, queue, interval, notified, owner, sessions>>

(* The flag and the interval are read and the wait entered under one hold   *)
(* of the lock.                                                             *)
SamplerWaits ==
    /\ spc = "check" /\ running
    /\ interval' = IF subscribers = {} THEN "idle" ELSE "live"
    /\ spc' = "waiting"
    /\ UNCHANGED <<running, subscribers, queue, notified, owner, sessions>>

(* The wait ends by a notification or by its timeout. *)
SamplerWakes ==
    /\ spc = "waiting"
    /\ notified' = FALSE
    /\ spc' = IF running THEN "sampling" ELSE "exited"
    /\ UNCHANGED <<running, subscribers, queue, interval, owner, sessions>>

SamplerStops ==
    /\ spc = "check" /\ ~running
    /\ spc' = "exited"
    /\ UNCHANGED <<running, subscribers, queue, interval, notified, owner, sessions>>

(* MIN_SAMPLE_SPACING, then collector.sample(), outside the lock. *)
SampleTaken ==
    /\ spc = "sampling"
    /\ spc' = "deliver"
    /\ UNCHANGED <<running, subscribers, queue, interval, notified, owner, sessions>>

SampleFails ==
    /\ spc = "sampling"
    /\ spc' = "check"
    /\ UNCHANGED <<running, subscribers, queue, interval, notified, owner, sessions>>

(* A slip: a full queue is taken for a dead subscriber. *)
DeliverDropsFull ==
    LET kept == {c \in subscribers \cap Held : queue[c] < QueueDepth} IN
    /\ spc = "deliver"
    /\ subscribers' = kept
    /\ queue' = [c \in Channels |-> IF c \in kept THEN queue[c] + 1 ELSE queue[c]]
    /\ spc' = "check"
    /\ UNCHANGED <<running, interval, notified, owner, sessions>>

(* Slips: a queue without a bound; a list that is never cleaned. *)
DeliverUnbounded ==
    /\ spc = "deliver"
    /\ subscribers' = subscribers \cap Held
    /\ queue' = [c \in Channels |-> queue[c] + (IF c \in subscribers' THEN 1 ELSE 0)]
    /\ spc' = "check"
    /\ UNCHANGED <<running, interval, notified, owner, sessions>>

DeliverKeepsAll ==
    /\ spc = "deliver"
    /\ queue' = [c \in Channels |-> IF c \in subscribers \cap Held /\ queue[c] < QueueDepth
                                    THEN queue[c] + 1 ELSE queue[c]]
    /\ spc' = "check"
    /\ UNCHANGED <<running, subscribers, interval, notified, owner, sessions>>

(* deliver: try_send to every subscriber.  A disconnected channel leaves    *)
(* the list; a full one keeps what it has and misses this sample.           *)
Deliver ==
    /\ spc = "deliver"
    /\ subscribers' = subscribers \cap Held
    /\ queue' = [c \in Channels |->
                    IF c \in subscribers' /\ queue[c] < QueueDepth
                    THEN queue[c] + 1 ELSE queue[c]]
    /\ spc' = "check"
    /\ UNCHANGED <<running, interval, notified, owner, sessions>>

-----------------------------------------------------------------------------
(* A session thread *)

Connect(s) ==
    /\ pc[s] = "off" /\ owner = "serving"
    /\ pc' = [pc EXCEPT ![s] = "hello"]
    /\ UNCHANGED <<running, subscribers, queue, sampler, owner, stream, quiet>>

(* read_hello: a first message that is not a well-formed hello of a common  *)
(* version ends the session (SessionEnds).                                  *)
ReadHello(s) ==
    /\ pc[s] = "hello"
    /\ pc' = [pc EXCEPT ![s] = "push"]
    /\ quiet' = [quiet EXCEPT ![s] = 0]
    /\ UNCHANGED <<running, subscribers, queue, sampler, owner, stream>>

(* A slip: the push counts as activity even when there was nothing to send. *)
PushTicksAlwaysActive(s) ==
    /\ pc[s] = "push"
    /\ IF stream[s] # None /\ queue[stream[s]] > 0
       THEN queue' = [queue EXCEPT ![stream[s]] = 0]
       ELSE UNCHANGED queue
    /\ quiet' = [quiet EXCEPT ![s] = 0]
    /\ pc' = [pc EXCEPT ![s] = "wait"]
    /\ UNCHANGED <<running, subscribers, sampler, owner, stream>>

(* push_ticks: everything queued goes out, oldest first, and counts as      *)
(* activity.  A write that fails ends the session (SessionEnds).            *)
PushTicks(s) ==
    /\ pc[s] = "push"
    /\ IF stream[s] # None /\ queue[stream[s]] > 0
       THEN /\ queue' = [queue EXCEPT ![stream[s]] = 0]
            /\ quiet' = [quiet EXCEPT ![s] = 0]
       ELSE UNCHANGED <<queue, quiet>>
    /\ pc' = [pc EXCEPT ![s] = "wait"]
    /\ UNCHANGED <<running, subscribers, sampler, owner, stream>>

(* wait_readable expires; the idle deadline has not passed. *)
WaitExpires(s) ==
    /\ pc[s] = "wait" /\ quiet[s] < IdleSlices
    /\ quiet' = [quiet EXCEPT ![s] = @ + 1]
    /\ pc' = [pc EXCEPT ![s] = "push"]
    /\ UNCHANGED <<running, subscribers, queue, sampler, owner, stream>>

(* A request that leaves the stream alone: a ping, a refused revocation, a  *)
(* wrong version, a body that does not parse, a type this build has not.    *)
AnswerRequest(s) ==
    /\ pc[s] = "wait"
    /\ quiet' = [quiet EXCEPT ![s] = 0]
    /\ pc' = [pc EXCEPT ![s] = "push"]
    /\ UNCHANGED <<running, subscribers, queue, sampler, owner, stream>>

(* metrics.subscribe: the history is answered first. *)
AnswerHistory(s) ==
    /\ pc[s] = "wait"
    /\ quiet' = [quiet EXCEPT ![s] = 0]
    /\ pc' = [pc EXCEPT ![s] = "answered"]
    /\ UNCHANGED <<running, subscribers, queue, sampler, owner, stream>>

(* MetricsEngine::subscribe: the sender joins the list under the lock.  The *)
(* session's old receiver is dropped when the new stream replaces it.       *)
Subscribe(s) ==
    /\ pc[s] = "answered"
    /\ \E c \in Free :
         /\ subscribers' = subscribers \cup {c}
         /\ stream' = [stream EXCEPT ![s] = c]
         /\ queue' = [d \in Channels |-> IF d \in {c, stream[s]} THEN 0 ELSE queue[d]]
    /\ pc' = [pc EXCEPT ![s] = "notify"]
    /\ UNCHANGED <<running, sampler, owner, quiet>>

(* condvar.notify_all, after the lock is released. *)
NotifySampler(s) ==
    /\ pc[s] = "notify"
    /\ Notify
    /\ pc' = [pc EXCEPT ![s] = "push"]
    /\ UNCHANGED <<running, subscribers, queue, spc, interval, owner, stream, quiet>>

(* stream = false: the receiver is dropped, the sender stays in the list. *)
Unsubscribe(s) ==
    /\ pc[s] = "answered"
    /\ stream' = [stream EXCEPT ![s] = None]
    /\ queue' = [c \in Channels |-> IF c = stream[s] THEN 0 ELSE queue[c]]
    /\ pc' = [pc EXCEPT ![s] = "push"]
    /\ UNCHANGED <<running, subscribers, sampler, owner, quiet>>

(* The session is over: bye, close, a failed read or write, an applied      *)
(* revocation, or the idle deadline.                                        *)
SessionEnds(s) ==
    /\ pc[s] \in {"hello", "push", "wait"}
    /\ pc' = [pc EXCEPT ![s] = "off"]
    /\ stream' = [stream EXCEPT ![s] = None]
    /\ queue' = [c \in Channels |-> IF c = stream[s] THEN 0 ELSE queue[c]]
    /\ quiet' = [quiet EXCEPT ![s] = 0]
    /\ UNCHANGED <<running, subscribers, sampler, owner>>

-----------------------------------------------------------------------------
(* A slip: the thread is woken without being told to stop. *)
DropEngineForgetsFlag ==
    /\ owner = "serving" /\ \A s \in Sessions : pc[s] = "off"
    /\ owner' = "dropping"
    /\ UNCHANGED <<running, subscribers, queue, sampler, sessions>>

(* `run` drops the engine once its sessions are joined. *)
DropEngine ==
    /\ owner = "serving" /\ \A s \in Sessions : pc[s] = "off"
    /\ running' = FALSE
    /\ owner' = "dropping"
    /\ UNCHANGED <<subscribers, queue, sampler, sessions>>

DropNotifies ==
    /\ owner = "dropping"
    /\ Notify
    /\ owner' = "joining"
    /\ UNCHANGED <<running, subscribers, queue, spc, interval, sessions>>

(* join returns when the thread has. *)
SamplerJoined ==
    /\ owner = "joining" /\ spc = "exited"
    /\ owner' = "down"
    /\ UNCHANGED <<running, subscribers, queue, sampler, sessions>>

(* MetricsEngine::start, in the next run of the agent. *)
Restart ==
    /\ owner = "down"
    /\ running' = TRUE /\ owner' = "serving" /\ spc' = "check"
    /\ subscribers' = {}
    /\ UNCHANGED <<queue, interval, notified, sessions>>

Init ==
    /\ running = TRUE /\ owner = "serving"
    /\ subscribers = {} /\ queue = [c \in Channels |-> 0]
    /\ spc = "check" /\ interval = "idle" /\ notified = FALSE
    /\ pc = [s \in Sessions |-> "off"] /\ stream = [s \in Sessions |-> None]
    /\ quiet = [s \in Sessions |-> 0]

SamplerNext ==
    SamplerWaits \/ SamplerWakes \/ SamplerStops \/ SampleTaken \/ SampleFails \/ Deliver

SessionNext(s) ==
    \/ Connect(s) \/ ReadHello(s) \/ PushTicks(s) \/ WaitExpires(s) \/ AnswerRequest(s)
    \/ AnswerHistory(s) \/ Subscribe(s) \/ NotifySampler(s) \/ Unsubscribe(s) \/ SessionEnds(s)

Next ==
    \/ SamplerNext
    \/ \E s \in Sessions : SessionNext(s)
    \/ DropEngine \/ DropNotifies \/ SamplerJoined \/ Restart

Spec == Init /\ [][Next]_vars

(* The ends of a session that do not depend on its peer: the read deadline  *)
(* while it waits for hello, and the idle deadline.                         *)
HangUp(s) ==
    /\ pc[s] = "hello" \/ (pc[s] = "wait" /\ quiet[s] = IdleSlices)
    /\ SessionEnds(s)

(* The scheduler runs the threads, waits time out, and collection does not  *)
(* fail for ever.  Nothing is assumed of peers: a wait expires if nothing   *)
(* else ends it.                                                            *)
Fairness ==
    /\ WF_vars(SamplerNext) /\ SF_vars(SampleTaken)
    /\ WF_vars(DropNotifies) /\ WF_vars(SamplerJoined)
    /\ \A s \in Sessions :
         /\ WF_vars(PushTicks(s)) /\ WF_vars(WaitExpires(s)) /\ WF_vars(HangUp(s))
         /\ WF_vars(Subscribe(s) \/ Unsubscribe(s)) /\ WF_vars(NotifySampler(s))

FairSpec == Spec /\ Fairness

-----------------------------------------------------------------------------
(* Properties *)

(* Every variable keeps its type.  A peer that does not read costs at most  *)
(* QueueDepth samples, and no sample waits in a channel nobody holds.       *)
TypeOK ==
    /\ running \in BOOLEAN /\ notified \in BOOLEAN
    /\ subscribers \subseteq Channels
    /\ queue \in [Channels -> 0 .. QueueDepth]
    /\ \A c \in Channels \ Held : queue[c] = 0
    /\ spc \in {"check", "waiting", "sampling", "deliver", "exited"}
    /\ interval \in {"idle", "live"}
    /\ owner \in {"serving", "dropping", "joining", "down"}
    /\ pc \in [Sessions -> {"off", "hello", "push", "wait", "answered", "notify"}]
    /\ stream \in [Sessions -> Channels \cup {None}]
    /\ quiet \in [Sessions -> 0 .. IdleSlices]

(* The sampler never sleeps through a subscription or the stop: while it    *)
(* waits on the idle interval with a subscriber in the list, or waits after *)
(* the flag was cleared, its notification has come or is about to.          *)
NoLostWakeup ==
    spc = "waiting" /\ ~notified =>
        /\ running \/ owner = "dropping"
        /\ interval = "idle" /\ subscribers # {} => \E s \in Sessions : pc[s] = "notify"

(* An agent nobody watches goes back to the idle interval: channels whose   *)
(* sessions are gone leave the list (Subscription, deliver).                *)
UnwatchedSlowsDown == <>[](running /\ Held = {}) => <>[](subscribers = {})

(* A session that keeps its stream goes on pushing ticks, also when its     *)
(* queue was full for a while: "a full queue is not a dead subscriber".     *)
WatchersGetTicks ==
    \A s \in Sessions, c \in Channels :
        <>[](stream[s] = c) => []<><<PushTicks(s) /\ queue' # queue>>_vars

(* Dropping the engine ends: its join does not wait for ever. *)
StopCompletes == owner = "dropping" ~> owner = "down"

(* A peer that stays silent and has no stream is hung up on, whatever the   *)
(* engine and the other sessions do (serve, SESSION_IDLE_TIMEOUT).          *)
SilentPeersHungUp ==
    \A s \in Sessions :
        /\ <>[](stream[s] = None)
        /\ <>[][~(AnswerRequest(s) \/ AnswerHistory(s))]_vars
        => []<>(pc[s] = "off")
=============================================================================
