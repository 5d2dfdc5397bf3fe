------------------------------ MODULE AgentPins ------------------------------
(***************************************************************************)
(* The pin store of the Osprey agent and everything that reads or writes   *)
(* it at the same time:                                                    *)
(*                                                                         *)
(*   - the `run` process: its accept loop, one thread per session, the     *)
(*     live-session registry and the revocation watcher                    *)
(*     (commands/run.rs, session.rs, registry.rs, revoke.rs);              *)
(*   - the console processes `pair` and `unpair`, which open state.json,   *)
(*     work on their copy and write the whole file back                    *)
(*     (commands/pair.rs, commands/unpair.rs, state.rs).                   *)
(*                                                                         *)
(* A pin is a Noise static filed under an identity fingerprint.  A signed  *)
(* pair.revoke is a member of Revocations: its issuer, its issued_at and   *)
(* its nonce are what the code tells apart.  The audit log is output that  *)
(* no step reads back; module Pairing is about it.                         *)
(***************************************************************************)
EXTENDS Integers, FiniteSets

CONSTANTS
    Fingerprints,   \* identities a pin can be filed under
    Statics,        \* Noise statics a peer may pair with
    NoStatic,       \* "no pin": the fingerprint is not in the store
    Sessions,       \* session threads the accept loop may have in flight
    Consoles,       \* `pair` and `unpair` processes
    None,           \* the write lock is free; no revocation is being acted on
    Revocations,    \* signed pair.revoke messages, one nonce each
    Issuer,         \* the identity that signed a revocation
    IssuedAt,       \* its issued_at
    Window,         \* REVOKE_CLOCK_WINDOW
    MaxClock        \* bound on the host's clock

ASSUME PinAssumption ==
    /\ NoStatic \notin Statics
    /\ None \notin Sessions \cup Revocations
    /\ Fingerprints # {} /\ Statics # {}
    /\ Sessions \cap Consoles = {}
    /\ Issuer \in [Revocations -> Fingerprints]
    /\ IssuedAt \in [Revocations -> Nat]
    /\ Window \in Nat
    /\ MaxClock \in Nat

VARIABLES
    disk,       \* state.json: the pins and the consumed revocation nonces
    pc,         \* where each session thread stands
    pins,       \* the pin list a thread was handed when its socket was accepted
    conn,       \* the pin a thread's handshake matched
    live,       \* the registry: sessions with a SessionHandle
    shut,       \* sessions whose socket has been shut down under the thread
    msg,        \* the revocation a thread is acting on
    now,        \* the now_ms it was verified at
    lock,       \* RevocationHandler.write_lock
    snap,       \* the HostState a writer has in memory
    cpc,        \* what each console process is doing
    wpc,        \* the revocation watcher: between polls, or holding what it read
    wpins,      \* the fingerprints it read
    running,    \* the stop flag of `run`
    loop,       \* the accept loop: "accepting", "leaving" (it will see the
                \* flag next), "draining" or "failed" (joining its threads,
                \* after revoke_all or without it), "down"
    clock,      \* the host's clock
    \* History, read by no action's guard:
    gone,       \* fingerprints removed and not paired again since
    applied,    \* revocations that have removed a pin
    prunedAt,   \* the latest now_ms the nonce list was pruned at
    swept,      \* fingerprints a sweep of the registry found unpinned, and
                \* that have not been pinned again since
    raced       \* two processes overlapped their load ... save of state.json

procVars == <<pc, pins, conn, live, shut, msg, now, lock, wpc, wpins, running, loop>>
history  == <<gone, applied, prunedAt, swept, raced>>
vars     == <<disk, snap, cpc, clock, procVars, history>>

Pins   == [Fingerprints -> Statics \cup {NoStatic}]
Stores == [peers : Pins, consumed : SUBSET Revocations]
Conns  == [fp : Fingerprints, st : Statics]

NoPins  == [f \in Fingerprints |-> NoStatic]
NoStore == [peers |-> NoPins, consumed |-> {}]
\* What conn holds while a thread has no peer; no action looks at it.
NoConn  == CHOOSE c \in Conns : TRUE

\* Every step of a session thread, in the order of serve_one and handle_revoke.
Steps == {"idle", "handshake", "register", "recheck", "serving", "verified",
          "loaded", "consumed", "removed", "closing", "unwind"}

Pinned(f) == disk.peers[f] # NoStatic

\* Threads past the re-check: the session is established.
Admitted  == {"serving", "verified", "loaded", "consumed", "removed", "closing"}
\* Threads that hold the write lock.
Locked    == {"loaded", "consumed", "removed"}
\* Threads whose copy of state.json is still to be written.
Loaded(s) == pc[s] \in {"loaded", "consumed"}
Open(c)   == cpc[c] # "idle"

----------------------------------------------------------------------------
(* The run process: accept loop, session threads.                          *)

\* The socket arrives and the pin list is read from disk; a thread is spawned
\* with that list.  An unreadable store refuses the connection: no step.  The
\* flag may have been cleared while the loop was waiting for this socket, but
\* then it is the last one.
Accept(s) ==
    /\ loop = "accepting"
    /\ pc[s] = "idle"
    /\ pc' = [pc EXCEPT ![s] = "handshake"]
    /\ pins' = [pins EXCEPT ![s] = disk.peers]
    /\ loop' = IF running THEN loop ELSE "leaving"
    /\ UNCHANGED <<disk, snap, cpc, clock, conn, live, shut, msg, now, lock, wpc,
                   wpins, running, history>>

\* channel::accept: the handshake yields a static, and the list must hold it.
Handshake(s, f) ==
    /\ pc[s] = "handshake"
    /\ pins[s][f] # NoStatic
    /\ pc' = [pc EXCEPT ![s] = "register"]
    /\ conn' = [conn EXCEPT ![s] = [fp |-> f, st |-> pins[s][f]]]
    /\ pins' = [pins EXCEPT ![s] = NoPins]
    /\ UNCHANGED <<disk, snap, cpc, clock, live, shut, msg, now, lock, wpc, wpins,
                   running, loop, history>>

\* An unpinned static, a read timeout or a socket that cannot be duplicated:
\* the thread ends before it was registered.
Refuse(s) ==
    /\ pc[s] \in {"handshake", "register"}
    /\ pc' = [pc EXCEPT ![s] = "idle"]
    /\ pins' = [pins EXCEPT ![s] = NoPins]
    /\ conn' = [conn EXCEPT ![s] = NoConn]
    /\ UNCHANGED <<disk, snap, cpc, clock, live, shut, msg, now, lock, wpc,
                   wpins, running, loop, history>>

\* Mutant: the SessionHandle is dropped at once, as with `let _ = register(..)`.
RegisterDropsHandle(s) ==
    /\ pc[s] = "register"
    /\ pc' = [pc EXCEPT ![s] = "recheck"]
    /\ UNCHANGED <<disk, snap, cpc, clock, pins, conn, live, shut, msg, now, lock,
                   wpc, wpins, running, loop, history>>

\* The socket is put in the registry before the pin is looked at again.
Register(s) ==
    /\ pc[s] = "register"
    /\ pc' = [pc EXCEPT ![s] = "recheck"]
    /\ live' = live \cup {s}
    /\ UNCHANGED <<disk, snap, cpc, clock, pins, conn, shut, msg, now, lock, wpc,
                   wpins, running, loop, history>>

\* Mutant: the entry is removed where serve_one ends well, not by the handle's
\* drop: a session the re-check turns away leaves its entry behind.
RecheckLeaksEntry(s) ==
    LET still == disk.peers[conn[s].fp] = conn[s].st
    IN  /\ pc[s] = "recheck"
        /\ pc' = [pc EXCEPT ![s] = IF still THEN "serving" ELSE "idle"]
        /\ conn' = [conn EXCEPT ![s] = IF still THEN @ ELSE NoConn]
        /\ UNCHANGED <<disk, snap, cpc, clock, pins, live, shut, msg, now, lock,
                       wpc, wpins, running, loop, history>>

\* The pin store is read again: the exact pin must still be there.
Recheck(s) ==
    /\ pc[s] = "recheck"
    /\ pc' = [pc EXCEPT ![s] = IF disk.peers[conn[s].fp] = conn[s].st
                               THEN "serving" ELSE "unwind"]
    /\ UNCHANGED <<disk, snap, cpc, clock, pins, conn, live, shut, msg, now, lock,
                   wpc, wpins, running, loop, history>>

\* The peer says bye, closes, breaks the protocol or goes idle for
\* SESSION_IDLE_TIMEOUT, or the store cannot be re-read.  Everything a session
\* does that neither ends it nor touches the store is no step here.
SessionEnds(s) ==
    /\ pc[s] \in {"recheck", "serving"}
    /\ pc' = [pc EXCEPT ![s] = "unwind"]
    /\ UNCHANGED <<disk, snap, cpc, clock, pins, conn, live, shut, msg, now, lock,
                   wpc, wpins, running, loop, history>>

\* The socket was shut down under the thread: its next read or write fails.
NoticeShut(s) ==
    /\ pc[s] = "serving"
    /\ s \in shut
    /\ pc' = [pc EXCEPT ![s] = "unwind"]
    /\ UNCHANGED <<disk, snap, cpc, clock, pins, conn, live, shut, msg, now, lock,
                   wpc, wpins, running, loop, history>>

\* The SessionHandle and the stream are dropped; the thread is gone.
Unwind(s) ==
    /\ pc[s] = "unwind"
    /\ pc' = [pc EXCEPT ![s] = "idle"]
    /\ live' = live \ {s}
    /\ shut' = shut \ {s}
    /\ conn' = [conn EXCEPT ![s] = NoConn]
    /\ UNCHANGED <<disk, snap, cpc, clock, pins, msg, now, lock, wpc, wpins,
                   running, loop, history>>

----------------------------------------------------------------------------
(* pair.revoke, in a session thread.                                       *)

\* verify_revocation: signed by the identity of the session's pin, and issued
\* within the window either side of the receiver's clock.
Verifies(m, f, t) ==
    /\ Issuer[m] = f
    /\ t - IssuedAt[m] <= Window
    /\ IssuedAt[m] - t <= Window

\* The message is read and verified at the clock of this moment; the write lock
\* comes later.  A message that does not verify is answered with an error and
\* the session goes on: no step.
ReceiveRevoke(s, m) ==
    /\ pc[s] = "serving"
    /\ s \notin shut
    /\ Verifies(m, conn[s].fp, clock)
    /\ pc' = [pc EXCEPT ![s] = "verified"]
    /\ msg' = [msg EXCEPT ![s] = m]
    /\ now' = [now EXCEPT ![s] = clock]
    /\ UNCHANGED <<disk, snap, cpc, clock, pins, conn, live, shut, lock, wpc, wpins,
                   running, loop, history>>

\* Mutant: the read-modify-write is not serialised.
LoadUnlocked(s) ==
    /\ pc[s] = "verified"
    /\ pc' = [pc EXCEPT ![s] = "loaded"]
    /\ lock' = s
    /\ snap' = [snap EXCEPT ![s] = disk]
    /\ UNCHANGED <<disk, cpc, clock, pins, conn, live, shut, msg, now, wpc, wpins,
                   running, loop, history>>

\* The lock is taken and state.json loaded.
LoadLocked(s) ==
    /\ pc[s] = "verified"
    /\ lock = None
    /\ pc' = [pc EXCEPT ![s] = "loaded"]
    /\ lock' = s
    /\ snap' = [snap EXCEPT ![s] = disk]
    /\ UNCHANGED <<disk, cpc, clock, pins, conn, live, shut, msg, now, wpc, wpins,
                   running, loop, history>>

\* Mutant: the error path keeps the guard.
GiveUpKeepsLock(s) ==
    /\ pc' = [pc EXCEPT ![s] = "serving"]
    /\ snap' = [snap EXCEPT ![s] = NoStore]
    /\ msg' = [msg EXCEPT ![s] = None]
    /\ now' = [now EXCEPT ![s] = 0]
    /\ UNCHANGED <<disk, cpc, clock, pins, conn, live, shut, lock, wpc, wpins,
                   running, loop, history>>

\* The lock is released and the peer told; the session goes on serving.
GiveUp(s) ==
    /\ pc' = [pc EXCEPT ![s] = "serving"]
    /\ lock' = None
    /\ snap' = [snap EXCEPT ![s] = NoStore]
    /\ msg' = [msg EXCEPT ![s] = None]
    /\ now' = [now EXCEPT ![s] = 0]
    /\ UNCHANGED <<disk, cpc, clock, pins, conn, live, shut, wpc, wpins, running,
                   loop, history>>

\* The store cannot be loaded or written: NotApplied, under the lock.
NotApplied(s) ==
    /\ \/ pc[s] = "verified" /\ lock = None
       \/ pc[s] = "loaded" /\ msg[s] \notin snap[s].consumed
       \/ pc[s] = "consumed"
    /\ GiveUp(s)

\* The nonce was consumed before: ReplayedNonce.
RefuseReplay(s) ==
    /\ pc[s] = "loaded"
    /\ msg[s] \in snap[s].consumed
    /\ GiveUp(s)

\* Mutant: a nonce is dropped in the last instant its message is still fresh.
RetainedShort(consumed, t) == {m \in consumed : t - IssuedAt[m] < Window}

\* The nonces a pruning at time t keeps.
Retained(consumed, t) == {m \in consumed : t - IssuedAt[m] <= Window}

\* What the history keeps of a write: a fingerprint it pins is swept no more,
\* and a write while another process holds a copy is a race.
SweptBySave == swept' = {f \in swept : disk'.peers[f] = NoStatic}
SessionSaves ==
    /\ SweptBySave
    /\ raced' = (raced \/ \E c \in Consoles : Open(c))

\* Mutant: the nonce is saved and the lock released before the pin is removed.
ConsumeNonceUnlocks(s) ==
    LET st == [snap[s] EXCEPT !.consumed = Retained(@, now[s]) \cup {msg[s]}]
    IN  /\ pc[s] = "loaded"
        /\ msg[s] \notin snap[s].consumed
        /\ pc' = [pc EXCEPT ![s] = "consumed"]
        /\ snap' = [snap EXCEPT ![s] = st]
        /\ disk' = st
        /\ lock' = None
        /\ prunedAt' = IF now[s] > prunedAt THEN now[s] ELSE prunedAt
        /\ SessionSaves
        /\ UNCHANGED <<cpc, clock, pins, conn, live, shut, msg, now, wpc,
                       wpins, running, loop, gone, applied>>

\* consume_revocation_nonce: entries no longer fresh are pruned, the nonce is
\* added and the file saved, all before the pin is touched.
ConsumeNonce(s) ==
    LET st == [snap[s] EXCEPT !.consumed = Retained(@, now[s]) \cup {msg[s]}]
    IN  /\ pc[s] = "loaded"
        /\ msg[s] \notin snap[s].consumed
        /\ pc' = [pc EXCEPT ![s] = "consumed"]
        /\ snap' = [snap EXCEPT ![s] = st]
        /\ disk' = st
        /\ prunedAt' = IF now[s] > prunedAt THEN now[s] ELSE prunedAt
        /\ SessionSaves
        /\ UNCHANGED <<cpc, clock, pins, conn, live, shut, msg, now, lock, wpc,
                       wpins, running, loop, gone, applied>>

\* remove_peers by the whole fingerprint, saved even if nothing matched.
RemovePin(s) ==
    /\ pc[s] = "consumed"
    /\ pc' = [pc EXCEPT ![s] = "removed"]
    /\ disk' = [snap[s] EXCEPT !.peers[conn[s].fp] = NoStatic]
    /\ snap' = [snap EXCEPT ![s] = NoStore]
    /\ gone' = gone \cup {conn[s].fp}
    /\ applied' = applied \cup {msg[s]}
    /\ SessionSaves
    /\ UNCHANGED <<cpc, clock, pins, conn, live, shut, msg, now, lock, wpc, wpins,
                   running, loop, prunedAt>>

\* record_unpair, whose failure is only reported, then the lock is dropped.
AuditAndUnlock(s) ==
    /\ pc[s] = "removed"
    /\ pc' = [pc EXCEPT ![s] = "closing"]
    /\ lock' = None
    /\ msg' = [msg EXCEPT ![s] = None]
    /\ now' = [now EXCEPT ![s] = 0]
    /\ UNCHANGED <<disk, snap, cpc, clock, pins, conn, live, shut, wpc, wpins,
                   running, loop, history>>

\* The registered sessions with this identity.
SessionsOf(f) == {s \in live : conn[s].fp = f}

\* Mutant: only the session that carried the revocation is closed.
CloseOwnSession(s) ==
    /\ pc[s] = "closing"
    /\ pc' = [pc EXCEPT ![s] = "unwind"]
    /\ shut' = shut \cup {s}
    /\ swept' = swept \cup {f \in {conn[s].fp} : ~ Pinned(f)}
    /\ UNCHANGED <<disk, snap, cpc, clock, pins, conn, live, msg, now, lock, wpc,
                   wpins, running, loop, gone, applied, prunedAt, raced>>

\* The courtesy bye, then revoke_identity: every session of the peer is shut.
ClosePeerSessions(s) ==
    /\ pc[s] = "closing"
    /\ pc' = [pc EXCEPT ![s] = "unwind"]
    /\ shut' = shut \cup SessionsOf(conn[s].fp)
    /\ swept' = swept \cup {f \in {conn[s].fp} : ~ Pinned(f)}
    /\ UNCHANGED <<disk, snap, cpc, clock, pins, conn, live, msg, now, lock, wpc,
                   wpins, running, loop, gone, applied, prunedAt, raced>>

----------------------------------------------------------------------------
(* The revocation watcher.                                                 *)

\* An unreadable store is reported and nothing is closed: no step.
WatcherRead ==
    /\ running
    /\ wpc = "poll"
    /\ wpc' = "read"
    /\ wpins' = {f \in Fingerprints : Pinned(f)}
    /\ UNCHANGED <<disk, snap, cpc, clock, pc, pins, conn, live, shut, msg, now,
                   lock, running, loop, history>>

\* retain_pinned: matched by fingerprint.
WatcherRetain ==
    /\ wpc = "read"
    /\ wpc' = "poll"
    /\ wpins' = {}
    /\ shut' = shut \cup {s \in live : conn[s].fp \notin wpins}
    /\ swept' = swept \cup {f \in Fingerprints \ wpins : ~ Pinned(f)}
    /\ UNCHANGED <<disk, snap, cpc, clock, pc, pins, conn, live, msg, now, lock,
                   running, loop, gone, applied, prunedAt, raced>>

----------------------------------------------------------------------------
(* Stopping, failing, crashing and restarting `run`.                       *)

Stop ==
    /\ running
    /\ running' = FALSE
    /\ UNCHANGED <<disk, snap, cpc, clock, pc, pins, conn, live, shut, msg, now,
                   lock, wpc, wpins, loop, history>>

\* The accept loop sees the flag and revokes every registered session, then
\* waits in the scope for the threads.
RevokeAll ==
    /\ loop \in {"accepting", "leaving"}
    /\ ~ running
    /\ loop' = "draining"
    /\ shut' = shut \cup live
    /\ UNCHANGED <<disk, snap, cpc, clock, pc, pins, conn, live, msg, now, lock,
                   wpc, wpins, running, history>>

\* accept_timeout fails: the loop is left through `?`, past revoke_all.
AcceptFails ==
    /\ loop = "accepting"
    /\ loop' = "failed"
    /\ UNCHANGED <<disk, snap, cpc, clock, pc, pins, conn, live, shut, msg, now,
                   lock, wpc, wpins, running, history>>

\* The scope has joined every thread; the watcher is told and joined, its last
\* pass over an empty registry closing nothing.
Joined ==
    /\ loop \in {"draining", "failed"}
    /\ \A s \in Sessions : pc[s] = "idle"
    /\ loop' = "down"
    /\ running' = FALSE
    /\ wpc' = "poll"
    /\ wpins' = {}
    /\ UNCHANGED <<disk, snap, cpc, clock, pc, pins, conn, live, shut, msg, now,
                   lock, history>>

\* The process dies between any two steps; only the file survives.
Crash ==
    /\ loop # "down"
    /\ pc' = [s \in Sessions |-> "idle"]
    /\ pins' = [s \in Sessions |-> NoPins]
    /\ live' = {}
    /\ shut' = {}
    /\ msg' = [s \in Sessions |-> None]
    /\ now' = [s \in Sessions |-> 0]
    /\ lock' = None
    /\ snap' = [w \in Sessions \cup Consoles |->
                    IF w \in Sessions THEN NoStore ELSE snap[w]]
    /\ wpc' = "poll"
    /\ wpins' = {}
    /\ running' = FALSE
    /\ loop' = "down"
    /\ conn' = [s \in Sessions |-> NoConn]
    /\ UNCHANGED <<disk, cpc, clock, history>>

Start ==
    /\ loop = "down"
    /\ loop' = "accepting"
    /\ running' = TRUE
    /\ UNCHANGED <<disk, snap, cpc, clock, pc, pins, conn, live, shut, msg, now,
                   lock, wpc, wpins, history>>

----------------------------------------------------------------------------
(* Console processes.                                                      *)

\* Host::open: the file is loaded once, before anything else happens.
OpenHost(c, cmd) ==
    /\ cpc[c] = "idle"
    /\ cpc' = [cpc EXCEPT ![c] = cmd]
    /\ snap' = [snap EXCEPT ![c] = disk]
    /\ UNCHANGED <<disk, clock, procVars, history>>

ConsoleSaves(c) ==
    /\ SweptBySave
    /\ raced' = (raced \/ (\E s \in Sessions : Loaded(s))
                       \/ (\E d \in Consoles \ {c} : Open(d)))

\* ensure_enrolled: set_relay writes the file back with the enrolment in it.
EnrolSave(c) ==
    /\ cpc[c] = "pair"
    /\ cpc' = [cpc EXCEPT ![c] = "offer"]
    /\ disk' = snap[c]
    /\ ConsoleSaves(c)
    /\ UNCHANGED <<snap, clock, procVars, gone, applied, prunedAt>>

\* add_peer: any older pin of the identity is replaced; the file is written.
AddPeer(c, f, st) ==
    /\ cpc[c] \in {"pair", "offer"}
    /\ cpc' = [cpc EXCEPT ![c] = "idle"]
    /\ disk' = [snap[c] EXCEPT !.peers[f] = st]
    /\ snap' = [snap EXCEPT ![c] = NoStore]
    /\ gone' = gone \ {f}
    /\ ConsoleSaves(c)
    /\ UNCHANGED <<clock, procVars, applied, prunedAt>>

\* What a PeerSelector can match: one pinned identity, by its device id or the
\* prefix of its fingerprint, all of them, or none.
Selections == {{f} : f \in Fingerprints} \cup {{}, Fingerprints}

\* remove_peers by a selector that matches F; the file is written in each case.
RemovePeers(c, F) ==
    /\ cpc[c] = "unpair"
    /\ cpc' = [cpc EXCEPT ![c] = "idle"]
    /\ disk' = [snap[c] EXCEPT !.peers =
                    [f \in Fingerprints |-> IF f \in F THEN NoStatic ELSE @[f]]]
    /\ snap' = [snap EXCEPT ![c] = NoStore]
    /\ gone' = gone \cup F
    /\ ConsoleSaves(c)
    /\ UNCHANGED <<clock, procVars, applied, prunedAt>>

\* No phone came, a call failed, or the operator closed the window.
ConsoleQuits(c) ==
    /\ Open(c)
    /\ cpc' = [cpc EXCEPT ![c] = "idle"]
    /\ snap' = [snap EXCEPT ![c] = NoStore]
    /\ UNCHANGED <<disk, clock, procVars, history>>

\* now_ms reads the system's clock, which time passing moves forward and a
\* correction may move either way.
Tick(t) ==
    /\ clock # t
    /\ clock' = t
    /\ UNCHANGED <<disk, snap, cpc, procVars, history>>

----------------------------------------------------------------------------
Init ==
    /\ disk \in [peers : Pins, consumed : {{}}]
    /\ pc = [s \in Sessions |-> "idle"]
    /\ pins = [s \in Sessions |-> NoPins]
    /\ conn = [s \in Sessions |-> NoConn]
    /\ live = {}
    /\ shut = {}
    /\ msg = [s \in Sessions |-> None]
    /\ now = [s \in Sessions |-> 0]
    /\ lock = None
    /\ snap = [w \in Sessions \cup Consoles |-> NoStore]
    /\ cpc = [c \in Consoles |-> "idle"]
    /\ wpc = "poll"
    /\ wpins = {}
    /\ running = FALSE
    /\ loop = "down"
    /\ clock = 0
    /\ gone = {}
    /\ applied = {}
    /\ prunedAt = 0
    /\ swept = {}
    /\ raced = FALSE

SessionStep(s) ==
    \/ Accept(s)
    \/ \E f \in Fingerprints : Handshake(s, f)
    \/ Refuse(s)
    \/ Register(s)
    \/ Recheck(s)
    \/ SessionEnds(s)
    \/ NoticeShut(s)
    \/ Unwind(s)
    \/ \E m \in Revocations : ReceiveRevoke(s, m)
    \/ LoadLocked(s)
    \/ NotApplied(s)
    \/ RefuseReplay(s)
    \/ ConsumeNonce(s)
    \/ RemovePin(s)
    \/ AuditAndUnlock(s)
    \/ ClosePeerSessions(s)

ProcessStep == WatcherRead \/ WatcherRetain \/ Stop \/ RevokeAll \/ AcceptFails
               \/ Joined \/ Crash \/ Start

ConsoleStep(c) ==
    \/ \E cmd \in {"pair", "unpair"} : OpenHost(c, cmd)
    \/ EnrolSave(c)
    \/ \E f \in Fingerprints, st \in Statics : AddPeer(c, f, st)
    \/ \E F \in Selections : RemovePeers(c, F)
    \/ ConsoleQuits(c)

Next ==
    \/ \E s \in Sessions : SessionStep(s)
    \/ ProcessStep
    \/ \E c \in Consoles : ConsoleStep(c)
    \/ \E t \in 0 .. MaxClock : Tick(t)

Spec == Init /\ [][Next]_vars

\* What a thread does without waiting for its peer.  A handshake that the peer
\* leaves hanging ends in the read timeout; a thread that is serving may go on
\* serving for as long as its peer talks.
ThreadRuns(s) ==
    \/ \E f \in Fingerprints : Handshake(s, f)
    \/ Refuse(s)
    \/ Register(s)
    \/ Recheck(s)
    \/ NoticeShut(s)
    \/ Unwind(s)
    \/ RefuseReplay(s)
    \/ ConsumeNonce(s)
    \/ RemovePin(s)
    \/ AuditAndUnlock(s)
    \/ ClosePeerSessions(s)

\* The scheduler runs every thread, the mutex starves nobody, and the watcher's
\* reads do not fail for ever.
Fairness ==
    /\ \A s \in Sessions : /\ WF_vars(ThreadRuns(s))
                           /\ SF_vars(LoadLocked(s))
    /\ WF_vars(WatcherRead)
    /\ WF_vars(WatcherRetain)
    /\ WF_vars(RevokeAll)
    /\ WF_vars(Joined)

FairSpec == Spec /\ Fairness

----------------------------------------------------------------------------
(* Properties.                                                             *)

\* Every variable has its type; and the registry has an entry for exactly the
\* threads between their registration and the drop of their SessionHandle,
\* whichever way the session ends (registry.rs, register and Drop): an entry left
\* behind would be shut down, and counted as closed, long after its peer is gone.
TypeOK ==
    /\ disk \in Stores
    /\ snap \in [Sessions \cup Consoles -> Stores]
    /\ pc \in [Sessions -> Steps]
    /\ pins \in [Sessions -> Pins]
    /\ conn \in [Sessions -> Conns]
    /\ live = {s \in Sessions : pc[s] \in Admitted \cup {"recheck", "unwind"}}
    /\ shut \subseteq live
    /\ msg \in [Sessions -> Revocations \cup {None}]
    /\ now \in [Sessions -> 0 .. MaxClock]
    /\ lock \in Sessions \cup {None}
    /\ cpc \in [Consoles -> {"idle", "pair", "offer", "unpair"}]
    /\ wpc \in {"poll", "read"}
    /\ wpins \subseteq Fingerprints
    /\ running \in BOOLEAN
    /\ loop \in {"accepting", "leaving", "draining", "failed", "down"}
    /\ clock \in 0 .. MaxClock
    /\ gone \subseteq Fingerprints
    /\ applied \subseteq Revocations
    /\ prunedAt \in 0 .. MaxClock
    /\ swept \subseteq Fingerprints
    /\ raced \in BOOLEAN

\* Once the watcher has completed one pass over the registry that found a
\* fingerprint unpinned, or a pair.revoke has closed its sessions, no session
\* with that identity is established and still open, however its handshake,
\* registration and re-check fell around the removal, until it is paired again:
\* "registering first means ... no interval in which a revoked peer is both
\* admitted and invisible" (run.rs, serve_one).
SweptSessionsAreShut ==
    \A s \in Sessions : pc[s] \in Admitted /\ conn[s].fp \in swept => s \in shut

\* The write lock is held by exactly the thread that is between its load of
\* state.json and the end of its answer: at most one thread is, and no way out of
\* the locked region, a replay or a failure to load or to save, leaves the lock
\* behind for the others to wait on (revoke.rs, apply and remove_pin).
LockHeldByWriter == \A s \in Sessions : pc[s] \in Locked <=> lock = s

\* While no two processes overlap, whoever is about to write state.json back
\* holds the file as it is on disk: the write lock keeps the session threads
\* from overwriting each other (revoke.rs, write_lock), and nothing is lost
\* between a console's load and its save.
SnapshotsCurrent ==
    ~ raced => /\ \A s \in Sessions : Loaded(s) => snap[s] = disk
               /\ \A c \in Consoles : Open(c) => snap[c] = disk

\* While no two processes overlap, a pin that a revocation or an `unpair` has
\* removed does not come back by any later write of the file but the add_peer
\* of a new pairing of that identity (state.rs, remove_peers).
RevokedStaysGone == ~ raced => \A f \in gone : ~ Pinned(f)

\* While no two processes overlap, a revocation that has once removed a pin is
\* found in the nonce list by any thread that verified it no earlier than the
\* list's last pruning, re-pairing, pruning, crashes and restarts in between
\* (state.rs, consume_revocation_nonce).
ReplayRefused ==
    ~ raced => \A s \in Sessions :
        pc[s] = "loaded" /\ msg[s] \in applied /\ now[s] >= prunedAt
            => msg[s] \in snap[s].consumed

\* If an identity is from some point on unpinned, and `run` is up, then from
\* some point on it has no established session, whatever the peer does to keep
\* its sessions busy (registry.rs, spawn_revocation_watcher).
UnpairedSessionsEnd ==
    \A f \in Fingerprints :
        <>[](running /\ ~ Pinned(f))
            => <>[](\A s \in Sessions : pc[s] \in Admitted => conn[s].fp # f)

\* A pair.revoke that verified is acted on or refused: no thread waits for the
\* write lock for ever (revoke.rs, apply).
RevokeAnswered ==
    \A s \in Sessions : pc[s] = "verified" ~> pc[s] \in {"idle", "serving", "unwind"}

----------------------------------------------------------------------------
(* What comments in the source say and the code does not do.               *)

\* "the caller uses a successful return as 'the pin is gone'" (state.rs,
\* remove_peers): a removed pin stays removed until the identity is paired again,
\* also when a `pair` console had loaded the file before.
UnpairIsFinal == \A f \in gone : ~ Pinned(f)

\* "once `now` has passed `issued_at + window` no replay of that nonce can
\* satisfy freshness again" (state.rs, consume_revocation_nonce): no revocation
\* removes a pin twice, even with no other process writing the file.
RevocationAppliesOnce ==
    ~ raced => \A s \in Sessions : pc[s] = "consumed" => msg[s] \notin applied

\* "Revoking after the scope would make shutdown take up to
\* SESSION_IDLE_TIMEOUT" (run.rs, execute): with every session revoked before
\* the join, `run` ends without waiting for what its peers do.
ShutdownCompletes == loop = "draining" ~> loop = "down"
=============================================================================
