--------------------------- MODULE AgentPinsProofs ---------------------------
(***************************************************************************)
(* Proofs about AgentPins, for any number of fingerprints, statics, session *)
(* threads, consoles and revocations, any window and any clock.            *)
(*                                                                         *)
(* None of the invariants TLC checks is inductive by itself.  What makes   *)
(* them so is stated in the first section; IInv is their conjunction, and  *)
(* each part is shown to be preserved from the parts before it.            *)
(***************************************************************************)
EXTENDS AgentPins, TLAPS

\* From its verification to the release of the lock a thread has a revocation
\* that was fresh at its now_ms.
MsgFresh ==
    \A s \in Sessions :
        pc[s] \in {"verified", "loaded", "consumed", "removed"}
            => msg[s] \in Revocations /\ now[s] - IssuedAt[msg[s]] <= Window

TypeInv == TypeOK /\ MsgFresh

\* A fingerprint stays swept only while it is unpinned.
SweptUnpinned == \A f \in swept : ~ Pinned(f)

\* A thread about to remove a pin has its nonce in the copy it will write.
NonceFirst ==
    \A s \in Sessions : pc[s] = "consumed" => msg[s] \in snap[s].consumed

\* A revocation that has removed a pin is on the list unless the list was pruned
\* at a time at which it was no longer fresh.
AppliedRecorded ==
    ~ raced => \A m \in applied :
        m \in disk.consumed \/ prunedAt - IssuedAt[m] > Window

SweepInv == SweptUnpinned /\ SweptSessionsAreShut
StoreInv == SnapshotsCurrent /\ RevokedStaysGone
NonceInv == NonceFirst /\ AppliedRecorded

IInv == TypeInv /\ LockHeldByWriter /\ SweepInv /\ StoreInv /\ NonceInv

----------------------------------------------------------------------------
(* Types.                                                                  *)

\* Conns is not empty, so the CHOOSE of NoConn has something to choose.
LEMMA NoConnType == NoConn \in Conns
<1>1. PICK f \in Fingerprints, st \in Statics : TRUE
  BY PinAssumption
<1>2. [fp |-> f, st |-> st] \in Conns
  BY DEF Conns
<1>3. \E c \in Conns : TRUE
  BY <1>2
<1> QED
  BY <1>3 DEF NoConn

\* The empty pin list and the empty store are a pin list and a store.
LEMMA EmptyType == NoPins \in Pins /\ NoStore \in Stores
  BY DEF NoStore, NoPins, Stores, Pins

\* A fresh install, or any set of pins, is well typed.
LEMMA TypeInit == Init => TypeInv
<1> SUFFICES ASSUME Init PROVE TypeInv
  OBVIOUS
<1>1. disk \in Stores
  BY DEF Init, Stores
<1>2. running \in BOOLEAN /\ raced \in BOOLEAN
  BY Zenon DEF Init
<1>3. TypeOK
  BY <1>1, <1>2, PinAssumption, EmptyType, NoConnType DEF Init, TypeOK, Steps, Admitted
<1>4. MsgFresh
  BY PinAssumption DEF Init, MsgFresh
<1> QED
  BY <1>3, <1>4 DEF TypeInv

\* A step of a session thread keeps the types.
LEMMA TypeSession ==
    ASSUME TypeInv, NEW s \in Sessions, SessionStep(s)
    PROVE  TypeInv'
<1> USE DEF TypeInv, TypeOK, MsgFresh, Admitted, history
<1>1. CASE Accept(s)
  BY <1>1 DEF Accept, Stores, Steps
<1>2. ASSUME NEW f \in Fingerprints, Handshake(s, f) PROVE TypeInv'
  BY <1>2, EmptyType DEF Handshake, Pins, Conns, Steps
<1>3. CASE Refuse(s)
  BY <1>3, EmptyType, NoConnType DEF Refuse, Steps
<1>4. CASE Register(s)
  BY <1>4 DEF Register, Steps
<1>5. CASE Recheck(s)
  BY <1>5 DEF Recheck, Steps
<1>6. CASE SessionEnds(s)
  BY <1>6 DEF SessionEnds, Steps
<1>7. CASE NoticeShut(s)
  BY <1>7 DEF NoticeShut, Steps
<1>8. CASE Unwind(s)
  BY <1>8, NoConnType DEF Unwind, Steps
<1>9. ASSUME NEW m \in Revocations, ReceiveRevoke(s, m) PROVE TypeInv'
  BY <1>9, PinAssumption DEF ReceiveRevoke, Verifies, Steps
<1>10. CASE LoadLocked(s)
  BY <1>10 DEF LoadLocked, Steps
<1>11. ASSUME GiveUp(s), pc[s] \in Admitted PROVE TypeInv'
  BY <1>11, PinAssumption, EmptyType DEF GiveUp, Steps
<1>12. CASE ConsumeNonce(s)
  <2>1. raced' \in BOOLEAN
    BY <1>12, Zenon DEF ConsumeNonce, SessionSaves
  <2>2. disk' \in Stores /\ snap' \in [Sessions \cup Consoles -> Stores]
    BY <1>12 DEF ConsumeNonce, Stores, Retained
  <2>3. prunedAt' \in 0 .. MaxClock /\ swept' \subseteq Fingerprints
    BY <1>12, PinAssumption DEF ConsumeNonce, SessionSaves, SweptBySave
  <2>4. TypeOK'
    BY <1>12, <2>1, <2>2, <2>3 DEF ConsumeNonce, Steps
  <2>5. MsgFresh'
    BY <1>12 DEF ConsumeNonce, Steps
  <2> QED
    BY <2>4, <2>5
<1>13. CASE RemovePin(s)
  <2>1. raced' \in BOOLEAN
    BY <1>13, Zenon DEF RemovePin, SessionSaves
  <2>2. disk' \in Stores /\ snap' \in [Sessions \cup Consoles -> Stores]
    BY <1>13, EmptyType DEF RemovePin, Stores, Pins
  <2>3. gone' \subseteq Fingerprints /\ applied' \subseteq Revocations
    BY <1>13 DEF RemovePin, Conns
  <2>4. TypeOK'
    BY <1>13, <2>1, <2>2, <2>3 DEF RemovePin, SessionSaves, SweptBySave, Steps
  <2>5. MsgFresh'
    BY <1>13 DEF RemovePin, Steps
  <2> QED
    BY <2>4, <2>5
<1>14. CASE AuditAndUnlock(s)
  BY <1>14, PinAssumption DEF AuditAndUnlock, Steps
<1>15. CASE ClosePeerSessions(s)
  BY <1>15 DEF ClosePeerSessions, SessionsOf, Conns, Steps
<1> QED
  BY <1>1, <1>2, <1>3, <1>4, <1>5, <1>6, <1>7, <1>8, <1>9, <1>10, <1>11, <1>12,
     <1>13, <1>14, <1>15
  DEF SessionStep, NotApplied, RefuseReplay

\* A step of the watcher, or of the process as a whole, keeps the types.
LEMMA TypeProcess == ASSUME TypeInv, ProcessStep PROVE TypeInv'
<1> USE DEF TypeInv, TypeOK, MsgFresh, Admitted, history
<1>1. CASE WatcherRead
  BY <1>1 DEF WatcherRead
<1>2. CASE WatcherRetain
  BY <1>2 DEF WatcherRetain
<1>3. CASE Stop
  <2>1. running' \in BOOLEAN /\ raced' \in BOOLEAN
    BY <1>3, Zenon DEF Stop
  <2> QED
    BY <1>3, <2>1 DEF Stop
<1>4. CASE RevokeAll
  BY <1>4 DEF RevokeAll
<1>5. CASE AcceptFails
  BY <1>5 DEF AcceptFails
<1>6. CASE Joined
  <2>1. running' \in BOOLEAN /\ raced' \in BOOLEAN
    BY <1>6, Zenon DEF Joined
  <2> QED
    BY <1>6, <2>1 DEF Joined
<1>7. CASE Crash
  <2>1. running' \in BOOLEAN /\ raced' \in BOOLEAN
    BY <1>7, Zenon DEF Crash
  <2>2. snap' \in [Sessions \cup Consoles -> Stores]
    BY <1>7, EmptyType DEF Crash
  <2>3. /\ pc' \in [Sessions -> Steps]
        /\ pins' \in [Sessions -> Pins]
        /\ conn' \in [Sessions -> Conns]
        /\ msg' \in [Sessions -> Revocations \cup {None}]
        /\ now' \in [Sessions -> 0 .. MaxClock]
    BY <1>7, EmptyType, NoConnType, PinAssumption DEF Crash, Steps
  <2>4. TypeOK'
    BY <1>7, <2>1, <2>2, <2>3 DEF Crash
  <2>5. MsgFresh'
    BY <1>7, PinAssumption DEF Crash
  <2> QED
    BY <2>4, <2>5
<1>8. CASE Start
  <2>1. running' \in BOOLEAN /\ raced' \in BOOLEAN
    BY <1>8, Zenon DEF Start
  <2> QED
    BY <1>8, <2>1 DEF Start
<1> QED
  BY <1>1, <1>2, <1>3, <1>4, <1>5, <1>6, <1>7, <1>8 DEF ProcessStep

\* A step of a console process keeps the types.
LEMMA TypeConsole ==
    ASSUME TypeInv, NEW c \in Consoles, ConsoleStep(c)
    PROVE  TypeInv'
<1> USE EmptyType DEF TypeInv, TypeOK, MsgFresh, Admitted, procVars, history
<1>1. ASSUME NEW cmd \in {"pair", "unpair"}, OpenHost(c, cmd) PROVE TypeInv'
  BY <1>1 DEF OpenHost
<1>2. CASE EnrolSave(c)
  <2>1. raced' \in BOOLEAN
    BY <1>2, Zenon DEF EnrolSave, ConsoleSaves
  <2> QED
    BY <1>2, <2>1 DEF EnrolSave, ConsoleSaves, SweptBySave
<1>3. ASSUME NEW f \in Fingerprints, NEW st \in Statics, AddPeer(c, f, st)
      PROVE  TypeInv'
  <2>1. raced' \in BOOLEAN
    BY <1>3, Zenon DEF AddPeer, ConsoleSaves
  <2>2. disk' \in Stores
    BY <1>3 DEF AddPeer, Stores, Pins
  <2> QED
    BY <1>3, <2>1, <2>2 DEF AddPeer, ConsoleSaves, SweptBySave
<1>4. ASSUME NEW F \in SUBSET Fingerprints, RemovePeers(c, F) PROVE TypeInv'
  <2>1. raced' \in BOOLEAN
    BY <1>4, Zenon DEF RemovePeers, ConsoleSaves
  <2>2. disk' \in Stores
    <3>1. snap[c] \in Stores
      OBVIOUS
    <3>2. [f \in Fingerprints |-> IF f \in F THEN NoStatic ELSE snap[c].peers[f]]
            \in Pins
      BY <3>1 DEF Stores, Pins
    <3> QED
      BY <1>4, <3>1, <3>2 DEF RemovePeers, Stores
  <2> QED
    BY <1>4, <2>1, <2>2 DEF RemovePeers, ConsoleSaves, SweptBySave
<1>5. CASE ConsoleQuits(c)
  BY <1>5 DEF ConsoleQuits
<1>6. \A F \in {{f} : f \in Fingerprints} \cup {{}, Fingerprints} :
        F \in SUBSET Fingerprints
  OBVIOUS
<1> QED
  BY <1>1, <1>2, <1>3, <1>4, <1>5, <1>6 DEF ConsoleStep, Selections

\* Every step keeps the types.
LEMMA TypeNext == TypeInv /\ [Next]_vars => TypeInv'
<1> SUFFICES ASSUME TypeInv, [Next]_vars PROVE TypeInv'
  OBVIOUS
<1>1. ASSUME NEW t \in 0 .. MaxClock, Tick(t) PROVE TypeInv'
  BY <1>1, PinAssumption
  DEF Tick, TypeInv, TypeOK, MsgFresh, Admitted, procVars, history
<1>2. CASE UNCHANGED vars
  BY <1>2 DEF vars, TypeInv, TypeOK, MsgFresh, Admitted, procVars, history
<1> QED
  BY <1>1, <1>2, TypeSession, TypeProcess, TypeConsole DEF Next

\* AgentPins is type correct: in any behaviour of `run` and the consoles the
\* registry has an entry for exactly the threads that hold a SessionHandle.
THEOREM TypeCorrect == Spec => []TypeOK
<1>1. Spec => []TypeInv
  BY TypeInit, TypeNext, PTL DEF Spec
<1> QED
  BY <1>1, PTL DEF TypeInv

----------------------------------------------------------------------------
(* The write lock.                                                         *)

\* Nobody holds the lock when the process starts.
LEMMA LockInit == Init => LockHeldByWriter
  BY PinAssumption DEF Init, LockHeldByWriter, Locked

\* The lock changes hands only through LoadLocked, and is given up exactly where
\* a thread leaves the locked region.
LEMMA LockNext == TypeInv /\ LockHeldByWriter /\ [Next]_vars => LockHeldByWriter'
<1> SUFFICES ASSUME TypeInv, LockHeldByWriter, [Next]_vars PROVE LockHeldByWriter'
  OBVIOUS
<1> USE PinAssumption DEF TypeInv, TypeOK, LockHeldByWriter, Locked
<1>1. ASSUME NEW s \in Sessions, SessionStep(s) PROVE LockHeldByWriter'
  <2>1. CASE LoadLocked(s)
    BY <2>1 DEF LoadLocked, Steps
  <2>2. CASE NotApplied(s)
    BY <2>2 DEF NotApplied, GiveUp, Steps
  <2>3. CASE RefuseReplay(s)
    BY <2>3 DEF RefuseReplay, GiveUp, Steps
  <2>4. CASE ConsumeNonce(s) \/ RemovePin(s)
    BY <2>4 DEF ConsumeNonce, RemovePin, Steps
  <2>5. CASE AuditAndUnlock(s)
    BY <2>5 DEF AuditAndUnlock, Steps
  <2>6. CASE \/ Accept(s) \/ Refuse(s) \/ Register(s) \/ Recheck(s)
             \/ SessionEnds(s) \/ NoticeShut(s) \/ Unwind(s)
             \/ ClosePeerSessions(s)
    BY <2>6 DEF Accept, Refuse, Register, Recheck, SessionEnds, NoticeShut, Unwind,
                ClosePeerSessions, Steps
  <2>7. ASSUME NEW f \in Fingerprints, Handshake(s, f) PROVE LockHeldByWriter'
    BY <2>7 DEF Handshake, Steps
  <2>8. ASSUME NEW m \in Revocations, ReceiveRevoke(s, m) PROVE LockHeldByWriter'
    BY <2>8 DEF ReceiveRevoke, Steps
  <2> QED
    BY <1>1, <2>1, <2>2, <2>3, <2>4, <2>5, <2>6, <2>7, <2>8 DEF SessionStep
<1>2. CASE Crash
  BY <1>2 DEF Crash
<1>3. CASE WatcherRead \/ WatcherRetain \/ Stop \/ RevokeAll \/ AcceptFails
           \/ Joined \/ Start
  BY <1>3 DEF WatcherRead, WatcherRetain, Stop, RevokeAll, AcceptFails, Joined, Start
<1>4. ASSUME NEW c \in Consoles, ConsoleStep(c) PROVE LockHeldByWriter'
  BY <1>4 DEF ConsoleStep, OpenHost, EnrolSave, AddPeer, RemovePeers, ConsoleQuits,
              procVars
<1>5. CASE UNCHANGED vars \/ \E t \in 0 .. MaxClock : Tick(t)
  BY <1>5 DEF Tick, vars, procVars
<1> QED
  BY <1>1, <1>2, <1>3, <1>4, <1>5 DEF Next, ProcessStep

\* Two threads are never both between load and save, and the lock is never left
\* behind, for any number of threads, failures, replays and crashes.
THEOREM LockKept == Spec => []LockHeldByWriter
<1>1. Spec => [](TypeInv /\ LockHeldByWriter)
  BY TypeInit, TypeNext, LockInit, LockNext, PTL DEF Spec
<1> QED
  BY <1>1, PTL

----------------------------------------------------------------------------
(* Sweeps of the registry.                                                 *)

\* No session, nothing swept.
LEMMA SweepInit == Init => SweepInv
  BY DEF Init, SweepInv, SweptUnpinned, SweptSessionsAreShut, Admitted

\* A write that may pin fingerprints and moves no session.
LEMMA SweepSave ==
    ASSUME SweepInv, SweptBySave, UNCHANGED <<pc, conn, live, shut>>
    PROVE  SweepInv'
  BY DEF SweepInv, SweptUnpinned, SweptSessionsAreShut, SweptBySave,
         Pinned

\* A session enters the admitted states only by a re-check that finds its exact
\* pin, so of an identity that is not swept; and the identity becomes swept only
\* in the step that shuts every registered session it has.
LEMMA SweepNext == TypeInv /\ SweepInv /\ [Next]_vars => SweepInv'
<1> SUFFICES ASSUME TypeInv, SweepInv, [Next]_vars PROVE SweepInv'
  OBVIOUS
<1> USE DEF SweepInv, SweptUnpinned, SweptSessionsAreShut, Admitted,
            history
<1> USE DEF TypeInv, TypeOK
<1>1. ASSUME NEW s \in Sessions, SessionStep(s) PROVE SweepInv'
  <2>1. CASE Accept(s)
    BY <2>1 DEF Accept, Pinned, Steps
  <2>2. ASSUME NEW f \in Fingerprints, Handshake(s, f) PROVE SweepInv'
    BY <2>2 DEF Handshake, Pinned, Steps
  <2>3. CASE Refuse(s)
    BY <2>3 DEF Refuse, Pinned, Steps
  <2>4. CASE Register(s)
    BY <2>4 DEF Register, Pinned, Steps
  <2>5. CASE Recheck(s)
    <3>1. conn[s].st # NoStatic
      BY PinAssumption DEF Conns
    <3> QED
      BY <2>5, <3>1 DEF Recheck, Pinned, Steps
  <2>6. CASE SessionEnds(s) \/ NoticeShut(s)
    BY <2>6 DEF SessionEnds, NoticeShut, Pinned, Steps
  <2>7. CASE Unwind(s)
    BY <2>7 DEF Unwind, Pinned, Steps
  <2>8. ASSUME NEW m \in Revocations, ReceiveRevoke(s, m) PROVE SweepInv'
    BY <2>8 DEF ReceiveRevoke, Pinned, Steps
  <2>9. CASE LoadLocked(s)
    BY <2>9 DEF LoadLocked, Pinned, Steps
  <2>10. CASE NotApplied(s) \/ RefuseReplay(s)
    BY <2>10 DEF NotApplied, RefuseReplay, GiveUp, Pinned, Steps
  <2>11. CASE ConsumeNonce(s)
    BY <2>11 DEF ConsumeNonce, SessionSaves, SweptBySave, Pinned, Steps
  <2>12. CASE RemovePin(s)
    BY <2>12 DEF RemovePin, SessionSaves, SweptBySave, Pinned, Steps
  <2>13. CASE AuditAndUnlock(s)
    BY <2>13 DEF AuditAndUnlock, Pinned, Steps
  <2>14. CASE ClosePeerSessions(s)
    BY <2>14 DEF ClosePeerSessions, SessionsOf, Pinned, Steps
  <2> QED
    BY <1>1, <2>1, <2>2, <2>3, <2>4, <2>5, <2>6, <2>7, <2>8, <2>9, <2>10, <2>11,
       <2>12, <2>13, <2>14 DEF SessionStep
<1>2. CASE WatcherRetain
  BY <1>2 DEF WatcherRetain, Pinned
<1>3. CASE RevokeAll
  BY <1>3 DEF RevokeAll, Pinned
<1>4. CASE Crash
  BY <1>4 DEF Crash, Pinned
<1>5. CASE WatcherRead \/ Stop \/ AcceptFails \/ Joined \/ Start
  BY <1>5 DEF WatcherRead, Stop, AcceptFails, Joined, Start, Pinned
<1>6. ASSUME NEW c \in Consoles, ConsoleStep(c) PROVE SweepInv'
  <2>1. CASE ConsoleQuits(c) \/ \E cmd \in {"pair", "unpair"} : OpenHost(c, cmd)
    BY <2>1 DEF ConsoleQuits, OpenHost, procVars, Pinned
  <2>2. CASE \/ EnrolSave(c)
             \/ \E f \in Fingerprints, st \in Statics : AddPeer(c, f, st)
             \/ \E F \in {{f} : f \in Fingerprints} \cup {{}, Fingerprints} :
                    RemovePeers(c, F)
    <3>1. SweptBySave /\ UNCHANGED <<pc, conn, live, shut>>
      BY <2>2 DEF EnrolSave, AddPeer, RemovePeers, ConsoleSaves, procVars
    <3> QED
      BY <3>1, SweepSave
  <2> QED
    BY <1>6, <2>1, <2>2 DEF ConsoleStep, Selections
<1>7. CASE UNCHANGED vars \/ \E t \in 0 .. MaxClock : Tick(t)
  BY <1>7 DEF Tick, vars, procVars, Pinned
<1> QED
  BY <1>1, <1>2, <1>3, <1>4, <1>5, <1>6, <1>7 DEF Next, ProcessStep

\* Once a pass of the watcher, or a pair.revoke, has found an identity unpinned,
\* no established session of it is open until it is paired again.
THEOREM SweepEnforced == Spec => []SweptSessionsAreShut
<1>1. Spec => [](TypeInv /\ SweepInv)
  BY TypeInit, TypeNext, SweepInit, SweepNext, PTL DEF Spec
<1> QED
  BY <1>1, PTL DEF SweepInv

----------------------------------------------------------------------------
(* The read-modify-write of state.json.                                    *)

\* Nobody holds a copy, nothing is gone.
LEMMA StoreInit == Init => StoreInv
  BY DEF Init, StoreInv, SnapshotsCurrent, RevokedStaysGone, Loaded, Open

\* A step of a session thread: the lock makes its copy the only one of the
\* process, and a write while a console holds one is a race.
LEMMA StoreSession ==
    ASSUME TypeInv, LockHeldByWriter, StoreInv, NEW s \in Sessions, SessionStep(s)
    PROVE  StoreInv'
<1> USE PinAssumption DEF TypeInv, TypeOK, StoreInv, SnapshotsCurrent,
        RevokedStaysGone, Loaded, Open, Pinned, history
<1>0. \A r \in Sessions : pc[r] \in {"loaded", "consumed"} => lock = r
  BY DEF LockHeldByWriter, Locked
<1>1. CASE LoadLocked(s)
  BY <1>0, <1>1 DEF LoadLocked, Steps
<1>2. CASE NotApplied(s) \/ RefuseReplay(s)
  BY <1>2 DEF NotApplied, RefuseReplay, GiveUp, Steps
<1>3. CASE ConsumeNonce(s)
  <2>1. SUFFICES ASSUME ~ raced' PROVE StoreInv'
    BY DEF StoreInv
  <2>2. ~ raced /\ \A c \in Consoles : ~ Open(c)
    BY <1>3, <2>1 DEF ConsumeNonce, SessionSaves
  <2>3. snap[s] = disk /\ \A r \in Sessions \ {s} : ~ Loaded(r)
    BY <1>0, <1>3, <2>2 DEF ConsumeNonce
  <2>4. disk'.peers = disk.peers /\ disk' = snap'[s]
    BY <1>3, <2>3 DEF ConsumeNonce, Stores
  <2>5. SnapshotsCurrent'
    BY <1>3, <2>2, <2>3, <2>4 DEF ConsumeNonce, Steps
  <2>6. RevokedStaysGone'
    BY <1>3, <2>2, <2>4 DEF ConsumeNonce
  <2> QED
    BY <2>5, <2>6
<1>4. CASE RemovePin(s)
  <2>1. SUFFICES ASSUME ~ raced' PROVE StoreInv'
    BY DEF StoreInv
  <2>2. ~ raced /\ \A c \in Consoles : ~ Open(c)
    BY <1>4, <2>1 DEF RemovePin, SessionSaves
  <2>3. snap[s] = disk /\ \A r \in Sessions \ {s} : ~ Loaded(r)
    BY <1>0, <1>4, <2>2 DEF RemovePin
  <2>4. disk'.peers = [disk.peers EXCEPT ![conn[s].fp] = NoStatic]
    BY <1>4, <2>3 DEF RemovePin, Stores
  <2>5. SnapshotsCurrent'
    BY <1>4, <2>2, <2>3 DEF RemovePin, Steps
  <2>6. RevokedStaysGone'
    BY <1>4, <2>2, <2>4 DEF RemovePin, Stores, Pins, Conns
  <2> QED
    BY <2>5, <2>6
<1>5. CASE \/ Accept(s) \/ Refuse(s) \/ Register(s) \/ Recheck(s)
           \/ SessionEnds(s) \/ NoticeShut(s) \/ Unwind(s)
           \/ AuditAndUnlock(s) \/ ClosePeerSessions(s)
  BY <1>5 DEF Accept, Refuse, Register, Recheck, SessionEnds, NoticeShut, Unwind,
              AuditAndUnlock, ClosePeerSessions, Steps
<1>6. ASSUME NEW f \in Fingerprints, Handshake(s, f) PROVE StoreInv'
  BY <1>6 DEF Handshake, Steps
<1>7. ASSUME NEW m \in Revocations, ReceiveRevoke(s, m) PROVE StoreInv'
  BY <1>7 DEF ReceiveRevoke, Steps
<1> QED
  BY <1>1, <1>2, <1>3, <1>4, <1>5, <1>6, <1>7 DEF SessionStep

\* A step of a console: a write while a thread or another console holds a copy is
\* a race, and without one the console's copy is the file.
LEMMA StoreConsole ==
    ASSUME TypeInv, StoreInv, NEW c \in Consoles, ConsoleStep(c)
    PROVE  StoreInv'
<1> USE PinAssumption DEF TypeInv, TypeOK, StoreInv, SnapshotsCurrent,
        RevokedStaysGone, Loaded, Open, Pinned, procVars, history
<1>1. ASSUME NEW cmd \in {"pair", "unpair"}, OpenHost(c, cmd) PROVE StoreInv'
  BY <1>1 DEF OpenHost
<1>2. ASSUME ~ raced', ConsoleSaves(c)
      PROVE  /\ ~ raced
             /\ \A s \in Sessions : ~ Loaded(s)
             /\ \A d \in Consoles \ {c} : ~ Open(d)
  BY <1>2 DEF ConsoleSaves
<1>3. CASE EnrolSave(c)
  BY <1>2, <1>3 DEF EnrolSave
<1>4. ASSUME NEW f \in Fingerprints, NEW st \in Statics, AddPeer(c, f, st)
      PROVE  StoreInv'
  <2>1. SUFFICES ASSUME ~ raced' PROVE StoreInv'
    OBVIOUS
  <2>2. snap[c] = disk
    BY <1>2, <1>4, <2>1 DEF AddPeer
  <2>3. SnapshotsCurrent'
    BY <1>2, <1>4, <2>1 DEF AddPeer
  <2>4. RevokedStaysGone'
    BY <1>2, <1>4, <2>1, <2>2 DEF AddPeer, Stores, Pins
  <2> QED
    BY <2>3, <2>4
<1>5. ASSUME NEW F \in SUBSET Fingerprints, RemovePeers(c, F) PROVE StoreInv'
  <2>1. SUFFICES ASSUME ~ raced' PROVE StoreInv'
    OBVIOUS
  <2>2. snap[c] = disk
    BY <1>2, <1>5, <2>1 DEF RemovePeers
  <2>3. SnapshotsCurrent'
    BY <1>2, <1>5, <2>1 DEF RemovePeers
  <2>4. \A f \in Fingerprints :
            disk'.peers[f] = IF f \in F THEN NoStatic ELSE disk.peers[f]
    BY <1>5, <2>2 DEF RemovePeers, Stores
  <2>5. RevokedStaysGone'
    BY <1>2, <1>5, <2>1, <2>4 DEF RemovePeers
  <2> QED
    BY <2>3, <2>5
<1>6. CASE ConsoleQuits(c)
  BY <1>6 DEF ConsoleQuits
<1>7. \A F \in {{f} : f \in Fingerprints} \cup {{}, Fingerprints} :
        F \in SUBSET Fingerprints
  OBVIOUS
<1> QED
  BY <1>1, <1>3, <1>4, <1>5, <1>6, <1>7 DEF ConsoleStep, Selections

\* Every step keeps the copies current and the removed pins removed.
LEMMA StoreNext == TypeInv /\ LockHeldByWriter /\ StoreInv /\ [Next]_vars => StoreInv'
<1> SUFFICES ASSUME TypeInv, LockHeldByWriter, StoreInv, [Next]_vars PROVE StoreInv'
  OBVIOUS
<1> USE DEF StoreInv, SnapshotsCurrent, RevokedStaysGone, Loaded, Open, Pinned,
            procVars, history
<1>1. CASE Crash
  BY <1>1, PinAssumption DEF Crash
<1>2. CASE WatcherRead \/ WatcherRetain \/ Stop \/ RevokeAll \/ AcceptFails
           \/ Joined \/ Start
  BY <1>2 DEF WatcherRead, WatcherRetain, Stop, RevokeAll, AcceptFails, Joined, Start
<1>3. CASE UNCHANGED vars \/ \E t \in 0 .. MaxClock : Tick(t)
  BY <1>3 DEF Tick, vars
<1> QED
  BY <1>1, <1>2, <1>3, StoreSession, StoreConsole DEF Next, ProcessStep

\* Types, lock and store together are an invariant.
LEMMA StoreCorrect == Spec => [](TypeInv /\ LockHeldByWriter /\ StoreInv)
  BY TypeInit, TypeNext, LockInit, LockNext, StoreInit, StoreNext, PTL DEF Spec

\* Without two overlapping processes, every copy about to be written back is the
\* file as it stands: no update of state.json is lost.
THEOREM NoLostUpdate == Spec => []SnapshotsCurrent
  BY StoreCorrect, PTL DEF StoreInv

\* Without two overlapping processes, a removed pin comes back only by a new
\* pairing of that identity.
THEOREM RevocationLasts == Spec => []RevokedStaysGone
  BY StoreCorrect, PTL DEF StoreInv

----------------------------------------------------------------------------
(* The nonces of applied revocations.                                      *)

\* Nothing has been applied.
LEMMA NonceInit == Init => NonceInv
  BY DEF Init, NonceInv, NonceFirst, AppliedRecorded

\* What a pruning at time t drops was issued more than a window before t.
LEMMA PrunedIsStale ==
    ASSUME NEW C \in SUBSET Revocations, NEW t, NEW m \in C, m \notin Retained(C, t)
    PROVE  ~ (t - IssuedAt[m] <= Window)
  BY DEF Retained

\* The nonce is written before the pin is removed, and only stale ones are pruned.
LEMMA NonceSession ==
    ASSUME TypeInv, LockHeldByWriter, StoreInv, NonceInv, NEW s \in Sessions, SessionStep(s)
    PROVE  NonceInv'
<1> USE DEF TypeInv, TypeOK, NonceInv, NonceFirst, AppliedRecorded, history
<1>1. CASE ConsumeNonce(s)
  <2>1. msg[s] \in disk'.consumed /\ disk' = snap'[s]
    BY <1>1 DEF ConsumeNonce, Stores
  <2>2. NonceFirst'
    BY <1>1, <2>1 DEF ConsumeNonce, Steps
  <2>3. ASSUME ~ raced', NEW m \in applied
        PROVE  m \in disk'.consumed \/ prunedAt' - IssuedAt[m] > Window
    <3>1. ~ raced /\ snap[s] = disk
      BY <1>1, <2>3 DEF ConsumeNonce, SessionSaves, StoreInv, SnapshotsCurrent, Loaded
    <3>2. /\ prunedAt \in Int /\ now[s] \in Int /\ Window \in Int
          /\ IssuedAt[m] \in Int
      BY PinAssumption
    <3>3. prunedAt' \in Int /\ prunedAt' >= prunedAt /\ prunedAt' >= now[s]
      BY <1>1, <3>2 DEF ConsumeNonce
    <3>4. CASE m \notin disk.consumed
      BY <3>1, <3>2, <3>3, <3>4
    <3>5. CASE m \in Retained(disk.consumed, now[s])
      BY <1>1, <3>1, <3>5 DEF ConsumeNonce, Stores
    <3>6. CASE m \in disk.consumed /\ m \notin Retained(disk.consumed, now[s])
      <4>1. ~ (now[s] - IssuedAt[m] <= Window)
        BY <3>6, PrunedIsStale DEF Stores
      <4> QED
        BY <3>2, <3>3, <4>1
    <3> QED
      BY <3>4, <3>5, <3>6
  <2>4. AppliedRecorded'
    BY <1>1, <2>3 DEF ConsumeNonce
  <2> QED
    BY <2>2, <2>4
<1>2. CASE RemovePin(s)
  <2>1. NonceFirst'
    BY <1>2, PinAssumption DEF RemovePin, Steps
  <2>2. ASSUME ~ raced', NEW m \in applied'
        PROVE  m \in disk'.consumed \/ prunedAt - IssuedAt[m] > Window
    <3>1. ~ raced /\ snap[s] = disk
      BY <1>2, <2>2 DEF RemovePin, SessionSaves, StoreInv, SnapshotsCurrent, Loaded
    <3>2. disk'.consumed = disk.consumed
      BY <1>2, <3>1 DEF RemovePin, Stores
    <3>3. msg[s] \in disk.consumed
      BY <1>2, <3>1 DEF RemovePin
    <3> QED
      BY <1>2, <2>2, <3>1, <3>2, <3>3 DEF RemovePin
  <2>3. AppliedRecorded'
    BY <1>2, <2>2 DEF RemovePin
  <2> QED
    BY <2>1, <2>3
<1>3. CASE LoadLocked(s)
  BY <1>3, PinAssumption DEF LoadLocked, Steps
<1>4. CASE NotApplied(s) \/ RefuseReplay(s)
  BY <1>4, PinAssumption DEF NotApplied, RefuseReplay, GiveUp, Steps
<1>5. CASE \/ Accept(s) \/ Refuse(s) \/ Register(s) \/ Recheck(s)
           \/ SessionEnds(s) \/ NoticeShut(s) \/ Unwind(s)
           \/ AuditAndUnlock(s) \/ ClosePeerSessions(s)
  BY <1>5 DEF Accept, Refuse, Register, Recheck, SessionEnds, NoticeShut, Unwind,
              AuditAndUnlock, ClosePeerSessions, Steps
<1>6. ASSUME NEW f \in Fingerprints, Handshake(s, f) PROVE NonceInv'
  BY <1>6 DEF Handshake, Steps
<1>7. ASSUME NEW m \in Revocations, ReceiveRevoke(s, m) PROVE NonceInv'
  BY <1>7 DEF ReceiveRevoke, Steps
<1> QED
  BY <1>1, <1>2, <1>3, <1>4, <1>5, <1>6, <1>7 DEF SessionStep

\* Without a race a console writes back the nonce list it found.
LEMMA NonceConsole ==
    ASSUME TypeInv, StoreInv, NonceInv, NEW c \in Consoles, ConsoleStep(c)
    PROVE  NonceInv'
<1> USE PinAssumption DEF TypeInv, TypeOK, NonceInv, procVars, history
<1>1. NonceFirst'
  <2>1. UNCHANGED <<pc, msg>> /\ \A s \in Sessions : snap'[s] = snap[s]
    BY DEF ConsoleStep, OpenHost, EnrolSave, AddPeer, RemovePeers, ConsoleQuits
  <2> QED
    BY <2>1 DEF NonceFirst
<1>2. CASE ConsoleQuits(c) \/ \E cmd \in {"pair", "unpair"} : OpenHost(c, cmd)
  BY <1>1, <1>2 DEF ConsoleQuits, OpenHost, AppliedRecorded
<1>3. CASE \/ EnrolSave(c)
           \/ \E f \in Fingerprints, st \in Statics : AddPeer(c, f, st)
           \/ \E F \in {{f} : f \in Fingerprints} \cup {{}, Fingerprints} :
                  RemovePeers(c, F)
  <2>1. UNCHANGED <<applied, prunedAt>> /\ disk'.consumed = snap[c].consumed
    BY <1>3 DEF EnrolSave, AddPeer, RemovePeers, Stores
  <2>2. ASSUME ~ raced' PROVE ~ raced /\ snap[c] = disk
    BY <1>3, <2>2 DEF EnrolSave, AddPeer, RemovePeers, ConsoleSaves, StoreInv,
                      SnapshotsCurrent, Open
  <2> QED
    BY <1>1, <2>1, <2>2 DEF AppliedRecorded
<1> QED
  BY <1>1, <1>2, <1>3 DEF ConsoleStep, Selections

\* Every step keeps the nonce of every applied revocation that is still fresh.
LEMMA NonceNext ==
    TypeInv /\ LockHeldByWriter /\ StoreInv /\ NonceInv /\ [Next]_vars => NonceInv'
<1> SUFFICES ASSUME TypeInv, LockHeldByWriter, StoreInv, NonceInv, [Next]_vars PROVE NonceInv'
  OBVIOUS
<1> USE DEF NonceInv, NonceFirst, AppliedRecorded, procVars, history
<1>1. CASE Crash
  BY <1>1 DEF Crash
<1>2. CASE WatcherRead \/ WatcherRetain \/ Stop \/ RevokeAll \/ AcceptFails
           \/ Joined \/ Start
  BY <1>2 DEF WatcherRead, WatcherRetain, Stop, RevokeAll, AcceptFails, Joined, Start
<1>3. CASE UNCHANGED vars \/ \E t \in 0 .. MaxClock : Tick(t)
  BY <1>3 DEF Tick, vars
<1> QED
  BY <1>1, <1>2, <1>3, NonceSession, NonceConsole DEF Next, ProcessStep

\* A thread that holds the lock with a revocation already applied once, verified
\* no earlier than the last pruning, has its nonce in the list it loaded.
LEMMA ReplayFromInv == TypeInv /\ StoreInv /\ NonceInv => ReplayRefused
<1> SUFFICES ASSUME TypeInv, StoreInv, NonceInv, ~ raced, NEW s \in Sessions,
                    pc[s] = "loaded", msg[s] \in applied, now[s] >= prunedAt
             PROVE  msg[s] \in snap[s].consumed
  BY DEF ReplayRefused
<1>1. snap[s] = disk
  BY DEF StoreInv, SnapshotsCurrent, Loaded
<1>2. now[s] - IssuedAt[msg[s]] <= Window
  BY DEF TypeInv, MsgFresh
<1>3. /\ now[s] \in Int /\ prunedAt \in Int /\ Window \in Int
      /\ IssuedAt[msg[s]] \in Int
  BY PinAssumption DEF TypeInv, TypeOK
<1>4. ~ (prunedAt - IssuedAt[msg[s]] > Window)
  BY <1>2, <1>3
<1> QED
  BY <1>1, <1>4 DEF NonceInv, AppliedRecorded

\* Without two overlapping processes, a revocation that has removed a pin is
\* refused as a replay, across re-pairing, pruning, crashes and restarts.
THEOREM ReplaysRefused == Spec => []ReplayRefused
<1>1. Spec => []IInv
  BY TypeInit, TypeNext, LockInit, LockNext, SweepInit, SweepNext, StoreInit,
     StoreNext, NonceInit, NonceNext, PTL DEF Spec, IInv
<1>2. IInv => ReplayRefused
  BY ReplayFromInv DEF IInv
<1> QED
  BY <1>1, <1>2, PTL
=============================================================================
