---------------------------- MODULE MetricsProofs ----------------------------
(***************************************************************************)
(* Proofs about the metrics path: MetricsEngine, for any number of         *)
(* sessions and channels and any depth of the queues; MetricsRing, for any *)
(* even interval, capacity and clock; Collector, for any finite set of     *)
(* adapters and any counters.                                              *)
(***************************************************************************)
EXTENDS MetricsEngine, MetricsRing, Collector, DataLemmas, SequenceTheorems

(* The flag says what the owner does, the owner is done only when the       *)
(* sampler is, and a notification is pending only while the sampler waits.  *)
FlagInv ==
    /\ running <=> owner = "serving"
    /\ owner = "down" => spc = "exited"
    /\ notified => spc = "waiting"

-----------------------------------------------------------------------------
(* TypeOK holds at the start and after every step of the sampler, of a      *)
(* session and of the owner.                                                *)
LEMMA EngineTypeInit == Init => TypeOK
<1> SUFFICES ASSUME Init PROVE TypeOK
  OBVIOUS
<1>1. running \in BOOLEAN /\ notified \in BOOLEAN
  BY Zenon DEF Init
<1> QED
  BY <1>1, EngineAssumption DEF Init, TypeOK, Held

(* Every step of the engine and of its sessions preserves the types. *)
LEMMA EngineTypeStep == TypeOK /\ [Next]_vars => TypeOK'
<1> SUFFICES ASSUME TypeOK, [Next]_vars PROVE TypeOK'
  OBVIOUS
<1> USE EngineAssumption DEF TypeOK, sampler, sessions, Held
<1>0. running' \in BOOLEAN /\ notified' \in BOOLEAN
  <2>1. CASE UNCHANGED <<running, notified>>
    BY <2>1
  <2>2. CASE SamplerWakes
    BY <2>2, Zenon DEF SamplerWakes
  <2>3. CASE DropEngine
    BY <2>3, Zenon DEF DropEngine
  <2>4. CASE Restart
    BY <2>4, Zenon DEF Restart
  <2>5. CASE Notify /\ UNCHANGED running
    BY <2>5, Zenon DEF Notify
  <2> QED
    BY <2>1, <2>2, <2>3, <2>4, <2>5 DEF Next, vars, SamplerNext, SamplerWaits, SamplerStops,
       SampleTaken, SampleFails, Deliver, SessionNext, Connect, ReadHello, PushTicks,
       WaitExpires, AnswerRequest, AnswerHistory, Subscribe, NotifySampler, Unsubscribe,
       SessionEnds, DropNotifies, SamplerJoined
<1>1. CASE SamplerNext
  <2>1. CASE SamplerWaits \/ SamplerWakes \/ SamplerStops \/ SampleTaken \/ SampleFails
    BY <1>0, <2>1 DEF SamplerWaits, SamplerWakes, SamplerStops, SampleTaken, SampleFails
  <2>2. CASE Deliver
    BY <1>0, <2>2 DEF Deliver
  <2> QED
    BY <1>1, <2>1, <2>2 DEF SamplerNext
<1>2. ASSUME NEW s \in Sessions, SessionNext(s) PROVE TypeOK'
  <2>1. CASE Connect(s) \/ ReadHello(s) \/ AnswerRequest(s) \/ AnswerHistory(s)
    BY <1>0, <2>1 DEF Connect, ReadHello, AnswerRequest, AnswerHistory
  <2>2. CASE PushTicks(s)
    BY <1>0, <2>2 DEF PushTicks
  <2>3. CASE WaitExpires(s)
    BY <1>0, <2>3 DEF WaitExpires
  <2>4. CASE Subscribe(s)
    BY <1>0, <2>4 DEF Subscribe, Free
  <2>5. CASE NotifySampler(s)
    BY <1>0, <2>5 DEF NotifySampler, Notify
  <2>6. CASE Unsubscribe(s)
    BY <1>0, <2>6 DEF Unsubscribe
  <2>7. CASE SessionEnds(s)
    BY <1>0, <2>7 DEF SessionEnds
  <2> QED
    BY <1>2, <2>1, <2>2, <2>3, <2>4, <2>5, <2>6, <2>7 DEF SessionNext
<1>3. CASE DropEngine \/ DropNotifies \/ SamplerJoined \/ Restart
  BY <1>0, <1>3 DEF DropEngine, DropNotifies, SamplerJoined, Restart, Notify
<1>4. CASE UNCHANGED vars
  BY <1>4 DEF vars
<1> QED
  BY <1>1, <1>2, <1>3, <1>4 DEF Next

(* MetricsEngine::deliver, subscribe and the sessions keep their types: no  *)
(* queue grows beyond its depth, and a channel whose receiver was dropped   *)
(* holds no sample, for any number of sessions and channels.                *)
THEOREM EngineTyped == Spec => []TypeOK
<1>1. Init => TypeOK
  BY EngineTypeInit
<1>2. TypeOK /\ [Next]_vars => TypeOK'
  BY EngineTypeStep
<1> QED
  BY <1>1, <1>2, PTL DEF Spec

-----------------------------------------------------------------------------
EngineInv == TypeOK /\ FlagInv /\ NoLostWakeup

(* The engine starts in the invariant. *)
LEMMA EngineInvInit == Init => EngineInv
  BY EngineTypeInit DEF Init, EngineInv, FlagInv, NoLostWakeup

(* The sampler goes to sleep under the lock that a subscriber needs to join *)
(* the list and the owner to clear the flag: whoever comes after it finds   *)
(* it asleep, and is still to notify it.                                    *)
LEMMA EngineInvStep == EngineInv /\ [Next]_vars => EngineInv'
<1> SUFFICES ASSUME EngineInv, [Next]_vars PROVE EngineInv'
  OBVIOUS
<1>0. TypeOK /\ TypeOK'
  BY EngineTypeStep DEF EngineInv
<1> SUFFICES (FlagInv /\ NoLostWakeup)'
  BY <1>0 DEF EngineInv
<1> USE <1>0 DEF EngineInv, TypeOK, FlagInv, NoLostWakeup, sampler, sessions
<1>1. CASE SamplerNext
  BY <1>1 DEF SamplerNext, SamplerWaits, SamplerWakes, SamplerStops, SampleTaken,
     SampleFails, Deliver
<1>2. ASSUME NEW s \in Sessions, SessionNext(s) PROVE (FlagInv /\ NoLostWakeup)'
  <2>1. CASE Connect(s) \/ ReadHello(s) \/ PushTicks(s) \/ WaitExpires(s) \/ AnswerRequest(s)
               \/ AnswerHistory(s) \/ Unsubscribe(s) \/ SessionEnds(s)
    <3>1. /\ UNCHANGED <<running, subscribers, sampler, owner>>
          /\ \A r \in Sessions : pc[r] = "notify" => pc'[r] = "notify"
      BY <2>1 DEF Connect, ReadHello, PushTicks, WaitExpires, AnswerRequest, AnswerHistory,
         Unsubscribe, SessionEnds
    <3> QED
      BY <3>1
  <2>2. CASE Subscribe(s)
    BY <2>2 DEF Subscribe
  <2>3. CASE NotifySampler(s)
    BY <2>3 DEF NotifySampler, Notify
  <2> QED
    BY <1>2, <2>1, <2>2, <2>3 DEF SessionNext
<1>3. CASE DropEngine
  BY <1>3 DEF DropEngine
<1>4. CASE DropNotifies
  BY <1>4 DEF DropNotifies, Notify
<1>5. CASE SamplerJoined \/ Restart
  BY <1>5 DEF SamplerJoined, Restart
<1>6. CASE UNCHANGED vars
  BY <1>6 DEF vars
<1> QED
  BY <1>1, <1>2, <1>3, <1>4, <1>5, <1>6 DEF Next

(* run_sampler never sleeps through a subscription or through the drop of   *)
(* the engine: a notification has reached its wait or is about to.          *)
THEOREM NoWakeupLost == Spec => []NoLostWakeup
<1>1. Init => EngineInv
  BY EngineInvInit
<1>2. EngineInv /\ [Next]_vars => EngineInv'
  BY EngineInvStep
<1>3. EngineInv => NoLostWakeup
  BY DEF EngineInv
<1> QED
  BY <1>1, <1>2, <1>3, PTL DEF Spec

-----------------------------------------------------------------------------
(* The history ring *)

RingTypeOK ==
    /\ ring \in Seq(Int) /\ ringDue \in Int
    /\ ring # <<>> <=> ringDue # 0

RingInv == RingTypeOK /\ OneSamplePerInterval

(* When the grid moves by k intervals every sample is k intervals further   *)
(* back.                                                                    *)
LEMMA CellsShift ==
  ASSUME NEW due \in Int, NEW x \in Int, NEW k \in Int
  PROVE  (x - (due + k * RingInterval)) \div RingInterval = (x - due) \div RingInterval - k
<1>0. RingInterval \in Nat \ {0}
  BY RingAssumption
<1> DEFINE j == - k
           a == x - due
<1>1. j \in Int /\ a \in Int /\ x - (due + k * RingInterval) = a + j * RingInterval
  BY <1>0
<1> HIDE DEF j, a
<1>2. (a + j * RingInterval) \div RingInterval = a \div RingInterval + j
  BY <1>0, <1>1, DivShift
<1>3. a \div RingInterval \in Int
  BY <1>0, <1>1, DivBounds
<1>4. a \div RingInterval + j = a \div RingInterval - k
  BY <1>3 DEF j
<1> QED
  BY <1>1, <1>2, <1>4 DEF a

(* The next point of the grid is after the sample just stored. *)
LEMMA NextDueIsLater ==
  ASSUME NEW due \in Int, NEW ts \in Int, ts >= due
  PROVE  LET q == (ts - due) \div RingInterval
         IN  q \in Nat /\ due + (q + 1) * RingInterval \in Int /\ due + (q + 1) * RingInterval > ts
<1> DEFINE q == (ts - due) \div RingInterval
<1>0. RingInterval \in Nat \ {0}
  BY RingAssumption
<1>1. q \in Int /\ q * RingInterval <= ts - due /\ ts - due < (q + 1) * RingInterval
  BY <1>0, DivBounds
<1> HIDE DEF q
<1>2. q \in Nat
  <2>1. CASE q < 0
    <3>1. (q + 1) * RingInterval <= 0 * RingInterval
      BY <1>0, <1>1, <2>1, TimesMonotone
    <3> QED
      BY <1>0, <1>1, <3>1
  <2> QED
    BY <1>1, <2>1
<1>3. due + (q + 1) * RingInterval \in Int /\ due + (q + 1) * RingInterval > ts
  BY <1>0, <1>1
<1> QED
  BY <1>2, <1>3 DEF q

(* Every sample stored, and every jump of the clock, keeps the grid of the ring. *)
LEMMA RingInvStep == RingInv /\ [RingNext]_ringVars => RingInv'
<1> SUFFICES ASSUME RingInv, [RingNext]_ringVars PROVE RingInv'
  OBVIOUS
<1> USE DEF RingInv, RingTypeOK
<1>0. /\ RingInterval \in Nat /\ RingInterval # 0 /\ RingCapacity \in Nat /\ RingCapacity # 0
      /\ MaxTime \in Nat
  BY RingAssumption
<1> USE <1>0
<1>1. CASE UNCHANGED ringVars
  BY <1>1 DEF ringVars, OneSamplePerInterval, Cell
<1>2. ASSUME NEW ts \in 1 .. MaxTime, ts >= ringDue, ring' = Push(ts), ringDue' = NextDue(ts)
      PROVE  RingInv'
  <2> DEFINE old == IF Len(ring) = RingCapacity THEN Tail(ring) ELSE ring
             k   == IF Len(ring) = RingCapacity THEN 1 ELSE 0
  <2>0. /\ Len(ring) \in Nat /\ ts \in Int
        /\ Len(ring) = RingCapacity => ring # <<>>
    BY LenProperties, EmptySeq
  <2>1. /\ old \in Seq(Int) /\ Len(old) = Len(ring) - k /\ k \in {0, 1} /\ Len(old) \in Nat
        /\ \A i \in 1 .. Len(old) : old[i] = ring[i + k]
    BY <2>0, HeadTailProperties
  <2> HIDE DEF k, old
  <2>2. ring' = Append(old, ts)
    BY <1>2 DEF Push, old
  <2>3. /\ ring' \in Seq(Int) /\ ring' # <<>> /\ Len(ring') = Len(old) + 1
        /\ \A i \in 1 .. Len(old) : ring'[i] = ring[i + k] /\ ring'[i] \in Int
        /\ ring'[Len(ring')] = ts
    BY <2>0, <2>1, <2>2, AppendProperties, ElementOfSeq
  <2>4. CASE ringDue = 0
    <3>1. ring = <<>> /\ Len(old) = 0
      BY <2>1, <2>4
    <3>2. ringDue' = ts + RingInterval
      BY <1>2, <2>4 DEF NextDue
    <3>3. (ts - ringDue') \div RingInterval = -1
      <4>1. ts - ringDue' = - RingInterval
        BY <2>0, <3>2
      <4>2. (-1) * RingInterval <= - RingInterval /\ - RingInterval < ((-1) + 1) * RingInterval
        OBVIOUS
      <4> QED
        BY <4>1, <4>2, DivUnique
    <3> QED
      BY <2>0, <2>3, <3>1, <3>2, <3>3 DEF OneSamplePerInterval, Cell
  <2>5. CASE ringDue # 0
    <3> DEFINE q == (ts - ringDue) \div RingInterval
    <3>1. ringDue' = ringDue + (q + 1) * RingInterval
      BY <1>2, <2>5 DEF NextDue
    <3> DEFINE D(x) == (x - ringDue') \div RingInterval
    <3>2. /\ q \in Nat /\ ringDue' \in Int /\ ringDue' > ts
          /\ \A x \in Int : D(x) = Cell(x) - (q + 1)
      <4>1. q \in Nat /\ ringDue' \in Int /\ ringDue' > ts
        BY <1>2, <2>0, <3>1, NextDueIsLater
      <4> HIDE DEF q
      <4>2. ASSUME NEW x \in Int
            PROVE  D(x) = (x - ringDue) \div RingInterval - (q + 1)
        <5> DEFINE m == q + 1
        <5>1. m \in Int
          BY <4>1
        <5> HIDE DEF m
        <5>2. (x - (ringDue + m * RingInterval)) \div RingInterval
                 = (x - ringDue) \div RingInterval - m
          BY <5>1, CellsShift
        <5> QED
          BY <3>1, <5>2, Zenon DEF m
      <4> HIDE DEF D
      <4> QED
        BY <4>1, <4>2 DEF Cell
    <3>3. \A x \in Int : Cell(x) \in Int
      BY DivBounds DEF Cell
    <3>4. Cell(ts) = q
      BY DEF Cell
    <3> HIDE DEF q, D
    <3>5. D(ring'[Len(ring')]) = -1
      BY <2>0, <2>3, <3>2, <3>4
    <3>6. ASSUME NEW i \in 1 .. Len(ring') - 1
          PROVE  D(ring'[i]) < D(ring'[i + 1])
      <4>0. i \in 1 .. Len(old)
        BY <2>1, <2>3
      <4>1. i \in 1 .. Len(old) /\ ring'[i] = ring[i + k] /\ ring'[i] \in Int
        BY <2>3, <4>0
      <4>2. CASE i = Len(old)
        <5>1. ring'[i] = ring[Len(ring)] /\ ring'[i + 1] = ts
          BY <2>0, <2>1, <2>3, <4>1, <4>2
        <5>2. ring # <<>>
          BY <2>5
        <5>3. Cell(ring'[i]) = -1
          BY <5>1, <5>2 DEF OneSamplePerInterval
        <5> QED
          BY <2>0, <3>2, <3>4, <4>1, <5>1, <5>3
      <4>3. CASE i # Len(old)
        <5>0. /\ i + 1 \in 1 .. Len(old) /\ i + k \in 1 .. Len(ring) - 1
              /\ (i + 1) + k = (i + k) + 1
          <6>1. CASE k = 0
            BY <2>0, <2>1, <4>0, <4>3, <6>1
          <6>2. CASE k = 1
            BY <2>0, <2>1, <4>0, <4>3, <6>2
          <6> QED
            BY <2>1, <6>1, <6>2
        <5>1. /\ i + 1 \in 1 .. Len(old) /\ ring'[i + 1] = ring[(i + k) + 1]
              /\ ring'[i + 1] \in Int /\ i + k \in 1 .. Len(ring) - 1
          BY <2>3, <5>0
        <5>2. Cell(ring[i + k]) < Cell(ring[(i + k) + 1])
          BY <2>5, <5>1 DEF OneSamplePerInterval
        <5>3. D(ring'[i]) = Cell(ring'[i]) - (q + 1) /\ D(ring'[i + 1]) = Cell(ring'[i + 1]) - (q + 1)
          BY <3>2, <4>1, <5>1
        <5>4. Cell(ring'[i]) \in Int /\ Cell(ring'[i + 1]) \in Int
          BY <3>3, <4>1, <5>1
        <5> QED
          BY <3>2, <4>1, <5>1, <5>2, <5>3, <5>4
      <4> QED
        BY <4>2, <4>3
    <3>7. OneSamplePerInterval'
      BY <3>5, <3>6 DEF OneSamplePerInterval, Cell, D
    <3> QED
      BY <1>2, <2>3, <3>2, <3>7
  <2> QED
    BY <2>4, <2>5
<1> QED
  BY <1>1, <1>2 DEF RingNext, StoreSample

(* deliver stores at most one sample for an interval of the grid, whatever  *)
(* the clock does and however full the ring is.                             *)
THEOREM RingKeepsGrid == RingSpec => []OneSamplePerInterval
<1>1. RingInit => RingInv
  BY DEF RingInit, RingInv, RingTypeOK, OneSamplePerInterval
<1>2. RingInv /\ [RingNext]_ringVars => RingInv'
  BY RingInvStep
<1>3. RingInv => OneSamplePerInterval
  BY DEF RingInv
<1> QED
  BY <1>1, <1>2, <1>3, PTL DEF RingSpec

-----------------------------------------------------------------------------
(* What a history declares *)

(* The ring is in the order of its timestamps. *)
LEMMA RingIncreases ==
  ASSUME RingInv
  PROVE  \A i, j \in 1 .. Len(ring) : i < j => ring[i] < ring[j]
<1> USE DEF RingInv, RingTypeOK
<1>0. Len(ring) \in Nat /\ \A i \in 1 .. Len(ring) : ring[i] \in Int
  BY LenProperties, ElementOfSeq
<1>1. ASSUME NEW i \in 1 .. Len(ring) - 1 PROVE ring[i] < ring[i + 1]
  <2>1. ring # <<>>
    BY <1>0, EmptySeq
  <2>2. Cell(ring[i]) < Cell(ring[i + 1])
    BY <2>1 DEF OneSamplePerInterval
  <2>3. i \in 1 .. Len(ring) /\ i + 1 \in 1 .. Len(ring)
    BY <1>0
  <2>4. ring[i] - ringDue \in Int /\ ring[i + 1] - ringDue \in Int
    BY <1>0, <2>3
  <2>5. ring[i] - ringDue < ring[i + 1] - ringDue
    BY <2>2, <2>4, RingAssumption, DivMonotone DEF Cell
  <2> QED
    BY <1>0, <2>3, <2>5
<1> DEFINE T == {n \in Nat : \A i \in 1 .. Len(ring) :
                    i + n + 1 <= Len(ring) => ring[i] < ring[i + n + 1]}
<1>2. 0 \in T
  BY <1>0, <1>1
<1>3. ASSUME NEW n \in Nat, n \in T PROVE n + 1 \in T
  <2> SUFFICES ASSUME NEW i \in 1 .. Len(ring), i + (n + 1) + 1 <= Len(ring)
               PROVE  ring[i] < ring[i + (n + 1) + 1]
    OBVIOUS
  <2>1. ring[i] < ring[i + n + 1]
    BY <1>0, <1>3
  <2>2. i + n + 1 \in 1 .. Len(ring) - 1 /\ i + (n + 1) + 1 = (i + n + 1) + 1
    BY <1>0
  <2>3. ring[i + n + 1] < ring[(i + n + 1) + 1]
    BY <1>1, <2>2
  <2>4. (i + n + 1) + 1 \in 1 .. Len(ring)
    BY <1>0, <2>2
  <2>5. ring[i] \in Int /\ ring[i + n + 1] \in Int /\ ring[(i + n + 1) + 1] \in Int
    BY <1>0, <2>2, <2>4
  <2> QED
    BY <2>1, <2>2, <2>3, <2>5
<1>4. Nat \subseteq T
  <2> HIDE DEF T
  <2> QED
    BY <1>2, <1>3, Induction
<1> SUFFICES ASSUME NEW i \in 1 .. Len(ring), NEW j \in 1 .. Len(ring), i < j
             PROVE  ring[i] < ring[j]
  OBVIOUS
<1>5. PICK n \in Nat : i + n + 1 = j
  <2>1. j - i - 1 \in Nat /\ i + (j - i - 1) + 1 = j
    BY <1>0
  <2> QED
    BY <2>1
<1>6. i + n + 1 <= Len(ring)
  BY ONLY <1>0, <1>5, j \in 1 .. Len(ring)
<1>7. ring[i] < ring[i + n + 1]
  BY <1>4, <1>6
<1> QED
  BY <1>5, <1>7

(* n even steps are n times as wide as one. *)
LEMMA StepsAddUp ==
  ASSUME RingInv, NEW m \in 1 .. Len(ring), EvenlySpaced(m)
  PROVE  \A n \in Nat, i \in m .. Len(ring) : i + n <= Len(ring) =>
            n * MinStep <= ring[i + n] - ring[i] /\ ring[i + n] - ring[i] <= n * MaxStep
<1> USE DEF RingInv, RingTypeOK
<1>0. Len(ring) \in Nat /\ \A i \in 1 .. Len(ring) : ring[i] \in Int
  BY LenProperties, ElementOfSeq
<1>1. MinStep \in Nat /\ MaxStep \in Nat
  BY RingAssumption DEF MinStep, MaxStep
<1> DEFINE P(n) == \A i \in m .. Len(ring) : i + n <= Len(ring) =>
                      n * MinStep <= ring[i + n] - ring[i] /\ ring[i + n] - ring[i] <= n * MaxStep
           T == {n \in Nat : P(n)}
<1>2. 0 \in T
  <2> SUFFICES ASSUME NEW i \in m .. Len(ring)
               PROVE  0 * MinStep <= ring[i + 0] - ring[i] /\ ring[i + 0] - ring[i] <= 0 * MaxStep
    OBVIOUS
  <2>1. i + 0 = i /\ ring[i] \in Int
    BY <1>0
  <2> QED
    BY <1>1, <2>1
<1>3. ASSUME NEW n \in Nat, n \in T PROVE n + 1 \in T
  <2> SUFFICES ASSUME NEW i \in m .. Len(ring), i + (n + 1) <= Len(ring)
               PROVE  /\ (n + 1) * MinStep <= ring[i + (n + 1)] - ring[i]
                      /\ ring[i + (n + 1)] - ring[i] <= (n + 1) * MaxStep
    OBVIOUS
  <2>1. n * MinStep <= ring[i + n] - ring[i] /\ ring[i + n] - ring[i] <= n * MaxStep
    BY <1>0, <1>3
  <2>2. /\ i + n \in m .. Len(ring) - 1 /\ i + (n + 1) = (i + n) + 1
        /\ i \in 1 .. Len(ring) /\ i + n \in 1 .. Len(ring) /\ (i + n) + 1 \in 1 .. Len(ring)
    BY <1>0
  <2>3. ring[(i + n) + 1] - ring[i + n] \in MinStep .. MaxStep
    BY <2>2 DEF EvenlySpaced
  <2>4. ring[i] \in Int /\ ring[i + n] \in Int /\ ring[(i + n) + 1] \in Int
    BY <1>0, <2>2
  <2>5. (n + 1) * MinStep = n * MinStep + MinStep /\ (n + 1) * MaxStep = n * MaxStep + MaxStep
        /\ n * MinStep \in Int /\ n * MaxStep \in Int
    BY <1>1
  <2> DEFINE a == n * MinStep
             b == n * MaxStep
             x == ring[i]
             y == ring[i + n]
             z == ring[(i + n) + 1]
  <2>6. a \in Int /\ b \in Int /\ (n + 1) * MinStep = a + MinStep /\ (n + 1) * MaxStep = b + MaxStep
        /\ a <= ring[i + n] - ring[i] /\ ring[i + n] - ring[i] <= b
    BY <2>1, <2>5
  <2>7. z = ring[i + (n + 1)]
    BY <2>2
  <2>8. x \in Int /\ y \in Int /\ z \in Int /\ a \in Int /\ b \in Int
    BY <2>4, <2>6
  <2>9. a <= y - x /\ y - x <= b /\ MinStep <= z - y /\ z - y <= MaxStep
    BY <1>1, <2>3, <2>6, <2>8
  <2> HIDE DEF a, b, x, y, z
  <2>10. a + MinStep <= z - x /\ z - x <= b + MaxStep
    BY ONLY <1>1, <2>8, <2>9
  <2> QED
    BY <2>6, <2>7, <2>10 DEF x
<1>4. Nat \subseteq T
  <2> HIDE DEF T
  <2> QED
    BY <1>2, <1>3, Induction
<1> QED
  BY <1>4

(* The newest run reaches to the end of the ring. *)
LEMMA RunIsSuffix ==
  ASSUME RingInv, NEW horizon \in Int, RunIndices(horizon) # {}
  PROVE  \E m \in 1 .. Len(ring) :
            /\ RunIndices(horizon) = m .. Len(ring) /\ EvenlySpaced(m) /\ ring[m] >= horizon
            /\ Cardinality(RunIndices(horizon)) = Len(ring) - m + 1
<1> USE DEF RingInv, RingTypeOK
<1> DEFINE I == RunIndices(horizon)
<1>0. Len(ring) \in Nat /\ DOMAIN ring = 1 .. Len(ring)
  BY LenProperties
<1>1. I \in SUBSET Nat /\ I # {}
  BY <1>0 DEF RunIndices
<1>2. PICK m \in I : \A j \in I : m <= j
  <2> HIDE DEF I
  <2> QED
    BY <1>1, LeastElement
<1>3. /\ m \in 1 .. Len(ring) /\ EvenlySpaced(m)
      /\ \A j \in m .. Len(ring) : ring[j] >= horizon
  BY <1>0, <1>2 DEF RunIndices
<1>4. ASSUME NEW j \in m .. Len(ring) PROVE j \in I
  <2>1. j \in DOMAIN ring
    BY <1>0, <1>3
  <2>2. EvenlySpaced(j) /\ \A l \in j .. Len(ring) : ring[l] >= horizon
    BY <1>0, <1>3 DEF EvenlySpaced
  <2> QED
    BY <2>1, <2>2 DEF RunIndices
<1>5. I = m .. Len(ring)
  BY <1>0, <1>1, <1>2, <1>3, <1>4 DEF RunIndices
<1>6. Cardinality(m .. Len(ring)) = Len(ring) - m + 1
  BY <1>0, <1>3, FS_Interval
<1> QED
  BY <1>0, <1>3, <1>5, <1>6

(* The history of a run that begins at m. *)
LEMMA HistoryOfRun ==
  ASSUME RingInv, NEW m \in 1 .. Len(ring), EvenlySpaced(m),
         NEW F \in Nat \ {0}, NEW N \in Nat \ {0},
         Len(ring) - m + 1 <= MaxHistory * F,
         (N - 1) * F < Len(ring) - m + 1, Len(ring) - m + 1 <= N * F,
         NEW s, s = [n \in 1 .. N |-> ring[m + (n - 1) * F]]
  PROVE  /\ s \in Seq(Int) /\ Len(s) = N /\ N <= MaxHistory /\ s[1] = ring[m]
         /\ Cardinality({i \in DOMAIN ring : ring[i] > s[N]}) < F
         /\ \A i \in 1 .. N - 1 : /\ F * MinStep <= s[i + 1] - s[i]
                                 /\ s[i + 1] - s[i] <= F * MaxStep
<1> USE DEF RingInv, RingTypeOK
<1>0. /\ Len(ring) \in Nat /\ DOMAIN ring = 1 .. Len(ring) /\ \A i \in 1 .. Len(ring) : ring[i] \in Int
      /\ MaxHistory \in Nat
  BY LenProperties, ElementOfSeq, RingAssumption
<1> DEFINE at(n) == m + (n - 1) * F
<1>1. ASSUME NEW n \in 1 .. N PROVE at(n) \in m .. Len(ring)
  <2>1. (n - 1) * F <= (N - 1) * F /\ 0 * F <= (n - 1) * F
    BY TimesMonotone
  <2>2. (n - 1) * F \in Int /\ (N - 1) * F \in Int /\ 0 * F = 0
    OBVIOUS
  <2> DEFINE u == (n - 1) * F
             v == (N - 1) * F
  <2>3. u \in Int /\ v \in Int /\ u <= v /\ 0 <= u /\ v < Len(ring) - m + 1
    BY <2>1, <2>2
  <2> HIDE DEF u, v
  <2>4. m + u \in m .. Len(ring)
    BY <1>0, <2>3
  <2> QED
    BY <2>4 DEF u
<1>2. ASSUME NEW n \in 1 .. N PROVE at(n) \in 1 .. Len(ring)
  <2>1. at(n) \in m .. Len(ring)
    BY <1>1
  <2> HIDE DEF at
  <2> QED
    BY <1>0, <2>1
<1>3. s \in Seq(Int) /\ Len(s) = N
  <2>1. s \in [1 .. N -> Int]
    BY <1>0, <1>2
  <2>2. s \in Seq(Int)
    BY ONLY <2>1, SeqDef, N \in Nat \ {0}
  <2> QED
    BY ONLY <2>1, <2>2, LenProperties, N \in Nat \ {0}
<1>4. at(1) = m
  OBVIOUS
<1>5. N <= MaxHistory
  <2>1. CASE MaxHistory <= N - 1
    <3>1. MaxHistory * F <= (N - 1) * F
      BY <1>0, <2>1, TimesMonotone
    <3> DEFINE u == MaxHistory * F
               v == (N - 1) * F
    <3>2. u \in Int /\ v \in Int /\ u <= v /\ v < Len(ring) - m + 1 /\ Len(ring) - m + 1 <= u
      BY <1>0, <3>1
    <3> HIDE DEF u, v
    <3> QED
      BY <1>0, <3>2
  <2> QED
    BY <1>0, <2>1
<1>6. Cardinality({i \in DOMAIN ring : ring[i] > s[N]}) < F
  <2> DEFINE L == at(N)
  <2>1. L \in 1 .. Len(ring) /\ s[N] = ring[L]
    BY <1>2
  <2>2. Len(ring) - L < F
    <3> DEFINE v == (N - 1) * F
    <3>1. v \in Int /\ N * F = v + F
      OBVIOUS
    <3>2. Len(ring) - m + 1 <= v + F
      BY <3>1
    <3> HIDE DEF v
    <3>3. Len(ring) - (m + v) < F
      BY <1>0, <3>1, <3>2
    <3> QED
      BY <3>3 DEF v
  <2> HIDE DEF L
  <2>3. {i \in DOMAIN ring : ring[i] > s[N]} = L + 1 .. Len(ring)
    <3>1. ASSUME NEW i \in 1 .. Len(ring), ring[i] > ring[L] PROVE i > L
      <4>1. CASE i < L
        <5>1. ring[i] < ring[L]
          BY ONLY RingInv, i \in 1 .. Len(ring), <2>1, <4>1, RingIncreases
        <5> QED
          BY ONLY i \in 1 .. Len(ring), <1>0, <2>1, <3>1, <5>1
      <4>2. CASE i = L
        BY ONLY i \in 1 .. Len(ring), <1>0, <2>1, <3>1, <4>2
      <4> QED
        BY ONLY i \in 1 .. Len(ring), <1>0, <2>1, <4>1, <4>2
    <3>2. ASSUME NEW i \in L + 1 .. Len(ring) PROVE i \in 1 .. Len(ring) /\ ring[i] > ring[L]
      <4>1. i \in 1 .. Len(ring) /\ L < i
        BY <1>0, <2>1
      <4>2. ring[L] < ring[i]
        BY <2>1, <4>1, RingIncreases
      <4> QED
        BY <1>0, <2>1, <4>1, <4>2
    <3>3. \A i \in L + 1 .. Len(ring) : i \in Int /\ i > L
      BY <1>0, <2>1
    <3>4. \A i \in 1 .. Len(ring) : i > L => i \in L + 1 .. Len(ring)
      BY <1>0, <2>1
    <3> QED
      BY <1>0, <2>1, <3>1, <3>2, <3>3, <3>4
  <2>4. Cardinality(L + 1 .. Len(ring)) = Len(ring) - L
    <3>1. CASE L = Len(ring)
      <4>1. L + 1 .. Len(ring) = {}
        BY <1>0, <3>1
      <4> QED
        BY <1>0, <3>1, <4>1, FS_EmptySet
    <3>2. CASE L # Len(ring)
      <4>0. L \in Int /\ Len(ring) \in Int /\ L <= Len(ring)
        BY ONLY <1>0, <2>1
      <4>1. L + 1 \in Int /\ Len(ring) \in Int /\ ~ (L + 1 > Len(ring))
        BY ONLY <3>2, <4>0
      <4>2. Cardinality(L + 1 .. Len(ring)) = Len(ring) - (L + 1) + 1
        BY <4>1, FS_Interval
      <4> QED
        BY <1>0, <2>1, <4>2
    <3> QED
      BY <3>1, <3>2
  <2> QED
    BY <2>2, <2>3, <2>4
<1>7. ASSUME NEW i \in 1 .. N - 1
      PROVE  F * MinStep <= s[i + 1] - s[i] /\ s[i + 1] - s[i] <= F * MaxStep
  <2>1. i \in 1 .. N /\ i + 1 \in 1 .. N
    OBVIOUS
  <2>2. s[i] = ring[at(i)] /\ s[i + 1] = ring[at(i + 1)]
    BY <2>1
  <2>3. at(i) \in m .. Len(ring) /\ at(i + 1) \in m .. Len(ring)
    BY <1>1, <2>1
  <2>4. at(i + 1) = at(i) + F
    <3>1. i * F = (i - 1) * F + F /\ (i - 1) * F \in Int
      OBVIOUS
    <3>2. at(i + 1) = m + i * F
      OBVIOUS
    <3> QED
      BY <3>1, <3>2
  <2> HIDE DEF at
  <2>5. at(i) + F <= Len(ring)
    BY <1>0, <2>3, <2>4
  <2>6. /\ F * MinStep <= ring[at(i) + F] - ring[at(i)]
        /\ ring[at(i) + F] - ring[at(i)] <= F * MaxStep
    BY <2>3, <2>5, StepsAddUp
  <2> QED
    BY <2>2, <2>4, <2>6
<1>8. s[1] = ring[m]
  <2>1. s[1] = ring[at(1)]
    OBVIOUS
  <2> HIDE DEF at
  <2> QED
    BY <1>4, <2>1
<1> HIDE DEF at
<1> QED
  BY <1>3, <1>5, <1>6, <1>7, <1>8

(* A ring on its grid answers metrics.history as it declares. *)
LEMMA HistoryHolds ==
  ASSUME RingInv
  PROVE  HistoryAsDeclared
<1> SUFFICES ASSUME NEW backfill \in 0 .. MaxTime, History(backfill, MaxTime).samples # <<>>
             PROVE  LET h == History(backfill, MaxTime)
                        s == h.samples
                    IN  /\ Len(s) <= MaxHistory
                        /\ s[1] >= MaxTime - backfill
                        /\ Cardinality({i \in DOMAIN ring : ring[i] > s[Len(s)]}) * RingInterval < h.interval
                        /\ \A i \in 1 .. Len(s) - 1 :
                              LET step == s[i + 1] - s[i]
                              IN  2 * step >= h.interval /\ 2 * step <= 3 * h.interval
  BY DEF HistoryAsDeclared
<1> DEFINE horizon == MaxTime - backfill
           I == RunIndices(horizon)
<1>0. /\ Len(ring) \in Nat /\ DOMAIN ring = 1 .. Len(ring) /\ \A i \in 1 .. Len(ring) : ring[i] \in Int
      /\ MaxHistory \in Nat \ {0} /\ RingInterval \in Nat \ {0} /\ horizon \in Int
  BY LenProperties, ElementOfSeq, RingAssumption DEF RingInv, RingTypeOK
<1>1. backfill # 0 /\ Cardinality(I) # 0
  BY FS_EmptySet DEF History
<1>2. I # {}
  BY <1>1, FS_EmptySet
<1>3. PICK m \in 1 .. Len(ring) :
         I = m .. Len(ring) /\ EvenlySpaced(m) /\ ring[m] >= horizon /\ Cardinality(I) = Len(ring) - m + 1
  BY <1>0, <1>2, RunIsSuffix
<1> DEFINE len == Len(ring) - m + 1
           F   == DivCeil(len, MaxHistory)
           N   == DivCeil(len, F)
           s   == [n \in 1 .. N |-> ring[m + (n - 1) * F]]
<1>4. len \in Nat \ {0}
  BY <1>0
<1>5. F \in Nat \ {0} /\ len <= F * MaxHistory
  <2> HIDE DEF len
  <2> QED
    BY <1>0, <1>4, DivCeilBounds DEF DivCeil
<1>6. N \in Nat \ {0} /\ (N - 1) * F < len /\ len <= N * F
  <2> HIDE DEF len, F
  <2> QED
    BY <1>4, <1>5, DivCeilBounds DEF DivCeil
<1>7. History(backfill, MaxTime) = [interval |-> RingInterval * F, samples |-> s]
  <2>1. Len(ring) - Cardinality(I) + 1 = m
    BY <1>0, <1>3
  <2> QED
    BY <1>1, <1>3, <2>1 DEF History, Factor
<1> HIDE DEF F, N
<1>8. F * MaxHistory = MaxHistory * F
  BY <1>0, <1>5
<1>9. /\ s \in Seq(Int) /\ Len(s) = N /\ N <= MaxHistory /\ s[1] = ring[m]
      /\ Cardinality({i \in DOMAIN ring : ring[i] > s[N]}) < F
      /\ \A i \in 1 .. N - 1 : F * MinStep <= s[i + 1] - s[i] /\ s[i + 1] - s[i] <= F * MaxStep
  <2>1. len <= MaxHistory * F
    BY <1>5, <1>8
  <2> QED
    BY <1>3, <1>5, <1>6, <2>1, HistoryOfRun
<1> HIDE DEF s
<1> DEFINE newer == {i \in DOMAIN ring : ring[i] > s[N]}
<1>10. Cardinality(newer) * RingInterval < RingInterval * F
  <2>1. newer \subseteq 1 .. Len(ring)
    BY <1>0
  <2>2. IsFiniteSet(1 .. Len(ring))
    BY <1>0, FS_Interval
  <2>3. Cardinality(newer) \in Nat
    <3> HIDE DEF newer
    <3> QED
      BY <2>1, <2>2, FS_Subset, FS_CardinalityType
  <2> DEFINE c == Cardinality(newer)
  <2>4. c \in Int /\ c < F
    BY <1>9, <2>3
  <2> HIDE DEF c
  <2>5. (c + 1) * RingInterval <= F * RingInterval
    BY <1>0, <1>5, <2>4, TimesMonotone
  <2>6. (c + 1) * RingInterval = c * RingInterval + RingInterval /\ c * RingInterval \in Int
        /\ F * RingInterval = RingInterval * F /\ RingInterval * F \in Int
    BY <1>0, <1>5, <2>4
  <2>7. c * RingInterval < RingInterval * F
    BY <1>0, <2>5, <2>6
  <2> QED
    BY <2>7 DEF c
<1>11. ASSUME NEW i \in 1 .. N - 1
       PROVE  /\ 2 * (s[i + 1] - s[i]) >= RingInterval * F
              /\ 2 * (s[i + 1] - s[i]) <= 3 * (RingInterval * F)
  <2>1. 2 * MinStep = RingInterval /\ 2 * MaxStep = 3 * RingInterval /\ MinStep \in Int /\ MaxStep \in Int
    BY RingAssumption DEF MinStep, MaxStep
  <2>2. 2 * (F * MinStep) = RingInterval * F /\ 2 * (F * MaxStep) = 3 * (RingInterval * F)
    <3>1. 2 * (F * MinStep) = (2 * MinStep) * F /\ 2 * (F * MaxStep) = (2 * MaxStep) * F
      BY <1>5, <2>1
    <3>2. (3 * RingInterval) * F = 3 * (RingInterval * F)
      BY <1>0, <1>5
    <3> QED
      BY <2>1, <3>1, <3>2
  <2> DEFINE a == F * MinStep
             b == F * MaxStep
             x == s[i + 1] - s[i]
  <2>3. a \in Int /\ b \in Int
    BY <1>5, <2>1
  <2>4. a <= x /\ x <= b
    BY <1>9
  <2>5. x \in Int
    BY <1>6, <1>9, ElementOfSeq
  <2> HIDE DEF a, b, x
  <2>6. 2 * x >= 2 * a /\ 2 * x <= 2 * b
    BY <2>3, <2>4, <2>5
  <2> QED
    BY <2>2, <2>6 DEF a, b, x
<1>12. ring[m] >= MaxTime - backfill
  BY <1>3
<1> DEFINE h == History(backfill, MaxTime)
<1>13. h.interval = RingInterval * F /\ h.samples = s
  BY <1>7
<1> HIDE DEF h
<1>14. Cardinality({i \in DOMAIN ring : ring[i] > h.samples[Len(h.samples)]}) * RingInterval < h.interval
  BY <1>9, <1>10, <1>13
<1>15. /\ Len(h.samples) <= MaxHistory /\ h.samples[1] >= MaxTime - backfill
       /\ \A i \in 1 .. Len(h.samples) - 1 :
             /\ 2 * (h.samples[i + 1] - h.samples[i]) >= h.interval
             /\ 2 * (h.samples[i + 1] - h.samples[i]) <= 3 * h.interval
  BY <1>9, <1>11, <1>12, <1>13
<1> QED
  BY <1>14, <1>15 DEF h

(* What metrics.history answers is what it declares, for every backfill,    *)
(* however the clock jumped and whatever the ring has dropped.              *)
THEOREM HistoryDeclared == RingSpec => []HistoryAsDeclared
<1>1. RingInit => RingInv
  BY DEF RingInit, RingInv, RingTypeOK, OneSamplePerInterval
<1>2. RingInv /\ [RingNext]_ringVars => RingInv'
  BY RingInvStep
<1>3. RingInv => HistoryAsDeclared
  BY HistoryHolds
<1> QED
  BY <1>1, <1>2, <1>3, PTL DEF RingSpec

-----------------------------------------------------------------------------
(* The collector *)

(* The row of an adapter itself, the rows that were summed for the baseline *)
(* and what their counters add up to now.                                   *)
Row(a) == [index |-> <<a, "interface">>, of |-> a, filter |-> FALSE]
AdapterRows == {Row(a) : a \in Adapters}
BaseRows == {row \in AdapterRows : row.index \in net.interfaces}
Counters == [Interfaces -> [Directions -> Nat]]
SumOf(rows, counters, d) == SumFunction([row \in rows |-> counters[row.of][d]])

Baselines ==
    [known : BOOLEAN, total : [Directions -> Int],
     interfaces : SUBSET {row.index : row \in AdapterRows}, older : BOOLEAN]

CollectorTypeOK ==
    /\ octets \in Counters /\ moved \in [Directions -> Int]
    /\ net \in Baselines

(* The baseline and the traffic since account for all that the same         *)
(* interfaces count now, and for no more when nothing disturbed them.       *)
BaselineInv ==
    /\ \A d \in Directions :
         /\ SumOf(BaseRows, octets, d) <= net.total[d] + moved[d]
         /\ ~ disturbed => SumOf(BaseRows, octets, d) = net.total[d] + moved[d]
    /\ ~ disturbed => BaseRows = CountedRows

CollectorInv == CollectorTypeOK /\ BaselineInv /\ NoPhantomBurst

(* Filters and the loopback are not counted. *)
LEMMA RowsCounted ==
  /\ CountedRows = {Row(a) : a \in up \cap Adapters}
  /\ CountedRows \in SUBSET AdapterRows
  /\ CountedRows = {row \in AdapterRows : row.index \in NetCounters.interfaces}
<1>1. ASSUME NEW row \in CountedRows PROVE \E a \in up \cap Adapters : row = Row(a)
  BY DEF CountedRows, IfTable, Interfaces, Row
<1>2. ASSUME NEW a \in up \cap Adapters PROVE Row(a) \in CountedRows
  BY CollectorAssumption DEF CountedRows, IfTable, Interfaces, Row
<1>3. CountedRows = {Row(a) : a \in up \cap Adapters}
  BY <1>1, <1>2
<1>4. CountedRows \in SUBSET AdapterRows
  BY <1>3 DEF AdapterRows
<1>5. \A row, other \in AdapterRows : row.index = other.index => row = other
  <2>1. \A a : Row(a).index = <<a, "interface">>
    BY DEF Row
  <2>2. \A a, b : <<a, "interface">> = <<b, "interface">> => a = b
    OBVIOUS
  <2> QED
    BY <2>1, <2>2 DEF AdapterRows
<1>6. NetCounters.interfaces = {row.index : row \in CountedRows}
  BY DEF NetCounters
<1> QED
  BY <1>3, <1>4, <1>5, <1>6

(* A table of adapters is finite. *)
LEMMA RowsFinite == ASSUME NEW rows \in SUBSET AdapterRows PROVE IsFiniteSet(rows)
<1>1. IsFiniteSet(AdapterRows)
  <2> DEFINE f == [a \in Adapters |-> Row(a)]
  <2>1. f \in Surjection(Adapters, AdapterRows)
    BY DEF Surjection, AdapterRows
  <2> QED
    BY <2>1, CollectorAssumption, FS_Surjection DEF ExistsSurjection
<1> QED
  BY <1>1, FS_Subset

(* A total of counters is an integer. *)
LEMMA SumOfType ==
  ASSUME NEW rows \in SUBSET AdapterRows, NEW o \in Counters, NEW d \in Directions
  PROVE  SumOf(rows, o, d) \in Int
<1> DEFINE f == [row \in rows |-> o[row.of][d]]
<1>1. IsFiniteSet(rows)
  BY RowsFinite
<1>2. \A row \in rows : row.of \in Interfaces
  BY DEF AdapterRows, Row, Interfaces
<1>3. DOMAIN f = rows /\ \A row \in rows : f[row] \in Int
  BY <1>2 DEF Counters
<1> HIDE DEF f
<1>4. SumFunction(f) \in Int
  BY <1>1, <1>3, SumType
<1> QED
  BY <1>4 DEF SumOf, f

(* When the counters of one interface change, the sum over a set of rows    *)
(* changes by as much if the interface is among them.                       *)
LEMMA SumOfOne ==
  ASSUME NEW rows \in SUBSET AdapterRows, NEW o \in Counters, NEW n \in Counters,
         NEW d \in Directions, NEW i \in Interfaces, \A j \in Interfaces \ {i} : o[j] = n[j]
  PROVE  /\ Row(i) \in rows => SumOf(rows, n, d) = SumOf(rows, o, d) - o[i][d] + n[i][d]
         /\ Row(i) \notin rows => SumOf(rows, n, d) = SumOf(rows, o, d)
<1> DEFINE f == [row \in rows |-> o[row.of][d]]
           e == [row \in rows |-> n[row.of][d]]
<1>1. IsFiniteSet(rows)
  BY RowsFinite
<1>2. \A row \in rows : row.of \in Interfaces /\ row = Row(row.of)
  BY DEF AdapterRows, Row, Interfaces
<1>3. /\ DOMAIN f = rows /\ \A row \in rows : f[row] \in Int
      /\ DOMAIN e = rows /\ \A row \in rows : e[row] \in Int
  BY <1>2 DEF Counters
<1>4. CASE Row(i) \in rows
  <2>1. ASSUME NEW row \in rows \ {Row(i)} PROVE f[row] = e[row]
    <3>1. row.of \in Interfaces \ {i}
      BY <1>2
    <3> QED
      BY <3>1
  <2>2. f[Row(i)] = o[i][d] /\ e[Row(i)] = n[i][d]
    <3>1. Row(i).of = i
      BY DEF Row
    <3> QED
      BY <1>4, <3>1
  <2> HIDE DEF f, e
  <2>3. SumFunction(e) = SumFunction(f) - f[Row(i)] + e[Row(i)]
    BY <1>1, <1>3, <1>4, <2>1, SumUpdate
  <2> QED
    BY <1>4, <2>2, <2>3 DEF SumOf, f, e
<1>5. CASE Row(i) \notin rows
  <2>1. f = e
    BY <1>2, <1>5
  <2> QED
    BY <1>5, <2>1 DEF SumOf
<1> QED
  BY <1>4, <1>5

(* A reading that is taken replaces the baseline by what is counted now. *)
LEMMA FreshBaseline ==
  ASSUME octets \in Counters
  PROVE  /\ NetCounters.total \in [Directions -> Int]
         /\ NetCounters.interfaces \in SUBSET {row.index : row \in AdapterRows}
         /\ \A d \in Directions : NetCounters.total[d] = SumOf(CountedRows, octets, d)
<1>1. \A d \in Directions : SumOf(CountedRows, octets, d) \in Int
  BY RowsCounted, SumOfType
<1>2. \A d \in Directions : Total(d) = SumOf(CountedRows, octets, d)
  BY DEF Total, SumOf
<1>3. NetCounters.total = [d \in Directions |-> Total(d)]
  BY DEF NetCounters
<1>4. NetCounters.interfaces \in SUBSET {row.index : row \in AdapterRows}
  BY RowsCounted DEF NetCounters
<1> QED
  BY <1>1, <1>2, <1>3, <1>4

(* What a complete sample leaves for the next one is a baseline. *)
LEMMA BaselineType ==
  ASSUME NEW k \in BOOLEAN, NEW t \in [Directions -> Int],
         NEW i \in SUBSET {row.index : row \in AdapterRows}
  PROVE  [known |-> k, total |-> t, interfaces |-> i, older |-> FALSE] \in Baselines
<1> DEFINE I == {row.index : row \in AdapterRows}
           F == [Directions -> Int]
<1>1. t \in F /\ i \in SUBSET I
  OBVIOUS
<1> HIDE DEF I, F
<1>2. [known |-> k, total |-> t, interfaces |-> i, older |-> FALSE]
         \in [known : BOOLEAN, total : F, interfaces : SUBSET I, older : BOOLEAN]
  BY <1>1
<1> QED
  BY <1>2 DEF Baselines, I, F

(* The collector starts in the invariant. *)
LEMMA CollectorStarts == CollectorInit => CollectorInv
<1> SUFFICES ASSUME CollectorInit PROVE CollectorInv
  OBVIOUS
<1> DEFINE N == NetCounters
<1>1. octets \in Counters /\ moved = NoBytes /\ disturbed = FALSE /\ sample = NoSample
  BY DEF CollectorInit, Counters, NoBytes
<1>2. /\ N.total \in [Directions -> Int]
      /\ N.interfaces \in SUBSET {row.index : row \in AdapterRows}
      /\ \A d \in Directions : N.total[d] = SumOf(CountedRows, octets, d)
  BY <1>1, FreshBaseline
<1>3. N \in Baselines
  <2>1. N = [known |-> TRUE, total |-> N.total, interfaces |-> N.interfaces, older |-> FALSE]
    BY DEF NetCounters
  <2> HIDE DEF N
  <2> QED
    BY <1>2, <2>1, BaselineType
<1>4. net \in Baselines /\ net.total = N.total /\ net.interfaces = N.interfaces
  <2>1. net = N \/ net = [N EXCEPT !.known = FALSE]
    BY DEF CollectorInit
  <2> HIDE DEF N
  <2> QED
    BY <1>3, <2>1 DEF Baselines
<1>5. BaseRows = CountedRows
  BY <1>4, RowsCounted DEF BaseRows
<1> HIDE DEF N
<1>6. CollectorTypeOK
  BY <1>1, <1>4 DEF CollectorTypeOK, NoBytes
<1>7. BaselineInv
  <2>1. ASSUME NEW d \in Directions
        PROVE  SumOf(BaseRows, octets, d) = net.total[d] + moved[d] /\ net.total[d] + moved[d] \in Int
    BY <1>1, <1>2, <1>4, <1>5 DEF NoBytes
  <2> QED
    BY <1>5, <2>1 DEF BaselineInv
<1>8. NoPhantomBurst
  BY <1>1 DEF NoPhantomBurst, NoSample
<1> QED
  BY <1>6, <1>7, <1>8 DEF CollectorInv

(* What a reading is worth: with the interfaces of the baseline, the sums   *)
(* differ by at most the traffic since.                                     *)
LEMMA RatesWereCarried ==
  ASSUME CollectorTypeOK, BaselineInv, NEW d \in Directions, Rates.known
  PROVE  /\ Rates.bytes[d] <= Rates.moved[d]
         /\ ~ Rates.disturbed => Rates.bytes[d] = Rates.moved[d]
<1>1. Comparable
  BY DEF Rates, NoSample
<1>2. Rates.bytes[d] = Total(d) - net.total[d] /\ Rates.moved = moved /\ Rates.disturbed = disturbed
  BY <1>1 DEF Rates
<1>3. BaseRows = CountedRows
  BY <1>1, RowsCounted DEF Comparable, BaseRows
<1>4. Total(d) = SumOf(BaseRows, octets, d)
  BY <1>3 DEF Total, SumOf
<1>5. SumOf(BaseRows, octets, d) \in Int /\ net.total[d] \in Int /\ moved[d] \in Int
  BY SumOfType DEF CollectorTypeOK, Baselines, BaseRows
<1>6. /\ SumOf(BaseRows, octets, d) <= net.total[d] + moved[d]
      /\ ~ disturbed => SumOf(BaseRows, octets, d) = net.total[d] + moved[d]
  BY DEF BaselineInv
<1> QED
  BY <1>2, <1>4, <1>5, <1>6

(* Every sample, link change and driver restart preserves the invariant. *)
LEMMA CollectorStep == CollectorInv /\ [CollectorNext]_collectorVars => CollectorInv'
<1> SUFFICES ASSUME CollectorInv, [CollectorNext]_collectorVars PROVE CollectorInv'
  OBVIOUS
<1> USE DEF CollectorInv
<1> DEFINE B == BaseRows
<1>0. /\ B \in SUBSET AdapterRows
      /\ \A d \in Directions : /\ SumOf(B, octets, d) \in Int /\ net.total[d] \in Int
                                 /\ moved[d] \in Int
  BY SumOfType DEF CollectorTypeOK, Baselines, BaseRows
<1>1. ASSUME NEW i \in Interfaces, NEW d \in Directions, Traffic(i, d) PROVE CollectorInv'
  <2>1. octets' \in Counters /\ moved' \in [Directions -> Int]
    BY <1>1 DEF Traffic, CollectorTypeOK, Counters
  <2>2. UNCHANGED <<up, net, sample, disturbed>>
    BY <1>1 DEF Traffic
  <2>3. CollectorTypeOK' /\ NoPhantomBurst' /\ BaseRows' = BaseRows /\ CountedRows' = CountedRows
    BY <2>1, <2>2 DEF CollectorTypeOK, NoPhantomBurst, BaseRows, CountedRows
  <2>4. \A j \in Interfaces \ {i} : octets[j] = octets'[j]
    BY <1>1 DEF Traffic, CollectorTypeOK, Counters
  <2>5. ASSUME NEW c \in Directions
        PROVE  /\ octets[i][c] \in Int
               /\ octets'[i][c] = octets[i][c] + (IF c = d THEN 1 ELSE 0)
               /\ i \in Adapters => moved'[c] = moved[c] + (IF c = d THEN 1 ELSE 0)
               /\ i \notin Adapters => moved'[c] = moved[c]
    BY <1>1 DEF Traffic, CollectorTypeOK, Counters
  <2>6. Row(i) \in B => i \in Adapters
    BY DEF BaseRows, AdapterRows, Row
  <2>7. ~ disturbed /\ i \in Adapters => Row(i) \in B
    BY <1>1, RowsCounted DEF BaselineInv, Traffic
  <2>8. ASSUME NEW c \in Directions
        PROVE  /\ SumOf(B, octets', c) <= net.total[c] + moved'[c]
               /\ ~ disturbed => SumOf(B, octets', c) = net.total[c] + moved'[c]
    <3>1. /\ Row(i) \in B => SumOf(B, octets', c) = SumOf(B, octets, c) - octets[i][c] + octets'[i][c]
          /\ Row(i) \notin B => SumOf(B, octets', c) = SumOf(B, octets, c)
      BY <1>0, <2>1, <2>4, SumOfOne DEF CollectorTypeOK
    <3>2. /\ SumOf(B, octets, c) <= net.total[c] + moved[c]
          /\ ~ disturbed => SumOf(B, octets, c) = net.total[c] + moved[c]
      BY DEF BaselineInv
    <3> DEFINE u == SumOf(B, octets, c)
               v == SumOf(B, octets', c)
               w == octets[i][c]
               k == IF c = d THEN 1 ELSE 0
    <3>3. /\ u \in Int /\ w \in Int /\ net.total[c] \in Int /\ moved[c] \in Int /\ k \in {0, 1}
          /\ Row(i) \in B => v = u - w + (w + k)
          /\ Row(i) \notin B => v = u
          /\ u <= net.total[c] + moved[c]
          /\ ~ disturbed => u = net.total[c] + moved[c]
          /\ i \in Adapters => moved'[c] = moved[c] + k
          /\ i \notin Adapters => moved'[c] = moved[c]
      BY <1>0, <2>5, <3>1, <3>2
    <3> HIDE DEF u, v, w, k
    <3>4. /\ v <= net.total[c] + moved'[c]
          /\ ~ disturbed => v = net.total[c] + moved'[c]
      BY <2>6, <2>7, <3>3
    <3> QED
      BY <3>4 DEF u, v
  <2> QED
    BY <2>2, <2>3, <2>8 DEF BaselineInv
<1>2. ASSUME NEW a \in Adapters, LinkChanges(a) PROVE CollectorInv'
  <2>1. disturbed' = TRUE /\ UNCHANGED <<octets, net, sample, moved>>
    BY <1>2 DEF LinkChanges
  <2> QED
    BY <2>1 DEF CollectorTypeOK, NoPhantomBurst, BaselineInv, BaseRows
<1>3. ASSUME NEW a \in Adapters, DriverReset(a) PROVE CollectorInv'
  <2>0. a \in Interfaces
    BY DEF Interfaces
  <2>1. octets' \in Counters /\ octets'[a] = NoBytes
    BY <1>3, <2>0 DEF DriverReset, CollectorTypeOK, Counters, NoBytes
  <2>2. disturbed' = TRUE /\ UNCHANGED <<net, sample, moved>>
    BY <1>3 DEF DriverReset
  <2>3. CollectorTypeOK' /\ NoPhantomBurst' /\ BaseRows' = BaseRows
    BY <2>1, <2>2 DEF CollectorTypeOK, NoPhantomBurst, BaseRows
  <2>4. \A j \in Interfaces \ {a} : octets[j] = octets'[j]
    BY <1>3 DEF DriverReset, CollectorTypeOK, Counters
  <2>5. ASSUME NEW c \in Directions PROVE SumOf(B, octets', c) <= net.total[c] + moved[c]
    <3>1. /\ Row(a) \in B => SumOf(B, octets', c) = SumOf(B, octets, c) - octets[a][c] + octets'[a][c]
          /\ Row(a) \notin B => SumOf(B, octets', c) = SumOf(B, octets, c)
      BY <1>0, <2>0, <2>1, <2>4, SumOfOne DEF CollectorTypeOK
    <3>2. SumOf(B, octets, c) <= net.total[c] + moved[c]
      BY DEF BaselineInv
    <3>3. octets[a][c] \in Nat /\ octets'[a][c] = 0
      BY <2>0, <2>1 DEF CollectorTypeOK, Counters, NoBytes
    <3> DEFINE u == SumOf(B, octets, c)
               v == SumOf(B, octets', c)
               w == octets[a][c]
    <3>4. /\ u \in Int /\ w \in Nat /\ net.total[c] \in Int /\ moved[c] \in Int
          /\ u <= net.total[c] + moved[c] /\ (v = u - w + 0 \/ v = u)
      BY <1>0, <3>1, <3>2, <3>3
    <3> HIDE DEF u, v, w
    <3>5. v <= net.total[c] + moved[c]
      BY <3>4
    <3> QED
      BY <3>5 DEF v
  <2> QED
    BY <2>2, <2>3, <2>5 DEF BaselineInv
<1>4. CASE TimePasses
  <2>1. /\ net' = [net EXCEPT !.older = TRUE]
        /\ UNCHANGED <<up, octets, sample, moved, disturbed>>
    BY <1>4 DEF TimePasses
  <2>2. net'.total = net.total /\ net'.interfaces = net.interfaces
    BY <2>1 DEF CollectorTypeOK, Baselines
  <2>3. CollectorTypeOK'
    BY <2>1 DEF CollectorTypeOK, Baselines
  <2> QED
    BY <2>1, <2>2, <2>3 DEF NoPhantomBurst, BaselineInv, BaseRows, CountedRows
<1>5. CASE SampleNoBaseline \/ SampleIncomplete
  <2>1. sample' = NoSample /\ UNCHANGED <<up, octets, net, moved, disturbed>>
    BY <1>5 DEF SampleNoBaseline, SampleIncomplete
  <2>2. NoPhantomBurst'
    BY <2>1 DEF NoPhantomBurst, NoSample
  <2> QED
    BY <2>1, <2>2 DEF CollectorTypeOK, BaselineInv, BaseRows, CountedRows
<1>6. CASE SampleComplete
  <2>1. /\ net' = NetCounters /\ moved' = NoBytes /\ disturbed' = FALSE
        /\ sample' = (IF net.known THEN Rates ELSE NoSample)
        /\ UNCHANGED <<up, octets>>
    BY <1>6 DEF SampleComplete
  <2> DEFINE N == NetCounters
  <2>2. /\ N.total \in [Directions -> Int]
        /\ N.interfaces \in SUBSET {row.index : row \in AdapterRows}
        /\ \A d \in Directions : N.total[d] = SumOf(CountedRows, octets, d)
    BY FreshBaseline DEF CollectorTypeOK
  <2>3. N = [known |-> TRUE, total |-> N.total, interfaces |-> N.interfaces, older |-> FALSE]
    BY DEF NetCounters
  <2>4. BaseRows' = CountedRows /\ CountedRows' = CountedRows
    BY <2>1, RowsCounted DEF BaseRows, CountedRows
  <2> HIDE DEF N
  <2>5. CollectorTypeOK'
    <3>1. N \in Baselines
      BY <2>2, <2>3, BaselineType
    <3>2. net' \in Baselines
      BY <2>1, <3>1 DEF N
    <3> QED
      BY <2>1, <3>2 DEF CollectorTypeOK, NoBytes
  <2>6. ASSUME NEW d \in Directions
        PROVE  SumOf(BaseRows', octets', d) = net'.total[d] + moved'[d]
               /\ net'.total[d] + moved'[d] \in Int
    BY <2>1, <2>2, <2>4 DEF NoBytes, N
  <2>7. BaselineInv'
    BY <2>4, <2>6 DEF BaselineInv
  <2>8. NoPhantomBurst'
    <3>1. CASE net.known
      BY <2>1, <3>1, RatesWereCarried DEF NoPhantomBurst
    <3>2. CASE ~ net.known
      BY <2>1, <3>2 DEF NoPhantomBurst, NoSample
    <3> QED
      BY <3>1, <3>2
  <2> QED
    BY <2>5, <2>7, <2>8
<1>7. CASE UNCHANGED collectorVars
  BY <1>7 DEF collectorVars, CollectorTypeOK, NoPhantomBurst, BaselineInv, BaseRows, CountedRows
<1> QED
  BY <1>1, <1>2, <1>3, <1>4, <1>5, <1>6, <1>7 DEF CollectorNext

(* No sample reports traffic that the adapters did not carry, for any set   *)
(* of adapters, however links, drivers and failed samples interleave.       *)
THEOREM BurstsAreReal == CollectorSpec => []NoPhantomBurst
<1>1. CollectorInv => NoPhantomBurst
  BY DEF CollectorInv
<1> QED
  BY <1>1, CollectorStarts, CollectorStep, PTL DEF CollectorSpec
=============================================================================
