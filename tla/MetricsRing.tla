----------------------------- MODULE MetricsRing -----------------------------
(***************************************************************************)
(* The history the metrics engine keeps (metrics/ring.rs, the end of       *)
(* deliver in metrics/engine.rs).  A sample is stored when it is due on a  *)
(* fixed grid; the ring drops its oldest when full; metrics.history gets   *)
(* the newest run of evenly spaced samples, thinned to fit one message.    *)
(*                                                                         *)
(* A sample is its timestamp.  Timestamps come from the wall clock, which  *)
(* may jump either way (sleep, a clock that is set); they start at 1, and  *)
(* ringDue = 0 says that nothing was stored yet.                           *)
(***************************************************************************)
EXTENDS Integers, Sequences, FiniteSets

CONSTANTS
    RingInterval,       \* RING_INTERVAL_MS
    RingCapacity,       \* RING_CAPACITY
    MaxHistory,         \* MAX_HISTORY_SAMPLES
    MaxTime             \* bound on the clock

ASSUME RingAssumption ==
    /\ RingInterval \in Nat \ {0} /\ RingInterval % 2 = 0 /\ RingCapacity \in Nat \ {0}
    /\ MaxHistory \in Nat \ {0} /\ MaxTime \in Nat

VARIABLES ring, ringDue     \* Shared.ring, next_ring_due

ringVars == <<ring, ringDue>>

MinStep == RingInterval \div 2
MaxStep == (RingInterval * 3) \div 2
DivCeil(n, d) == (n + d - 1) \div d

(* RingBuffer::push *)
Push(ts) ==
    Append(IF Len(ring) = RingCapacity THEN Tail(ring) ELSE ring, ts)

(* A slip: the grid moves by one interval however late the sample is. *)
NextDueOnce(ts) ==
    IF ringDue = 0 THEN ts + RingInterval ELSE ringDue + RingInterval

(* The first point of the grid after the sample that was just stored. *)
NextDue(ts) ==
    IF ringDue = 0 THEN ts + RingInterval
    ELSE ringDue + ((ts - ringDue) \div RingInterval + 1) * RingInterval

(* deliver, after the subscribers: a sample whose throughput is unknown is  *)
(* never stored, one that is not due is not stored.                         *)
StoreSample(ts, known) ==
    IF known /\ ts >= ringDue
    THEN ring' = Push(ts) /\ ringDue' = NextDue(ts)
    ELSE UNCHANGED ringVars

(* A slip: only the width of a step is checked. *)
EvenlySpacedAbove(i) ==
    \A j \in i .. Len(ring) - 1 : ring[j + 1] - ring[j] <= MaxStep

EvenlySpaced(i) ==
    \A j \in i .. Len(ring) - 1 : ring[j + 1] - ring[j] \in MinStep .. MaxStep

(* The newest samples not older than the horizon, back to the first gap. *)
RunIndices(horizon) ==
    {i \in DOMAIN ring : EvenlySpaced(i) /\ \A j \in i .. Len(ring) : ring[j] >= horizon}

Factor(len) == DivCeil(len, MaxHistory)

(* RingBuffer::history.  No samples when nothing is in range. *)
History(backfill, now) ==
    LET indices == IF backfill = 0 THEN {} ELSE RunIndices(now - backfill)
        len     == Cardinality(indices)
        factor  == Factor(len)
        first   == Len(ring) - len + 1
    IN  IF len = 0 THEN [interval |-> RingInterval, samples |-> <<>>]
        ELSE [interval |-> RingInterval * factor,
              samples  |-> [n \in 1 .. DivCeil(len, factor) |-> ring[first + (n - 1) * factor]]]

RingInit == ring = <<>> /\ ringDue = 0

RingNext == \E ts \in 1 .. MaxTime, known \in BOOLEAN : StoreSample(ts, known)

RingSpec == RingInit /\ [][RingNext]_ringVars

-----------------------------------------------------------------------------
(* Properties *)

Cell(ts) == (ts - ringDue) \div RingInterval

(* Whatever the clock does, each interval of the grid holds at most one     *)
(* stored sample, in order, and the next one is due within an interval of   *)
(* the newest: an outage is not followed by a burst of stored samples.      *)
OneSamplePerInterval ==
    ring # <<>> =>
        /\ Cell(ring[Len(ring)]) = -1
        /\ \A i \in 1 .. Len(ring) - 1 : Cell(ring[i]) < Cell(ring[i + 1])

(* A history is what it declares: it fits one message, begins within the    *)
(* backfill asked for, reaches to less than one declared interval before    *)
(* the newest sample, and its samples are the declared interval apart, to   *)
(* half a step either way.  Holes, bunched samples and clock steps end the  *)
(* run rather than stretch it (RingBuffer::history).                        *)
HistoryAsDeclared ==
    \A backfill \in 0 .. MaxTime :
        LET h == History(backfill, MaxTime)
            s == h.samples
        IN  s # <<>> =>
              /\ Len(s) <= MaxHistory
              /\ s[1] >= MaxTime - backfill
              /\ Cardinality({i \in DOMAIN ring : ring[i] > s[Len(s)]}) * RingInterval < h.interval
              /\ \A i \in 1 .. Len(s) - 1 :
                   LET step == s[i + 1] - s[i]
                   IN  2 * step >= h.interval /\ 2 * step <= 3 * h.interval
=============================================================================
