------------------------------ MODULE Collector ------------------------------
(***************************************************************************)
(* What a sample says of the network (metrics/collect/windows_impl.rs).    *)
(* The collector sums the octet counters of the interfaces that are up and *)
(* differences two such sums.  Interfaces come and go and keep their       *)
(* counters, drivers reset them, every adapter has a filter row that       *)
(* repeats its counters, and a sample that fails half way leaves one of    *)
(* the two baselines replaced and the other as it was.                     *)
(*                                                                         *)
(* A throughput is the bytes of its interval: the division by the elapsed  *)
(* time is left out, and so are memory, volumes and the percentage itself. *)
(***************************************************************************)
EXTENDS Integers, FiniteSets, Functions

CONSTANTS
    Adapters,       \* network adapters
    Loopback,       \* the loopback interface
    MaxOctets,      \* bound on a counter
    MaxMoved        \* bound on the traffic between two readings

ASSUME CollectorAssumption ==
    /\ MaxOctets \in Nat /\ MaxMoved \in Nat
    /\ IsFiniteSet(Adapters) /\ Loopback \notin Adapters

Directions == {"rx", "tx"}
Interfaces == Adapters \cup {Loopback}

VARIABLES
    up,             \* interfaces with OperStatus up
    octets,         \* InOctets and OutOctets of every interface
    cpu,            \* previous_cpu: "none", or whether processor time has elapsed since: "same", "older"
    net,            \* previous_net: known or not, the totals, the interfaces, whether time has elapsed
    sample,         \* the last result of sample()
    moved,          \* history: bytes the adapters carried since previous_net
    disturbed       \* history: a link changed or a counter was reset since previous_net

collectorVars == <<up, octets, cpu, net, sample, moved, disturbed>>

NoBytes == [d \in Directions |-> 0]
NoSample == [known |-> FALSE, bytes |-> NoBytes, moved |-> NoBytes, disturbed |-> FALSE]

(* GetIfTable2: a row for every interface, and for every adapter one of its *)
(* bound filter driver, with the adapter's counters and state.              *)
IfTable ==
    {[index |-> <<i, "interface">>, of |-> i, filter |-> FALSE] : i \in Interfaces}
        \cup {[index |-> <<a, "filter">>, of |-> a, filter |-> TRUE] : a \in Adapters}

CountedRows ==
    {row \in IfTable : row.of # Loopback /\ row.of \in up /\ ~ row.filter}

Total(d) == SumFunction([row \in CountedRows |-> octets[row.of][d]])

(* net_counters, just read *)
NetCounters ==
    [known |-> TRUE, total |-> [d \in Directions |-> Total(d)],
     interfaces |-> {row.index : row \in CountedRows}, older |-> FALSE]

(* A slip: sums over different interfaces are differenced. *)
ComparableWhateverSet ==
    net.older /\ \A d \in Directions : Total(d) >= net.total[d]

(* rates: when two readings say something of the traffic between them *)
Comparable ==
    /\ net.older
    /\ net.interfaces = NetCounters.interfaces
    /\ \A d \in Directions : Total(d) >= net.total[d]

Rates ==
    IF Comparable
    THEN [known |-> TRUE, bytes |-> [d \in Directions |-> Total(d) - net.total[d]],
          moved |-> moved, disturbed |-> disturbed]
    ELSE NoSample

-----------------------------------------------------------------------------
(* The machine *)

Traffic(i, d) ==
    /\ i \in up /\ octets[i][d] < MaxOctets /\ moved[d] < MaxMoved
    /\ octets' = [octets EXCEPT ![i][d] = @ + 1]
    /\ moved' = IF i \in Adapters THEN [moved EXCEPT ![d] = @ + 1] ELSE moved
    /\ UNCHANGED <<up, cpu, net, sample, disturbed>>

LinkChanges(a) ==
    /\ up' = IF a \in up THEN up \ {a} ELSE up \cup {a}
    /\ disturbed' = TRUE
    /\ UNCHANGED <<octets, cpu, net, sample, moved>>

DriverReset(a) ==
    /\ octets[a] # NoBytes
    /\ octets' = [octets EXCEPT ![a] = NoBytes]
    /\ disturbed' = TRUE
    /\ UNCHANGED <<up, cpu, net, sample, moved>>

TimePasses ==
    /\ cpu' = IF cpu = "same" THEN "older" ELSE cpu
    /\ net' = [net EXCEPT !.older = TRUE]
    /\ UNCHANGED <<up, octets, sample, moved, disturbed>>

-----------------------------------------------------------------------------
(* Collector::sample *)

(* busy_percent: there is a share of the processor time only when some has  *)
(* passed since an earlier reading.                                         *)
BusyPercentKnown == cpu = "older"

(* The processor times replace their baseline first.  Without an older one  *)
(* there is no percentage and the sample ends here.                         *)
SampleNoBaseline ==
    /\ ~ BusyPercentKnown
    /\ cpu' = "same" /\ sample' = NoSample
    /\ UNCHANGED <<up, octets, net, moved, disturbed>>

(* memory_status or net_counters fails: only the processor baseline moved. *)
SampleIncomplete ==
    /\ BusyPercentKnown
    /\ cpu' = "same" /\ sample' = NoSample
    /\ UNCHANGED <<up, octets, net, moved, disturbed>>

(* The network baseline is replaced whether or not it could be used. *)
SampleComplete ==
    /\ BusyPercentKnown
    /\ cpu' = "same" /\ net' = NetCounters
    /\ sample' = IF net.known THEN Rates ELSE NoSample
    /\ moved' = NoBytes /\ disturbed' = FALSE
    /\ UNCHANGED <<up, octets>>

(* Collector::new, whose two readings may each fail. *)
CollectorInit ==
    /\ up = Interfaces /\ octets = [i \in Interfaces |-> NoBytes]
    /\ cpu \in {"none", "same"}
    /\ net \in {NetCounters, [NetCounters EXCEPT !.known = FALSE]}
    /\ sample = NoSample /\ moved = NoBytes /\ disturbed = FALSE

CollectorNext ==
    \/ \E i \in Interfaces, d \in Directions : Traffic(i, d)
    \/ \E a \in Adapters : LinkChanges(a) \/ DriverReset(a)
    \/ TimePasses
    \/ SampleNoBaseline \/ SampleIncomplete \/ SampleComplete

CollectorSpec == CollectorInit /\ [][CollectorNext]_collectorVars

-----------------------------------------------------------------------------
(* Properties *)

(* A throughput that is reported was carried: never more than the adapters  *)
(* moved since the reading before, and exactly that much unless a link      *)
(* changed or a driver reset a counter meanwhile.  An adapter that rejoins  *)
(* with the octets it had, a filter row, the loopback or a sample that      *)
(* failed in between make no burst.                                         *)
NoPhantomBurst ==
    sample.known =>
        \A d \in Directions :
            /\ sample.bytes[d] <= sample.moved[d]
            /\ ~ sample.disturbed => sample.bytes[d] = sample.moved[d]
=============================================================================
