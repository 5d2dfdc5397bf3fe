---------------------------- MODULE PairingProofs ----------------------------
(***************************************************************************)
(* Proofs about Pairing, for any number of attempts and offers.            *)
(***************************************************************************)
EXTENDS Pairing, TLAPS

\* An offer is on the screen exactly while the command runs, and sockets and
\* accepted attempts belong to offers that have been shown.
OfferInv ==
    /\ hpc = "closed" <=> offer = None
    /\ offer # None => offer \in used
    /\ \A a \in Attempts : at[a] # None => at[a] \in used
    /\ \A a \in accepted : at[a] # None

\* Up to its confirmation an attempt is served with the offer unused; from there
\* on it is the one the offer was consumed for.
ConsumeInv ==
    /\ ~ consumed => \A a \in accepted : at[a] # offer
    /\ hpc \in {"handshake", "confirm"} => ~ consumed
    /\ hpc \in {"accept", "record", "pin"} => peer \in accepted

\* The phone has confirmed, with the secret of the listener it reached.
Confirmed(a) == qr[a] = at[a] /\ ppc[a] \notin {"idle", "scanned", "dialed"}

\* What each message says about the side that sent it.
WireInv ==
    \A a \in Attempts :
        /\ wire[a] = "confirm" \/ ppc[a] = "confirmed" => Confirmed(a)
        /\ a \in accepted => Confirmed(a)
        /\ wire[a] = "accept" => a \in accepted
        /\ ppc[a] \in {"accepted", "paired"} => a \in accepted
        /\ ppc[a] \in {"idle", "scanned"} => at[a] = None /\ wire[a] = "none"

\* Between the audit record and the pin the record is there.
AuditInv ==
    /\ hpc = "pin" => [event |-> "succeeded", attempt |-> peer] \in audit
    /\ PinnedIsAudited

Inv == TypeOK /\ OfferInv /\ ConsumeInv /\ WireInv /\ OfferIsSingleUse /\ AuditInv

----------------------------------------------------------------------------
\* The command has not run and nobody has scanned anything.
LEMMA InvInit == Init => Inv
<1> SUFFICES ASSUME Init PROVE Inv
  OBVIOUS
<1>1. consumed \in BOOLEAN /\ expired \in BOOLEAN
  BY Zenon DEF Init
<1>2. TypeOK
  BY <1>1 DEF Init, TypeOK, Serving
<1>3. OfferInv /\ ConsumeInv /\ WireInv
  BY PairingAssumption DEF Init, OfferInv, ConsumeInv, WireInv, Confirmed
<1>4. OfferIsSingleUse /\ AuditInv
  BY DEF Init, OfferIsSingleUse, AuditInv, PinnedIsAudited
<1> QED
  BY <1>2, <1>3, <1>4 DEF Inv

\* The end of the command, whatever has been pinned and recorded before it: the
\* offer is gone, so nothing is claimed of it any more.
LEMMA LeaveKeeps ==
    ASSUME Inv, Leave, UNCHANGED <<used, served, accepted, phoneVars, wire, audit>>,
           pinned' \subseteq accepted,
           \A a \in pinned' : [event |-> "succeeded", attempt |-> a] \in audit
    PROVE  Inv'
<1>1. consumed' \in BOOLEAN /\ expired' \in BOOLEAN
  BY Zenon DEF Leave
<1>2. TypeOK'
  BY <1>1 DEF Inv, TypeOK, Leave, phoneVars, Serving
<1>3. OfferInv' /\ ConsumeInv' /\ WireInv'
  BY DEF Inv, OfferInv, ConsumeInv, WireInv, Confirmed, Leave, phoneVars
<1>4. OfferIsSingleUse' /\ AuditInv'
  BY DEF Inv, OfferIsSingleUse, AuditInv, PinnedIsAudited, Leave, phoneVars
<1> QED
  BY <1>2, <1>3, <1>4 DEF Inv

\* A step of the host keeps the invariant.
LEMMA InvHost == ASSUME Inv, HostStep PROVE Inv'
<1> USE PairingAssumption
<1> USE DEF Inv, TypeOK, OfferInv, ConsumeInv, WireInv, Confirmed, OfferIsSingleUse,
            AuditInv, PinnedIsAudited, phoneVars, Serving, Events
<1>1. ASSUME NEW o \in Offers, OpenWindow(o) PROVE Inv'
  <2>1. \A a \in accepted : at[a] # o
    BY <1>1 DEF OpenWindow
  <2> QED
    BY <1>1, <2>1 DEF OpenWindow
<1>2. CASE Expire
  <2>1. expired' \in BOOLEAN
    BY <1>2, Zenon DEF Expire
  <2> QED
    BY <1>2, <2>1 DEF Expire
<1>3. CASE LoopHead \/ NothingCame \/ RespondFails
  BY <1>3 DEF LoopHead, NothingCame, RespondFails
<1>4. CASE WindowCloses \/ PairEnds
  BY <1>4, LeaveKeeps DEF WindowCloses, PairEnds
<1>5. ASSUME NEW a \in Attempts, AcceptSocket(a) PROVE Inv'
  BY <1>5 DEF AcceptSocket
<1>6. CASE HostHandshake
  BY <1>6 DEF HostHandshake
<1>7. CASE ReadConfirm
  <2>1. consumed' \in BOOLEAN
    BY <1>7, Zenon DEF ReadConfirm
  <2>2. peer \in Attempts /\ at[peer] = offer /\ Confirmed(peer)
    BY <1>7 DEF ReadConfirm
  <2>3. TypeOK' /\ OfferInv' /\ AuditInv'
    BY <1>7, <2>1, <2>2 DEF ReadConfirm
  <2>4. ConsumeInv' /\ WireInv'
    BY <1>7, <2>2 DEF ReadConfirm
  <2>5. OfferIsSingleUse'
    BY <1>7, <2>2 DEF ReadConfirm
  <2> QED
    BY <2>3, <2>4, <2>5
<1>8. CASE SendAccept
  BY <1>8 DEF SendAccept
<1>9. CASE RecordRefusal
  BY <1>9 DEF RecordRefusal, NextSocket
<1>10. CASE RecordSuccess
  BY <1>10 DEF RecordSuccess
<1>11. CASE RecordFails
  BY <1>11 DEF RecordFails, NextSocket
<1>12. CASE AddPeer
  <2>1. pinned' \subseteq accepted
    BY <1>12 DEF AddPeer
  <2>2. \A a \in pinned' : [event |-> "succeeded", attempt |-> a] \in audit
    BY <1>12 DEF AddPeer
  <2> QED
    BY <1>12, <2>1, <2>2, LeaveKeeps DEF AddPeer
<1> QED
  BY <1>1, <1>2, <1>3, <1>4, <1>5, <1>6, <1>7, <1>8, <1>9, <1>10, <1>11, <1>12
  DEF HostStep

\* A step of a phone keeps the invariant.
LEMMA InvPhone == ASSUME Inv, NEW a \in Attempts, PhoneStep(a) PROVE Inv'
<1> USE PairingAssumption
<1> USE DEF Inv, TypeOK, OfferInv, ConsumeInv, WireInv, Confirmed, OfferIsSingleUse,
            AuditInv, PinnedIsAudited, hostVars, Serving
<1>1. CASE Scan(a)
  BY <1>1 DEF Scan
<1>2. CASE Dial(a)
  <2>1. a \notin accepted /\ at[a] = None
    BY <1>2 DEF Dial
  <2> QED
    BY <1>2, <2>1 DEF Dial
<1>3. CASE ReadReply(a)
  BY <1>3 DEF ReadReply
<1>4. CASE ReadAccept(a)
  BY <1>4 DEF ReadAccept
<1>5. CASE SavePin(a)
  BY <1>5 DEF SavePin
<1>6. CASE AttemptFails(a)
  BY <1>6 DEF AttemptFails
<1> QED
  BY <1>1, <1>2, <1>3, <1>4, <1>5, <1>6 DEF PhoneStep

\* Inv is an invariant of the exchange.
LEMMA InvAlways == Spec => []Inv
<1>1. Inv /\ [Next]_vars => Inv'
  <2>1. Inv /\ UNCHANGED vars => Inv'
    BY DEF vars, hostVars, phoneVars, Inv, TypeOK, OfferInv, ConsumeInv, WireInv,
           Confirmed, OfferIsSingleUse, AuditInv, PinnedIsAudited, Serving
  <2> QED
    BY <2>1, InvHost, InvPhone DEF Next
<1> QED
  BY <1>1, InvInit, PTL DEF Spec

\* The exchange is type correct.
THEOREM PairingTyped == Spec => []TypeOK
  BY InvAlways, PTL DEF Inv

\* An offer pairs at most one phone.
THEOREM SingleUse == Spec => []OfferIsSingleUse
  BY InvAlways, PTL DEF Inv

\* Whoever is pinned, by either side, held the secret of the offer.
THEOREM SecretNeeded == Spec => []PinnedUnderSecret
<1>1. Inv => PinnedUnderSecret
  BY DEF Inv, TypeOK, WireInv, Confirmed, OfferIsSingleUse, PinnedUnderSecret
<1> QED
  BY <1>1, InvAlways, PTL

\* Nothing is pinned that is not in the audit log.
THEOREM PinsAudited == Spec => []PinnedIsAudited
  BY InvAlways, PTL DEF Inv, AuditInv
=============================================================================
