------------------------------- MODULE Pairing -------------------------------
(***************************************************************************)
(* The pairing exchange between `osprey-svc pair` and a phone.             *)
(*                                                                         *)
(* The host shows one offer (a QR secret) at a time, accepts one socket at *)
(* a time and runs respond() on it (commands/pair.rs, core pairing/flow.rs *)
(* and secret.rs); each attempt of a phone is one scan, one dial and one   *)
(* run of the mirror-image flow (ios Pairing/).  The handshake is IKpsk2:  *)
(* the secret enters the second message, so a phone with another offer's   *)
(* secret fails to read it, while the host learns of a right secret only   *)
(* from the confirmation that follows.                                     *)
(*                                                                         *)
(* A socket carries one message at a time, in strict alternation.  Either  *)
(* end may stop at any step: a timeout, a lost network, a closed app.      *)
(***************************************************************************)
EXTENDS FiniteSets

CONSTANTS
    Attempts,   \* runs of the phone's pairing flow, one socket each
    Offers,     \* secrets `pair` generates, one for each run of the command
    None        \* no offer; no socket being served

ASSUME PairingAssumption == None \notin Attempts \cup Offers

VARIABLES
    offer,      \* the offer on the screen, whose listener is open
    used,       \* offers generated so far
    consumed,   \* PairingOffer.consumed
    expired,    \* the window's time is up
    hpc,        \* where the `pair` process stands
    peer,       \* the attempt whose socket it is serving
    served,     \* attempts whose socket it has accepted
    pinned,     \* attempts whose phone has been added to the pin store
    audit,      \* the audit log
    qr,         \* the secret each attempt scanned
    at,         \* the offer whose listener it dialled
    ppc,        \* where the phone stands in that attempt
    wire,       \* the message under way on its socket
    accepted    \* history: attempts for which the host consumed the offer

hostVars  == <<offer, used, consumed, expired, hpc, peer, served, pinned, audit, accepted>>
phoneVars == <<qr, at, ppc>>
vars      == <<hostVars, phoneVars, wire>>

Events == [event : {"succeeded", "failed"}, attempt : Attempts]

\* The steps of respond(), between the accept and the audit record.
Serving == {"handshake", "confirm", "accept", "record", "refuse"}

----------------------------------------------------------------------------
(* The host.                                                               *)

\* pair::execute up to accept_one: a fresh secret, the listener, the QR.
OpenWindow(o) ==
    /\ hpc = "closed"
    /\ o \notin used
    /\ offer' = o
    /\ used' = used \cup {o}
    /\ hpc' = "head"
    /\ UNCHANGED <<consumed, expired, peer, served, pinned, audit, accepted, phoneVars, wire>>

\* Both of accept_one's deadline and the offer's ttl.
Expire ==
    /\ offer # None
    /\ ~ expired
    /\ expired' = TRUE
    /\ UNCHANGED <<offer, used, consumed, hpc, peer, served, pinned, audit, accepted,
                   phoneVars, wire>>

\* The command ends; listener and offer go with it.
Leave ==
    /\ offer' = None
    /\ consumed' = FALSE
    /\ expired' = FALSE
    /\ hpc' = "closed"
    /\ peer' = None

\* Mutant: only the listener's own timeout is looked at.
LoopHeadUnchecked ==
    /\ hpc = "head"
    /\ hpc' = "listening"
    /\ UNCHANGED <<offer, used, consumed, expired, peer, served, pinned, audit,
                   accepted, phoneVars, wire>>

\* The head of accept_one's loop.
LoopHead ==
    /\ hpc = "head"
    /\ ~ expired
    /\ hpc' = "listening"
    /\ UNCHANGED <<offer, used, consumed, expired, peer, served, pinned, audit,
                   accepted, phoneVars, wire>>

WindowCloses ==
    /\ hpc = "head"
    /\ expired
    /\ Leave
    /\ UNCHANGED <<used, served, pinned, audit, accepted, phoneVars, wire>>

\* accept_timeout comes back empty-handed at the deadline.
NothingCame ==
    /\ hpc = "listening"
    /\ expired
    /\ hpc' = "head"
    /\ UNCHANGED <<offer, used, consumed, expired, peer, served, pinned, audit,
                   accepted, phoneVars, wire>>

\* Mutant: the offer is not looked at before the handshake.
AcceptSocketUnchecked(a) ==
    /\ hpc = "listening"
    /\ at[a] = offer
    /\ a \notin served
    /\ peer' = a
    /\ served' = served \cup {a}
    /\ hpc' = "handshake"
    /\ UNCHANGED <<offer, used, consumed, expired, pinned, audit, accepted, phoneVars,
                   wire>>

\* Mutant: a socket left over from the listener of an earlier `pair`.
AcceptLeftover(a) ==
    /\ hpc = "listening"
    /\ at[a] # None
    /\ a \notin served
    /\ peer' = a
    /\ served' = served \cup {a}
    /\ hpc' = IF consumed \/ expired THEN "refuse" ELSE "handshake"
    /\ UNCHANGED <<offer, used, consumed, expired, pinned, audit, accepted, phoneVars,
                   wire>>

\* A socket is accepted and respond_inner looks at the offer: Replayed, Expired,
\* or on to the handshake.
AcceptSocket(a) ==
    /\ hpc = "listening"
    /\ at[a] = offer
    /\ a \notin served
    /\ peer' = a
    /\ served' = served \cup {a}
    /\ hpc' = IF consumed \/ expired THEN "refuse" ELSE "handshake"
    /\ UNCHANGED <<offer, used, consumed, expired, pinned, audit, accepted, phoneVars,
                   wire>>

\* Mutant: the peer is taken to be authenticated once the handshake is over.
HostHandshakeTrusts ==
    /\ hpc = "handshake"
    /\ wire[peer] = "msg1"
    /\ wire' = [wire EXCEPT ![peer] = "msg2"]
    /\ hpc' = "accept"
    /\ consumed' = TRUE
    /\ accepted' = accepted \cup {peer}
    /\ UNCHANGED <<offer, used, expired, peer, served, pinned, audit, phoneVars>>

\* run_responder: the first message is read and the second written.  The bundle
\* in it must be sound and name the static of the handshake.
HostHandshake ==
    /\ hpc = "handshake"
    /\ wire[peer] = "msg1"
    /\ wire' = [wire EXCEPT ![peer] = "msg2"]
    /\ hpc' = "confirm"
    /\ UNCHANGED <<offer, used, consumed, expired, peer, served, pinned, audit,
                   accepted, phoneVars>>

\* The confirmation decrypts: the peer holds the secret.  The offer is consumed
\* here, before the acceptance is sent.
ReadConfirm ==
    /\ hpc = "confirm"
    /\ wire[peer] = "confirm"
    /\ wire' = [wire EXCEPT ![peer] = "none"]
    /\ consumed' = TRUE
    /\ accepted' = accepted \cup {peer}
    /\ hpc' = "accept"
    /\ UNCHANGED <<offer, used, expired, peer, served, pinned, audit, phoneVars>>

SendAccept ==
    /\ hpc = "accept"
    /\ wire' = [wire EXCEPT ![peer] = "accept"]
    /\ hpc' = "record"
    /\ UNCHANGED <<offer, used, consumed, expired, peer, served, pinned, audit,
                   accepted, phoneVars>>

\* Any read or write of respond_inner fails, times out, or yields something
\* else than it should.
RespondFails ==
    /\ hpc \in {"handshake", "confirm", "accept"}
    /\ hpc' = "refuse"
    /\ UNCHANGED <<offer, used, consumed, expired, peer, served, pinned, audit,
                   accepted, phoneVars, wire>>

\* Back to accept_one; the stream is dropped.
NextSocket ==
    /\ hpc' = "head"
    /\ peer' = None
    /\ UNCHANGED <<offer, used, consumed, expired, served, pinned, accepted, phoneVars,
                   wire>>

\* finish, refused: recorded, and if that fails only logged.
RecordRefusal ==
    /\ hpc = "refuse"
    /\ \/ audit' = audit \cup {[event |-> "failed", attempt |-> peer]}
       \/ UNCHANGED audit
    /\ NextSocket

\* finish, paired: the record comes before the caller may go on.
RecordSuccess ==
    /\ hpc = "record"
    /\ audit' = audit \cup {[event |-> "succeeded", attempt |-> peer]}
    /\ hpc' = "pin"
    /\ UNCHANGED <<offer, used, consumed, expired, peer, served, pinned, accepted,
                   phoneVars, wire>>

\* Mutant: a record that cannot be written is ignored.
RecordFailsIgnored ==
    /\ hpc = "record"
    /\ hpc' = "pin"
    /\ UNCHANGED <<offer, used, consumed, expired, peer, served, pinned, audit,
                   accepted, phoneVars, wire>>

\* The record cannot be written: respond returns an error and the window goes on.
RecordFails ==
    /\ hpc = "record"
    /\ UNCHANGED audit
    /\ NextSocket

\* add_peer, and the command ends.
AddPeer ==
    /\ hpc = "pin"
    /\ pinned' = pinned \cup {peer}
    /\ Leave
    /\ UNCHANGED <<used, served, audit, accepted, phoneVars, wire>>

\* The operator interrupts the command, a listener or add_peer fails, the
\* process dies.
PairEnds ==
    /\ hpc # "closed"
    /\ Leave
    /\ UNCHANGED <<used, served, pinned, audit, accepted, phoneVars, wire>>

----------------------------------------------------------------------------
(* The phone.                                                              *)

Scan(a) ==
    /\ ppc[a] = "idle"
    /\ offer # None
    /\ ppc' = [ppc EXCEPT ![a] = "scanned"]
    /\ qr' = [qr EXCEPT ![a] = offer]
    /\ UNCHANGED <<at, hostVars, wire>>

\* The listener open now may be that of a later `pair`.
Dial(a) ==
    /\ ppc[a] = "scanned"
    /\ offer # None
    /\ ppc' = [ppc EXCEPT ![a] = "dialed"]
    /\ at' = [at EXCEPT ![a] = offer]
    /\ wire' = [wire EXCEPT ![a] = "msg1"]
    /\ UNCHANGED <<qr, hostVars>>

\* The second message decrypts only under the listener's secret.
ReadReply(a) ==
    /\ ppc[a] = "dialed"
    /\ wire[a] = "msg2"
    /\ IF qr[a] = at[a]
       THEN /\ ppc' = [ppc EXCEPT ![a] = "confirmed"]
            /\ wire' = [wire EXCEPT ![a] = "confirm"]
       ELSE /\ ppc' = [ppc EXCEPT ![a] = "failed"]
            /\ UNCHANGED wire
    /\ UNCHANGED <<qr, at, hostVars>>

ReadAccept(a) ==
    /\ ppc[a] = "confirmed"
    /\ wire[a] = "accept"
    /\ ppc' = [ppc EXCEPT ![a] = "accepted"]
    /\ UNCHANGED <<qr, at, wire, hostVars>>

\* PinStore.save.
SavePin(a) ==
    /\ ppc[a] = "accepted"
    /\ ppc' = [ppc EXCEPT ![a] = "paired"]
    /\ UNCHANGED <<qr, at, wire, hostVars>>

\* The exchange's deadline, an error, an end of stream, a failing keychain.
AttemptFails(a) ==
    /\ ppc[a] \in {"scanned", "dialed", "confirmed", "accepted"}
    /\ ppc' = [ppc EXCEPT ![a] = "failed"]
    /\ UNCHANGED <<qr, at, wire, hostVars>>

----------------------------------------------------------------------------
Init ==
    /\ offer = None
    /\ used = {}
    /\ consumed = FALSE
    /\ expired = FALSE
    /\ hpc = "closed"
    /\ peer = None
    /\ served = {}
    /\ pinned = {}
    /\ audit = {}
    /\ qr = [a \in Attempts |-> None]
    /\ at = [a \in Attempts |-> None]
    /\ ppc = [a \in Attempts |-> "idle"]
    /\ wire = [a \in Attempts |-> "none"]
    /\ accepted = {}

HostStep ==
    \/ \E o \in Offers : OpenWindow(o)
    \/ Expire
    \/ LoopHead
    \/ WindowCloses
    \/ NothingCame
    \/ \E a \in Attempts : AcceptSocket(a)
    \/ HostHandshake
    \/ ReadConfirm
    \/ SendAccept
    \/ RespondFails
    \/ RecordRefusal
    \/ RecordSuccess
    \/ RecordFails
    \/ AddPeer
    \/ PairEnds

PhoneStep(a) ==
    \/ Scan(a)
    \/ Dial(a)
    \/ ReadReply(a)
    \/ ReadAccept(a)
    \/ SavePin(a)
    \/ AttemptFails(a)

Next == HostStep \/ \E a \in Attempts : PhoneStep(a)

Spec == Init /\ [][Next]_vars

\* The clock reaches the deadline; `pair` runs: a read of a silent phone ends with
\* HANDSHAKE_TIMEOUT, a message has a bounded length, and the replies fit a
\* socket's buffer.  Nothing is assumed of phones or of the operator.
Fairness ==
    /\ WF_vars(Expire)
    /\ WF_vars(\/ LoopHead \/ WindowCloses \/ NothingCame \/ RespondFails
               \/ RecordRefusal \/ RecordFails \/ AddPeer)

FairSpec == Spec /\ Fairness

----------------------------------------------------------------------------
(* Properties.                                                             *)

\* Every variable has its type, and while the command serves a socket it is one
\* that dialled the listener of the offer on the screen.
TypeOK ==
    /\ offer \in Offers \cup {None}
    /\ used \subseteq Offers
    /\ consumed \in BOOLEAN
    /\ expired \in BOOLEAN
    /\ hpc \in {"closed", "head", "listening", "pin"} \cup Serving
    /\ peer \in Attempts \cup {None}
    /\ hpc \in Serving \cup {"pin"} => peer \in Attempts /\ at[peer] = offer
    /\ served \subseteq Attempts
    /\ pinned \subseteq Attempts
    /\ audit \subseteq Events
    /\ qr \in [Attempts -> Offers \cup {None}]
    /\ at \in [Attempts -> Offers \cup {None}]
    /\ ppc \in [Attempts -> {"idle", "scanned", "dialed", "confirmed", "accepted",
                             "paired", "failed"}]
    /\ wire \in [Attempts -> {"none", "msg1", "msg2", "confirm", "accept"}]
    /\ accepted \subseteq Attempts

\* An offer pairs at most one phone, whatever attempts fail, time out or overlap
\* before and after it: of the sockets that reached one listener, at most one is
\* ever accepted, and only an accepted one is pinned (secret.rs, PairingOffer).
OfferIsSingleUse ==
    /\ \A a, b \in accepted : at[a] = at[b] => a = b
    /\ pinned \subseteq accepted

\* Neither side pins on less than the secret: whoever is pinned by the host
\* scanned the very offer it was served under and confirmed it, and a phone that
\* pins the host has been accepted by it under that offer (flow.rs).
PinnedUnderSecret ==
    /\ \A a \in pinned : qr[a] = at[a] /\ ppc[a] \notin {"idle", "scanned", "dialed"}
    /\ \A a \in Attempts : ppc[a] = "paired" => a \in accepted /\ qr[a] = at[a]

\* No pin without its record: "a caller that cannot record a pairing must not
\* proceed with it" (audit.rs, record; flow.rs, finish).
PinnedIsAudited ==
    \A a \in pinned : [event |-> "succeeded", attempt |-> a] \in audit

\* The command always comes to an end, whatever the phones do: "The 120-second
\* TTL is what bounds the retries" (pair.rs, accept_one).
WindowEnds == hpc # "closed" ~> hpc = "closed"

----------------------------------------------------------------------------
(* What comments in the source say and the code does not do.               *)

\* "A failed attempt does **not** end the window: the offer is only consumed on
\* success" (pair.rs, accept_one): back in its loop, the offer can still be used.
FailedAttemptKeepsOffer == hpc \in {"head", "listening"} => ~ consumed
=============================================================================
