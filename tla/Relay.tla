-------------------------------- MODULE Relay --------------------------------
(***************************************************************************)
(* The relay server, seen from one account: the host's device (Agent), the *)
(* phones that may be paired with it (Clients), the pairing tokens the host *)
(* asks for, and the sockets over which paired devices exchange frames.    *)
(* Accounts share nothing but the process: every query and every hub key   *)
(* carries the account id.                                                 *)
(*                                                                         *)
(* A request is a sequence of steps with a boundary at every await that    *)
(* another request can overtake.  The database is PostgreSQL at READ       *)
(* COMMITTED: a statement sees what is committed when it starts, an UPDATE *)
(* waits for the transaction that holds the row, and what a transaction    *)
(* wrote appears at its commit or, when it fails, never.  The hub is       *)
(* memory of the one process and changes between awaits only.              *)
(*                                                                         *)
(* A client stands for one redeem request and, once that has committed,    *)
(* for the device it created: each successful redeem inserts a new device  *)
(* and one pairing for it.  Requests that change nothing (a refused        *)
(* authentication, a 404, a rate limit) are not steps: the limiters may    *)
(* turn away any request before it starts.                                 *)
(***************************************************************************)
EXTENDS Naturals, FiniteSets

CONSTANTS
    Agent,        \* the host's device, enrolled with the account
    Clients,      \* redeem requests, and the devices they create
    Tokens,       \* requests to issue a token, and the tokens they create
    Sockets,      \* websocket connections, used again once closed
    Frames,       \* slots for relay frames being handled
    MaxDevices,   \* quotas.maxDevices
    MaxAttempts,  \* quotas.maxPairingAttemptsPerHour
    None          \* no token, no socket, no device

Devices == Clients \cup {Agent}

ASSUME RelayAssumption ==
    /\ Agent \notin Clients
    /\ None \notin Devices \cup Tokens \cup Sockets
    /\ IsFiniteSet(Clients) /\ IsFiniteSet(Tokens)
    /\ MaxDevices \in Nat \ {0} /\ MaxAttempts \in Nat \ {0}

VARIABLES
    ipc,        \* where each issue request stands; "done" once its row is committed
    age,        \* of a token: fresh, past expires_at, created over an hour ago
    used,       \* tokens whose `used` column is committed TRUE
    row,        \* devices: "none" before the insert, "active", "revoked"
    pairing,    \* of each client with the agent: "none", "live", "revoked"
    rpc,        \* where each redeem transaction stands
    rtok,       \* the token it names
    vpc,        \* where the request to revoke each device stands
    spc,        \* state of each connection
    sdev,       \* the device it authenticated as
    hub,        \* SocketHub: the socket registered for each device
    fpc,        \* where the handling of each frame stands
    route,      \* its sender and addressee
    by,         \* history: the token each client was paired with
    late,       \* history: clients whose claim came after the agent's revocation
    cut,        \* history: frames that arrived when their pairing was already revoked
    overlapped  \* history: a row was inserted between another's count and insert

tokenVars  == <<ipc, age, used>>
redeemVars == <<rpc, rtok, by, late>>
rowVars    == <<row, pairing>>
hubVars    == <<spc, sdev, hub>>
frameVars  == <<fpc, route, cut>>
vars       == <<tokenVars, redeemVars, rowVars, vpc, hubVars, frameVars, overlapped>>

Active == {d \in Devices : row[d] = "active"}

\* A redeem transaction that has updated the token's row and not yet ended.
InTx == {"claimed", "vouched", "counted"}
Locked(t) == \E c \in Clients : rpc[c] \in InTx /\ rtok[c] = t

\* The two devices of a route have a pairing, in one of the given states.
Between(r, states) ==
    \E c \in Clients : {r.from, r.to} = {c, Agent} /\ pairing[c] \in states

----------------------------------------------------------------------------
(* Issuing a token (routes/pairing.ts, repo/pairingTokens.ts issue).       *)

IssueAuthenticated(t) ==
    /\ ipc[t] = "idle"
    /\ row[Agent] = "active"
    /\ ipc' = [ipc EXCEPT ![t] = "authed"]
    /\ UNCHANGED <<age, used, redeemVars, rowVars, vpc, hubVars, frameVars, overlapped>>

\* The tokens created within the hour.
Recent == {t \in Tokens : ipc[t] = "done" /\ age[t] # "old"}

\* The count of the last hour's tokens; at the limit the request is refused.
IssueCount(t) ==
    /\ ipc[t] = "authed"
    /\ ipc' = [ipc EXCEPT ![t] = IF Cardinality(Recent) >= MaxAttempts
                                 THEN "idle" ELSE "counted"]
    /\ UNCHANGED <<age, used, redeemVars, rowVars, vpc, hubVars, frameVars, overlapped>>

IssueInsert(t) ==
    /\ ipc[t] = "counted"
    /\ ipc' = [ipc EXCEPT ![t] = "done"]
    /\ overlapped' = (overlapped \/ \E u \in Tokens \ {t} : ipc[u] = "counted")
    /\ UNCHANGED <<age, used, redeemVars, rowVars, vpc, hubVars, frameVars>>

\* The database fails, or the routing id is taken.
IssueFails(t) ==
    /\ ipc[t] \in {"authed", "counted"}
    /\ ipc' = [ipc EXCEPT ![t] = "idle"]
    /\ UNCHANGED <<age, used, redeemVars, rowVars, vpc, hubVars, frameVars, overlapped>>

TokenAges(t) ==
    /\ ipc[t] = "done"
    /\ \/ age[t] = "fresh"   /\ age' = [age EXCEPT ![t] = "expired"]
       \/ age[t] = "expired" /\ age' = [age EXCEPT ![t] = "old"]
    /\ UNCHANGED <<ipc, used, redeemVars, rowVars, vpc, hubVars, frameVars, overlapped>>

----------------------------------------------------------------------------
(* Redeeming a token (repo/pairingTokens.ts redeem).                       *)

\* `now` is read before the UPDATE: a token that expires while the statement
\* waits for the row still satisfies expires_at > now.
RedeemArrives(c, t) ==
    /\ row[c] = "none" /\ rpc[c] = "idle"
    /\ ipc[t] = "done" /\ age[t] = "fresh"
    /\ rpc' = [rpc EXCEPT ![c] = "arrived"]
    /\ rtok' = [rtok EXCEPT ![c] = t]
    /\ UNCHANGED <<tokenVars, by, late, rowVars, vpc, hubVars, frameVars, overlapped>>

RedeemClaimUnlocked(c) ==
    /\ rpc[c] = "arrived"
    /\ rtok[c] \notin used
    /\ rpc' = [rpc EXCEPT ![c] = "claimed"]
    /\ late' = IF row[Agent] = "active" THEN late ELSE late \cup {c}
    /\ UNCHANGED <<tokenVars, rtok, by, rowVars, vpc, hubVars, frameVars, overlapped>>

\* UPDATE ... WHERE used = false RETURNING: waits while another transaction
\* holds the row, then finds it used or not.
RedeemClaim(c) ==
    /\ rpc[c] = "arrived"
    /\ ~Locked(rtok[c])
    /\ rtok[c] \notin used
    /\ rpc' = [rpc EXCEPT ![c] = "claimed"]
    /\ late' = IF row[Agent] = "active" THEN late ELSE late \cup {c}
    /\ UNCHANGED <<tokenVars, rtok, by, rowVars, vpc, hubVars, frameVars, overlapped>>

\* The end of a redeem request: its client is idle again.
EndRedeem(c) ==
    /\ rpc' = [rpc EXCEPT ![c] = "idle"]
    /\ rtok' = [rtok EXCEPT ![c] = None]
    /\ late' = late \ {c}

\* The UPDATE matched no row: unknown_token.
RedeemMisses(c) ==
    /\ rpc[c] = "arrived"
    /\ rtok[c] \in used
    /\ EndRedeem(c)
    /\ UNCHANGED <<tokenVars, by, rowVars, vpc, hubVars, frameVars, overlapped>>

RedeemSkipsAgent(c) ==
    /\ rpc[c] = "claimed"
    /\ rpc' = [rpc EXCEPT ![c] = "vouched"]
    /\ UNCHANGED <<tokenVars, rtok, by, late, rowVars, vpc, hubVars, frameVars, overlapped>>

\* The host's device is read.  When it is revoked the transaction commits its
\* refusal, and the token with it.
RedeemChecksAgent(c) ==
    /\ rpc[c] = "claimed"
    /\ IF row[Agent] = "active"
       THEN rpc' = [rpc EXCEPT ![c] = "vouched"] /\ UNCHANGED <<rtok, late, used>>
       ELSE EndRedeem(c) /\ used' = used \cup {rtok[c]}
    /\ UNCHANGED <<ipc, age, by, rowVars, vpc, hubVars, frameVars, overlapped>>

RedeemCountLoose(c) ==
    /\ rpc[c] = "vouched"
    /\ IF Cardinality(Active) <= MaxDevices
       THEN rpc' = [rpc EXCEPT ![c] = "counted"] /\ UNCHANGED <<rtok, late, used>>
       ELSE EndRedeem(c) /\ used' = used \cup {rtok[c]}
    /\ UNCHANGED <<ipc, age, by, rowVars, vpc, hubVars, frameVars, overlapped>>

\* The account's active devices are counted; quota_exceeded commits as above.
RedeemCount(c) ==
    /\ rpc[c] = "vouched"
    /\ IF Cardinality(Active) < MaxDevices
       THEN rpc' = [rpc EXCEPT ![c] = "counted"] /\ UNCHANGED <<rtok, late, used>>
       ELSE EndRedeem(c) /\ used' = used \cup {rtok[c]}
    /\ UNCHANGED <<ipc, age, by, rowVars, vpc, hubVars, frameVars, overlapped>>

\* Mutant: the pairing is inserted in a transaction of its own, which may fail.
RedeemCommitSplit(c) ==
    /\ rpc[c] = "counted"
    /\ EndRedeem(c)
    /\ used' = used \cup {rtok[c]}
    /\ row' = [row EXCEPT ![c] = "active"]
    /\ pairing' \in {pairing, [pairing EXCEPT ![c] = "live"]}
    /\ by' = [by EXCEPT ![c] = rtok[c]]
    /\ overlapped' = (overlapped \/ \E b \in Clients \ {c} : rpc[b] = "counted")
    /\ UNCHANGED <<ipc, age, vpc, hubVars, frameVars>>

\* The device and its pairing are inserted, and the transaction commits.
RedeemCommit(c) ==
    /\ rpc[c] = "counted"
    /\ EndRedeem(c)
    /\ used' = used \cup {rtok[c]}
    /\ row' = [row EXCEPT ![c] = "active"]
    /\ pairing' = [pairing EXCEPT ![c] = "live"]
    /\ by' = [by EXCEPT ![c] = rtok[c]]
    /\ overlapped' = (overlapped \/ \E b \in Clients \ {c} : rpc[b] = "counted")
    /\ UNCHANGED <<ipc, age, vpc, hubVars, frameVars>>

\* A statement fails: the transaction is rolled back and the claim with it.
RedeemFails(c) ==
    /\ rpc[c] \in {"arrived"} \cup InTx
    /\ EndRedeem(c)
    /\ UNCHANGED <<tokenVars, by, rowVars, vpc, hubVars, frameVars, overlapped>>

----------------------------------------------------------------------------
(* Revoking (routes/devices.ts, repo/devices.ts, repo/pairings.ts).        *)

\* DELETE /v1/devices/:id, authenticated as the agent.
RevokeAuthenticated(d) ==
    /\ vpc[d] = "idle"
    /\ row[Agent] = "active" /\ row[d] = "active"
    /\ vpc' = [vpc EXCEPT ![d] = "authed"]
    /\ UNCHANGED <<tokenVars, redeemVars, rowVars, hubVars, frameVars, overlapped>>

\* One transaction: the device, and every pairing it takes part in.  A second
\* request for the same device finds it revoked and changes nothing.
RevokeCommit(d) ==
    /\ vpc[d] = "authed"
    /\ vpc' = [vpc EXCEPT ![d] = "committed"]
    /\ row' = [row EXCEPT ![d] = "revoked"]
    /\ pairing' = [c \in Clients |->
                     IF d \in {c, Agent} /\ pairing[c] = "live" THEN "revoked" ELSE pairing[c]]
    /\ UNCHANGED <<tokenVars, redeemVars, hubVars, frameVars, overlapped>>

RevokeFails(d) ==
    /\ vpc[d] = "authed"
    /\ vpc' = [vpc EXCEPT ![d] = "idle"]
    /\ UNCHANGED <<tokenVars, redeemVars, rowVars, hubVars, frameVars, overlapped>>

\* onDeviceRevoked: hub.drop, then the answer.
RevokeDrops(d) ==
    /\ vpc[d] = "committed"
    /\ vpc' = [vpc EXCEPT ![d] = "done"]
    /\ hub' = [hub EXCEPT ![d] = None]
    /\ spc' = [s \in Sockets |-> IF s = hub[d] THEN "closing" ELSE spc[s]]
    /\ UNCHANGED <<tokenVars, redeemVars, rowVars, sdev, frameVars, overlapped>>

\* DELETE /v1/pairings/:id by either participant; the client of a live pairing
\* is always able to.  Sockets stay: both devices may have other pairings.
RevokePairing(c) ==
    /\ pairing[c] = "live"
    /\ pairing' = [pairing EXCEPT ![c] = "revoked"]
    /\ UNCHANGED <<tokenVars, redeemVars, row, vpc, hubVars, frameVars, overlapped>>

----------------------------------------------------------------------------
(* Sockets (routes/ws.ts registerAttachRoute, ws/hub.ts).                  *)

\* The preHandler has authenticated the upgrade; the handler has yet to run.
SocketAuthenticated(s, d) ==
    /\ spc[s] = "free"
    /\ row[d] = "active"
    /\ spc' = [spc EXCEPT ![s] = "upgrading"]
    /\ sdev' = [sdev EXCEPT ![s] = d]
    /\ UNCHANGED <<tokenVars, redeemVars, rowVars, vpc, hub, frameVars, overlapped>>

\* hub.attach: the new socket replaces and closes the previous one.
Attach(s) ==
    /\ spc[s] = "upgrading"
    /\ hub' = [hub EXCEPT ![sdev[s]] = s]
    /\ spc' = [u \in Sockets |-> IF u = s THEN "open"
                                 ELSE IF u = hub[sdev[s]] THEN "closing" ELSE spc[u]]
    /\ UNCHANGED <<tokenVars, redeemVars, rowVars, vpc, sdev, frameVars, overlapped>>

SocketClosesAny(s) ==
    /\ spc[s] # "free"
    /\ spc' = [spc EXCEPT ![s] = "free"]
    /\ sdev' = [sdev EXCEPT ![s] = None]
    /\ hub' = [hub EXCEPT ![sdev[s]] = None]
    /\ UNCHANGED <<tokenVars, redeemVars, rowVars, vpc, frameVars, overlapped>>

\* The upgrade fails, or the close event arrives: the peer went away, or the
\* closing handshake that close() began has ended.  hub.detach removes the
\* entry only if it is still this socket's.
SocketCloses(s) ==
    /\ spc[s] # "free"
    /\ spc' = [spc EXCEPT ![s] = "free"]
    /\ sdev' = [sdev EXCEPT ![s] = None]
    /\ hub' = IF hub[sdev[s]] = s THEN [hub EXCEPT ![sdev[s]] = None] ELSE hub
    /\ UNCHANGED <<tokenVars, redeemVars, rowVars, vpc, frameVars, overlapped>>

----------------------------------------------------------------------------
(* Frames (routes/ws.ts handleFrame).                                      *)

\* A message event on an attached socket, a closing one included.
FrameArrives(f, s, d) ==
    /\ fpc[f] = "none"
    /\ spc[s] \in {"open", "closing"}
    /\ fpc' = [fpc EXCEPT ![f] = "asking"]
    /\ route' = [route EXCEPT ![f] = [from |-> sdev[s], to |-> d]]
    /\ cut' = IF Between([from |-> sdev[s], to |-> d], {"revoked"})
              THEN cut \cup {f} ELSE cut
    /\ UNCHANGED <<tokenVars, redeemVars, rowVars, vpc, hubVars, overlapped>>

\* The slot is free again.
EndFrame(f) ==
    /\ fpc' = [fpc EXCEPT ![f] = "none"]
    /\ route' = [route EXCEPT ![f] = [from |-> None, to |-> None]]
    /\ cut' = cut \ {f}

FrameAsksAnyPairing(f) ==
    /\ fpc[f] = "asking"
    /\ IF Between(route[f], {"live", "revoked"})
       THEN fpc' = [fpc EXCEPT ![f] = "paired"] /\ UNCHANGED <<route, cut>>
       ELSE EndFrame(f)
    /\ UNCHANGED <<tokenVars, redeemVars, rowVars, vpc, hubVars, overlapped>>

\* peerIsPaired; without a live pairing the frame is refused.
FrameAsks(f) ==
    /\ fpc[f] = "asking"
    /\ IF Between(route[f], {"live"})
       THEN fpc' = [fpc EXCEPT ![f] = "paired"] /\ UNCHANGED <<route, cut>>
       ELSE EndFrame(f)
    /\ UNCHANGED <<tokenVars, redeemVars, rowVars, vpc, hubVars, overlapped>>

\* hub.get and send: the frame goes out on the addressee's socket.
FrameForwards(f) ==
    /\ fpc[f] = "paired"
    /\ hub[route[f].to] # None
    /\ fpc' = [fpc EXCEPT ![f] = "sent"]
    /\ UNCHANGED <<tokenVars, redeemVars, rowVars, vpc, hubVars, route, cut, overlapped>>

\* The query fails, the addressee has no socket or one that its peer is
\* closing, or the frame is on its way: the slot can be used again.
FrameDone(f) ==
    /\ fpc[f] \in {"asking", "paired", "sent"}
    /\ EndFrame(f)
    /\ UNCHANGED <<tokenVars, redeemVars, rowVars, vpc, hubVars, overlapped>>

----------------------------------------------------------------------------
\* The process stops and starts again: the database rolls back what was open,
\* the hub is empty and every connection is gone.
Restart ==
    /\ ipc' = [t \in Tokens |-> IF ipc[t] = "done" THEN "done" ELSE "idle"]
    /\ rpc' = [c \in Clients |-> "idle"]
    /\ rtok' = [c \in Clients |-> None]
    /\ late' = {}
    /\ vpc' = [d \in Devices |-> IF vpc[d] = "authed" THEN "idle"
                                 ELSE IF vpc[d] = "committed" THEN "done" ELSE vpc[d]]
    /\ spc' = [s \in Sockets |-> "free"]
    /\ sdev' = [s \in Sockets |-> None]
    /\ hub' = [d \in Devices |-> None]
    /\ fpc' = [f \in Frames |-> "none"]
    /\ route' = [f \in Frames |-> [from |-> None, to |-> None]]
    /\ cut' = {}
    /\ UNCHANGED <<age, used, rowVars, by, overlapped>>

\* The account as enrolment leaves it: the agent's device and nothing else.
Init ==
    /\ ipc = [t \in Tokens |-> "idle"] /\ age = [t \in Tokens |-> "fresh"] /\ used = {}
    /\ row = [d \in Devices |-> IF d = Agent THEN "active" ELSE "none"]
    /\ pairing = [c \in Clients |-> "none"]
    /\ rpc = [c \in Clients |-> "idle"] /\ rtok = [c \in Clients |-> None]
    /\ vpc = [d \in Devices |-> "idle"]
    /\ spc = [s \in Sockets |-> "free"] /\ sdev = [s \in Sockets |-> None]
    /\ hub = [d \in Devices |-> None]
    /\ fpc = [f \in Frames |-> "none"]
    /\ route = [f \in Frames |-> [from |-> None, to |-> None]]
    /\ by = [c \in Clients |-> None] /\ late = {} /\ cut = {} /\ overlapped = FALSE

IssueStep(t) ==
    \/ IssueAuthenticated(t) \/ IssueCount(t) \/ IssueInsert(t) \/ IssueFails(t) \/ TokenAges(t)

RedeemStep(c) ==
    \/ \E t \in Tokens : RedeemArrives(c, t)
    \/ RedeemClaim(c) \/ RedeemMisses(c) \/ RedeemChecksAgent(c)
    \/ RedeemCount(c) \/ RedeemCommit(c) \/ RedeemFails(c)

RevokeStep(d) ==
    \/ RevokeAuthenticated(d) \/ RevokeCommit(d) \/ RevokeFails(d) \/ RevokeDrops(d)

SocketStep(s) ==
    \/ \E d \in Devices : SocketAuthenticated(s, d)
    \/ Attach(s) \/ SocketCloses(s)

FrameStep(f) ==
    \/ \E s \in Sockets, d \in Devices : FrameArrives(f, s, d)
    \/ FrameAsks(f) \/ FrameForwards(f) \/ FrameDone(f)

Next ==
    \/ \E t \in Tokens : IssueStep(t)
    \/ \E c \in Clients : RedeemStep(c) \/ RevokePairing(c)
    \/ \E d \in Devices : RevokeStep(d)
    \/ \E s \in Sockets : SocketStep(s)
    \/ \E f \in Frames : FrameStep(f)
    \/ Restart

Spec == Init /\ [][Next]_vars

----------------------------------------------------------------------------
\* Every variable has its type; a token, a device or a route is named exactly
\* while it is needed; and a phone's device row, its pairing and the token spent
\* on it exist together or not at all, whatever fails (redeem is one transaction).
TypeOK ==
    /\ ipc \in [Tokens -> {"idle", "authed", "counted", "done"}]
    /\ age \in [Tokens -> {"fresh", "expired", "old"}]
    /\ used \subseteq Tokens
    /\ row \in [Devices -> {"none", "active", "revoked"}]
    /\ pairing \in [Clients -> {"none", "live", "revoked"}]
    /\ rpc \in [Clients -> {"idle", "arrived"} \cup InTx]
    /\ rtok \in [Clients -> Tokens \cup {None}]
    /\ vpc \in [Devices -> {"idle", "authed", "committed", "done"}]
    /\ spc \in [Sockets -> {"free", "upgrading", "open", "closing"}]
    /\ sdev \in [Sockets -> Devices \cup {None}]
    /\ hub \in [Devices -> Sockets \cup {None}]
    /\ fpc \in [Frames -> {"none", "asking", "paired", "sent"}]
    /\ route \in [Frames -> [from : Devices \cup {None}, to : Devices \cup {None}]]
    /\ by \in [Clients -> Tokens \cup {None}]
    /\ late \subseteq Clients /\ cut \subseteq Frames /\ overlapped \in BOOLEAN
    /\ \A c \in Clients : rpc[c] = "idle" <=> rtok[c] = None
    /\ \A s \in Sockets : spc[s] = "free" <=> sdev[s] = None
    /\ \A c \in Clients : row[c] = "none" <=> pairing[c] = "none"
    /\ \A c \in Clients : row[c] = "none" <=> by[c] = None

\* "Two concurrent redemptions cannot both win" (pairingTokens.ts): two clients
\* are never paired by one token, and a token that paired one is used, whatever
\* transactions fail, overlap or are cut off by a restart.
TokenSingleUse ==
    /\ \A c, d \in Clients : by[c] = by[d] /\ by[c] # None => c = d
    /\ \A c \in Clients : by[c] # None => by[c] \in used

\* A token claimed after the host's device was revoked pairs nobody: no such
\* transaction gets past the check of the agent, which comes after the claim.
RevokedAgentPairsNoMore ==
    \A c \in late : rpc[c] = "claimed" /\ row[Agent] # "active"

\* Unless two transactions overlap between count and insert, an account has no
\* more active devices and no more of the hour's tokens than its quotas.
QuotaHolds ==
    ~overlapped => /\ Cardinality(Active) <= MaxDevices
                   /\ Cardinality(Recent) <= MaxAttempts

\* The hub and the sockets agree: each open socket is the one its device is
\* reached by, and a device is reached by an open socket.  In particular the
\* late close event of a superseded socket does not unregister its successor.
SocketReachable ==
    \A s \in Sockets, d \in Devices : hub[d] = s <=> (spc[s] = "open" /\ sdev[s] = d)

\* A frame gets past the check only between the host and a phone that has been
\* paired with it, and never if it arrived after that pairing was revoked, or
\* after the phone's device was: a live pairing has an active client.
NoFrameAfterRevoke ==
    /\ \A f \in Frames : fpc[f] \in {"paired", "sent"} =>
          f \notin cut /\ Between(route[f], {"live", "revoked"})
    /\ \A c \in Clients : pairing[c] = "live" => row[c] = "active"

\* "Any live socket for that device drops immediately" (routes/devices.ts): when
\* the answer to a device's revocation is sent, no open socket of it is left.
RevokedDeviceDropped ==
    \A d \in Devices : vpc[d] = "done" =>
        \A s \in Sockets : ~(spc[s] = "open" /\ sdev[s] = d)
=============================================================================
