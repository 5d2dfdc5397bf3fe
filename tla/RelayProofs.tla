----------------------------- MODULE RelayProofs -----------------------------
(***************************************************************************)
(* Proofs about Relay, for any number of clients, tokens, sockets and      *)
(* frames and any quotas.                                                  *)
(***************************************************************************)
EXTENDS Relay, FiniteSetTheorems, TLAPS

\* A device's row appears when its request ends; the host cannot revoke a device
\* that is not there, and a live pairing has an active client.
RowInv ==
    /\ \A c \in Clients : rpc[c] # "idle" => row[c] = "none"
    /\ \A c \in Clients : pairing[c] = "live" => row[c] = "active"
    /\ \A d \in Devices : vpc[d] # "idle" => row[d] # "none"

\* A token's row is held by one transaction at a time, and only while unused.
ClaimInv ==
    /\ \A c \in Clients : rpc[c] \in InTx => rtok[c] \notin used
    /\ \A c, d \in Clients :
          rpc[c] \in InTx /\ rpc[d] \in InTx /\ rtok[c] = rtok[d] => c = d

\* A pairing once revoked stays so: a frame that met a revoked pairing on its
\* arrival still does.
FrameInv ==
    /\ \A f \in cut : fpc[f] # "none" /\ Between(route[f], {"revoked"})
    /\ \A f \in Frames : fpc[f] \in {"paired", "sent"} =>
          f \notin cut /\ Between(route[f], {"live", "revoked"})

\* A request that has counted still finds room, unless it was overtaken.
QuotaInv ==
    ~overlapped =>
      /\ Cardinality(Active) <= MaxDevices
      /\ Cardinality(Recent) <= MaxAttempts
      /\ \A c \in Clients : rpc[c] = "counted" => Cardinality(Active) < MaxDevices
      /\ \A t \in Tokens : ipc[t] = "counted" => Cardinality(Recent) < MaxAttempts

----------------------------------------------------------------------------
\* TypeOK holds at the start and after every step.
LEMMA TypeInit == Init => TypeOK
<1> SUFFICES ASSUME Init PROVE TypeOK
  OBVIOUS
<1>1. overlapped \in BOOLEAN
  BY Zenon DEF Init
<1> QED
  BY <1>1, RelayAssumption DEF Init, TypeOK, InTx, Devices

(* Every step preserves the types. *)
LEMMA TypeStep == TypeOK /\ SocketReachable /\ RowInv /\ [Next]_vars => TypeOK'
<1> SUFFICES ASSUME TypeOK, SocketReachable, RowInv, [Next]_vars PROVE TypeOK'
  OBVIOUS
<1> USE RelayAssumption
<1> USE DEF TypeOK, InTx, tokenVars, redeemVars, rowVars, hubVars, frameVars
<1>1. overlapped' \in BOOLEAN
  <2>1. CASE UNCHANGED overlapped
    BY <2>1
  <2>2. ASSUME NEW t \in Tokens, IssueInsert(t) PROVE overlapped' \in BOOLEAN
    BY <2>2, Zenon DEF IssueInsert
  <2>3. ASSUME NEW c \in Clients, RedeemCommit(c) PROVE overlapped' \in BOOLEAN
    BY <2>3, Zenon DEF RedeemCommit
  <2> QED
    BY <2>1, <2>2, <2>3 DEF Next, vars, IssueStep, IssueAuthenticated, IssueCount,
       IssueFails, TokenAges, RedeemStep, RedeemArrives, RedeemClaim, RedeemMisses,
       RedeemChecksAgent, RedeemCount, RedeemFails, RevokePairing, RevokeStep,
       RevokeAuthenticated, RevokeCommit, RevokeFails, RevokeDrops, SocketStep,
       SocketAuthenticated, Attach, SocketCloses, FrameStep, FrameArrives, FrameAsks,
       FrameForwards, FrameDone, Restart
<1>2. ASSUME NEW t \in Tokens, IssueStep(t) PROVE TypeOK'
  BY <1>1, <1>2 DEF IssueStep, IssueAuthenticated, IssueCount, IssueInsert, IssueFails, TokenAges
<1>3. ASSUME NEW c \in Clients, RedeemStep(c) PROVE TypeOK'
  <2>1. ASSUME NEW t \in Tokens, RedeemArrives(c, t) PROVE TypeOK'
    BY <1>1, <2>1 DEF RedeemArrives
  <2>2. CASE RedeemClaim(c)
    BY <1>1, <2>2 DEF RedeemClaim
  <2>3. CASE RedeemMisses(c) \/ RedeemFails(c)
    BY <1>1, <2>3 DEF RedeemMisses, RedeemFails, EndRedeem
  <2>4. CASE RedeemChecksAgent(c)
    BY <1>1, <2>4 DEF RedeemChecksAgent, EndRedeem
  <2>5. CASE RedeemCount(c)
    BY <1>1, <2>5 DEF RedeemCount, EndRedeem
  <2>6. CASE RedeemCommit(c)
    BY <1>1, <2>6 DEF RedeemCommit, EndRedeem, Devices, RowInv
  <2> QED
    BY <1>3, <2>1, <2>2, <2>3, <2>4, <2>5, <2>6 DEF RedeemStep
<1>4. ASSUME NEW c \in Clients, RevokePairing(c) PROVE TypeOK'
  BY <1>1, <1>4 DEF RevokePairing
<1>5. ASSUME NEW d \in Devices, RevokeStep(d) PROVE TypeOK'
  <2>1. CASE RevokeAuthenticated(d) \/ RevokeFails(d)
    BY <1>1, <2>1 DEF RevokeAuthenticated, RevokeFails
  <2>2. CASE RevokeCommit(d)
    BY <1>1, <2>2 DEF RevokeCommit, RowInv, Devices
  <2>3. CASE RevokeDrops(d)
    BY <1>1, <2>3 DEF RevokeDrops, SocketReachable
  <2> QED
    BY <1>5, <2>1, <2>2, <2>3 DEF RevokeStep
<1>6. ASSUME NEW s \in Sockets, SocketStep(s) PROVE TypeOK'
  <2>1. ASSUME NEW d \in Devices, SocketAuthenticated(s, d) PROVE TypeOK'
    BY <1>1, <2>1 DEF SocketAuthenticated
  <2>2. CASE Attach(s)
    BY <1>1, <2>2 DEF Attach, SocketReachable
  <2>3. CASE SocketCloses(s)
    BY <1>1, <2>3 DEF SocketCloses
  <2> QED
    BY <1>6, <2>1, <2>2, <2>3 DEF SocketStep
<1>7. ASSUME NEW f \in Frames, FrameStep(f) PROVE TypeOK'
  <2>1. ASSUME NEW s \in Sockets, NEW d \in Devices, FrameArrives(f, s, d) PROVE TypeOK'
    BY <1>1, <2>1 DEF FrameArrives
  <2>2. CASE FrameAsks(f)
    <3>1. CASE EndFrame(f)
      BY <1>1, <2>2, <3>1 DEF FrameAsks, EndFrame
    <3>2. CASE fpc' = [fpc EXCEPT ![f] = "paired"] /\ UNCHANGED <<route, cut>>
      BY <1>1, <2>2, <3>2 DEF FrameAsks
    <3> QED
      BY <2>2, <3>1, <3>2 DEF FrameAsks
  <2>3. CASE FrameForwards(f)
    BY <1>1, <2>3 DEF FrameForwards
  <2>4. CASE FrameDone(f)
    BY <1>1, <2>4 DEF FrameDone, EndFrame
  <2> QED
    BY <1>7, <2>1, <2>2, <2>3, <2>4 DEF FrameStep
<1>8. CASE Restart
  BY <1>1, <1>8 DEF Restart
<1>9. CASE UNCHANGED vars
  BY <1>9 DEF vars
<1> QED
  BY <1>2, <1>3, <1>4, <1>5, <1>6, <1>7, <1>8, <1>9 DEF Next

\* Only sockets, a drop and a restart change the hub, and each keeps it equal
\* to the open sockets.
LEMMA ReachableStep == TypeOK /\ SocketReachable /\ [Next]_vars => SocketReachable'
<1> SUFFICES ASSUME TypeOK, SocketReachable, [Next]_vars PROVE SocketReachable'
  OBVIOUS
<1> USE RelayAssumption DEF TypeOK, SocketReachable
<1>1. CASE UNCHANGED hubVars
  BY <1>1 DEF hubVars
<1>2. ASSUME NEW s \in Sockets, SocketStep(s) PROVE SocketReachable'
  <2>1. ASSUME NEW d \in Devices, SocketAuthenticated(s, d) PROVE SocketReachable'
    BY <2>1 DEF SocketAuthenticated
  <2>2. CASE Attach(s)
    BY <2>2 DEF Attach
  <2>3. CASE SocketCloses(s)
    BY <2>3 DEF SocketCloses
  <2> QED
    BY <1>2, <2>1, <2>2, <2>3 DEF SocketStep
<1>3. ASSUME NEW d \in Devices, RevokeDrops(d) PROVE SocketReachable'
  BY <1>3 DEF RevokeDrops
<1>4. CASE Restart
  BY <1>4 DEF Restart
<1> QED
  BY <1>1, <1>2, <1>3, <1>4 DEF Next, vars, IssueStep, IssueAuthenticated, IssueCount,
     IssueInsert, IssueFails, TokenAges, RedeemStep, RedeemArrives, RedeemClaim,
     RedeemMisses, RedeemChecksAgent, RedeemCount, RedeemCommit, RedeemFails,
     RevokePairing, RevokeStep, RevokeAuthenticated, RevokeCommit, RevokeFails, FrameStep,
     FrameArrives, FrameAsks, FrameForwards, FrameDone

\* The rows of a device and of its pairing move together.
LEMMA RowStep == TypeOK /\ RowInv /\ [Next]_vars => RowInv'
<1> SUFFICES ASSUME TypeOK, RowInv, [Next]_vars PROVE RowInv'
  OBVIOUS
<1> USE RelayAssumption DEF TypeOK, RowInv, Devices, InTx
<1>1. CASE UNCHANGED <<rpc, row, pairing, vpc>>
  BY <1>1
<1>2. ASSUME NEW c \in Clients, RedeemStep(c) PROVE RowInv'
  BY <1>2 DEF RedeemStep, RedeemArrives, RedeemClaim, RedeemMisses, RedeemChecksAgent,
     RedeemCount, RedeemCommit, RedeemFails, EndRedeem, rowVars
<1>3. ASSUME NEW c \in Clients, RevokePairing(c) PROVE RowInv'
  BY <1>3 DEF RevokePairing, redeemVars
<1>4. ASSUME NEW d \in Devices, RevokeStep(d) PROVE RowInv'
  BY <1>4 DEF RevokeStep, RevokeAuthenticated, RevokeCommit, RevokeFails, RevokeDrops,
     redeemVars, rowVars
<1>5. CASE Restart
  BY <1>5 DEF Restart, rowVars
<1> QED
  BY <1>1, <1>2, <1>3, <1>4, <1>5 DEF Next, vars, redeemVars, rowVars, IssueStep,
     IssueAuthenticated, IssueCount, IssueInsert, IssueFails, TokenAges, SocketStep,
     SocketAuthenticated, Attach, SocketCloses, FrameStep, FrameArrives, FrameAsks,
     FrameForwards, FrameDone

\* A claim waits for the lock and finds the token unused; a commit marks it used
\* before the lock is released.
LEMMA ClaimStep ==
    TypeOK /\ ClaimInv /\ TokenSingleUse /\ [Next]_vars => ClaimInv' /\ TokenSingleUse'
<1> SUFFICES ASSUME TypeOK, ClaimInv, TokenSingleUse, [Next]_vars
             PROVE  ClaimInv' /\ TokenSingleUse'
  OBVIOUS
<1> USE RelayAssumption DEF TypeOK, ClaimInv, TokenSingleUse, InTx
<1>1. CASE UNCHANGED <<rpc, rtok, used, by>>
  BY <1>1
<1>2. ASSUME NEW c \in Clients, RedeemStep(c) PROVE ClaimInv' /\ TokenSingleUse'
  <2>1. ASSUME NEW t \in Tokens, RedeemArrives(c, t) PROVE ClaimInv' /\ TokenSingleUse'
    BY <2>1 DEF RedeemArrives, tokenVars
  <2>2. CASE RedeemClaim(c)
    BY <2>2 DEF RedeemClaim, Locked, tokenVars
  <2>3. CASE RedeemMisses(c)
    BY <2>3 DEF RedeemMisses, EndRedeem, tokenVars
  <2>4. CASE RedeemFails(c)
    BY <2>4 DEF RedeemFails, EndRedeem, tokenVars
  <2>5. CASE RedeemChecksAgent(c)
    BY <2>5 DEF RedeemChecksAgent, EndRedeem
  <2>6. CASE RedeemCount(c)
    <3>1. CASE EndRedeem(c) /\ used' = used \cup {rtok[c]} /\ UNCHANGED by
      BY <2>6, <3>1 DEF RedeemCount, EndRedeem
    <3>2. CASE rpc' = [rpc EXCEPT ![c] = "counted"] /\ UNCHANGED <<rtok, used, by>>
      BY <2>6, <3>2 DEF RedeemCount
    <3> QED
      BY <2>6, <3>1, <3>2 DEF RedeemCount
  <2>7. CASE RedeemCommit(c)
    BY <2>7 DEF RedeemCommit, EndRedeem
  <2> QED
    BY <1>2, <2>1, <2>2, <2>3, <2>4, <2>5, <2>6, <2>7 DEF RedeemStep
<1>3. CASE Restart
  BY <1>3 DEF Restart
<1> QED
  BY <1>1, <1>2, <1>3 DEF Next, vars, tokenVars, redeemVars, IssueStep,
     IssueAuthenticated, IssueCount, IssueInsert, IssueFails, TokenAges, RevokePairing,
     RevokeStep, RevokeAuthenticated, RevokeCommit, RevokeFails, RevokeDrops, SocketStep,
     SocketAuthenticated, Attach, SocketCloses, FrameStep, FrameArrives, FrameAsks,
     FrameForwards, FrameDone

\* The agent's row never becomes active again, so a late claim stays refused.
LEMMA LateStep ==
    TypeOK /\ RevokedAgentPairsNoMore /\ [Next]_vars => RevokedAgentPairsNoMore'
<1> SUFFICES ASSUME TypeOK, RevokedAgentPairsNoMore, [Next]_vars
             PROVE  RevokedAgentPairsNoMore'
  OBVIOUS
<1> USE RelayAssumption DEF TypeOK, RevokedAgentPairsNoMore, Devices
<1>1. CASE UNCHANGED <<rpc, late, row>>
  BY <1>1
<1>2. ASSUME NEW c \in Clients, RedeemStep(c) PROVE RevokedAgentPairsNoMore'
  <2>1. CASE RedeemClaim(c)
    BY <2>1 DEF RedeemClaim, rowVars
  <2>2. CASE RedeemChecksAgent(c)
    BY <2>2 DEF RedeemChecksAgent, EndRedeem, rowVars
  <2>3. CASE RedeemCommit(c)
    BY <2>3 DEF RedeemCommit, EndRedeem
  <2>4. CASE RedeemCount(c)
    BY <2>4 DEF RedeemCount, EndRedeem, rowVars
  <2>5. CASE RedeemMisses(c) \/ RedeemFails(c) \/ \E t \in Tokens : RedeemArrives(c, t)
    BY <2>5 DEF RedeemMisses, RedeemFails, RedeemArrives, EndRedeem, rowVars
  <2> QED
    BY <1>2, <2>1, <2>2, <2>3, <2>4, <2>5 DEF RedeemStep
<1>3. ASSUME NEW d \in Devices, RevokeCommit(d) PROVE RevokedAgentPairsNoMore'
  BY <1>3 DEF RevokeCommit, redeemVars
<1>4. CASE Restart
  BY <1>4 DEF Restart
<1> QED
  BY <1>1, <1>2, <1>3, <1>4 DEF Next, vars, redeemVars, rowVars, IssueStep,
     IssueAuthenticated, IssueCount, IssueInsert, IssueFails, TokenAges, RevokePairing,
     RevokeStep, RevokeAuthenticated, RevokeFails, RevokeDrops, SocketStep,
     SocketAuthenticated, Attach, SocketCloses, FrameStep, FrameArrives, FrameAsks,
     FrameForwards, FrameDone

\* A pairing never returns from its revocation, nor a committed one to none.
LEMMA PairingsAdvance ==
    ASSUME TypeOK, RowInv, [Next]_vars, NEW c \in Clients
    PROVE  /\ pairing[c] = "revoked" => pairing'[c] = "revoked"
           /\ pairing[c] # "none" => pairing'[c] # "none"
<1> USE RelayAssumption DEF TypeOK, RowInv, Devices
<1>1. CASE UNCHANGED pairing
  BY <1>1
<1>2. ASSUME NEW b \in Clients, RedeemCommit(b) \/ RevokePairing(b)
      PROVE  /\ pairing[c] = "revoked" => pairing'[c] = "revoked"
             /\ pairing[c] # "none" => pairing'[c] # "none"
  BY <1>2 DEF RedeemCommit, RevokePairing
<1>3. ASSUME NEW d \in Devices, RevokeCommit(d)
      PROVE  /\ pairing[c] = "revoked" => pairing'[c] = "revoked"
             /\ pairing[c] # "none" => pairing'[c] # "none"
  BY <1>3 DEF RevokeCommit
<1> QED
  BY <1>1, <1>2, <1>3 DEF Next, vars, rowVars, IssueStep, IssueAuthenticated, IssueCount,
     IssueInsert, IssueFails, TokenAges, RedeemStep, RedeemArrives, RedeemClaim,
     RedeemMisses, RedeemChecksAgent, RedeemCount, RedeemFails, RevokeStep,
     RevokeAuthenticated, RevokeFails, RevokeDrops, SocketStep, SocketAuthenticated,
     Attach, SocketCloses, FrameStep, FrameArrives, FrameAsks, FrameForwards, FrameDone,
     Restart

\* Two devices have one pairing: it is not both live and revoked.
LEMMA OnePairing ==
    ASSUME NEW r, Between(r, {"live"}), Between(r, {"revoked"}) PROVE FALSE
  BY RelayAssumption DEF Between, Devices

\* The check of a frame asks for a live pairing, which one revoked before the
\* frame arrived is not.
LEMMA FrameInvStep == TypeOK /\ TypeOK' /\ RowInv /\ FrameInv /\ [Next]_vars => FrameInv'
<1> SUFFICES ASSUME TypeOK, TypeOK', RowInv, FrameInv, [Next]_vars PROVE FrameInv'
  OBVIOUS
<1> DEFINE After(r, states) ==
             \E c \in Clients : {r.from, r.to} = {c, Agent} /\ pairing'[c] \in states
<1>1. /\ \A r : Between(r, {"revoked"}) => After(r, {"revoked"})
      /\ \A r : Between(r, {"live", "revoked"}) => After(r, {"live", "revoked"})
  <2>1. ASSUME NEW c \in Clients
        PROVE  /\ pairing[c] \in {"revoked"} => pairing'[c] \in {"revoked"}
               /\ pairing[c] \in {"live", "revoked"} => pairing'[c] \in {"live", "revoked"}
    BY PairingsAdvance, <2>1 DEF TypeOK
  <2> QED
    BY <2>1 DEF Between
<1>2. \A r : Between(r, {"live"}) => Between(r, {"live", "revoked"})
  BY DEF Between
<1>3. /\ \A f \in cut' : fpc'[f] # "none" /\ After(route'[f], {"revoked"})
      /\ \A f \in Frames : fpc'[f] \in {"paired", "sent"} =>
            f \notin cut' /\ After(route'[f], {"live", "revoked"})
  <2> HIDE DEF After
  <2> USE <1>1, <1>2 DEF TypeOK, FrameInv
  <2>1. CASE UNCHANGED frameVars
    BY <2>1 DEF frameVars
  <2>2. CASE Restart
    BY <2>2 DEF Restart
  <2>3. ASSUME NEW f \in Frames, FrameStep(f)
        PROVE  /\ \A g \in cut' : fpc'[g] # "none" /\ After(route'[g], {"revoked"})
               /\ \A g \in Frames : fpc'[g] \in {"paired", "sent"} =>
                     g \notin cut' /\ After(route'[g], {"live", "revoked"})
    <3>1. ASSUME NEW s \in Sockets, NEW d \in Devices, FrameArrives(f, s, d)
          PROVE  /\ \A g \in cut' : fpc'[g] # "none" /\ After(route'[g], {"revoked"})
                 /\ \A g \in Frames : fpc'[g] \in {"paired", "sent"} =>
                       g \notin cut' /\ After(route'[g], {"live", "revoked"})
      <4> DEFINE r == [from |-> sdev[s], to |-> d]
      <4>1. /\ route' = [route EXCEPT ![f] = r] /\ fpc' = [fpc EXCEPT ![f] = "asking"]
            /\ cut' = IF Between(r, {"revoked"}) THEN cut \cup {f} ELSE cut
            /\ fpc[f] = "none"
        BY <3>1 DEF FrameArrives
      <4> HIDE DEF r
      <4>2. cut \subseteq Frames /\ \A g \in Frames : g # f => route'[g] = route[g]
        BY <4>1
      <4>3. \A g \in cut' : fpc'[g] # "none" /\ After(route'[g], {"revoked"})
        BY <4>1, <4>2
      <4> QED
        BY <4>1, <4>2, <4>3
    <3>2. CASE EndFrame(f)
      BY <3>2 DEF EndFrame
    <3>3. CASE FrameAsks(f) /\ ~EndFrame(f)
      <4>1. f \notin cut /\ After(route[f], {"live", "revoked"})
        BY <3>3, OnePairing DEF FrameAsks
      <4> QED
        BY <3>3, <4>1 DEF FrameAsks
    <3>4. CASE FrameForwards(f)
      BY <3>4 DEF FrameForwards
    <3> QED
      BY <2>3, <3>1, <3>2, <3>3, <3>4 DEF FrameStep, FrameDone
  <2> QED
    BY <2>1, <2>2, <2>3 DEF Next, vars, IssueStep, IssueAuthenticated, IssueCount,
       IssueInsert, IssueFails, TokenAges, RedeemStep, RedeemArrives, RedeemClaim,
       RedeemMisses, RedeemChecksAgent, RedeemCount, RedeemCommit, RedeemFails,
       RevokePairing, RevokeStep, RevokeAuthenticated, RevokeCommit, RevokeFails,
       RevokeDrops, SocketStep, SocketAuthenticated, Attach, SocketCloses
<1> QED
  BY <1>3 DEF FrameInv, Between

\* Inserting what was counted keeps within the quota unless another insert came
\* between, which the history records; everything else only removes.
LEMMA QuotaStep == TypeOK /\ TypeOK' /\ QuotaInv /\ [Next]_vars => QuotaInv'
<1> SUFFICES ASSUME TypeOK, TypeOK', QuotaInv, [Next]_vars, ~overlapped' PROVE QuotaInv'
  BY DEF QuotaInv
<1> USE RelayAssumption
<1>1. /\ IsFiniteSet(Active) /\ IsFiniteSet(Active')
      /\ IsFiniteSet(Recent) /\ IsFiniteSet(Recent')
  <2>1. IsFiniteSet(Devices)
    BY FS_AddElement DEF Devices
  <2> QED
    BY <2>1, FS_Subset DEF Active, Recent
<1>2. /\ Cardinality(Active) \in Nat /\ Cardinality(Active') \in Nat
      /\ Cardinality(Recent) \in Nat /\ Cardinality(Recent') \in Nat
  BY <1>1, FS_CardinalityType
<1>3. /\ Active' \subseteq Active => Cardinality(Active') <= Cardinality(Active)
      /\ Recent' \subseteq Recent => Cardinality(Recent') <= Cardinality(Recent)
  BY <1>1, FS_Subset
\* A step that inserts nothing and lets nobody through a count.
<1>4. ASSUME ~overlapped, Active' \subseteq Active, Recent' \subseteq Recent,
             \A c \in Clients : rpc'[c] = "counted" =>
                 rpc[c] = "counted" \/ Cardinality(Active) < MaxDevices,
             \A t \in Tokens : ipc'[t] = "counted" =>
                 ipc[t] = "counted" \/ Cardinality(Recent) < MaxAttempts
      PROVE  QuotaInv'
  BY <1>2, <1>3, <1>4 DEF QuotaInv
<1>5. ASSUME NEW t \in Tokens, IssueInsert(t) PROVE QuotaInv'
  <2>1. ~overlapped /\ \A u \in Tokens \ {t} : ipc[u] # "counted"
    BY <1>5 DEF IssueInsert
  <2>2. Recent' \subseteq Recent \cup {t} /\ Active' = Active
    BY <1>5 DEF IssueInsert, Recent, Active, rowVars, TypeOK
  <2>3. Cardinality(Recent') <= Cardinality(Recent) + 1
    <3>1. /\ IsFiniteSet(Recent \cup {t})
          /\ Cardinality(Recent \cup {t}) =
                IF t \in Recent THEN Cardinality(Recent) ELSE Cardinality(Recent) + 1
      BY <1>1, FS_AddElement
    <3>2. Cardinality(Recent') <= Cardinality(Recent \cup {t})
      BY <2>2, <3>1, FS_Subset
    <3> QED
      BY <1>2, <3>1, <3>2
  <2>4. \A u \in Tokens : ipc'[u] # "counted"
    BY <1>5, <2>1 DEF IssueInsert, TypeOK
  <2> QED
    BY <1>2, <1>5, <2>1, <2>2, <2>3, <2>4 DEF QuotaInv, IssueInsert, redeemVars
<1>6. ASSUME NEW c \in Clients, RedeemCommit(c) PROVE QuotaInv'
  <2>1. ~overlapped /\ \A b \in Clients \ {c} : rpc[b] # "counted"
    BY <1>6 DEF RedeemCommit
  <2>2. Active' \subseteq Active \cup {c} /\ Recent' = Recent
    BY <1>6 DEF RedeemCommit, Recent, Active, TypeOK
  <2>3. Cardinality(Active') <= Cardinality(Active) + 1
    <3>1. /\ IsFiniteSet(Active \cup {c})
          /\ Cardinality(Active \cup {c}) =
                IF c \in Active THEN Cardinality(Active) ELSE Cardinality(Active) + 1
      BY <1>1, FS_AddElement
    <3>2. Cardinality(Active') <= Cardinality(Active \cup {c})
      BY <2>2, <3>1, FS_Subset
    <3> QED
      BY <1>2, <3>1, <3>2
  <2>4. \A b \in Clients : rpc'[b] # "counted"
    BY <1>6, <2>1 DEF RedeemCommit, EndRedeem, TypeOK
  <2> QED
    BY <1>2, <1>6, <2>1, <2>2, <2>3, <2>4 DEF QuotaInv, RedeemCommit
<1>7. CASE UNCHANGED <<ipc, age, rpc, row, overlapped>>
  BY <1>4, <1>7 DEF Active, Recent
<1>8. ASSUME NEW t \in Tokens, IssueStep(t), ~IssueInsert(t) PROVE QuotaInv'
  <2>1. ~overlapped /\ UNCHANGED <<row, rpc>>
    BY <1>8 DEF IssueStep, IssueAuthenticated, IssueCount, IssueFails, TokenAges,
       rowVars, redeemVars
  <2>2. Active' \subseteq Active
    BY <2>1 DEF Active
  <2>3. Recent' \subseteq Recent
    BY <1>8 DEF IssueStep, IssueAuthenticated, IssueCount, IssueFails, TokenAges, Recent,
       TypeOK
  <2>4. \A u \in Tokens : ipc'[u] = "counted" =>
            ipc[u] = "counted" \/ Cardinality(Recent) < MaxAttempts
    BY <1>2, <1>8 DEF IssueStep, IssueAuthenticated, IssueCount, IssueFails, TokenAges,
       TypeOK
  <2> QED
    BY <1>4, <2>1, <2>2, <2>3, <2>4
<1>9. ASSUME NEW c \in Clients, RedeemStep(c), ~RedeemCommit(c) PROVE QuotaInv'
  <2>1. ~overlapped /\ UNCHANGED <<row, ipc, age>>
    BY <1>9 DEF RedeemStep, RedeemArrives, RedeemClaim, RedeemMisses, RedeemChecksAgent,
       RedeemCount, RedeemFails, rowVars, tokenVars
  <2>2. Active' \subseteq Active /\ Recent' \subseteq Recent
    BY <2>1 DEF Active, Recent
  <2>3. \A b \in Clients : rpc'[b] = "counted" =>
            rpc[b] = "counted" \/ Cardinality(Active) < MaxDevices
    BY <1>2, <1>9 DEF RedeemStep, RedeemArrives, RedeemClaim, RedeemMisses,
       RedeemChecksAgent, RedeemCount, RedeemFails, EndRedeem, TypeOK
  <2> QED
    BY <1>4, <2>1, <2>2, <2>3
<1>10. ASSUME NEW d \in Devices, RevokeCommit(d) PROVE QuotaInv'
  <2>1. Active' \subseteq Active
    BY <1>10 DEF RevokeCommit, Active, TypeOK
  <2>2. ~overlapped /\ UNCHANGED <<ipc, age, rpc>>
    BY <1>10 DEF RevokeCommit, tokenVars, redeemVars
  <2> QED
    BY <1>4, <2>1, <2>2 DEF Recent
<1>11. CASE Restart
  <2>1. Active' \subseteq Active /\ Recent' \subseteq Recent /\ ~overlapped
    BY <1>11 DEF Restart, Active, Recent, rowVars
  <2>2. /\ \A c \in Clients : rpc'[c] # "counted"
        /\ \A t \in Tokens : ipc'[t] # "counted"
    BY <1>11 DEF Restart
  <2> QED
    BY <1>4, <2>1, <2>2
<1> QED
  BY <1>5, <1>6, <1>7, <1>8, <1>9, <1>10, <1>11 DEF Next, vars, tokenVars, redeemVars,
     rowVars, RevokePairing, RevokeStep, RevokeAuthenticated, RevokeFails, RevokeDrops,
     SocketStep, SocketAuthenticated, Attach, SocketCloses, FrameStep, FrameArrives,
     FrameAsks, FrameForwards, FrameDone

----------------------------------------------------------------------------
\* The inductive invariant.
RelayInv ==
    /\ TypeOK /\ SocketReachable /\ RowInv /\ ClaimInv /\ TokenSingleUse
    /\ RevokedAgentPairsNoMore /\ FrameInv /\ QuotaInv

\* It holds of a freshly enrolled account.
LEMMA InvInit == Init => RelayInv
<1> SUFFICES ASSUME Init PROVE RelayInv
  OBVIOUS
<1> USE RelayAssumption
<1>1. TypeOK
  BY TypeInit
<1>2. SocketReachable /\ RowInv /\ ClaimInv /\ TokenSingleUse /\ RevokedAgentPairsNoMore
  BY DEF Init, SocketReachable, RowInv, ClaimInv, TokenSingleUse,
     RevokedAgentPairsNoMore, InTx, Devices
<1>3. FrameInv
  BY DEF Init, FrameInv
<1>4. QuotaInv
  <2>1. Active = {Agent} /\ Recent = {}
    BY DEF Init, Active, Recent, Devices
  <2>2. Cardinality(Active) = 1 /\ Cardinality(Recent) = 0
    BY <2>1, FS_Singleton, FS_EmptySet
  <2> QED
    BY <2>2 DEF QuotaInv, Init
<1> QED
  BY <1>1, <1>2, <1>3, <1>4 DEF RelayInv

\* Every step keeps it.
LEMMA InvStep == RelayInv /\ [Next]_vars => RelayInv'
  BY TypeStep, ReachableStep, RowStep, ClaimStep, LateStep, FrameInvStep, QuotaStep
  DEF RelayInv

(* The invariant holds in every behaviour. *)
LEMMA InvAlways == Spec => []RelayInv
  BY InvInit, InvStep, PTL DEF Spec

----------------------------------------------------------------------------
\* The variables keep their types in every behaviour of the relay.
THEOREM RelayTyped == Spec => []TypeOK
<1>1. RelayInv => TypeOK
  BY DEF RelayInv
<1> QED
  BY <1>1, InvAlways, PTL

\* No pairing token pairs two clients, however redemptions overlap or fail.
THEOREM SingleRedemption == Spec => []TokenSingleUse
<1>1. RelayInv => TokenSingleUse
  BY DEF RelayInv
<1> QED
  BY <1>1, InvAlways, PTL

\* A redemption that claims its token after the host was revoked pairs nobody.
THEOREM RevokedHostPairsNobody == Spec => []RevokedAgentPairsNoMore
<1>1. RelayInv => RevokedAgentPairsNoMore
  BY DEF RelayInv
<1> QED
  BY <1>1, InvAlways, PTL

\* Without an overlap the account's quotas hold, whatever fails or restarts.
THEOREM QuotasKept == Spec => []QuotaHolds
<1>1. RelayInv => QuotaHolds
  BY DEF RelayInv, QuotaInv, QuotaHolds
<1> QED
  BY <1>1, InvAlways, PTL

\* The hub names exactly the open sockets, across reconnections and revocations.
THEOREM HubExact == Spec => []SocketReachable
<1>1. RelayInv => SocketReachable
  BY DEF RelayInv
<1> QED
  BY <1>1, InvAlways, PTL

\* No frame that arrives after its pairing or its phone was revoked is forwarded.
THEOREM FramesCut == Spec => []NoFrameAfterRevoke
<1>1. RelayInv => NoFrameAfterRevoke
  BY DEF RelayInv, FrameInv, RowInv, NoFrameAfterRevoke
<1> QED
  BY <1>1, InvAlways, PTL
=============================================================================
