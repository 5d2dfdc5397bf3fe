---------------------------- MODULE DataDirProofs ----------------------------
(***************************************************************************)
(* Proofs about DataDir, for any number of processes, relays, phones and   *)
(* identities, with no lock between the processes: the saves implement     *)
(* AtomicFiles, an enrolment never lacks its token, and open hosts agree.  *)
(***************************************************************************)
EXTENDS DataDir, TLAPS

(* Where a process goes on after Host::open, and where it is opening. *)
Opened == {"open", "pinning", "unpaired", "enrolling", "sealed token", "enrolled"}
HasIdentity == {"newidentity", "state", "newstate", "audit"} \cup Opened
HasState == {"newstate", "audit"} \cup Opened
Steps == {"off"} \cup Opening \cup Opened
Handles == {"none", "tmp", "file", "unlinked"}
Overlaps == {"none", "now", "past"}

DirTypeOK ==
    /\ file \in [Files -> Contents \cup {Absent}]
    /\ tmp \in [Files -> Contents \cup {Absent}]
    /\ pc \in [Procs -> Steps]
    /\ job \in [Procs -> Jobs \cup {Idle}]
    /\ at \in [Procs -> Handles]
    /\ me \in [Procs -> Ids \cup {Absent}]
    /\ mem \in [Procs -> States \cup {Absent}]
    /\ tok \in [Procs -> Relays \cup {Absent}]
    /\ url \in [Procs -> Relays \cup {NoRelay}]
    /\ fresh \in 0 .. MaxIds
    /\ overlap \in [Files -> Overlaps]
    /\ raced \in BOOLEAN

(* What a process has in memory by where it is. *)
MemoryOk(p) ==
    /\ pc[p] \in HasIdentity => me[p] \in Ids
    /\ pc[p] \in HasState => mem[p] \in States
    /\ pc[p] \in {"enrolling", "sealed token"} => url[p] \in Relays

(* What a process saves, by where it is, and where that leads. *)
JobOk(p) ==
    \/ pc[p] = "newidentity" /\ job[p].file = "identity" /\ job[p].value = me[p]
         /\ job[p].then = "state"
    \/ pc[p] = "newstate" /\ job[p].file = "state" /\ job[p].value = mem[p]
         /\ job[p].then = "audit"
    \/ pc[p] = "pinning" /\ job[p].file = "state" /\ job[p].value = mem[p]
         /\ job[p].then \in {"unpaired", "open"}
    \/ pc[p] = "enrolling" /\ job[p].file = "token" /\ job[p].value = url[p]
         /\ job[p].then = "sealed token"
    \/ pc[p] = "sealed token" /\ job[p].file = "state" /\ job[p].value = mem[p]
         /\ job[p].then = "enrolled"

ProcInv == \A p \in Procs : MemoryOk(p) /\ (Saving(p) => JobOk(p))

Whole(b) == b.half1 = b.half2 /\ b.half1 \in Values /\ b.synced = TRUE

(* The temporary file b is as far as the save of v that has done d. *)
AsFar(d, v, b) ==
    /\ b # Absent
    /\ d # "opened" => b.half1 = v
    /\ d \in {"written", "synced"} => b.half2 = v
    /\ d = "synced" => b.synced = TRUE

(* Where a saver's handle points, and what it has written when no other     *)
(* save of the file overlaps its own.                                       *)
HandleOk(p) ==
    LET f == job[p].file IN
    /\ job[p].done = "nothing" => at[p] = "none"
    /\ at[p] = "tmp" => tmp[f] # Absent
    /\ at[p] = "file" => file[f] # Absent /\ overlap[f] = "now"
    /\ overlap[f] # "now" /\ job[p].done # "nothing" =>
         at[p] = "tmp" /\ AsFar(job[p].done, job[p].value, tmp[f])

(* A file that no saves overlapped on is whole and flushed; a temporary     *)
(* file has a saver.                                                        *)
BytesInv ==
    /\ \A f \in Files : overlap[f] = "none" /\ file[f] # Absent => Whole(file[f])
    /\ \A p \in Procs : IF Saving(p) THEN HandleOk(p) ELSE at[p] = "none"
    /\ \A f \in Files : tmp[f] # Absent => \E p \in Procs : Saving(p) /\ job[p].file = f

(* `overlap` tells when two processes save one file. *)
AloneInv ==
    \A p, q \in Procs :
        Saving(p) /\ Saving(q) /\ job[p].file = job[q].file /\ p # q
            => overlap[job[p].file] = "now"

(* The values whose bytes are in a file or in its temporary sibling: each   *)
(* of the file's own kind.                                                  *)
Holds(b, v) == b # Absent /\ (b.half1 = v \/ b.half2 = v)
Halves(f) == {v \in Values : Holds(file[f], v) \/ Holds(tmp[f], v)}
Kind(f) == CASE f = "identity" -> Ids [] f = "state" -> States [] f = "token" -> Relays
KindInv == \A f \in Files : Halves(f) \subseteq Kind(f)

SaveInv == DirTypeOK /\ ProcInv /\ BytesInv /\ AloneInv /\ KindInv

-----------------------------------------------------------------------------
(* A new directory satisfies the invariant of the saves. *)
LEMMA SaveInvInit == DirInit => SaveInv
<1> SUFFICES ASSUME DirInit PROVE SaveInv
  OBVIOUS
<1>1. DirTypeOK
  <2>1. fresh \in 0 .. MaxIds
    BY DirAssumption DEF DirInit
  <2> QED
    BY <2>1 DEF DirInit, DirTypeOK, Steps, Handles, Overlaps
<1>2. \A p \in Procs : MemoryOk(p)
  BY DEF DirInit, MemoryOk, HasIdentity, HasState, Opened
<1>3. \A p \in Procs : ~ Saving(p)
  BY DEF DirInit, Saving
<1>4. BytesInv
  BY <1>3 DEF DirInit, BytesInv
<1>5. KindInv
  BY DEF DirInit, KindInv, Halves, Holds
<1> QED
  BY <1>1, <1>2, <1>3, <1>4, <1>5 DEF SaveInv, ProcInv, AloneInv

(* What a process saves is of the kind of the file it saves. *)
LEMMA JobKind ==
  ASSUME SaveInv, NEW p \in Procs, Saving(p)
  PROVE  job[p] \in Jobs /\ JobOk(p) /\ MemoryOk(p) /\ job[p].file \in Files
           /\ job[p].value \in Values /\ job[p].value \in Kind(job[p].file)
<1>1. job[p] \in Jobs /\ JobOk(p) /\ MemoryOk(p)
  BY DEF SaveInv, DirTypeOK, ProcInv, Saving
<1>2. job[p].file \in Files /\ job[p].value \in Values
  BY <1>1 DEF Jobs
<1>3. job[p].value \in Kind(job[p].file)
  BY <1>1 DEF JobOk, MemoryOk, Kind, HasIdentity, HasState, Opened
<1> QED
  BY <1>1, <1>2, <1>3

(* So the bytes keep to their kind as long as a step adds what is saved. *)
LEMMA KindKept ==
  ASSUME SaveInv,
         \A f \in Files : \A v \in Halves(f)' :
            v \in Halves(f) \/ \E p \in Procs : Saving(p) /\ job[p].file = f /\ job[p].value = v
  PROVE  KindInv'
<1> SUFFICES ASSUME NEW f \in Files, NEW v \in Halves(f)' PROVE v \in Kind(f)
  BY DEF KindInv, Kind
<1>1. CASE v \in Halves(f)
  BY <1>1 DEF SaveInv, KindInv
<1>2. CASE \E p \in Procs : Saving(p) /\ job[p].file = f /\ job[p].value = v
  BY <1>2, JobKind
<1> QED
  BY <1>1, <1>2

-----------------------------------------------------------------------------
(* The steps that read files and move on. *)
Local(p) ==
    \/ OpenHost(p) \/ LoadIdentity(p) \/ LoadState(p) \/ HostOpened(p)
    \/ RelayTarget(p) \/ NotifyRelay(p) \/ PresentToken(p)
    \/ \E r \in Relays : EnsureEnrolled(p, r)

(* The steps that begin a save. *)
Begins(p) ==
    SealIdentity(p) \/ CreateState(p) \/ SavePeers(p) \/ StoreRelayToken(p) \/ SetRelay(p)

(* What holds of a process is its own: a step of p keeps it for the others. *)
LEMMA OthersKeep ==
  ASSUME ProcInv, NEW p \in Procs,
         \A q \in Procs \ {p} :
            /\ pc'[q] = pc[q] /\ job'[q] = job[q] /\ me'[q] = me[q]
            /\ mem'[q] = mem[q] /\ url'[q] = url[q],
         MemoryOk(p)', Saving(p)' => JobOk(p)'
  PROVE  ProcInv'
<1> SUFFICES ASSUME NEW q \in Procs, q # p
             PROVE  (MemoryOk(q) /\ (Saving(q) => JobOk(q)))'
  BY DEF ProcInv
<1>1. /\ pc'[q] = pc[q] /\ job'[q] = job[q] /\ me'[q] = me[q]
      /\ mem'[q] = mem[q] /\ url'[q] = url[q]
  OBVIOUS
<1>2. MemoryOk(q) /\ (Saving(q) => JobOk(q))
  BY DEF ProcInv
<1>3. MemoryOk(q)'
  BY <1>1, <1>2 DEF MemoryOk
<1>4. Saving(q)' => Saving(q)
  BY <1>1 DEF Saving
<1>5. JobOk(q) => JobOk(q)'
  BY ONLY <1>1 DEF JobOk
<1> QED
  BY <1>2, <1>3, <1>4, <1>5

(* Steps that touch no file and no job preserve it (Host::open, the commands). *)
LEMMA LocalKeeps ==
  ASSUME SaveInv, NEW p \in Procs, Local(p)
  PROVE  SaveInv'
<1> USE DEF SaveInv
<1>1. UNCHANGED <<file, tmp, job, at, overlap>> /\ raced' \in BOOLEAN
  BY DEF Local, OpenHost, LoadIdentity, LoadState, HostOpened, RelayTarget, NotifyRelay,
     PresentToken, EnsureEnrolled, DirTypeOK
<1>2. BytesInv' /\ AloneInv' /\ KindInv'
  BY <1>1 DEF BytesInv, AloneInv, KindInv, Halves, HandleOk, Saving
<1>3. MemoryOk(p) /\ ~ Saving(p) /\ ~ Saving(p)'
  BY <1>1 DEF Local, OpenHost, LoadIdentity, LoadState, HostOpened, RelayTarget, NotifyRelay,
     PresentToken, EnsureEnrolled, ProcInv, JobOk, Saving
<1> DEFINE Frame == \A q \in Procs \ {p} :
                /\ pc'[q] = pc[q] /\ me'[q] = me[q] /\ mem'[q] = mem[q] /\ url'[q] = url[q]
<1>4. ASSUME DirTypeOK', Frame, MemoryOk(p)' PROVE SaveInv'
  BY <1>1, <1>2, <1>3, <1>4, OthersKeep
<1>5. CASE OpenHost(p) \/ HostOpened(p) \/ PresentToken(p)
  <2>1. DirTypeOK' /\ Frame
    BY <1>1, <1>5 DEF OpenHost, HostOpened, PresentToken, DirTypeOK, Steps, Opening, Opened
  <2>2. MemoryOk(p)'
    BY <1>3, <1>5 DEF OpenHost, HostOpened, PresentToken, DirTypeOK, MemoryOk, HasIdentity,
       HasState, Opened
  <2> QED
    BY <1>4, <2>1, <2>2
<1>6. CASE LoadIdentity(p)
  <2>1. /\ me' \in [Procs -> Ids \cup {Absent}] /\ me'[p] \in Ids
        /\ pc' \in [Procs -> Steps]
        /\ pc'[p] \in {"state", "newidentity"}
        /\ fresh' \in 0 .. MaxIds /\ Frame /\ UNCHANGED <<mem, tok, url>>
    BY <1>6, DirAssumption DEF LoadIdentity, DirTypeOK, Ids, Steps, Opening
  <2>2. DirTypeOK'
    BY <1>1, <2>1 DEF DirTypeOK
  <2>3. MemoryOk(p)'
    BY <2>1 DEF MemoryOk, HasIdentity, HasState, Opened
  <2> QED
    BY <1>4, <2>1, <2>2, <2>3
<1>7. CASE LoadState(p)
  <2>1. /\ mem' \in [Procs -> States \cup {Absent}] /\ mem'[p] \in States
        /\ pc' \in [Procs -> Steps]
        /\ pc[p] = "state" /\ pc'[p] \in {"audit", "newstate"}
        /\ fresh' \in 0 .. MaxIds /\ Frame /\ UNCHANGED <<me, tok, url>>
    BY <1>7, DirAssumption DEF LoadState, DirTypeOK, States, Steps, Opening
  <2>2. DirTypeOK'
    BY <1>1, <2>1 DEF DirTypeOK
  <2>3. MemoryOk(p)'
    BY <1>3, <2>1 DEF MemoryOk, HasIdentity, HasState, Opened
  <2> QED
    BY <1>4, <2>1, <2>2, <2>3
<1>8. CASE RelayTarget(p) \/ NotifyRelay(p) \/ \E r \in Relays : EnsureEnrolled(p, r)
  <2>1. /\ pc[p] \in {"open", "unpaired"} /\ mem[p] \in States
        /\ pc' \in [Procs -> Steps]
        /\ pc'[p] \in {"enrolled", "open", "enrolling"}
        /\ Frame /\ UNCHANGED <<me, mem, fresh>>
    BY <1>3, <1>8 DEF RelayTarget, NotifyRelay, EnsureEnrolled, DirTypeOK, MemoryOk, HasState,
       Steps, Opened
  <2>2. /\ url' \in [Procs -> Relays \cup {NoRelay}]
        /\ pc'[p] = "enrolling" => url'[p] \in Relays
    BY <1>8, <2>1 DEF RelayTarget, NotifyRelay, EnsureEnrolled, DirTypeOK, States
  <2>3. tok' \in [Procs -> Relays \cup {Absent}]
    BY <1>8 DEF RelayTarget, NotifyRelay, EnsureEnrolled, DirTypeOK, HasToken
  <2>4. DirTypeOK'
    BY <1>1, <2>1, <2>2, <2>3 DEF DirTypeOK
  <2>5. MemoryOk(p)'
    BY <1>3, <2>1, <2>2 DEF MemoryOk, HasIdentity, HasState, Opened
  <2> QED
    BY <1>4, <2>1, <2>4, <2>5
<1> QED
  BY <1>5, <1>6, <1>7, <1>8 DEF Local

(* The record a save begins with, and where a process goes on after it. *)
Continuations == {"state", "audit", "open", "unpaired", "sealed token", "enrolled"}
Begun(f, v, then) == [file |-> f, value |-> v, done |-> "nothing", then |-> then]

(* So does the begin of a save, whoever else saves (save_encoded, seal). *)
LEMMA BeginsKeep ==
  ASSUME SaveInv, NEW p \in Procs, Begins(p)
  PROVE  /\ SaveInv' /\ ~ Saving(p) /\ UNCHANGED <<file, tmp, raced>>
         /\ \E f \in Files, v \in Values, then \in Continuations :
              /\ job' = [job EXCEPT ![p] = Begun(f, v, then)]
              /\ Begun(f, v, then) \in Jobs /\ BeginOverlap(p, f)
<1> USE DEF SaveInv
<1>0. UNCHANGED <<file, tmp, raced>>
  BY DEF Begins, SealIdentity, CreateState, SavePeers, StoreRelayToken, SetRelay
<1>2. ~ Saving(p)
  BY DEF Begins, SealIdentity, CreateState, SavePeers, StoreRelayToken, SetRelay, ProcInv, JobOk
<1>3. MemoryOk(p)
  BY DEF ProcInv
<1> DEFINE Frame == \A q \in Procs \ {p} : pc'[q] = pc[q] /\ mem'[q] = mem[q]
<1>4. ASSUME NEW f \in Files, NEW v \in Values, NEW then \in Continuations,
             job' = [job EXCEPT ![p] = Begun(f, v, then)], Begun(f, v, then) \in Jobs,
             BeginOverlap(p, f),
             UNCHANGED <<file, tmp, at, me, url, fresh>>, Frame,
             pc' \in [Procs -> Steps],
             mem' \in [Procs -> States \cup {Absent}],
             tok' \in [Procs -> Relays \cup {Absent}],
             MemoryOk(p)', JobOk(p)'
      PROVE  SaveInv'
  <2>0. /\ overlap' \in [Files -> Overlaps]
        /\ \A g \in Files \ {f} : overlap'[g] = overlap[g]
        /\ overlap'[f] = "none" => overlap[f] = "none"
        /\ (\E q \in Procs \ {p} : Saving(q) /\ job[q].file = f) => overlap'[f] = "now"
    BY <1>4 DEF BeginOverlap, DirTypeOK, Overlaps
  <2>1. DirTypeOK'
    BY <1>0, <1>4, <2>0 DEF DirTypeOK
  <2>2. /\ job'[p] = Begun(f, v, then) /\ \A q \in Procs \ {p} : job'[q] = job[q]
        /\ job'[p].file = f /\ job'[p].done = "nothing"
    BY <1>4 DEF DirTypeOK, Begun
  <2>3. ProcInv'
    BY <1>4, <2>2, OthersKeep
  <2>4. \A q \in Procs \ {p} : Saving(q)' = Saving(q)
    BY <2>2 DEF Saving
  <2>5. Saving(p)'
    BY <1>4, <2>2, DirAssumption DEF Saving
  <2>6. AloneInv'
    <3> SUFFICES ASSUME NEW q \in Procs, NEW r \in Procs, q # r, Saving(q)', Saving(r)',
                        job'[q].file = job'[r].file
                 PROVE  overlap'[job'[q].file] = "now"
      BY DEF AloneInv
    <3>1. CASE q # p /\ r # p
      <4>1. Saving(q) /\ Saving(r) /\ job[q].file = job[r].file /\ job[q].file \in Files
        BY <2>2, <2>4, <3>1, JobKind
      <4>2. overlap[job[q].file] = "now"
        BY <4>1 DEF AloneInv
      <4> QED
        BY <2>0, <2>2, <3>1, <4>1, <4>2
    <3>2. CASE q = p \/ r = p
      BY <2>0, <2>2, <2>4, <3>2
    <3> QED
      BY <3>1, <3>2
  <2>7. BytesInv'
    <3>1. \A g \in Files : overlap'[g] = "none" /\ file'[g] # Absent => Whole(file'[g])
      BY <1>4, <2>0 DEF BytesInv
    <3>2. HandleOk(p)'
      BY <1>2, <1>4, <2>2 DEF HandleOk, BytesInv
    <3>3. ASSUME NEW q \in Procs, q # p, Saving(q) PROVE HandleOk(q)'
      <4>1. HandleOk(q) /\ job'[q] = job[q] /\ at'[q] = at[q] /\ job[q].file \in Files
        BY <1>4, <2>2, <3>3, JobKind DEF BytesInv
      <4>2. overlap'[job[q].file] = overlap[job[q].file] \/ overlap'[job[q].file] = "now"
        BY <2>0, <3>3, <4>1
      <4> QED
        BY <1>4, <4>1, <4>2 DEF HandleOk
    <3>4. \A q \in Procs \ {p} : ~ Saving(q) => at'[q] = "none"
      BY <1>4 DEF BytesInv
    <3>5. \A g \in Files : tmp'[g] # Absent => \E q \in Procs : Saving(q)' /\ job'[q].file = g
      BY <1>2, <1>4, <2>2, <2>4 DEF BytesInv
    <3> QED
      BY <2>4, <2>5, <3>1, <3>2, <3>3, <3>4, <3>5 DEF BytesInv
  <2>8. KindInv'
    BY <1>4 DEF KindInv, Halves, Holds, Kind
  <2> QED
    BY <2>1, <2>3, <2>6, <2>7, <2>8
<1>5. CASE SealIdentity(p)
  <2>1. me[p] \in Ids /\ pc[p] = "newidentity"
    BY <1>3, <1>5 DEF SealIdentity, MemoryOk, HasIdentity
  <2>2. /\ BeginOverlap(p, "identity")
        /\ job' = [job EXCEPT ![p] = Begun("identity", me[p], "state")]
        /\ UNCHANGED <<file, tmp, pc, at, me, mem, tok, url, fresh>>
    BY <1>5 DEF SealIdentity, BeginSave, Begun
  <2>3. Begun("identity", me[p], "state") \in Jobs
    BY <2>1 DEF Begun, Jobs, Files, Values
  <2>4. MemoryOk(p)'
    BY <1>3, <2>2 DEF MemoryOk
  <2>5. JobOk(p)'
    BY <2>1, <2>2 DEF JobOk, Begun, DirTypeOK
  <2> QED
    BY <1>0, <1>2, <1>4, <2>1, <2>2, <2>3, <2>4, <2>5 DEF DirTypeOK, Files, Values, Continuations
<1>6. CASE CreateState(p)
  <2>1. mem[p] \in States /\ pc[p] = "newstate"
    BY <1>3, <1>6 DEF CreateState, MemoryOk, HasState
  <2>2. /\ BeginOverlap(p, "state")
        /\ job' = [job EXCEPT ![p] = Begun("state", mem[p], "audit")]
        /\ UNCHANGED <<file, tmp, pc, at, me, mem, tok, url, fresh>>
    BY <1>6 DEF CreateState, BeginSave, Begun
  <2>3. Begun("state", mem[p], "audit") \in Jobs
    BY <2>1 DEF Begun, Jobs, Files, Values
  <2>4. MemoryOk(p)'
    BY <1>3, <2>2 DEF MemoryOk
  <2>5. JobOk(p)'
    BY <2>1, <2>2 DEF JobOk, Begun, DirTypeOK
  <2> QED
    BY <1>0, <1>2, <1>4, <2>1, <2>2, <2>3, <2>4, <2>5 DEF DirTypeOK, Files, Values, Continuations
<1>7. CASE SavePeers(p)
  <2>1. mem[p] \in States /\ me[p] \in Ids /\ pc[p] = "open"
    BY <1>3, <1>7 DEF SavePeers, MemoryOk, HasIdentity, HasState, Opened
  <2>2. PICK ps \in SUBSET Phones :
          /\ mem' = [mem EXCEPT ![p] = [mem[p] EXCEPT !.peers = ps]]
          /\ pc' = [pc EXCEPT ![p] = "pinning"]
          /\ job' = [job EXCEPT ![p] = Begun("state", [mem[p] EXCEPT !.peers = ps],
                                             IF mem[p].peers \subseteq ps THEN "open"
                                                                          ELSE "unpaired")]
          /\ BeginOverlap(p, "state")
          /\ UNCHANGED <<file, tmp, at, me, tok, url, fresh>>
    BY <1>7 DEF SavePeers, BeginSave, Begun
  <2> DEFINE s == [mem[p] EXCEPT !.peers = ps]
             then == IF mem[p].peers \subseteq ps THEN "open" ELSE "unpaired"
  <2>3. s \in States /\ mem'[p] = s /\ pc'[p] = "pinning"
    BY <2>1, <2>2 DEF States, DirTypeOK
  <2>4. then \in {"unpaired", "open"} /\ Begun("state", s, then) \in Jobs
    BY <2>3 DEF Begun, Jobs, Files, Values
  <2>5. MemoryOk(p)'
    BY <2>1, <2>2, <2>3 DEF MemoryOk
  <2>6. job'[p] = Begun("state", s, then)
    BY <2>2 DEF DirTypeOK
  <2>7. JobOk(p)'
    BY <2>3, <2>4, <2>6 DEF JobOk, Begun
  <2>8. /\ pc' \in [Procs -> Steps]
        /\ mem' \in [Procs -> States \cup {Absent}] /\ Frame
    BY <2>2, <2>3 DEF DirTypeOK, Steps, Opened
  <2> QED
    BY <1>0, <1>2, <1>4, <2>2, <2>3, <2>4, <2>5, <2>7, <2>8 DEF DirTypeOK, Files, Values, Continuations
<1>8. CASE StoreRelayToken(p)
  <2>1. url[p] \in Relays /\ pc[p] = "enrolling"
    BY <1>3, <1>8 DEF StoreRelayToken, MemoryOk
  <2>2. /\ BeginOverlap(p, "token")
        /\ job' = [job EXCEPT ![p] = Begun("token", url[p], "sealed token")]
        /\ tok' = [tok EXCEPT ![p] = url[p]]
        /\ UNCHANGED <<file, tmp, pc, at, me, mem, url, fresh>>
    BY <1>8 DEF StoreRelayToken, BeginSave, Begun
  <2>3. Begun("token", url[p], "sealed token") \in Jobs
    BY <2>1 DEF Begun, Jobs, Files, Values
  <2>4. MemoryOk(p)'
    BY <1>3, <2>2 DEF MemoryOk
  <2>5. JobOk(p)'
    BY <2>1, <2>2 DEF JobOk, Begun, DirTypeOK
  <2>6. tok' \in [Procs -> Relays \cup {Absent}]
    BY <2>1, <2>2 DEF DirTypeOK
  <2> QED
    BY <1>0, <1>2, <1>4, <2>1, <2>2, <2>3, <2>4, <2>5, <2>6 DEF DirTypeOK, Files, Values, Continuations
<1>9. CASE SetRelay(p)
  <2>1. url[p] \in Relays /\ mem[p] \in States /\ me[p] \in Ids /\ pc[p] = "sealed token"
    BY <1>3, <1>9 DEF SetRelay, MemoryOk, HasIdentity, HasState, Opened
  <2> DEFINE s == [mem[p] EXCEPT !.relay = url[p]]
  <2>2. /\ BeginOverlap(p, "state")
        /\ job' = [job EXCEPT ![p] = Begun("state", s, "enrolled")]
        /\ mem' = [mem EXCEPT ![p] = s]
        /\ UNCHANGED <<file, tmp, pc, at, me, tok, url, fresh>>
    BY <1>9 DEF SetRelay, BeginSave, Begun
  <2>3. s \in States /\ mem'[p] = s
    BY <2>1, <2>2 DEF States, DirTypeOK
  <2>4. Begun("state", s, "enrolled") \in Jobs
    BY <2>3 DEF Begun, Jobs, Files, Values
  <2>5. MemoryOk(p)'
    BY <2>1, <2>2, <2>3 DEF MemoryOk
  <2>6. job'[p] = Begun("state", s, "enrolled")
    BY <2>2 DEF DirTypeOK
  <2>7. JobOk(p)'
    <3>1. pc'[p] = "sealed token"
      BY <2>1, <2>2
    <3>2. job'[p].file = "state" /\ job'[p].value = mem'[p] /\ job'[p].then = "enrolled"
      BY <2>3, <2>6 DEF Begun
    <3> QED
      BY <3>1, <3>2 DEF JobOk
  <2>8. mem' \in [Procs -> States \cup {Absent}] /\ Frame
    BY <2>2, <2>3 DEF DirTypeOK
  <2> QED
    BY <1>0, <1>2, <1>4, <2>2, <2>3, <2>4, <2>5, <2>7, <2>8 DEF DirTypeOK, Files, Values, Continuations
<1> QED
  BY <1>5, <1>6, <1>7, <1>8, <1>9 DEF Begins

-----------------------------------------------------------------------------
(* What a step inside a save does: it moves the bytes under its own handle  *)
(* on by one write of its value, in the temporary file unless another save  *)
(* of the file overlaps.                                                    *)
WroteOn(p) ==
    LET f == job[p].file
        v == job[p].value
    IN
    /\ UNCHANGED <<pc, me, mem, tok, url, fresh, overlap, raced>>
    /\ \E d \in {"opened", "half", "written", "synced"} :
         /\ job' = [job EXCEPT ![p] = [job[p] EXCEPT !.done = d]]
         /\ overlap[f] # "now" => at'[p] = "tmp" /\ AsFar(d, v, tmp'[f])
    /\ file' \in [Files -> Contents \cup {Absent}]
    /\ tmp' \in [Files -> Contents \cup {Absent}]
    /\ at' \in [Procs -> Handles]
    /\ \A q \in Procs \ {p} : at'[q] = at[q]
    /\ \A g \in Files \ {f} : file'[g] = file[g] /\ tmp'[g] = tmp[g]
    /\ overlap[f] # "now" => file' = file
    /\ file[f] # Absent => file'[f] # Absent
    /\ file'[f] # Absent => file[f] # Absent
    /\ tmp[f] # Absent => tmp'[f] # Absent
    /\ at'[p] = "tmp" => tmp'[f] # Absent
    /\ at'[p] = "file" => at[p] = "file"
    /\ \A w \in Values : Holds(tmp'[f], w) => Holds(tmp[f], w) \/ w = v
    /\ \A w \in Values : Holds(file'[f], w) => Holds(file[f], w) \/ w = v

(* The open, the two writes and the flush of a save are such steps. *)
LEMMA WriteStep ==
  ASSUME SaveInv, NEW p \in Procs, SaveOpen(p) \/ SaveWrite(p) \/ SaveSync(p)
  PROVE  Saving(p) /\ WroteOn(p)
<1> USE DEF SaveInv
<1> DEFINE f == job[p].file
           v == job[p].value
<1>1. /\ Saving(p) /\ job[p] \in Jobs /\ f \in Files /\ v \in Values
      /\ HandleOk(p) /\ UNCHANGED <<pc, me, mem, tok, url, fresh, overlap, raced>>
      /\ Absent \notin Contents /\ Blank \notin Values
  BY JobKind, DirAssumption DEF SaveOpen, SaveWrite, SaveSync, BytesInv
<1>2. CASE SaveOpen(p)
  <2>1. Empty \in Contents /\ Empty.half1 = Blank /\ Empty.half2 = Blank
    BY DEF Empty, Bytes, Contents
  <2>2. /\ Progress(p, "opened") /\ tmp' = [tmp EXCEPT ![f] = Empty]
        /\ file' = file /\ at' = [at EXCEPT ![p] = "tmp"]
    BY <1>2 DEF SaveOpen
  <2>3. /\ tmp'[f] = Empty /\ tmp' \in [Files -> Contents \cup {Absent}] /\ at'[p] = "tmp"
        /\ at' \in [Procs -> Handles] /\ \A q \in Procs \ {p} : at'[q] = at[q]
        /\ \A g \in Files \ {f} : tmp'[g] = tmp[g]
    BY <1>1, <2>1, <2>2 DEF DirTypeOK, Handles
  <2>4. AsFar("opened", v, tmp'[f]) /\ tmp'[f] # Absent
    BY <1>1, <2>1, <2>3 DEF AsFar
  <2>5. \A w \in Values : ~ Holds(tmp'[f], w)
    BY <1>1, <2>1, <2>3 DEF Holds
  <2>6. job' = [job EXCEPT ![p] = [job[p] EXCEPT !.done = "opened"]]
    BY <2>2 DEF Progress
  <2>7. file' \in [Files -> Contents \cup {Absent}]
    BY <2>2 DEF DirTypeOK
  <2> QED
    BY <1>1, <2>2, <2>3, <2>4, <2>5, <2>6, <2>7 DEF WroteOn
<1> DEFINE Kept(b, c, e, d) ==
             b \in Contents =>
                /\ c \in Contents
                /\ AsFar(e, v, b) => AsFar(d, v, c)
                /\ \A w \in Values : Holds(c, w) => Holds(b, w) \/ w = v
<1>3. ASSUME NEW d \in {"half", "written", "synced"}, Progress(p, d),
             job[p].done # "nothing", at' = at, NEW c1, NEW c2,
             tmp' = IF at[p] = "tmp" THEN [tmp EXCEPT ![f] = c1] ELSE tmp,
             file' = IF at[p] = "file" THEN [file EXCEPT ![f] = c2] ELSE file,
             Kept(tmp[f], c1, job[p].done, d), Kept(file[f], c2, job[p].done, d)
      PROVE  Saving(p) /\ WroteOn(p)
  <2>1. job' = [job EXCEPT ![p] = [job[p] EXCEPT !.done = d]]
    BY <1>3 DEF Progress
  <2>2. at' \in [Procs -> Handles] /\ \A q \in Procs : at'[q] = at[q]
    BY <1>3 DEF DirTypeOK
  <2>3. CASE at[p] = "tmp"
    <3>1. tmp[f] \in Contents /\ file' = file /\ tmp' = [tmp EXCEPT ![f] = c1]
      BY <1>1, <1>3, <2>3 DEF HandleOk, DirTypeOK
    <3>2. c1 \in Contents /\ c1 # Absent
      BY <1>1, <1>3, <3>1
    <3>3. /\ tmp'[f] = c1 /\ tmp' \in [Files -> Contents \cup {Absent}]
          /\ \A g \in Files \ {f} : tmp'[g] = tmp[g]
      BY <1>1, <3>1, <3>2 DEF DirTypeOK
    <3>4. overlap[f] # "now" => AsFar(d, v, tmp'[f])
      BY <1>1, <1>3, <3>1, <3>3 DEF HandleOk
    <3>5. file' \in [Files -> Contents \cup {Absent}]
      BY <3>1 DEF DirTypeOK
    <3> QED
      BY <1>1, <1>3, <2>1, <2>2, <2>3, <3>1, <3>2, <3>3, <3>4, <3>5 DEF WroteOn
  <2>4. CASE at[p] = "file"
    <3>1. /\ file[f] \in Contents /\ tmp' = tmp /\ file' = [file EXCEPT ![f] = c2]
          /\ overlap[f] = "now"
      BY <1>1, <1>3, <2>4 DEF HandleOk, DirTypeOK
    <3>2. c2 \in Contents /\ c2 # Absent
      BY <1>1, <1>3, <3>1
    <3>3. /\ file'[f] = c2 /\ file' \in [Files -> Contents \cup {Absent}]
          /\ \A g \in Files \ {f} : file'[g] = file[g]
      BY <1>1, <3>1, <3>2 DEF DirTypeOK
    <3>4. tmp' \in [Files -> Contents \cup {Absent}]
      BY <3>1 DEF DirTypeOK
    <3> QED
      BY <1>1, <1>3, <2>1, <2>2, <2>4, <3>1, <3>2, <3>3, <3>4 DEF WroteOn
  <2>5. CASE at[p] \notin {"tmp", "file"}
    <3>1. tmp' = tmp /\ file' = file /\ overlap[f] = "now"
      BY <1>1, <1>3, <2>5 DEF HandleOk
    <3>2. file' \in [Files -> Contents \cup {Absent}] /\ tmp' \in [Files -> Contents \cup {Absent}]
      BY <3>1 DEF DirTypeOK
    <3> QED
      BY <1>1, <2>1, <2>2, <2>5, <3>1, <3>2 DEF WroteOn
  <2> QED
    BY <2>3, <2>4, <2>5
<1>4. CASE SaveWrite(p) /\ job[p].done = "opened"
  <2> DEFINE C(b) == [b EXCEPT !.half1 = v, !.synced = FALSE]
  <2>1. ASSUME NEW b \in Contents
        PROVE  /\ C(b) \in Contents /\ C(b).half1 = v /\ C(b).half2 = b.half2
  BY <1>1 DEF Contents
  <2>2. ASSUME NEW b PROVE Kept(b, C(b), "opened", "half")
    BY <1>1, <2>1 DEF AsFar, Holds
  <2>3. Kept(tmp[f], C(tmp[f]), "opened", "half") /\ Kept(file[f], C(file[f]), "opened", "half")
    BY <2>2
  <2>4. /\ Progress(p, "half") /\ at' = at
        /\ tmp' = IF at[p] = "tmp" THEN [tmp EXCEPT ![f] = C(tmp[f])] ELSE tmp
        /\ file' = IF at[p] = "file" THEN [file EXCEPT ![f] = C(file[f])] ELSE file
    BY <1>4 DEF SaveWrite, Through
  <2> HIDE DEF C, Kept
  <2> QED
    BY <1>3, <1>4, <2>3, <2>4
<1>5. CASE SaveWrite(p) /\ job[p].done = "half"
  <2> DEFINE C(b) == [b EXCEPT !.half2 = v, !.synced = FALSE]
  <2>1. ASSUME NEW b \in Contents
        PROVE  /\ C(b) \in Contents /\ C(b).half2 = v /\ C(b).half1 = b.half1
  BY <1>1 DEF Contents
  <2>2. ASSUME NEW b PROVE Kept(b, C(b), "half", "written")
    BY <1>1, <2>1 DEF AsFar, Holds
  <2>3. Kept(tmp[f], C(tmp[f]), "half", "written") /\ Kept(file[f], C(file[f]), "half", "written")
    BY <2>2
  <2>4. /\ Progress(p, "written") /\ at' = at
        /\ tmp' = IF at[p] = "tmp" THEN [tmp EXCEPT ![f] = C(tmp[f])] ELSE tmp
        /\ file' = IF at[p] = "file" THEN [file EXCEPT ![f] = C(file[f])] ELSE file
    BY <1>5 DEF SaveWrite, Through
  <2> HIDE DEF C, Kept
  <2> QED
    BY <1>3, <1>5, <2>3, <2>4
<1>6. CASE SaveSync(p)
  <2> DEFINE C(b) == [b EXCEPT !.synced = TRUE]
  <2>0. job[p].done = "written"
    BY <1>6 DEF SaveSync
  <2>1. ASSUME NEW b \in Contents
        PROVE  /\ C(b) \in Contents /\ C(b).half2 = b.half2 /\ C(b).half1 = b.half1
               /\ C(b).synced = TRUE
  BY <1>1 DEF Contents
  <2>2. ASSUME NEW b PROVE Kept(b, C(b), "written", "synced")
    BY <1>1, <2>1 DEF AsFar, Holds
  <2>3. /\ Kept(tmp[f], C(tmp[f]), "written", "synced")
        /\ Kept(file[f], C(file[f]), "written", "synced")
    BY <2>2
  <2>4. /\ Progress(p, "synced") /\ at' = at
        /\ tmp' = IF at[p] = "tmp" THEN [tmp EXCEPT ![f] = C(tmp[f])] ELSE tmp
        /\ file' = IF at[p] = "file" THEN [file EXCEPT ![f] = C(file[f])] ELSE file
    BY <1>6 DEF SaveSync, Through
  <2> HIDE DEF C, Kept
  <2> QED
    BY <1>3, <2>0, <2>3, <2>4
<1> QED
  BY <1>2, <1>4, <1>5, <1>6 DEF SaveWrite

(* Such a step preserves the invariant, for the saver and for all others. *)
LEMMA WritesKeep ==
  ASSUME SaveInv, NEW p \in Procs, Saving(p), WroteOn(p)
  PROVE  SaveInv'
<1> USE DEF SaveInv
<1> DEFINE f == job[p].file
           v == job[p].value
<1>1. job[p] \in Jobs /\ JobOk(p) /\ MemoryOk(p) /\ f \in Files /\ v \in Values
  BY JobKind
<1>2. PICK d \in {"opened", "half", "written", "synced"} :
        /\ job' = [job EXCEPT ![p] = [job[p] EXCEPT !.done = d]]
        /\ overlap[f] # "now" => at'[p] = "tmp" /\ AsFar(d, v, tmp'[f])
  BY DEF WroteOn
<1>3. /\ UNCHANGED <<pc, me, mem, tok, url, fresh, overlap, raced>>
      /\ file' \in [Files -> Contents \cup {Absent}] /\ tmp' \in [Files -> Contents \cup {Absent}]
      /\ at' \in [Procs -> Handles] /\ \A q \in Procs \ {p} : at'[q] = at[q]
      /\ \A g \in Files \ {f} : file'[g] = file[g] /\ tmp'[g] = tmp[g]
      /\ overlap[f] # "now" => file' = file
      /\ file[f] # Absent => file'[f] # Absent
      /\ tmp[f] # Absent => tmp'[f] # Absent
      /\ at'[p] = "tmp" => tmp'[f] # Absent
      /\ at'[p] = "file" => at[p] = "file"
      /\ \A w \in Values : Holds(tmp'[f], w) => Holds(tmp[f], w) \/ w = v
      /\ \A w \in Values : Holds(file'[f], w) => Holds(file[f], w) \/ w = v
  BY DEF WroteOn
<1>4. /\ job'[p] = [job[p] EXCEPT !.done = d] /\ \A q \in Procs \ {p} : job'[q] = job[q]
      /\ job'[p] \in Jobs /\ job'[p].file = f /\ job'[p].value = v /\ job'[p].done = d
      /\ job'[p].then = job[p].then /\ job' \in [Procs -> Jobs \cup {Idle}]
  BY <1>1, <1>2 DEF DirTypeOK, Jobs
<1>5. DirTypeOK'
  BY <1>3, <1>4 DEF DirTypeOK
<1>6. \A q \in Procs : Saving(q)' = Saving(q) /\ job'[q].file = job[q].file
  BY <1>4, DirAssumption DEF Saving
<1>7. ProcInv'
  <2>1. MemoryOk(p)'
    BY <1>1, <1>3 DEF MemoryOk
  <2>2. JobOk(p)'
    BY <1>1, <1>3, <1>4 DEF JobOk
  <2> QED
    BY <1>3, <1>4, <2>1, <2>2, OthersKeep
<1>8. AloneInv'
  BY <1>3, <1>6 DEF AloneInv
<1>9. BytesInv'
  <2>1. \A g \in Files : overlap'[g] = "none" /\ file'[g] # Absent => Whole(file'[g])
    BY <1>1, <1>3 DEF BytesInv
  <2>2. HandleOk(p)'
    <3>1. HandleOk(p)
      BY DEF BytesInv
    <3> QED
      BY <1>1, <1>2, <1>3, <1>4, <3>1 DEF HandleOk
  <2>3. ASSUME NEW q \in Procs, q # p, Saving(q) PROVE HandleOk(q)'
    <3>1. HandleOk(q) /\ job'[q] = job[q] /\ at'[q] = at[q] /\ job[q].file \in Files
      BY <1>3, <1>4, <2>3, JobKind DEF BytesInv
    <3>2. CASE job[q].file = f
      <4>1. overlap[f] = "now"
        BY <2>3, <3>2 DEF AloneInv
      <4> QED
        BY <1>3, <3>1, <3>2, <4>1 DEF HandleOk
    <3>3. CASE job[q].file # f
      <4>1. file'[job[q].file] = file[job[q].file] /\ tmp'[job[q].file] = tmp[job[q].file]
        BY <1>3, <3>1, <3>3
      <4> QED
        BY <1>3, <3>1, <4>1 DEF HandleOk
    <3> QED
      BY <3>2, <3>3
  <2>4. \A q \in Procs : ~ Saving(q) => at'[q] = "none"
    BY <1>3 DEF BytesInv
  <2>5. \A g \in Files : tmp'[g] # Absent => \E q \in Procs : Saving(q) /\ job[q].file = g
    BY <1>3 DEF BytesInv
  <2> QED
    BY <1>6, <2>1, <2>2, <2>3, <2>4, <2>5 DEF BytesInv
<1>10. KindInv'
  <2> SUFFICES ASSUME NEW g \in Files, NEW w \in Halves(g)'
               PROVE  w \in Halves(g)
                        \/ \E q \in Procs : Saving(q) /\ job[q].file = g /\ job[q].value = w
    BY KindKept
  <2> QED
    BY <1>3 DEF Halves
<1> QED
  BY <1>5, <1>7, <1>8, <1>9, <1>10

(* The rename publishes the value that is being saved, and only that, when  *)
(* no other save overlaps; other files stay as they are.                    *)
LEMMA RenameKeeps ==
  ASSUME SaveInv, NEW p \in Procs, SaveRename(p)
  PROVE  /\ SaveInv'
         /\ \A g \in Files \ {job[p].file} : file'[g] = file[g]
         /\ file'[job[p].file] = tmp[job[p].file] /\ tmp[job[p].file] # Absent
         /\ tmp' = [tmp EXCEPT ![job[p].file] = Absent]
         /\ overlap[job[p].file] # "now" => Parse(tmp[job[p].file]) = job[p].value
         /\ overlap' = [overlap EXCEPT ![job[p].file] = IF @ = "now" THEN @ ELSE "none"]
         /\ Saving(p) /\ job' = [job EXCEPT ![p] = Idle]
         /\ pc' = [pc EXCEPT ![p] = job[p].then]
         /\ UNCHANGED <<me, mem, tok, url, fresh, raced>>
<1> USE DEF SaveInv
<1> DEFINE g == job[p].file
           v == job[p].value
           b == tmp[g]
<1>1. /\ Saving(p) /\ job[p] \in Jobs /\ JobOk(p) /\ MemoryOk(p) /\ g \in Files /\ v \in Values
      /\ b \in Contents /\ b # Absent /\ job[p].done = "synced"
  BY JobKind, DirAssumption DEF SaveRename, DirTypeOK
<1>2. overlap[g] # "now" => b.half1 = v /\ b.half2 = v /\ b.synced = TRUE
  BY <1>1 DEF BytesInv, HandleOk, AsFar
<1>3. /\ file' = [file EXCEPT ![g] = b] /\ tmp' = [tmp EXCEPT ![g] = Absent]
      /\ job' = [job EXCEPT ![p] = Idle] /\ pc' = [pc EXCEPT ![p] = job[p].then]
      /\ overlap' = [overlap EXCEPT ![g] = IF @ = "now" THEN @ ELSE "none"]
      /\ UNCHANGED <<me, mem, tok, url, fresh, raced>>
  BY DEF SaveRename
<1>4. \A f \in Files : /\ file'[f] = IF f = g THEN b ELSE file[f]
                       /\ tmp'[f] = IF f = g THEN Absent ELSE tmp[f]
  BY <1>3 DEF DirTypeOK
<1>5. overlap[g] # "now" => Parse(b) = v
  <2>1. v # Blank
    BY <1>1, DirAssumption
  <2> QED
    BY <1>1, <1>2, <2>1 DEF Parse
<1>6. DirTypeOK'
  <2>1. file' \in [Files -> Contents \cup {Absent}] /\ tmp' \in [Files -> Contents \cup {Absent}]
    BY <1>1, <1>3 DEF DirTypeOK
  <2>2. pc' \in [Procs -> Steps]
    BY <1>1, <1>3 DEF DirTypeOK, Jobs, Steps, Opening, Opened
  <2>3. at' \in [Procs -> Handles]
    BY DEF SaveRename, DirTypeOK, Handles
  <2>4. overlap' \in [Files -> Overlaps]
    BY <1>3 DEF DirTypeOK, Overlaps
  <2> QED
    BY <1>3, <2>1, <2>2, <2>3, <2>4 DEF DirTypeOK
<1>7. ~ Saving(p)' /\ \A q \in Procs \ {p} : job'[q] = job[q] /\ pc'[q] = pc[q]
  BY <1>3 DEF DirTypeOK, Saving
<1>8. /\ \A f \in Files \ {g} : overlap'[f] = overlap[f]
      /\ overlap'[g] = IF overlap[g] = "now" THEN "now" ELSE "none"
  BY <1>1, <1>3 DEF DirTypeOK
<1>9. ProcInv'
  <2>1. pc'[p] = job[p].then
    BY <1>3 DEF DirTypeOK
  <2>2. MemoryOk(p)'
    BY <1>1, <1>3, <2>1 DEF JobOk, MemoryOk, HasIdentity, HasState, Opened
  <2> QED
    BY <1>3, <1>7, <2>2, OthersKeep
<1>10. AloneInv'
  <2> SUFFICES ASSUME NEW q \in Procs, NEW r \in Procs, q # r, Saving(q)', Saving(r)',
                      job'[q].file = job'[r].file
               PROVE  overlap'[job'[q].file] = "now"
    BY DEF AloneInv
  <2>1. q # p /\ r # p /\ job'[q] = job[q] /\ job'[r] = job[r]
    BY <1>7
  <2>2. Saving(q) /\ Saving(r) /\ job[q].file \in Files
    BY <2>1, JobKind DEF Saving
  <2>3. overlap[job[q].file] = "now"
    BY <2>1, <2>2 DEF AloneInv
  <2> QED
    BY <1>8, <2>1, <2>2, <2>3
<1>11. BytesInv'
  <2>1. ASSUME NEW f \in Files, overlap'[f] = "none", file'[f] # Absent PROVE Whole(file'[f])
    <3>1. CASE f = g
      BY <1>1, <1>2, <1>4, <1>8, <2>1, <3>1 DEF Whole
    <3>2. CASE f # g
      BY <1>4, <1>8, <2>1, <3>2 DEF BytesInv
    <3> QED
      BY <3>1, <3>2
  <2>2. ASSUME NEW q \in Procs, Saving(q)' PROVE HandleOk(q)'
    <3>1. q # p /\ job'[q] = job[q] /\ Saving(q)
      BY <1>7, <2>2 DEF Saving
    <3>2. HandleOk(q) /\ job[q].file \in Files
      BY <3>1, JobKind DEF BytesInv
    <3>3. CASE job[q].file = g
      <4>1. overlap[g] = "now" /\ overlap'[g] = "now"
        BY <1>1, <1>8, <3>1, <3>3 DEF AloneInv
      <4>2. at'[q] = IF at[q] = "tmp" THEN "file" ELSE IF at[q] = "file" THEN "unlinked"
                     ELSE at[q]
        BY <3>1, <3>3 DEF SaveRename
      <4>3. file'[g] # Absent
        BY <1>1, <1>4
      <4> QED
        BY <3>1, <3>2, <3>3, <4>1, <4>2, <4>3 DEF HandleOk
    <3>4. CASE job[q].file # g
      <4>1. at'[q] = at[q]
        BY <3>1, <3>4 DEF SaveRename
      <4>2. /\ file'[job[q].file] = file[job[q].file] /\ tmp'[job[q].file] = tmp[job[q].file]
            /\ overlap'[job[q].file] = overlap[job[q].file]
        BY <1>4, <1>8, <3>2, <3>4
      <4> QED
        BY <3>1, <3>2, <4>1, <4>2 DEF HandleOk
    <3> QED
      BY <3>3, <3>4
  <2>3. ASSUME NEW q \in Procs, ~ Saving(q)' PROVE at'[q] = "none"
    <3>1. CASE q = p
      BY <3>1 DEF SaveRename
    <3>2. CASE q # p
      <4>1. ~ Saving(q)
        BY <1>7, <2>3, <3>2 DEF Saving
      <4>2. at[q] = "none"
        BY <4>1 DEF BytesInv
      <4> QED
        BY <3>2, <4>1, <4>2 DEF SaveRename
    <3> QED
      BY <3>1, <3>2
  <2>4. ASSUME NEW f \in Files, tmp'[f] # Absent
        PROVE  \E q \in Procs : Saving(q)' /\ job'[q].file = f
    <3>1. f # g /\ tmp[f] # Absent
      BY <1>4, <2>4
    <3>2. PICK q \in Procs : Saving(q) /\ job[q].file = f
      BY <3>1 DEF BytesInv
    <3>3. q # p
      BY <3>1, <3>2
    <3> QED
      BY <1>7, <3>2, <3>3 DEF Saving
  <2> QED
    BY <2>1, <2>2, <2>3, <2>4 DEF BytesInv
<1>12. KindInv'
  <2> SUFFICES ASSUME NEW f \in Files, NEW w \in Halves(f)' PROVE w \in Halves(f)
    BY KindKept
  <2> QED
    BY <1>4 DEF Halves, Holds
<1> QED
  BY <1>1, <1>3, <1>4, <1>5, <1>6, <1>9, <1>10, <1>11, <1>12

(* Processes that end take nothing with them but what they had in memory    *)
(* and their unfinished saves; a loss of power spares what is flushed.      *)
LEMMA ForgetKeeps ==
  ASSUME SaveInv, NEW ps \in SUBSET Procs, Forget(ps), UNCHANGED fresh,
         file' \in [Files -> Contents \cup {Absent}],
         \A f \in Files : overlap[f] = "none" => file'[f] = file[f],
         \A f \in Files : file[f] # Absent => file'[f] # Absent,
         \A f \in Files : \A w \in Values : Holds(file'[f], w) => Holds(file[f], w)
  PROVE  SaveInv'
<1> USE DEF SaveInv
<1>1. \A q \in Procs : q \in ps => job'[q] = Idle /\ pc'[q] = "off" /\ at'[q] = "none"
  BY DEF Forget
<1>2. \A q \in Procs : q \notin ps =>
         /\ job'[q] = job[q] /\ pc'[q] = pc[q] /\ me'[q] = me[q] /\ mem'[q] = mem[q]
         /\ url'[q] = url[q] /\ at'[q] = at[q]
  BY DEF Forget
<1>3. DirTypeOK'
  <2>1. tmp' \in [Files -> Contents \cup {Absent}] /\ job' \in [Procs -> Jobs \cup {Idle}]
    BY DEF Forget, DirTypeOK
  <2>2. pc' \in [Procs -> Steps] /\ at' \in [Procs -> Handles]
    BY DEF Forget, DirTypeOK, Steps, Handles
  <2>3. /\ me' \in [Procs -> Ids \cup {Absent}] /\ mem' \in [Procs -> States \cup {Absent}]
        /\ tok' \in [Procs -> Relays \cup {Absent}] /\ url' \in [Procs -> Relays \cup {NoRelay}]
    BY DEF Forget, DirTypeOK
  <2>4. overlap' = overlap /\ raced' \in BOOLEAN
    BY DEF Forget, DirTypeOK
  <2> QED
    BY <2>1, <2>2, <2>3, <2>4 DEF DirTypeOK
<1>4. ProcInv'
  <2> SUFFICES ASSUME NEW q \in Procs PROVE (MemoryOk(q) /\ (Saving(q) => JobOk(q)))'
    BY DEF ProcInv
  <2>1. CASE q \in ps
    BY <1>1, <2>1 DEF MemoryOk, Saving, HasIdentity, HasState, Opened
  <2>2. CASE q \notin ps
    <3>1. MemoryOk(q) /\ (Saving(q) => JobOk(q))
      BY DEF ProcInv
    <3>2. /\ job'[q] = job[q] /\ pc'[q] = pc[q] /\ me'[q] = me[q] /\ mem'[q] = mem[q]
          /\ url'[q] = url[q]
      BY <1>2, <2>2
    <3>3. MemoryOk(q)'
      BY <3>1, <3>2 DEF MemoryOk
    <3>4. Saving(q)' => Saving(q)
      BY <3>2 DEF Saving
    <3>5. JobOk(q) => JobOk(q)'
      BY ONLY <3>2 DEF JobOk
    <3> QED
      BY <3>1, <3>3, <3>4, <3>5
  <2> QED
    BY <2>1, <2>2
<1>5. \A q \in Procs : Saving(q)' <=> Saving(q) /\ q \notin ps
  BY <1>1, <1>2 DEF Saving
<1>6. overlap' = overlap
  BY DEF Forget
<1>7. AloneInv'
  BY <1>2, <1>5, <1>6 DEF AloneInv
<1>8. /\ \A q \in Procs : Saving(q) /\ q \notin ps => tmp'[job[q].file] = tmp[job[q].file]
      /\ \A f \in Files : tmp'[f] # Absent =>
           tmp'[f] = tmp[f] /\ \E q \in Procs \ ps : Saving(q) /\ job[q].file = f
  BY DEF Forget, Saving, DirTypeOK, Jobs
<1>9. BytesInv'
  <2>1. \A f \in Files : overlap'[f] = "none" /\ file'[f] # Absent => Whole(file'[f])
    BY <1>6 DEF BytesInv
  <2>2. ASSUME NEW q \in Procs, Saving(q), q \notin ps PROVE HandleOk(q)'
    <3>1. /\ HandleOk(q) /\ job'[q] = job[q] /\ at'[q] = at[q] /\ job[q].file \in Files
          /\ tmp'[job[q].file] = tmp[job[q].file]
      BY <1>2, <1>8, <2>2, JobKind DEF BytesInv
    <3> QED
      BY <1>6, <3>1 DEF HandleOk
  <2>3. ASSUME NEW q \in Procs, ~ Saving(q)' PROVE at'[q] = "none"
    <3>1. CASE q \in ps
      BY <1>1, <3>1
    <3>2. CASE q \notin ps
      BY <1>2, <1>5, <2>3, <3>2 DEF BytesInv
    <3> QED
      BY <3>1, <3>2
  <2>4. \A f \in Files : tmp'[f] # Absent => \E q \in Procs : Saving(q)' /\ job'[q].file = f
    BY <1>2, <1>5, <1>8
  <2> QED
    BY <1>5, <2>1, <2>2, <2>3, <2>4 DEF BytesInv
<1>10. KindInv'
  <2> SUFFICES ASSUME NEW f \in Files, NEW w \in Halves(f)' PROVE w \in Halves(f)
    BY KindKept
  <2> QED
    BY <1>8 DEF Halves, Holds
<1> QED
  BY <1>3, <1>4, <1>7, <1>9, <1>10

(* What a loss of power can do to the published bytes. *)
LEMMA PowerLossSpares ==
  ASSUME SaveInv, PowerLoss
  PROVE  /\ Forget(Procs) /\ UNCHANGED fresh
         /\ file' \in [Files -> Contents \cup {Absent}]
         /\ \A f \in Files : overlap[f] = "none" => file'[f] = file[f]
         /\ \A f \in Files : file[f] # Absent => file'[f] # Absent
         /\ \A f \in Files : \A w \in Values : Holds(file'[f], w) => Holds(file[f], w)
<1> USE DEF SaveInv
<1> DEFINE Remains(b) ==
             IF b = Absent \/ b.synced THEN {b}
             ELSE {b, [b EXCEPT !.half2 = Blank], [b EXCEPT !.half1 = Blank, !.half2 = Blank]}
<1>1. /\ Forget(Procs) /\ UNCHANGED fresh
      /\ file' \in [Files -> UNION {Remains(file[f]) : f \in Files}]
      /\ \A f \in Files : file'[f] \in Remains(file[f])
  BY DEF PowerLoss
<1>2. ASSUME NEW f \in Files
      PROVE  /\ file'[f] \in Contents \cup {Absent}
             /\ overlap[f] = "none" => file'[f] = file[f]
             /\ file[f] # Absent => file'[f] # Absent
             /\ \A w \in Values : Holds(file'[f], w) => Holds(file[f], w)
  <2>1. CASE file[f] = Absent \/ file[f].synced
    BY <1>1, <2>1 DEF DirTypeOK
  <2>2. CASE ~ (file[f] = Absent \/ file[f].synced)
    <3>1. /\ file[f] \in Contents /\ overlap[f] # "none"
          /\ file'[f] \in {file[f], [file[f] EXCEPT !.half2 = Blank],
                           [file[f] EXCEPT !.half1 = Blank, !.half2 = Blank]}
      <4>1. file[f] \in Contents
        BY <2>2 DEF DirTypeOK
      <4>2. overlap[f] # "none"
        BY <2>2 DEF BytesInv, Whole
      <4> QED
        BY <1>1, <2>2, <4>1, <4>2
    <3>2. /\ file'[f] \in Contents
          /\ file'[f].half1 \in {file[f].half1, Blank} /\ file'[f].half2 \in {file[f].half2, Blank}
      BY <3>1 DEF Contents
    <3> QED
      BY <3>1, <3>2, DirAssumption DEF Holds
  <2> QED
    BY <2>1, <2>2
<1>3. file' \in [Files -> Contents \cup {Absent}]
  <2>1. file' = [f \in Files |-> file'[f]]
    BY <1>1
  <2> QED
    BY <1>2, <2>1
<1> QED
  BY <1>1, <1>2, <1>3

(* Every step preserves the invariant of the saves. *)
LEMMA SaveInvStep == SaveInv /\ [DirNext]_dirVars => SaveInv'
<1> SUFFICES ASSUME SaveInv, [DirNext]_dirVars PROVE SaveInv'
  OBVIOUS
<1>1. ASSUME NEW p \in Procs, Local(p) PROVE SaveInv'
  BY <1>1, LocalKeeps
<1>2. ASSUME NEW p \in Procs, Begins(p) PROVE SaveInv'
  BY <1>2, BeginsKeep
<1>3. ASSUME NEW p \in Procs, SaveOpen(p) \/ SaveWrite(p) \/ SaveSync(p) PROVE SaveInv'
  BY <1>3, WriteStep, WritesKeep
<1>4. ASSUME NEW p \in Procs, SaveRename(p) PROVE SaveInv'
  BY <1>4, RenameKeeps
<1>5. ASSUME NEW p \in Procs, Exit(p) PROVE SaveInv'
  <2>1. Forget({p}) /\ UNCHANGED <<file, fresh>> /\ {p} \in SUBSET Procs
    BY <1>5 DEF Exit
  <2>2. file' \in [Files -> Contents \cup {Absent}]
    BY <2>1 DEF SaveInv, DirTypeOK
  <2> QED
    BY <2>1, <2>2, ForgetKeeps
<1>6. CASE PowerLoss
  <2>1. Procs \in SUBSET Procs
    OBVIOUS
  <2> QED
    BY <1>6, <2>1, PowerLossSpares, ForgetKeeps
<1>7. CASE UNCHANGED dirVars
  <2>1. DirTypeOK'
    BY <1>7 DEF dirVars, SaveInv, DirTypeOK
  <2>2. ProcInv'
    <3>1. \A p \in Procs : MemoryOk(p)' = MemoryOk(p)
      BY <1>7 DEF dirVars, MemoryOk
    <3>2. \A p \in Procs : JobOk(p)' = JobOk(p)
      BY <1>7 DEF dirVars, JobOk
    <3>3. \A p \in Procs : Saving(p)' = Saving(p)
      BY <1>7 DEF dirVars, Saving
    <3> QED
      BY <3>1, <3>2, <3>3 DEF SaveInv, ProcInv
  <2>3. BytesInv' /\ AloneInv' /\ KindInv'
    BY <1>7 DEF dirVars, SaveInv, AloneInv, BytesInv, Saving, HandleOk, KindInv, Halves
  <2> QED
    BY <2>1, <2>2, <2>3 DEF SaveInv
<1> QED
  BY <1>1, <1>2, <1>3, <1>4, <1>5, <1>6, <1>7 DEF DirNext, Local, Begins

-----------------------------------------------------------------------------
(* The refinement.  What AtomicFiles calls its file is what readers get,    *)
(* and its pending saves are the jobs.                                      *)
View == [f \in Files |-> Published(f)]
Pending ==
    [p \in Procs |-> IF Saving(p) THEN [file |-> job[p].file, value |-> job[p].value] ELSE Idle]

(* What a reader of a file gets. *)
LEMMA ParsedBytes ==
  ASSUME NEW b \in Contents \cup {Absent}
  PROVE  Parse(b) \in Values \cup {Absent, Corrupt}
  BY DEF Parse, Contents

(* A step that changes only files that saves overlap on, and ends saves. *)
LEMMA InterruptRefines ==
  ASSUME SaveInv, file' \in [Files -> Contents \cup {Absent}], UNCHANGED overlap,
         \A f \in Files : overlap[f] = "none" => file'[f] = file[f],
         NEW ps \in SUBSET Procs,
         Pending' = [q \in Procs |-> IF q \in ps THEN Idle ELSE Pending[q]]
  PROVE  Abs!Next
<1>1. View' \in [Files -> Values \cup {Absent, Corrupt}]
  BY ParsedBytes DEF View, Published
<1>2. \A f \in Files \ {g \in Files : overlap[g] # "none"} : View'[f] = View[f]
  BY DEF View, Published
<1>3. Abs!OnlyOverlapped({g \in Files : overlap[g] # "none"})
  BY <1>1, <1>2 DEF Abs!OnlyOverlapped, View
<1>4. Abs!Interrupt(ps)
  BY <1>3 DEF Abs!Interrupt, Pending
<1> QED
  BY <1>4 DEF Abs!Next

(* Every step is a step of AtomicFiles or leaves its files alone. *)
LEMMA StepRefines == SaveInv /\ [DirNext]_dirVars => [Abs!Next]_(Abs!vars)
<1> SUFFICES ASSUME SaveInv, [DirNext]_dirVars PROVE [Abs!Next]_(Abs!vars)
  OBVIOUS
<1>0. ASSUME UNCHANGED <<View, Pending, overlap>> PROVE UNCHANGED Abs!vars
  BY <1>0 DEF View, Pending, Abs!vars
<1>1. ASSUME UNCHANGED file PROVE UNCHANGED View
  BY <1>1 DEF View, Published
<1>2. ASSUME UNCHANGED job PROVE UNCHANGED Pending
  BY <1>2 DEF Pending, Saving
<1>3. ASSUME NEW p \in Procs, Local(p) PROVE UNCHANGED Abs!vars
  <2>1. UNCHANGED <<file, job, overlap>>
    BY <1>3 DEF Local, OpenHost, LoadIdentity, LoadState, HostOpened, RelayTarget, NotifyRelay,
       PresentToken, EnsureEnrolled
  <2> QED
    BY <1>0, <1>1, <1>2, <2>1
<1>4. ASSUME NEW p \in Procs, SaveOpen(p) \/ SaveWrite(p) \/ SaveSync(p)
      PROVE  Abs!Next
  <2>1. Saving(p) /\ WroteOn(p) /\ job[p] \in Jobs
    BY <1>4, WriteStep, JobKind
  <2>2. PICK d \in {"opened", "half", "written", "synced"} :
          job' = [job EXCEPT ![p] = [job[p] EXCEPT !.done = d]]
    BY <2>1 DEF WroteOn
  <2>3. /\ job'[p] = [job[p] EXCEPT !.done = d] /\ \A q \in Procs \ {p} : job'[q] = job[q]
        /\ job'[p] \in Jobs /\ job'[p].file = job[p].file /\ job'[p].value = job[p].value
    BY <2>1, <2>2 DEF SaveInv, DirTypeOK, Jobs
  <2>4. \A q \in Procs : Saving(q)' = Saving(q)
    BY <2>1, <2>3, DirAssumption DEF Saving
  <2>5. Pending' = [q \in Procs |-> IF q \in {} THEN Idle ELSE Pending[q]]
    BY <2>3, <2>4 DEF Pending
  <2>6. /\ file' \in [Files -> Contents \cup {Absent}] /\ UNCHANGED overlap
        /\ \A f \in Files : overlap[f] = "none" => file'[f] = file[f]
    BY <2>1 DEF WroteOn
  <2>7. {} \in SUBSET Procs
    OBVIOUS
  <2> QED
    BY <2>5, <2>6, <2>7, InterruptRefines
<1>5. ASSUME NEW p \in Procs, Begins(p) PROVE Abs!Next
  <2>1. ~ Saving(p) /\ UNCHANGED file
    BY <1>5, BeginsKeep
  <2>2. PICK f \in Files, v \in Values, then \in Continuations :
          /\ job' = [job EXCEPT ![p] = Begun(f, v, then)]
          /\ Begun(f, v, then) \in Jobs /\ BeginOverlap(p, f)
    BY <1>5, BeginsKeep
  <2>3. /\ job'[p] = Begun(f, v, then) /\ \A q \in Procs \ {p} : job'[q] = job[q]
        /\ job'[p].file = f /\ job'[p].value = v
    BY <2>2 DEF SaveInv, DirTypeOK, Begun
  <2>4. Saving(p)' /\ \A q \in Procs \ {p} : Saving(q)' = Saving(q)
    BY <2>2, <2>3, DirAssumption DEF Saving
  <2> DEFINE save == [file |-> f, value |-> v]
  <2>5. Pending[p] = Idle /\ Pending' = [Pending EXCEPT ![p] = save]
    BY <2>1, <2>3, <2>4 DEF Pending
  <2>6. \A q \in Procs : (Saving(q) /\ job[q].file = f) <=> (Pending[q] # Idle /\ Pending[q].file = f)
    <3>1. ASSUME NEW q \in Procs, Saving(q)
          PROVE  Pending[q] # Idle /\ Pending[q].file = job[q].file
      <4>1. job[q].file \in Files /\ job[q].value \in Values
        BY <3>1, JobKind
      <4>2. Pending[q] = [file |-> job[q].file, value |-> job[q].value]
        BY <3>1 DEF Pending
      <4> QED
        BY <4>1, <4>2, DirAssumption
    <3>2. \A q \in Procs : ~ Saving(q) => Pending[q] = Idle
      BY DEF Pending
    <3> QED
      BY <3>1, <3>2
  <2>7. overlap' = [overlap EXCEPT ![save.file] =
                      IF \E q \in Procs \ {p} : Pending[q] # Idle /\ Pending[q].file = save.file
                      THEN "now" ELSE IF @ = "now" THEN "past" ELSE @]
    BY <2>2, <2>6 DEF BeginOverlap
  <2>8. Abs!Begin(p, save)
    BY <1>1, <2>1, <2>5, <2>7 DEF Abs!Begin, View, Pending
  <2> QED
    BY <2>8 DEF Abs!Next
<1>6. ASSUME NEW p \in Procs, SaveRename(p) PROVE Abs!Next
  <2> DEFINE g == job[p].file
  <2>1. /\ \A f \in Files \ {g} : file'[f] = file[f]
        /\ file'[g] = tmp[g] /\ tmp[g] # Absent
        /\ overlap[g] # "now" => Parse(tmp[g]) = job[p].value
        /\ overlap' = [overlap EXCEPT ![g] = IF @ = "now" THEN @ ELSE "none"]
        /\ Saving(p) /\ job' = [job EXCEPT ![p] = Idle]
    BY <1>6, RenameKeeps
  <2>2. g \in Files /\ job[p].value \in Values
    BY <2>1, JobKind
  <2>3. Pending[p] = [file |-> g, value |-> job[p].value] /\ Pending[p] # Idle
    BY <2>1, <2>2, DirAssumption DEF Pending
  <2>4. Pending' = [Pending EXCEPT ![p] = Idle]
    <3>1. job'[p] = Idle /\ \A q \in Procs \ {p} : job'[q] = job[q]
      BY <2>1 DEF SaveInv, DirTypeOK
    <3> QED
      BY <3>1 DEF Pending, Saving
  <2>5. View' = [f \in Files |-> IF f = g THEN Parse(tmp[g]) ELSE View[f]]
    BY <2>1 DEF View, Published
  <2>6. CASE overlap[g] # "now"
    <3>1. View' = [View EXCEPT ![Pending[p].file] = Pending[p].value]
      <4>1. Pending[p].file = g /\ Pending[p].value = Parse(tmp[g])
        BY <2>1, <2>3, <2>6
      <4>2. View = [f \in Files |-> View[f]]
        BY DEF View
      <4> QED
        BY <2>5, <4>1, <4>2
    <3>2. overlap' = [overlap EXCEPT ![Pending[p].file] = "none"]
      BY <2>1, <2>3, <2>6
    <3>3. Abs!Commit(p)
      BY <2>3, <2>4, <2>6, <3>1, <3>2 DEF Abs!Commit, View, Pending
    <3> QED
      BY <3>3 DEF Abs!Next
  <2>7. CASE overlap[g] = "now"
    <3>1. overlap' = overlap
      BY <2>1, <2>2, <2>7 DEF SaveInv, DirTypeOK
    <3>2. View' \in [Files -> Values \cup {Absent, Corrupt}]
      <4>1. SaveInv'
        BY SaveInvStep
      <4> QED
        BY <4>1, ParsedBytes DEF SaveInv, DirTypeOK, View, Published
    <3>3. Abs!OnlyOverlapped({g})
      BY <2>5, <3>2 DEF Abs!OnlyOverlapped, View
    <3>4. Abs!Commit(p)
      BY <2>3, <2>4, <2>7, <3>1, <3>3 DEF Abs!Commit, View, Pending
    <3> QED
      BY <3>4 DEF Abs!Next
  <2> QED
    BY <2>6, <2>7
<1>7. ASSUME NEW ps \in SUBSET Procs, Forget(ps)
      PROVE  UNCHANGED overlap /\ Pending' = [q \in Procs |-> IF q \in ps THEN Idle ELSE Pending[q]]
  <2>1. \A q \in Procs : job'[q] = IF q \in ps THEN Idle ELSE job[q]
    BY <1>7 DEF Forget
  <2> QED
    BY <1>7, <2>1 DEF Forget, Pending, Saving
<1>8. ASSUME NEW p \in Procs, Exit(p) PROVE Abs!Next
  <2>1. Forget({p}) /\ UNCHANGED file /\ {p} \in SUBSET Procs
    BY <1>8 DEF Exit
  <2>2. file' \in [Files -> Contents \cup {Absent}]
    BY <2>1 DEF SaveInv, DirTypeOK
  <2> QED
    BY <1>7, <2>1, <2>2, InterruptRefines
<1>9. CASE PowerLoss
  <2>1. Procs \in SUBSET Procs
    OBVIOUS
  <2> QED
    BY <1>7, <1>9, <2>1, PowerLossSpares, InterruptRefines
<1>10. CASE UNCHANGED dirVars
  BY <1>0, <1>1, <1>2, <1>10 DEF dirVars
<1> QED
  BY <1>3, <1>4, <1>5, <1>6, <1>8, <1>9, <1>10 DEF DirNext, Local, Begins

(* The saves of HostState and of the keystores, by any number of processes  *)
(* and interrupted anywhere by a crash, a loss of power or a failing call,  *)
(* implement AtomicFiles: a save that no other save of its file overlaps is *)
(* atomic, and tearing stays within files whose saves overlapped.           *)
THEOREM SavesImplementAtomicFiles == DirSpec => SavesAreAtomic
<1>1. DirInit => SaveInv
  BY SaveInvInit
<1>2. SaveInv /\ [DirNext]_dirVars => SaveInv'
  BY SaveInvStep
<1>3. SaveInv /\ [DirNext]_dirVars => [Abs!Next]_(Abs!vars)
  BY StepRefines
<1>4. DirInit => Abs!Init
  BY DEF DirInit, Abs!Init, Published, Parse, Saving
<1> QED
  BY <1>1, <1>2, <1>3, <1>4, PTL DEF DirSpec, SavesAreAtomic, Abs!Spec

-----------------------------------------------------------------------------
(* What a step can do to the bytes: a file never disappears and appears by  *)
(* a rename, what is added is what somebody saves, and without a save or a  *)
(* loss of power a file stays as it is.                                     *)
LEMMA BytesStep ==
  ASSUME SaveInv, [DirNext]_dirVars, NEW f \in Files
  PROVE  /\ file[f] # Absent => file'[f] # Absent
         /\ file[f] = Absent /\ file'[f] # Absent =>
              \E p \in Procs : SaveRename(p) /\ job[p].file = f
         /\ \A v \in Halves(f)' : v \in Halves(f) \/
              \E p \in Procs : Saving(p) /\ job[p].file = f /\ job[p].value = v
         /\ \/ file'[f] = file[f] \/ PowerLoss
            \/ \E p \in Procs : Saving(p) /\ job[p].file = f
<1> USE DEF Halves
<1>1. ASSUME NEW p \in Procs, Local(p) \/ Begins(p) PROVE UNCHANGED <<file, tmp>>
  BY <1>1, BeginsKeep DEF Local, OpenHost, LoadIdentity, LoadState, HostOpened, RelayTarget,
     NotifyRelay, PresentToken, EnsureEnrolled
<1>2. CASE UNCHANGED <<file, tmp>>
  BY <1>2
<1>3. ASSUME NEW p \in Procs, SaveOpen(p) \/ SaveWrite(p) \/ SaveSync(p)
      PROVE  /\ file[f] # Absent <=> file'[f] # Absent
             /\ \A v \in Halves(f)' : v \in Halves(f) \/ (job[p].file = f /\ job[p].value = v)
             /\ file'[f] = file[f] \/ job[p].file = f
             /\ Saving(p)
  <2>1. Saving(p) /\ WroteOn(p)
    BY <1>3, WriteStep
  <2>2. CASE job[p].file = f
    BY <2>1, <2>2 DEF WroteOn
  <2>3. CASE job[p].file # f
    <3>1. file'[f] = file[f] /\ tmp'[f] = tmp[f]
      BY <2>1, <2>3 DEF WroteOn
    <3> QED
      BY <2>1, <3>1
  <2> QED
    BY <2>2, <2>3
<1>4. ASSUME NEW p \in Procs, SaveRename(p)
      PROVE  /\ file[f] # Absent => file'[f] # Absent
             /\ file[f] = Absent /\ file'[f] # Absent => job[p].file = f
             /\ \A v \in Halves(f)' : v \in Halves(f)
             /\ file'[f] = file[f] \/ job[p].file = f
             /\ Saving(p)
  <2>1. /\ \A g \in Files \ {job[p].file} : file'[g] = file[g]
        /\ file'[job[p].file] = tmp[job[p].file] /\ tmp[job[p].file] # Absent
        /\ tmp' = [tmp EXCEPT ![job[p].file] = Absent] /\ Saving(p)
    BY <1>4, RenameKeeps
  <2>2. CASE job[p].file = f
    <3>1. file'[f] = tmp[f] /\ tmp[f] # Absent /\ tmp'[f] = Absent
      BY <2>1, <2>2 DEF SaveInv, DirTypeOK
    <3> QED
      BY <2>1, <2>2, <3>1 DEF Holds
  <2>3. CASE job[p].file # f
    <3>1. file'[f] = file[f] /\ tmp'[f] = tmp[f]
      BY <2>1, <2>3 DEF SaveInv, DirTypeOK
    <3> QED
      BY <2>1, <3>1
  <2> QED
    BY <2>2, <2>3
<1>5. ASSUME NEW ps \in SUBSET Procs, Forget(ps) PROVE tmp'[f] # Absent => tmp'[f] = tmp[f]
  BY <1>5 DEF Forget
<1>6. ASSUME NEW p \in Procs, Exit(p)
      PROVE  UNCHANGED file /\ \A v \in Halves(f)' : v \in Halves(f)
  <2>1. UNCHANGED file /\ (tmp'[f] # Absent => tmp'[f] = tmp[f])
    BY <1>5, <1>6 DEF Exit
  <2> QED
    BY <2>1 DEF Holds
<1>7. CASE PowerLoss
  <2>1. /\ file[f] # Absent => file'[f] # Absent
        /\ overlap[f] = "none" => file'[f] = file[f]
        /\ \A w \in Values : Holds(file'[f], w) => Holds(file[f], w)
        /\ tmp'[f] # Absent => tmp'[f] = tmp[f]
    BY <1>5, <1>7, PowerLossSpares
  <2>2. file[f] = Absent => file'[f] = Absent
    BY <1>7 DEF PowerLoss
  <2> QED
    BY <1>7, <2>1, <2>2 DEF Holds
<1>8. CASE UNCHANGED dirVars
  BY <1>8 DEF dirVars
<1> QED
  BY <1>1, <1>2, <1>3, <1>4, <1>6, <1>7, <1>8 DEF DirNext, Local, Begins

(* What a reader gets is in the file, and of its kind. *)
LEMMA PublishedHeld ==
  ASSUME SaveInv, NEW f \in Files
  PROVE  /\ Published(f) \in Values => Published(f) \in Halves(f) /\ Published(f) \in Kind(f)
         /\ Published(f) \in Values => file[f] # Absent /\ \A v \in Values : Holds(file[f], v) => v = Published(f)
         /\ Published(f) = Absent <=> file[f] = Absent
         /\ overlap[f] = "none" /\ file[f] # Absent => Published(f) \in Kind(f)
<1>1. file[f] \in Contents \cup {Absent} /\ Absent \notin Values /\ Corrupt \notin Values \cup {Absent}
  BY DirAssumption DEF SaveInv, DirTypeOK
<1>2. /\ Published(f) \in Values =>
           file[f] # Absent /\ file[f].half1 = Published(f) /\ file[f].half2 = Published(f)
      /\ Published(f) = Absent <=> file[f] = Absent
  BY <1>1 DEF Published, Parse, Contents
<1>3. overlap[f] = "none" /\ file[f] # Absent => Published(f) \in Values
  BY DirAssumption DEF SaveInv, BytesInv, Whole, Published, Parse
<1>4. Published(f) \in Values => Published(f) \in Halves(f)
  BY <1>2 DEF Halves, Holds
<1> QED
  BY <1>2, <1>3, <1>4 DEF Holds, SaveInv, KindInv

(* What a step other than a rename can do to a process: its memory of the   *)
(* state is loaded from the file, made anew or changed in its peers, or it  *)
(* gets a relay that has been enrolled with.                                *)
Moves(q) ==
    \/ pc'[q] = "off"
    \/ pc'[q] = pc[q] /\ me'[q] = me[q] /\ mem'[q] = mem[q]
    \/ pc[q] = "off" /\ pc'[q] = "identity"
    \/ pc[q] = "identity" /\ pc'[q] = "state" /\ me'[q] = Published("identity")
         /\ Published("identity") \in Ids
    \/ pc[q] = "identity" /\ pc'[q] = "newidentity" /\ Published("identity") = Absent
         /\ (raced' \/ \A r \in Procs : pc[r] # "newidentity")
    \/ pc[q] = "state" /\ pc'[q] = "audit" /\ me'[q] = me[q]
         /\ mem'[q] = Published("state") /\ Published("state") \in States
    \/ pc[q] = "state" /\ pc'[q] = "newstate" /\ me'[q] = me[q]
         /\ mem'[q].relay = NoRelay /\ Published("state") = Absent
         /\ (raced' \/ \A r \in Procs : pc[r] # "newstate")
    \/ pc[q] \in {"audit"} \cup Opened /\ pc'[q] \in Opened \ {"sealed token"}
         /\ me'[q] = me[q] /\ mem'[q].dev = mem[q].dev /\ mem'[q].relay = mem[q].relay
    \/ pc[q] = "sealed token" /\ pc'[q] = "sealed token"
         /\ me'[q] = me[q] /\ mem'[q].dev = mem[q].dev

(* What a process holds in memory changes only as its own save or load says. *)
LEMMA MemoryStep ==
  ASSUME SaveInv, [DirNext]_dirVars, NEW q \in Procs, ~ SaveRename(q)
  PROVE  Moves(q)
<1> USE DEF SaveInv, Moves
<1>1. CASE Local(q)
  <2>1. CASE OpenHost(q)
    BY <2>1 DEF OpenHost, DirTypeOK
  <2>2. CASE LoadIdentity(q)
    BY <2>2 DEF LoadIdentity, DirTypeOK
  <2>3. CASE LoadState(q)
    <3>1. CASE Published("state") \in States /\ pc'[q] = "audit"
      BY <2>3, <3>1 DEF LoadState, DirTypeOK
    <3>2. CASE pc'[q] = "newstate"
      <4>1. /\ mem'[q] = [dev |-> fresh', relay |-> NoRelay, peers |-> {}]
            /\ pc[q] = "state" /\ me' = me /\ Published("state") = Absent
            /\ raced' \/ \A r \in Procs : pc[r] # "newstate"
        BY <2>3, <3>2 DEF LoadState, DirTypeOK
      <4>2. mem'[q].relay = NoRelay
        BY <4>1
      <4> QED
        BY <3>2, <4>1, <4>2
    <3> QED
      BY <2>3, <3>1, <3>2 DEF LoadState, DirTypeOK
  <2>4. CASE HostOpened(q) \/ PresentToken(q) \/ RelayTarget(q) \/ NotifyRelay(q)
               \/ \E r \in Relays : EnsureEnrolled(q, r)
    <3>1. /\ pc[q] \in {"audit"} \cup Opened /\ pc'[q] \in Opened \ {"sealed token"}
          /\ UNCHANGED <<me, mem>>
      BY <2>4 DEF HostOpened, PresentToken, RelayTarget, NotifyRelay, EnsureEnrolled, DirTypeOK,
         Opened
    <3> QED
      BY <3>1
  <2> QED
    BY <1>1, <2>1, <2>2, <2>3, <2>4 DEF Local
<1>2. CASE Begins(q)
  <2>1. CASE SealIdentity(q) \/ CreateState(q) \/ StoreRelayToken(q)
    BY <2>1 DEF SealIdentity, CreateState, StoreRelayToken
  <2>2. CASE SavePeers(q)
    <3>1. mem[q] \in States /\ pc[q] = "open"
      BY <2>2 DEF SavePeers, ProcInv, MemoryOk, HasState, Opened
    <3>2. PICK ps \in SUBSET Phones :
            /\ mem' = [mem EXCEPT ![q] = [mem[q] EXCEPT !.peers = ps]]
            /\ pc' = [pc EXCEPT ![q] = "pinning"] /\ me' = me
      BY <2>2 DEF SavePeers
    <3>3. mem'[q] = [mem[q] EXCEPT !.peers = ps] /\ pc'[q] = "pinning"
      BY <3>2 DEF DirTypeOK
    <3>4. mem'[q].dev = mem[q].dev /\ mem'[q].relay = mem[q].relay
      BY <3>1, <3>3 DEF States
    <3> QED
      BY <3>1, <3>2, <3>3, <3>4 DEF Opened
  <2>3. CASE SetRelay(q)
    <3>1. mem[q] \in States /\ pc[q] = "sealed token"
      BY <2>3 DEF SetRelay, ProcInv, MemoryOk, HasState, Opened
    <3>2. mem'[q] = [mem[q] EXCEPT !.relay = url[q]] /\ UNCHANGED <<pc, me>>
      BY <2>3 DEF SetRelay, DirTypeOK
    <3>3. mem'[q].dev = mem[q].dev
      BY <3>1, <3>2 DEF States
    <3> QED
      BY <3>1, <3>2, <3>3
  <2> QED
    BY <1>2, <2>1, <2>2, <2>3 DEF Begins
<1>3. ASSUME NEW p \in Procs, p # q,
             Local(p) \/ Begins(p) \/ SaveRename(p) \/ Exit(p)
      PROVE  pc'[q] = pc[q] /\ me'[q] = me[q] /\ mem'[q] = mem[q]
  <2>1. CASE Local(p)
    BY <1>3, <2>1 DEF Local, OpenHost, LoadIdentity, LoadState, HostOpened, RelayTarget,
       NotifyRelay, PresentToken, EnsureEnrolled, DirTypeOK
  <2>2. CASE Begins(p)
    BY <1>3, <2>2 DEF Begins, SealIdentity, CreateState, SavePeers, StoreRelayToken, SetRelay,
       DirTypeOK
  <2>3. CASE SaveRename(p)
    BY <1>3, <2>3 DEF SaveRename, DirTypeOK
  <2>4. CASE Exit(p)
    BY <1>3, <2>4 DEF Exit, Forget
  <2> QED
    BY <1>3, <2>1, <2>2, <2>3, <2>4
<1>4. ASSUME NEW p \in Procs, SaveOpen(p) \/ SaveWrite(p) \/ SaveSync(p)
      PROVE  UNCHANGED <<pc, me, mem>>
  BY <1>4 DEF SaveOpen, SaveWrite, SaveSync
<1>5. CASE Exit(q) \/ PowerLoss
  BY <1>5 DEF Exit, PowerLoss, Forget
<1>6. CASE UNCHANGED dirVars
  BY <1>6 DEF dirVars
<1>7. \/ UNCHANGED dirVars \/ PowerLoss
      \/ \E p \in Procs : Local(p) \/ Begins(p) \/ SaveRename(p) \/ Exit(p)
                            \/ SaveOpen(p) \/ SaveWrite(p) \/ SaveSync(p)
  BY DEF DirNext, Local, Begins
<1> QED
  <2>1. CASE UNCHANGED dirVars \/ PowerLoss
    BY <1>5, <1>6, <2>1
  <2>2. ASSUME NEW p \in Procs, SaveOpen(p) \/ SaveWrite(p) \/ SaveSync(p)
        PROVE  pc'[q] = pc[q] /\ me'[q] = me[q] /\ mem'[q] = mem[q]
    BY <1>4, <2>2
  <2>3. CASE Local(q) \/ Begins(q) \/ Exit(q)
    BY <1>1, <1>2, <1>5, <2>3
  <2>4. ASSUME NEW p \in Procs, p # q, Local(p) \/ Begins(p) \/ SaveRename(p) \/ Exit(p)
        PROVE  pc'[q] = pc[q] /\ me'[q] = me[q] /\ mem'[q] = mem[q]
    BY <1>3, <2>4
  <2> QED
    BY <1>7, <2>1, <2>2, <2>3, <2>4

(* In a step at most one process moves on, unless the power is lost. *)
LEMMA OneMover ==
  ASSUME SaveInv, [DirNext]_dirVars, ~ PowerLoss, NEW p \in Procs, NEW q \in Procs, p # q,
         pc'[p] # pc[p]
  PROVE  pc'[q] = pc[q]
<1>1. ASSUME NEW r \in Procs,
             Local(r) \/ Begins(r) \/ SaveRename(r) \/ Exit(r)
               \/ SaveOpen(r) \/ SaveWrite(r) \/ SaveSync(r)
      PROVE  \A s \in Procs \ {r} : pc'[s] = pc[s]
  <2>1. CASE Local(r)
    BY <2>1 DEF Local, OpenHost, LoadIdentity, LoadState, HostOpened, RelayTarget, NotifyRelay,
       PresentToken, EnsureEnrolled, SaveInv, DirTypeOK
  <2>2. CASE Begins(r)
    BY <2>2 DEF Begins, SealIdentity, CreateState, SavePeers, StoreRelayToken, SetRelay, SaveInv,
       DirTypeOK
  <2>3. CASE SaveRename(r)
    BY <2>3 DEF SaveRename, SaveInv, DirTypeOK
  <2>4. CASE Exit(r)
    BY <2>4 DEF Exit, Forget
  <2>5. CASE SaveOpen(r) \/ SaveWrite(r) \/ SaveSync(r)
    BY <2>5 DEF SaveOpen, SaveWrite, SaveSync
  <2> QED
    BY <1>1, <2>1, <2>2, <2>3, <2>4, <2>5
<1>2. CASE UNCHANGED dirVars
  BY <1>2 DEF dirVars
<1> QED
  BY <1>1, <1>2 DEF DirNext, Local, Begins

-----------------------------------------------------------------------------
(* As long as no token is sealed, nobody knows of an enrolment: neither the *)
(* bytes of state.json nor a process, and nobody is about to record one.    *)
TokenInv ==
    file["token"] = Absent =>
        /\ \A v \in Halves("state") : v.relay = NoRelay
        /\ \A p \in Procs : pc[p] \in HasState =>
             mem[p].relay = NoRelay /\ pc[p] # "sealed token"

(* Every step keeps the token of an enrolment beside it (ensure_enrolled). *)
LEMMA TokenInvStep == SaveInv /\ TokenInv /\ [DirNext]_dirVars => TokenInv'
<1> SUFFICES ASSUME SaveInv, TokenInv, [DirNext]_dirVars, file'["token"] = Absent
             PROVE  /\ \A v \in Halves("state")' : v.relay = NoRelay
                    /\ \A p \in Procs : pc'[p] \in HasState =>
                         mem'[p].relay = NoRelay /\ pc'[p] # "sealed token"
  BY DEF TokenInv
<1>0. "token" \in Files /\ "state" \in Files
  BY DEF Files
<1>1. file["token"] = Absent
  BY <1>0, BytesStep
<1>2. /\ \A v \in Halves("state") : v.relay = NoRelay
      /\ \A p \in Procs : pc[p] \in HasState =>
           mem[p].relay = NoRelay /\ pc[p] # "sealed token"
  BY <1>1 DEF TokenInv
<1>3. ASSUME NEW v \in Halves("state")' PROVE v.relay = NoRelay
  <2>1. CASE v \in Halves("state")
    BY <1>2, <2>1
  <2>2. CASE \E p \in Procs : Saving(p) /\ job[p].file = "state" /\ job[p].value = v
    <3>1. PICK p \in Procs : Saving(p) /\ job[p].file = "state" /\ job[p].value = v
      BY <2>2
    <3>2. pc[p] \in HasState /\ v = mem[p]
      BY <3>1, JobKind DEF JobOk, HasState, Opened
    <3> QED
      BY <1>2, <3>2
  <2> QED
    BY <1>0, <2>1, <2>2, BytesStep
<1>4. ASSUME NEW p \in Procs, pc'[p] \in HasState
      PROVE  mem'[p].relay = NoRelay /\ pc'[p] # "sealed token"
  <2>1. CASE SaveRename(p)
    <3>1. /\ Saving(p) /\ pc'[p] = job[p].then /\ mem'[p] = mem[p] /\ JobOk(p)
          /\ file'[job[p].file] # Absent
      BY <2>1, RenameKeeps, JobKind DEF SaveInv, DirTypeOK
    <3>2. pc[p] \in HasState /\ pc'[p] # "sealed token"
      BY <1>4, <3>1 DEF JobOk, HasState, Opened
    <3> QED
      BY <1>2, <3>1, <3>2
  <2>2. CASE ~ SaveRename(p)
    <3>1. Moves(p)
      BY <2>2, MemoryStep
    <3>2. Published("state") \in States => Published("state").relay = NoRelay
      BY <1>0, <1>2, PublishedHeld DEF Values
    <3> QED
      BY ONLY <1>2, <1>4, <3>1, <3>2 DEF Moves, HasState, Opened
  <2> QED
    BY <2>1, <2>2
<1> QED
  BY <1>3, <1>4

(* However ensure_enrolled is interrupted, and however many processes share *)
(* the directory and save stale copies of the state over each other, an     *)
(* enrolment in state.json has a sealed token beside it, and one that       *)
(* unseals unless two saves of the token itself overlapped.                 *)
THEOREM EnrolmentKeepsToken == DirSpec => []EnrolledHasToken
<1> DEFINE Inv == SaveInv /\ TokenInv
<1>1. DirInit => Inv
  <2> SUFFICES ASSUME DirInit PROVE SaveInv /\ TokenInv
    OBVIOUS
  <2>1. Halves("state") = {}
    BY DEF DirInit, Halves, Holds, Files
  <2>2. \A p \in Procs : pc[p] \notin HasState
    BY DEF DirInit, HasState, Opened
  <2> QED
    BY <2>1, <2>2, SaveInvInit DEF TokenInv
<1>2. Inv /\ [DirNext]_dirVars => Inv'
  BY SaveInvStep, TokenInvStep
<1>3. Inv => EnrolledHasToken
  <2> SUFFICES ASSUME SaveInv, TokenInv, Published("state") \in States,
                      Published("state").relay # NoRelay
               PROVE  /\ Published("token") # Absent
                      /\ overlap["token"] = "none" => Published("token") \in Relays
    BY DEF EnrolledHasToken
  <2>1. "token" \in Files /\ "state" \in Files /\ Kind("token") = Relays
    BY DEF Files, Kind
  <2>2. Published("state") \in Halves("state")
    BY <2>1, PublishedHeld DEF Values
  <2>3. file["token"] # Absent
    BY <2>2 DEF TokenInv
  <2> QED
    BY <2>1, <2>3, PublishedHeld
<1> QED
  BY <1>1, <1>2, <1>3, PTL DEF DirSpec

-----------------------------------------------------------------------------
(* Host::open.  Unless running processes raced, what a process makes anew   *)
(* it makes alone, because the disk has none; what it has loaded is what is *)
(* on disk; and all bytes of state.json carry the device id of everyone who *)
(* has a state in memory.                                                   *)
Loaded == {"audit"} \cup Opened

MakesIdentity(p) ==
    pc[p] = "newidentity" =>
        /\ file["identity"] = Absent
        /\ \A q \in Procs : pc[q] = "newidentity" => q = p
        /\ Saving(p) => overlap["identity"] # "now"

MakesState(p) ==
    pc[p] = "newstate" =>
        /\ file["state"] = Absent
        /\ \A q \in Procs : pc[q] = "newstate" => q = p

Agrees(p) ==
    /\ pc[p] \in {"state"} \cup HasState => me[p] = Published("identity")
    /\ pc[p] \in Loaded => file["state"] # Absent
    /\ pc[p] \in HasState =>
         /\ \A v \in Halves("state") : v.dev = mem[p].dev
         /\ \A q \in Procs : pc[q] \in HasState => mem[q].dev = mem[p].dev

AgreeInv ==
    ~ raced => \A p \in Procs : MakesIdentity(p) /\ MakesState(p) /\ Agrees(p)

(* When every process is off, nobody disagrees. *)
LEMMA AllOffAgree ==
  ASSUME \A p \in Procs : pc[p] = "off"
  PROVE  AgreeInv
  BY DEF AgreeInv, MakesIdentity, MakesState, Agrees, Loaded, HasState, Opened

(* The mark of a race goes only with the last process. *)
LEMMA RaceEnds ==
  ASSUME SaveInv, [DirNext]_dirVars, raced, ~ raced'
  PROVE  \A p \in Procs : pc'[p] = "off"
<1>1. ASSUME NEW p \in Procs, Local(p) \/ Begins(p) PROVE raced'
  BY <1>1, BeginsKeep DEF Local, OpenHost, LoadIdentity, LoadState, HostOpened, RelayTarget,
     NotifyRelay, PresentToken, EnsureEnrolled
<1>2. ASSUME NEW p \in Procs, SaveOpen(p) \/ SaveWrite(p) \/ SaveSync(p) \/ SaveRename(p)
      PROVE  raced'
  BY <1>2 DEF SaveOpen, SaveWrite, SaveSync, SaveRename
<1>3. ASSUME NEW ps \in SUBSET Procs, Forget(ps) PROVE \A p \in Procs : pc'[p] = "off"
  BY <1>3 DEF Forget
<1>4. ASSUME NEW p \in Procs, Exit(p) PROVE \A q \in Procs : pc'[q] = "off"
  BY <1>3, <1>4 DEF Exit
<1>5. CASE PowerLoss
  BY <1>3, <1>5 DEF PowerLoss
<1>6. CASE UNCHANGED dirVars
  BY <1>6 DEF dirVars
<1> QED
  BY <1>1, <1>2, <1>4, <1>5, <1>6 DEF DirNext, Local, Begins

(* Who has read the identity keeps it: nobody saves another one. *)
LEMMA IdentityStays ==
  ASSUME SaveInv, AgreeInv, ~ raced, [DirNext]_dirVars, ~ PowerLoss,
         Published("identity") \in Ids
  PROVE  Published("identity")' = Published("identity")
<1>1. "identity" \in Files
  BY DEF Files
<1>2. file["identity"] # Absent
  BY <1>1, PublishedHeld DEF Values
<1>3. ASSUME NEW p \in Procs, Saving(p), job[p].file = "identity" PROVE FALSE
  <2>1. pc[p] = "newidentity"
    BY <1>3, JobKind DEF JobOk
  <2> QED
    BY <1>2, <2>1 DEF AgreeInv, MakesIdentity
<1>4. file'["identity"] = file["identity"]
  BY <1>1, <1>3, BytesStep
<1> QED
  BY <1>4 DEF Published

(* Whoever has a state in memory finds its device id in the bytes to come. *)
LEMMA DeviceStays ==
  ASSUME SaveInv, AgreeInv, ~ raced, [DirNext]_dirVars,
         NEW p \in Procs, pc[p] \in HasState, NEW v \in Halves("state")'
  PROVE  v.dev = mem[p].dev
<1>1. "state" \in Files /\ Agrees(p)
  BY DEF Files, AgreeInv
<1>2. CASE v \in Halves("state")
  BY <1>1, <1>2 DEF Agrees
<1>3. ASSUME NEW q \in Procs, Saving(q), job[q].file = "state", job[q].value = v
      PROVE  v.dev = mem[p].dev
  <2>1. pc[q] \in HasState /\ v = mem[q]
    BY <1>3, JobKind DEF JobOk, HasState, Opened
  <2> QED
    BY <1>1, <2>1 DEF Agrees
<1> QED
  BY <1>1, <1>2, <1>3, BytesStep

(* Saves of a file overlap when one begins during another, and until all of *)
(* them have ended.                                                         *)
LEMMA OverlapStep ==
  ASSUME SaveInv, [DirNext]_dirVars, NEW f \in Files, overlap'[f] = "now"
  PROVE  \/ \E q, r \in Procs : /\ q # r /\ Saving(q)' /\ Saving(r)'
                                /\ job'[q].file = f /\ job'[r].file = f
         \/ /\ overlap[f] = "now"
            /\ \A p \in Procs : Saving(p)' /\ job'[p].file = f => Saving(p)
<1> USE DEF SaveInv
<1>1. CASE UNCHANGED <<job, overlap>>
  BY <1>1 DEF Saving
<1>2. ASSUME NEW q \in Procs, Local(q) PROVE UNCHANGED <<job, overlap>>
  BY <1>2 DEF Local, OpenHost, LoadIdentity, LoadState, HostOpened, RelayTarget, NotifyRelay,
     PresentToken, EnsureEnrolled
<1>3. ASSUME NEW q \in Procs, Begins(q)
      PROVE  \/ \E s, r \in Procs : /\ s # r /\ Saving(s)' /\ Saving(r)'
                                    /\ job'[s].file = f /\ job'[r].file = f
             \/ /\ overlap[f] = "now"
                /\ \A p \in Procs : Saving(p)' /\ job'[p].file = f => Saving(p)
  <2>1. PICK g \in Files, v \in Values, then \in Continuations :
          /\ job' = [job EXCEPT ![q] = Begun(g, v, then)]
          /\ Begun(g, v, then) \in Jobs /\ BeginOverlap(q, g)
    BY <1>3, BeginsKeep
  <2>2. /\ job'[q] = Begun(g, v, then) /\ \A r \in Procs \ {q} : job'[r] = job[r]
        /\ job'[q].file = g
    BY <2>1 DEF DirTypeOK, Begun
  <2>3. Saving(q)' /\ \A r \in Procs \ {q} : Saving(r)' = Saving(r)
    BY <2>1, <2>2, DirAssumption DEF Saving
  <2>4. CASE g = f
    <3>1. \E r \in Procs \ {q} : Saving(r) /\ job[r].file = f
      BY <2>1, <2>4 DEF BeginOverlap, DirTypeOK
    <3> QED
      BY <2>2, <2>3, <2>4, <3>1
  <2>5. CASE g # f
    <3>1. overlap'[f] = overlap[f]
      BY <2>1, <2>5 DEF BeginOverlap, DirTypeOK
    <3> QED
      BY <2>2, <2>3, <2>5, <3>1
  <2> QED
    BY <2>4, <2>5
<1>4. ASSUME NEW q \in Procs, SaveOpen(q) \/ SaveWrite(q) \/ SaveSync(q)
      PROVE  overlap'[f] = overlap[f] /\ \A p \in Procs : Saving(p)' => Saving(p)
  <2>1. Saving(q) /\ WroteOn(q)
    BY <1>4, WriteStep
  <2> QED
    BY <2>1 DEF WroteOn, Saving, DirTypeOK
<1>5. ASSUME NEW q \in Procs, SaveRename(q)
      PROVE  overlap[f] = "now" /\ \A p \in Procs : Saving(p)' => Saving(p)
  <2>1. /\ overlap' = [overlap EXCEPT ![job[q].file] = IF @ = "now" THEN @ ELSE "none"]
        /\ job' = [job EXCEPT ![q] = Idle]
    BY <1>5, RenameKeeps
  <2> QED
    BY <2>1 DEF Saving, DirTypeOK
<1>6. ASSUME NEW ps \in SUBSET Procs, Forget(ps)
      PROVE  overlap'[f] = overlap[f] /\ \A p \in Procs : Saving(p)' => Saving(p)
  BY <1>6 DEF Forget, Saving
<1>7. ASSUME NEW q \in Procs, Exit(q)
      PROVE  overlap'[f] = overlap[f] /\ \A p \in Procs : Saving(p)' => Saving(p)
  BY <1>6, <1>7 DEF Exit
<1>8. PowerLoss => overlap'[f] = overlap[f] /\ \A p \in Procs : Saving(p)' => Saving(p)
  BY <1>6 DEF PowerLoss
<1>9. CASE UNCHANGED dirVars
  BY <1>1, <1>9 DEF dirVars
<1> QED
  BY <1>1, <1>2, <1>3, <1>4, <1>5, <1>7, <1>8, <1>9 DEF DirNext, Local, Begins


(* Whoever saves the identity is making it. *)
LEMMA SealsWhatItMakes ==
  ASSUME SaveInv, NEW p \in Procs, Saving(p), job[p].file = "identity"
  PROVE  pc[p] = "newidentity"
  BY JobKind DEF JobOk

(* A process that makes an identity stays alone with it, on a disk that has *)
(* none, until it is sealed.                                                *)
LEMMA IdentityMade ==
  ASSUME SaveInv, AgreeInv, ~ raced, ~ raced', [DirNext]_dirVars, ~ PowerLoss,
         NEW p \in Procs, pc'[p] = "newidentity"
  PROVE  MakesIdentity(p)'
<1>0. "identity" \in Files /\ SaveInv'
  BY SaveInvStep DEF Files
<1>1. ASSUME NEW q \in Procs, pc'[q] = "newidentity"
      PROVE  /\ ~ SaveRename(q)
             /\ \/ pc[q] = "newidentity"
                \/ /\ pc[q] = "identity" /\ Published("identity") = Absent
                   /\ \A r \in Procs : pc[r] # "newidentity"
  <2>1. ~ SaveRename(q)
    <3> SUFFICES ASSUME SaveRename(q) PROVE FALSE
      OBVIOUS
    <3>1. Saving(q) /\ pc'[q] = job[q].then
      BY RenameKeeps DEF SaveInv, DirTypeOK
    <3> QED
      BY <1>1, <3>1, JobKind DEF JobOk
  <2>2. Moves(q)
    BY <2>1, MemoryStep
  <2> QED
    BY ONLY <1>1, <2>1, <2>2, ~ raced' DEF Moves, Opened
<1>2. file["identity"] = Absent /\ \A q \in Procs : pc[q] = "newidentity" => q = p
  BY <1>0, <1>1, PublishedHeld DEF AgreeInv, MakesIdentity
<1>3. file'["identity"] = Absent
  <2> SUFFICES ASSUME file'["identity"] # Absent PROVE FALSE
    OBVIOUS
  <2>1. PICK q \in Procs : SaveRename(q) /\ job[q].file = "identity"
    BY <1>0, <1>2, BytesStep
  <2>2. pc[q] = "newidentity"
    BY <2>1, SealsWhatItMakes, RenameKeeps
  <2> QED
    BY <1>1, <1>2, <2>1, <2>2
<1>4. \A q \in Procs : pc'[q] = "newidentity" => q = p
  <2> SUFFICES ASSUME NEW q \in Procs, pc'[q] = "newidentity", q # p PROVE FALSE
    OBVIOUS
  <2>1. pc[q] # "newidentity"
    BY <1>2
  <2>2. pc[p] # "newidentity"
    BY <1>1, <2>1
  <2> QED
    BY <2>1, <2>2, OneMover
<1>5. Saving(p)' => overlap'["identity"] # "now"
  <2> SUFFICES ASSUME Saving(p)', overlap'["identity"] = "now" PROVE FALSE
    OBVIOUS
  <2>0. ASSUME NEW q \in Procs, Saving(q)', job'[q].file = "identity"
        PROVE  pc'[q] = "newidentity"
    <3>1. JobOk(q)'
      BY <1>0, <2>0 DEF SaveInv, ProcInv
    <3> QED
      BY <2>0, <3>1 DEF JobOk
  <2>1. job'[p].file = "identity"
    <3>1. JobOk(p)'
      BY <1>0 DEF SaveInv, ProcInv
    <3> QED
      BY <3>1 DEF JobOk
  <2>2. overlap["identity"] = "now" /\ Saving(p)
    BY <1>0, <1>4, <2>0, <2>1, OverlapStep
  <2>3. job[p] \in Jobs /\ JobOk(p)
    BY <2>2, JobKind
  <2>4. pc[p] = "newidentity"
    BY <1>1, <2>3 DEF JobOk
  <2> QED
    BY <2>2, <2>4 DEF AgreeInv, MakesIdentity
<1> QED
  BY <1>3, <1>4, <1>5 DEF MakesIdentity

(* How a process comes to have a state in memory. *)
LEMMA HasStateStep ==
  ASSUME SaveInv, ~ raced', [DirNext]_dirVars, NEW p \in Procs, pc'[p] \in HasState
  PROVE  \/ pc[p] \in HasState /\ me'[p] = me[p] /\ mem'[p].dev = mem[p].dev
              /\ (pc'[p] = "newstate" => pc[p] = "newstate" /\ ~ SaveRename(p))
         \/ pc[p] = "state" /\ pc'[p] = "audit" /\ me'[p] = me[p]
              /\ mem'[p] = Published("state") /\ Published("state") \in States
         \/ pc[p] = "state" /\ pc'[p] = "newstate" /\ me'[p] = me[p]
              /\ Published("state") = Absent /\ (\A r \in Procs : pc[r] # "newstate")
              /\ ~ SaveRename(p)
<1>1. CASE SaveRename(p)
  <2>1. /\ Saving(p) /\ pc'[p] = job[p].then /\ mem'[p] = mem[p] /\ me'[p] = me[p]
        /\ JobOk(p)
    BY <1>1, RenameKeeps, JobKind DEF SaveInv, DirTypeOK
  <2> QED
    BY <2>1 DEF JobOk, HasState, Opened
<1>2. CASE ~ SaveRename(p)
  <2>1. Moves(p)
    BY <1>2, MemoryStep
  <2> QED
    BY ONLY <1>2, <2>1, ~ raced', pc'[p] \in HasState DEF Moves, HasState, Opened
<1> QED
  BY <1>1, <1>2

(* A process that makes a state is alone with it as well, and so nobody has *)
(* a state in memory when one begins to make it.                            *)
LEMMA StateMade ==
  ASSUME SaveInv, AgreeInv, ~ raced, ~ raced', [DirNext]_dirVars, ~ PowerLoss,
         NEW p \in Procs, pc'[p] = "newstate"
  PROVE  MakesState(p)'
<1>0. "state" \in Files
  BY DEF Files
<1>1. ASSUME NEW q \in Procs, pc'[q] = "newstate"
      PROVE  /\ ~ SaveRename(q)
             /\ \/ pc[q] = "newstate"
                \/ /\ pc[q] = "state" /\ Published("state") = Absent
                   /\ \A r \in Procs : pc[r] # "newstate"
  BY <1>1, HasStateStep DEF HasState
<1>2. file["state"] = Absent /\ \A q \in Procs : pc[q] = "newstate" => q = p
  BY <1>0, <1>1, PublishedHeld DEF AgreeInv, MakesState
<1>3. file'["state"] = Absent
  <2> SUFFICES ASSUME file'["state"] # Absent PROVE FALSE
    OBVIOUS
  <2>1. PICK q \in Procs : SaveRename(q) /\ job[q].file = "state"
    BY <1>0, <1>2, BytesStep
  <2>2. pc[q] \in HasState
    BY <2>1, RenameKeeps, JobKind DEF JobOk, HasState, Opened
  <2>3. pc[q] = "newstate"
    BY <1>2, <2>2 DEF AgreeInv, Agrees, Loaded, HasState
  <2> QED
    BY <1>1, <1>2, <2>1, <2>3
<1>4. \A q \in Procs : pc'[q] = "newstate" => q = p
  <2> SUFFICES ASSUME NEW q \in Procs, pc'[q] = "newstate", q # p PROVE FALSE
    OBVIOUS
  <2>1. pc[q] # "newstate"
    BY <1>2
  <2>2. pc[p] # "newstate"
    BY <1>1, <2>1
  <2> QED
    BY <2>1, <2>2, OneMover
<1> QED
  BY <1>3, <1>4 DEF MakesState

(* A process keeps to what is on disk. *)
LEMMA AgreesKept ==
  ASSUME SaveInv, AgreeInv, ~ raced, ~ raced', [DirNext]_dirVars, ~ PowerLoss, NEW p \in Procs
  PROVE  Agrees(p)'
<1>0. "identity" \in Files /\ "state" \in Files /\ Ids \subseteq Values /\ States \subseteq Values
  BY DEF Files, Values
<1>1. pc'[p] \in {"state"} \cup HasState => me'[p] = Published("identity")'
  <2> SUFFICES ASSUME pc'[p] \in {"state"} \cup HasState PROVE me'[p] = Published("identity")'
    OBVIOUS
  <2>1. CASE pc[p] \in {"state"} \cup HasState /\ me'[p] = me[p]
    <3>1. me[p] = Published("identity") /\ me[p] \in Ids
      BY <2>1 DEF AgreeInv, Agrees, SaveInv, ProcInv, MemoryOk, HasIdentity, HasState
    <3> QED
      BY <2>1, <3>1, IdentityStays
  <2>2. CASE SaveRename(p) /\ pc[p] = "newidentity"
    <3>1. Saving(p) /\ job[p].file = "identity" /\ job[p].value = me[p]
      BY <2>2, RenameKeeps, JobKind DEF JobOk
    <3>2. overlap["identity"] # "now"
      BY <2>2, <3>1 DEF AgreeInv, MakesIdentity
    <3> QED
      BY <2>2, <3>1, <3>2, RenameKeeps DEF Published
  <2>3. CASE pc[p] = "identity" /\ me'[p] = Published("identity") /\ Published("identity") \in Ids
    BY <2>3, IdentityStays
  <2>4. CASE pc'[p] \in HasState
    BY <2>1, <2>4, HasStateStep
  <2>5. CASE pc'[p] = "state" /\ SaveRename(p)
    <3>1. Saving(p) /\ pc'[p] = job[p].then
      BY <2>5, RenameKeeps DEF SaveInv, DirTypeOK
    <3>2. pc[p] = "newidentity"
      BY <2>5, <3>1, JobKind DEF JobOk
    <3> QED
      BY <2>2, <2>5, <3>2
  <2>6. CASE pc'[p] = "state" /\ ~ SaveRename(p)
    <3>1. Moves(p)
      BY <2>6, MemoryStep
    <3>2. \/ pc[p] = "state" /\ me'[p] = me[p]
          \/ pc[p] = "identity" /\ me'[p] = Published("identity") /\ Published("identity") \in Ids
      BY ONLY <2>6, <3>1 DEF Moves, Opened
    <3> QED
      BY <2>1, <2>3, <3>2
  <2> QED
    BY <2>4, <2>5, <2>6
<1>2. ASSUME NEW q \in Procs, pc[q] \in HasState, pc[q] # "newstate" PROVE file["state"] # Absent
  BY <1>2 DEF AgreeInv, Agrees, Loaded, HasState
<1>3. pc'[p] \in Loaded => file'["state"] # Absent
  <2> SUFFICES ASSUME pc'[p] \in Loaded PROVE file'["state"] # Absent
    OBVIOUS
  <2>1. CASE file["state"] # Absent
    BY <1>0, <2>1, BytesStep
  <2>2. CASE SaveRename(p) /\ pc[p] = "newstate"
    <3>1. job[p].file = "state" /\ file'[job[p].file] = tmp[job[p].file]
            /\ tmp[job[p].file] # Absent
      BY <2>2, RenameKeeps, JobKind DEF JobOk
    <3> QED
      BY <3>1
  <2>3. CASE pc[p] = "newstate" /\ ~ SaveRename(p)
    <3>1. Moves(p)
      BY <2>3, MemoryStep
    <3> QED
      BY ONLY <2>3, <3>1, pc'[p] \in Loaded DEF Moves, Loaded, Opened
  <2>4. Published("state") \in States => file["state"] # Absent
    BY <1>0, PublishedHeld
  <2>5. pc'[p] \in HasState /\ pc'[p] # "newstate"
    BY DEF HasState, Loaded, Opened
  <2> QED
    BY <1>2, <2>1, <2>2, <2>3, <2>4, <2>5, HasStateStep
<1>4. ASSUME NEW q \in Procs, NEW r \in Procs, pc[q] \in HasState, pc[r] \in HasState
      PROVE  mem[q].dev = mem[r].dev
  BY <1>4 DEF AgreeInv, Agrees
<1>5. ASSUME NEW q \in Procs, pc[q] \in HasState, Published("state") \in States
      PROVE  Published("state").dev = mem[q].dev
  BY <1>0, <1>5, PublishedHeld DEF AgreeInv, Agrees
<1>6. ASSUME Published("state") = Absent, \A r \in Procs : pc[r] # "newstate", NEW q \in Procs
      PROVE  pc[q] \notin HasState
  BY <1>0, <1>2, <1>6, PublishedHeld
<1>7. ASSUME NEW q \in Procs, Saving(q), job[q].file = "state"
      PROVE  pc[q] \in HasState /\ job[q].value = mem[q]
  BY <1>7, JobKind DEF JobOk, HasState, Opened
<1>8. ASSUME pc'[p] \in HasState, NEW v \in Halves("state")' PROVE v.dev = mem'[p].dev
  <2>0. \/ v \in Halves("state")
        \/ \E q \in Procs : Saving(q) /\ job[q].file = "state" /\ job[q].value = v
    BY <1>0, <1>8, BytesStep
  <2>1. \/ v \in Values /\ Holds(file["state"], v)
        \/ \E q \in Procs : pc[q] \in HasState /\ v.dev = mem[q].dev
    <3>1. CASE \E q \in Procs : Saving(q) /\ job[q].file = "state" /\ job[q].value = v
      BY <1>7, <3>1
    <3>2. CASE v \in Halves("state") /\ Holds(tmp["state"], v)
      <4>1. PICK q \in Procs : Saving(q) /\ job[q].file = "state"
        BY <1>0, <3>2 DEF Holds, SaveInv, BytesInv
      <4> QED
        BY <1>7, <3>2, <4>1 DEF AgreeInv, Agrees
    <3> QED
      BY <2>0, <3>1, <3>2 DEF Halves
  <2>2. CASE pc[p] \in HasState /\ mem'[p].dev = mem[p].dev
    BY <1>8, <2>2, DeviceStays
  <2>3. CASE mem'[p] = Published("state") /\ Published("state") \in States
    BY <1>0, <1>5, <2>1, <2>3, PublishedHeld
  <2>4. CASE Published("state") = Absent /\ \A r \in Procs : pc[r] # "newstate"
    BY <1>0, <1>6, <2>1, <2>4, PublishedHeld DEF Holds
  <2> QED
    BY <1>8, <2>2, <2>3, <2>4, HasStateStep
<1>9. ASSUME NEW q \in Procs, pc'[p] \in HasState, pc'[q] \in HasState
      PROVE  mem'[q].dev = mem'[p].dev
  <2>1. ASSUME NEW r \in Procs, NEW s \in Procs, r # s, pc[r] \in HasState, pc'[r] \in HasState,
               pc'[s] \in HasState
        PROVE  mem'[s].dev = mem'[r].dev
    <3>1. mem'[r].dev = mem[r].dev
      BY <2>1, HasStateStep DEF HasState, Opened
    <3>2. CASE pc[s] \in HasState /\ mem'[s].dev = mem[s].dev
      BY <1>4, <2>1, <3>1, <3>2
    <3>3. CASE mem'[s] = Published("state") /\ Published("state") \in States
      BY <1>5, <2>1, <3>1, <3>3
    <3>4. CASE Published("state") = Absent /\ \A t \in Procs : pc[t] # "newstate"
      BY <1>6, <2>1, <3>4
    <3> QED
      BY <2>1, <3>2, <3>3, <3>4, HasStateStep
  <2>2. CASE p # q /\ pc[p] \notin HasState /\ pc[q] \notin HasState
    BY <1>9, <2>2, OneMover
  <2> QED
    BY <1>9, <2>1, <2>2
<1> QED
  BY <1>1, <1>3, <1>8, <1>9 DEF Agrees

(* Every step keeps the open hosts in agreement with the disk (Host::open). *)
LEMMA AgreeInvStep == SaveInv /\ AgreeInv /\ [DirNext]_dirVars => AgreeInv'
<1> SUFFICES ASSUME SaveInv, AgreeInv, [DirNext]_dirVars, ~ raced' PROVE AgreeInv'
  BY DEF AgreeInv
<1>1. CASE \A p \in Procs : pc'[p] = "off"
  BY <1>1 DEF AgreeInv, MakesIdentity, MakesState, Agrees, Loaded, HasState, Opened
<1>2. CASE raced
  BY <1>1, <1>2, RaceEnds
<1>3. CASE PowerLoss
  BY <1>1, <1>3 DEF PowerLoss, Forget
<1>4. CASE ~ raced /\ ~ PowerLoss
  <2> SUFFICES ASSUME NEW p \in Procs PROVE (MakesIdentity(p) /\ MakesState(p) /\ Agrees(p))'
    BY DEF AgreeInv
  <2>1. MakesIdentity(p)'
    BY <1>4, IdentityMade DEF MakesIdentity
  <2>2. MakesState(p)'
    BY <1>4, StateMade DEF MakesState
  <2>3. Agrees(p)'
    BY <1>4, AgreesKept
  <2> QED
    BY <2>1, <2>2, <2>3
<1> QED
  BY <1>2, <1>3, <1>4

(* For any number of processes and however their saves overlap: unless two  *)
(* running processes each took the directory for new, every open host works *)
(* under the identity on disk and the device id in state.json.              *)
THEOREM HostsAgree == DirSpec => []OpenHostsAgree
<1> DEFINE Inv == SaveInv /\ AgreeInv
<1>1. DirInit => Inv
  <2> SUFFICES ASSUME DirInit PROVE SaveInv /\ AgreeInv
    OBVIOUS
  <2>1. \A p \in Procs : pc[p] = "off"
    BY DEF DirInit
  <2> QED
    BY <2>1, SaveInvInit, AllOffAgree
<1>2. Inv /\ [DirNext]_dirVars => Inv'
  BY SaveInvStep, AgreeInvStep
<1>3. Inv => OpenHostsAgree
  <2> SUFFICES ASSUME SaveInv, AgreeInv, ~ raced, NEW p \in Procs,
                      pc[p] \notin Opening \cup {"off"}
               PROVE  /\ me[p] = Published("identity")
                      /\ Published("state") \in States => mem[p].dev = Published("state").dev
                      /\ overlap["state"] = "none" => Published("state") \in States
    BY DEF OpenHostsAgree
  <2>1. "state" \in Files /\ Kind("state") = States /\ States \subseteq Values
    BY DEF Files, Kind, Values
  <2>2. pc[p] \in Loaded /\ pc[p] \in HasState
    BY DEF SaveInv, DirTypeOK, Steps, Loaded, HasState
  <2>3. Agrees(p)
    BY DEF AgreeInv
  <2>4. Published("state") \in States => mem[p].dev = Published("state").dev
    BY <2>1, <2>2, <2>3, PublishedHeld DEF Agrees
  <2> QED
    BY <2>1, <2>2, <2>3, <2>4, PublishedHeld DEF Agrees
<1> QED
  <2> HIDE DEF Inv
  <2>1. DirSpec => []Inv
    BY <1>1, <1>2, PTL DEF DirSpec
  <2> QED
    BY <1>3, <2>1, PTL
=============================================================================
