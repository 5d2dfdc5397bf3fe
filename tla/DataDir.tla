------------------------------- MODULE DataDir -------------------------------
(***************************************************************************)
(* The agent's data directory and the processes that open it: `run`,       *)
(* `pair` and `unpair` (host.rs, paths.rs, state.rs, commands/, and the    *)
(* keystore and identity of osprey-core).  Each of its three files, the    *)
(* sealed identity, state.json and the sealed relay token, is replaced by  *)
(* truncating a temporary sibling, writing it, flushing it and renaming    *)
(* it.  Processes die at any step, machines lose power, disks fill up.     *)
(*                                                                         *)
(* A value is written in two halves, so that a partly written file, or one *)
(* mixed from two values, is neither.  An open handle follows its file     *)
(* through a rename: what a second saver still writes to a temporary file  *)
(* that a first one has renamed goes into the published one.  A rename is  *)
(* taken to survive a loss of power, as on a journalled file system.       *)
(*                                                                         *)
(* No lock is held between processes, neither over a save nor over         *)
(* Host::open.  Two history variables record where that shows: `overlap`   *)
(* the files whose saves overlapped, `raced` that two processes took the   *)
(* directory for new at the same time.                                     *)
(***************************************************************************)
EXTENDS Integers

CONSTANTS
    Procs,          \* processes of the agent
    Relays,         \* relay base URLs
    Phones,         \* peers that can be pinned
    NoRelay,        \* not enrolled
    Absent,         \* no such file
    Corrupt,        \* a file whose bytes do not parse
    Blank,          \* bytes that have not been written
    Idle,           \* not saving
    MaxIds          \* bound on generated identities and device ids

Files == {"identity", "state", "token"}

States == [dev : 1 .. MaxIds, relay : Relays \cup {NoRelay}, peers : SUBSET Phones]
Ids == [id : 1 .. MaxIds]
Values == Ids \cup States \cup Relays

(* The bytes a file can have, and the saves a process can be in. *)
Contents == [half1 : Values \cup {Blank}, half2 : Values \cup {Blank}, synced : BOOLEAN]
Jobs ==
    [file : Files, value : Values,
     done : {"nothing", "opened", "half", "written", "synced"},
     then : {"state", "audit", "open", "unpaired", "sealed token", "enrolled"}]

ASSUME DirAssumption ==
    /\ MaxIds \in Nat
    /\ NoRelay \notin Relays
    /\ Absent \notin Values \cup Contents /\ Blank \notin Values
    /\ Corrupt \notin Values \cup {Absent}
    /\ Idle \notin Jobs \cup [file : Files, value : Values]

VARIABLES
    file,       \* the published bytes under each name
    tmp,        \* the bytes of its temporary sibling
    pc,         \* what each process is doing
    job,        \* the save it is in: file, value, progress, and where to go on
    at,         \* which name its open handle's bytes are under now
    me,         \* its DeviceIdentity
    mem,        \* its HostState
    tok,        \* the relay token it holds: the relay that issued it
    url,        \* the relay it talks to
    fresh,      \* identities and device ids generated so far
    overlap,    \* history: whether saves of a file overlap
    raced       \* history: running processes each made a new identity or state

dirVars == <<file, tmp, pc, job, at, me, mem, tok, url, fresh, overlap, raced>>

(* The file's bytes, and whether sync_all has returned since the last write. *)
Bytes(half1, half2, synced) == [half1 |-> half1, half2 |-> half2, synced |-> synced]
Empty == Bytes(Blank, Blank, FALSE)

(* parse_state, read_peers and DeviceIdentity::load: whole bytes are a      *)
(* value, anything else is refused; a missing file is told apart.           *)
Parse(bytes) ==
    IF bytes = Absent THEN Absent
    ELSE IF bytes.half1 = bytes.half2 /\ bytes.half1 # Blank THEN bytes.half1
    ELSE Corrupt

Published(f) == Parse(file[f])

(* What a process has in memory is gone with it.  A temporary file it leaves *)
(* behind counts as none: nothing reads it and the next save truncates it.   *)
Forget(ps) ==
    /\ tmp' = [f \in Files |-> IF \E q \in Procs \ ps : job[q] # Idle /\ job[q].file = f
                               THEN tmp[f] ELSE Absent]
    /\ pc' = [p \in Procs |-> IF p \in ps THEN "off" ELSE pc[p]]
    /\ job' = [p \in Procs |-> IF p \in ps THEN Idle ELSE job[p]]
    /\ at' = [p \in Procs |-> IF p \in ps THEN "none" ELSE at[p]]
    /\ me' = [p \in Procs |-> IF p \in ps THEN Absent ELSE me[p]]
    /\ mem' = [p \in Procs |-> IF p \in ps THEN Absent ELSE mem[p]]
    /\ tok' = [p \in Procs |-> IF p \in ps THEN Absent ELSE tok[p]]
    /\ url' = [p \in Procs |-> IF p \in ps THEN NoRelay ELSE url[p]]
    /\ raced' = (raced /\ \E p \in Procs \ ps : pc[p] # "off")
    /\ UNCHANGED overlap

-----------------------------------------------------------------------------
(* Saving.  HostState::save, and store of both keystores: the temporary     *)
(* name belongs to the file and is the same for every process.              *)

Saving(p) == job[p] # Idle

(* "now": saves of the file in progress have overlapped.  "past": they ended, *)
(* and the file may still hold what they left.  "none": it holds what a save  *)
(* wrote that met no other.                                                   *)
BeginOverlap(p, f) ==
    overlap' = [overlap EXCEPT ![f] =
                  IF \E q \in Procs \ {p} : Saving(q) /\ job[q].file = f THEN "now"
                  ELSE IF @ = "now" THEN "past" ELSE @]

(* A process that saves f goes on at `then` once the rename has returned. *)
BeginSave(p, f, v, then) ==
    /\ BeginOverlap(p, f)
    /\ job' = [job EXCEPT ![p] = [file |-> f, value |-> v, done |-> "nothing", then |-> then]]

Progress(p, done) == job' = [job EXCEPT ![p].done = done]

(* create(true).truncate(true): a file left by a crash, or in use by        *)
(* another saver, is emptied.                                               *)
SaveOpen(p) ==
    /\ Saving(p) /\ job[p].done = "nothing"
    /\ tmp' = [tmp EXCEPT ![job[p].file] = Empty]
    /\ at' = [at EXCEPT ![p] = "tmp"]
    /\ Progress(p, "opened")
    /\ UNCHANGED <<file, pc, me, mem, tok, url, fresh, overlap, raced>>

(* A write through p's handle, wherever its file has gone. *)
Through(p, change(_)) ==
    LET f == job[p].file IN
    /\ tmp' = IF at[p] = "tmp" THEN [tmp EXCEPT ![f] = change(@)] ELSE tmp
    /\ file' = IF at[p] = "file" THEN [file EXCEPT ![f] = change(@)] ELSE file

(* write_all, in two writes. *)
SaveWrite(p) ==
    /\ Saving(p) /\ job[p].done \in {"opened", "half"}
    /\ IF job[p].done = "opened"
       THEN /\ Through(p, LAMBDA b : [b EXCEPT !.half1 = job[p].value, !.synced = FALSE])
            /\ Progress(p, "half")
       ELSE /\ Through(p, LAMBDA b : [b EXCEPT !.half2 = job[p].value, !.synced = FALSE])
            /\ Progress(p, "written")
    /\ UNCHANGED <<pc, at, me, mem, tok, url, fresh, overlap, raced>>

(* A slip: the rename publishes bytes that were not flushed. *)
SaveSyncSkipped(p) ==
    /\ Saving(p) /\ job[p].done = "written"
    /\ Progress(p, "synced")
    /\ UNCHANGED <<file, tmp, pc, at, me, mem, tok, url, fresh, overlap, raced>>

SaveSync(p) ==
    /\ Saving(p) /\ job[p].done = "written"
    /\ Through(p, LAMBDA b : [b EXCEPT !.synced = TRUE])
    /\ Progress(p, "synced")
    /\ UNCHANGED <<pc, at, me, mem, tok, url, fresh, overlap, raced>>

(* rename(tmp, path), and the return to the caller.  Handles of other       *)
(* savers on either name follow their file.                                 *)
SaveRename(p) ==
    /\ Saving(p) /\ job[p].done = "synced"
    /\ tmp[job[p].file] # Absent
    /\ LET f == job[p].file IN
       /\ file' = [file EXCEPT ![f] = tmp[f]]
       /\ tmp' = [tmp EXCEPT ![f] = Absent]
       /\ at' = [q \in Procs |->
                    IF q = p THEN "none"
                    ELSE IF ~Saving(q) \/ job[q].file # f THEN at[q]
                    ELSE IF at[q] = "tmp" THEN "file"
                    ELSE IF at[q] = "file" THEN "unlinked"
                    ELSE at[q]]
       /\ overlap' = [overlap EXCEPT ![f] = IF @ = "now" THEN @ ELSE "none"]
    /\ pc' = [pc EXCEPT ![p] = job[p].then]
    /\ job' = [job EXCEPT ![p] = Idle]
    /\ UNCHANGED <<me, mem, tok, url, fresh, raced>>

-----------------------------------------------------------------------------
(* Host::open *)

Opening == {"identity", "newidentity", "state", "newstate", "audit"}

(* resolve_layout, layout.create and the keystore's open. *)
OpenHost(p) ==
    /\ pc[p] = "off"
    /\ pc' = [pc EXCEPT ![p] = "identity"]
    /\ UNCHANGED <<file, tmp, job, at, me, mem, tok, url, fresh, overlap, raced>>

(* DeviceIdentity::load_or_create.  A file that does not unseal, decode or  *)
(* carry this version is an error, and only a missing one is created.       *)
LoadIdentity(p) ==
    /\ pc[p] = "identity" /\ ~Saving(p)
    /\ \/ /\ Published("identity") \in Ids
          /\ me' = [me EXCEPT ![p] = Published("identity")]
          /\ pc' = [pc EXCEPT ![p] = "state"]
          /\ UNCHANGED <<fresh, raced>>
       \/ /\ Published("identity") = Absent
          /\ fresh < MaxIds
          /\ fresh' = fresh + 1
          /\ me' = [me EXCEPT ![p] = [id |-> fresh']]
          /\ pc' = [pc EXCEPT ![p] = "newidentity"]
          /\ raced' = (raced \/ \E q \in Procs : pc[q] = "newidentity")
    /\ UNCHANGED <<file, tmp, job, at, mem, tok, url, overlap>>

(* A slip: the new identity is used and sealed by the next run. *)
SealIdentityLater(p) ==
    /\ pc[p] = "newidentity" /\ ~Saving(p)
    /\ pc' = [pc EXCEPT ![p] = "state"]
    /\ UNCHANGED <<file, tmp, job, at, me, mem, tok, url, fresh, overlap, raced>>

SealIdentity(p) ==
    /\ pc[p] = "newidentity" /\ ~Saving(p)
    /\ BeginSave(p, "identity", me[p], "state")
    /\ UNCHANGED <<file, tmp, pc, at, me, mem, tok, url, fresh, raced>>

(* HostState::load_or_create *)
LoadState(p) ==
    /\ pc[p] = "state" /\ ~Saving(p)
    /\ \/ /\ Published("state") \in States
          /\ mem' = [mem EXCEPT ![p] = Published("state")]
          /\ pc' = [pc EXCEPT ![p] = "audit"]
          /\ UNCHANGED <<fresh, raced>>
       \/ /\ Published("state") = Absent
          /\ fresh < MaxIds
          /\ fresh' = fresh + 1
          /\ mem' = [mem EXCEPT ![p] = [dev |-> fresh', relay |-> NoRelay, peers |-> {}]]
          /\ pc' = [pc EXCEPT ![p] = "newstate"]
          /\ raced' = (raced \/ \E q \in Procs : pc[q] = "newstate")
    /\ UNCHANGED <<file, tmp, job, at, me, tok, url, overlap>>

CreateState(p) ==
    /\ pc[p] = "newstate" /\ ~Saving(p)
    /\ BeginSave(p, "state", mem[p], "audit")
    /\ UNCHANGED <<file, tmp, pc, at, me, mem, tok, url, fresh, raced>>

(* AuditLog::open, the last thing that can fail. *)
HostOpened(p) ==
    /\ pc[p] = "audit" /\ ~Saving(p)
    /\ pc' = [pc EXCEPT ![p] = "open"]
    /\ UNCHANGED <<file, tmp, job, at, me, mem, tok, url, fresh, overlap, raced>>

-----------------------------------------------------------------------------
(* What the commands do with an open host *)

(* add_peer and remove_peers: the process's own copy, changed and saved,    *)
(* also when unpair's selector matched nobody.                              *)
SavePeers(p) ==
    /\ pc[p] = "open"
    /\ \E ps \in SUBSET Phones :
         LET s == [mem[p] EXCEPT !.peers = ps] IN
         /\ mem' = [mem EXCEPT ![p] = s]
         /\ pc' = [pc EXCEPT ![p] = "pinning"]
         /\ BeginSave(p, "state", s, IF mem[p].peers \subseteq ps THEN "open" ELSE "unpaired")
    /\ UNCHANGED <<file, tmp, at, me, tok, url, fresh, raced>>

(* Host::relay_token: a sealed token that does not unseal is an error. *)
HasToken == Published("token") \in Relays

(* ensure_enrolled: an enrolment with this very relay whose token is still  *)
(* sealed is used again; without one, or with another relay, a new one is   *)
(* asked for.  A token that does not unseal ends the command (Exit).        *)
EnsureEnrolled(p, r) ==
    /\ pc[p] = "open"
    /\ url' = [url EXCEPT ![p] = r]
    /\ \/ /\ mem[p].relay = r /\ HasToken
          /\ tok' = [tok EXCEPT ![p] = Published("token")]
          /\ pc' = [pc EXCEPT ![p] = "enrolled"]
       \/ /\ mem[p].relay # r \/ Published("token") = Absent
          /\ pc' = [pc EXCEPT ![p] = "enrolling"]
          /\ UNCHANGED tok
    /\ UNCHANGED <<file, tmp, job, at, me, mem, fresh, overlap, raced>>

(* A slip: the enrolment is recorded first and the token sealed after it. *)
SetRelayFirst(p) ==
    /\ pc[p] = "enrolling" /\ ~Saving(p)
    /\ LET s == [mem[p] EXCEPT !.relay = url[p]] IN
         /\ mem' = [mem EXCEPT ![p] = s]
         /\ BeginSave(p, "state", s, "sealed token")
    /\ UNCHANGED <<file, tmp, pc, at, me, tok, url, fresh, raced>>

(* RelayClient::enrol answers, and store_relay_token seals the token. *)
StoreRelayToken(p) ==
    /\ pc[p] = "enrolling" /\ ~Saving(p)
    /\ tok' = [tok EXCEPT ![p] = url[p]]
    /\ BeginSave(p, "token", url[p], "sealed token")
    /\ UNCHANGED <<file, tmp, pc, at, me, mem, url, fresh, raced>>

SetRelay(p) ==
    /\ pc[p] = "sealed token" /\ ~Saving(p)
    /\ LET s == [mem[p] EXCEPT !.relay = url[p]] IN
         /\ mem' = [mem EXCEPT ![p] = s]
         /\ BeginSave(p, "state", s, "enrolled")
    /\ UNCHANGED <<file, tmp, pc, at, me, tok, url, fresh, raced>>

(* relay_target: `run` uses the recorded relay with the sealed token, and   *)
(* goes on without a relay when the token is missing or does not unseal.    *)
RelayTarget(p) ==
    /\ pc[p] = "open"
    /\ mem[p].relay # NoRelay /\ HasToken
    /\ url' = [url EXCEPT ![p] = mem[p].relay]
    /\ tok' = [tok EXCEPT ![p] = Published("token")]
    /\ pc' = [pc EXCEPT ![p] = "enrolled"]
    /\ UNCHANGED <<file, tmp, job, at, me, mem, fresh, overlap, raced>>

(* notify_relay: so does `unpair`, once the pins are gone; a token that is   *)
(* missing or does not unseal is reported and passed over.                  *)
NotifyRelay(p) ==
    /\ pc[p] = "unpaired" /\ ~Saving(p)
    /\ IF mem[p].relay # NoRelay /\ HasToken
       THEN /\ url' = [url EXCEPT ![p] = mem[p].relay]
            /\ tok' = [tok EXCEPT ![p] = Published("token")]
            /\ pc' = [pc EXCEPT ![p] = "enrolled"]
       ELSE /\ pc' = [pc EXCEPT ![p] = "open"]
            /\ UNCHANGED <<url, tok>>
    /\ UNCHANGED <<file, tmp, job, at, me, mem, fresh, overlap, raced>>

(* issue_pairing_token, find_device_by_identity, revoke_device and the      *)
(* relay link present the token to that relay; the answers change no file,  *)
(* and the client is dropped with its token.                                *)
PresentToken(p) ==
    /\ pc[p] = "enrolled" /\ ~Saving(p)
    /\ pc' = [pc EXCEPT ![p] = "open"]
    /\ tok' = [tok EXCEPT ![p] = Absent]
    /\ url' = [url EXCEPT ![p] = NoRelay]
    /\ UNCHANGED <<file, tmp, job, at, me, mem, fresh, overlap, raced>>

(* A command ends: at its own end, by an error of any call on the way (a    *)
(* full disk, a file that does not parse, a temporary file renamed away, a  *)
(* relay that refuses), or killed.  No caller goes on after a failed save.  *)
Exit(p) ==
    /\ pc[p] # "off"
    /\ Forget({p})
    /\ UNCHANGED <<file, fresh>>

(* Power is lost: every process dies, and bytes that were not flushed may   *)
(* be on the disk in part or not at all.                                    *)
PowerLoss ==
    /\ \E p \in Procs : pc[p] # "off"
    /\ Forget(Procs)
    /\ LET Remains(b) ==
             IF b = Absent \/ b.synced THEN {b}
             ELSE {b, [b EXCEPT !.half2 = Blank], [b EXCEPT !.half1 = Blank, !.half2 = Blank]}
       IN file' \in {g \in [Files -> UNION {Remains(file[f]) : f \in Files}] :
                        \A f \in Files : g[f] \in Remains(file[f])}
    /\ UNCHANGED fresh

DirInit ==
    /\ file = [f \in Files |-> Absent]
    /\ tmp = [f \in Files |-> Absent]
    /\ pc = [p \in Procs |-> "off"]
    /\ job = [p \in Procs |-> Idle]
    /\ at = [p \in Procs |-> "none"]
    /\ me = [p \in Procs |-> Absent]
    /\ mem = [p \in Procs |-> Absent]
    /\ tok = [p \in Procs |-> Absent]
    /\ url = [p \in Procs |-> NoRelay]
    /\ fresh = 0
    /\ overlap = [f \in Files |-> "none"]
    /\ raced = FALSE

DirNext ==
    \/ \E p \in Procs :
         \/ SaveOpen(p) \/ SaveWrite(p) \/ SaveSync(p) \/ SaveRename(p)
         \/ OpenHost(p) \/ LoadIdentity(p) \/ SealIdentity(p) \/ LoadState(p)
         \/ CreateState(p) \/ HostOpened(p)
         \/ SavePeers(p) \/ StoreRelayToken(p) \/ SetRelay(p)
         \/ RelayTarget(p) \/ NotifyRelay(p) \/ PresentToken(p) \/ Exit(p)
    \/ \E p \in Procs, r \in Relays : EnsureEnrolled(p, r)
    \/ PowerLoss

DirSpec == DirInit /\ [][DirNext]_dirVars

-----------------------------------------------------------------------------
(* Properties *)

(* What the processes see of the files is module AtomicFiles. *)
Abs == INSTANCE AtomicFiles WITH
    file <- [f \in Files |-> Published(f)],
    pending <- [p \in Procs |-> IF Saving(p) THEN [file |-> job[p].file, value |-> job[p].value]
                                ELSE Idle]

(* Saves are atomic: through crashes, losses of power and failing writes at *)
(* every step, and with any number of processes, a save that no other save  *)
(* of the same file overlaps replaces one whole value by the next or has    *)
(* changed nothing (HostState::save, the keystores' store).  Only files     *)
(* whose saves overlapped can be torn, until such a save succeeds again.    *)
SavesAreAtomic == Abs!Spec

(* Every process with an open host works under the identity that is on disk *)
(* and, where state.json can be read, under its device id, whatever was     *)
(* interrupted before and however saves overlapped since (Host::open),      *)
(* unless two processes made a new one at the same time and one of them     *)
(* still runs.                                                              *)
OpenHostsAgree ==
    ~ raced => \A p \in Procs : pc[p] \notin Opening \cup {"off"} =>
        /\ me[p] = Published("identity")
        /\ Published("state") \in States => mem[p].dev = Published("state").dev
        /\ overlap["state"] = "none" => Published("state") \in States

(* A recorded enrolment never lacks its sealed token, however an enrolment  *)
(* is interrupted, though several processes enrol and save the state with   *)
(* stale copies (ensure_enrolled; relay_target reports the contrary).  Two  *)
(* overlapping saves of the token itself may leave one that does not        *)
(* unseal; it is never missing.                                             *)
EnrolledHasToken ==
    Published("state") \in States =>
        (Published("state").relay # NoRelay =>
            /\ Published("token") # Absent
            /\ overlap["token"] = "none" => Published("token") \in Relays)

(* A published state.json always parses: HostState::save says "Write the    *)
(* state atomically: a torn write here would strand the device's pin list". *)
StateFileIsWhole == Published("state") # Corrupt

(* All processes with an open host resolve the directory in the same way,   *)
(* to one identity.  Host::open says that assembling them in one place is   *)
(* what makes a disagreement impossible.                                    *)
OneIdentity ==
    \A p, q \in Procs : {pc[p], pc[q]} \cap (Opening \cup {"off"}) = {} => me[p] = me[q]

(* A token is presented only to the relay that issued it.  ensure_enrolled  *)
(* says it uses the token again "only when it is for the same relay".       *)
PresentedToIssuer == \A p \in Procs : pc[p] = "enrolled" /\ ~Saving(p) => tok[p] = url[p]
=============================================================================
