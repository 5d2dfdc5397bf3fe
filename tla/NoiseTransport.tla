---------------------------- MODULE NoiseTransport ----------------------------
(***************************************************************************)
(* Framed, chunked, encrypted messages between a phone and the agent       *)
(* (osprey-core noise/framing.rs, noise/session.rs, noise/handshake.rs;    *)
(* osprey-ffi framing.rs, session.rs, handshake.rs).  The agent reads a    *)
(* blocking stream; the phone pushes whatever its socket gave it into a    *)
(* bounded buffer and asks for the next message.                           *)
(*                                                                         *)
(* A frame travels in two pieces, its length prefix and its body, so that  *)
(* a read may end inside it: piece 2n-1 is the prefix and piece 2n the     *)
(* body of frame n of its direction.  Frame 1 is the handshake message,    *)
(* frame n+1 is encrypted under nonce n: a body decrypts only whole, in    *)
(* its place and under the nonce the receiver expects (snow is external).  *)
(***************************************************************************)
EXTENDS Integers, Sequences, SequencesExt

CONSTANTS
    UpLengths, DownLengths,     \* payload lengths the phone and the agent send
    MaxChunk,                   \* MAX_CHUNK_PAYLOAD_LEN
    MaxMessage,                 \* the agent's max_message_len
    MaxInbound,                 \* MAX_INBOUND_BUFFER, in pieces
    MaxSends                    \* bound on the messages sent

ASSUME NoiseAssumption ==
    /\ MaxChunk \in Nat \ {0} /\ MaxMessage \in Nat /\ MaxInbound \in Nat
    /\ UpLengths \subseteq Nat /\ DownLengths \subseteq Nat

VARIABLES
    phone,          \* "new", "wrote", "finished", "transport", "failed"
    inbound,        \* the phone's unparsed pieces
    host,           \* "handshake", "session", "closed" (clean end), "error"
    assembled,      \* recv: the chunks of the message being read
    upFrames, downFrames,       \* the frames each side has written
    upRead, downRead,           \* pieces each side has taken from its socket
    cut,            \* the connection is gone
    upSent, downSent,           \* payloads given to send
    upGot, downGot,             \* payloads returned by recv and next_message
    rejected,       \* history: push_bytes refused pieces
    hasty           \* history: into_transport was called before the handshake finished

phoneVars == <<phone, inbound, downRead, downGot, rejected, hasty>>
hostVars == <<host, assembled, upRead, upGot>>
wireVars == <<upFrames, downFrames, upSent, downSent>>
noiseVars == <<phoneVars, hostVars, wireVars, cut>>

-----------------------------------------------------------------------------
(* Chunks *)

HandshakeFrame == [final |-> TRUE, body |-> <<"handshake">>]

(* The n-th payload of a direction; its bytes know where they belong. *)
Payload(n, len) == [i \in 1 .. len |-> <<n, i>>]

DivCeilChunks(len) == (len + MaxChunk - 1) \div MaxChunk

(* payload.chunks(MAX_CHUNK_PAYLOAD_LEN) under their flags *)
FlaggedChunks(payload) ==
    [c \in 1 .. DivCeilChunks(Len(payload)) |->
        [final |-> c = DivCeilChunks(Len(payload)),
         body  |-> SubSeq(payload, (c - 1) * MaxChunk + 1,
                          IF c * MaxChunk < Len(payload) THEN c * MaxChunk ELSE Len(payload))]]

(* split_into_chunks *)
SplitIntoChunks(payload) ==
    IF payload = <<>> THEN <<[final |-> TRUE, body |-> <<>>]>>
    ELSE FlaggedChunks(payload)

(* A slip: the chunks of the bytes allowed, and no allowance. *)
MaxChunksTight(max) == max \div MaxChunk

(* max_chunks *)
MaxChunks(max) == max \div MaxChunk + 2

(* What recv makes of the next chunk, given those of this message so far. *)
Outcome(soFar, chunk, max) ==
    LET message == FlattenSeq([i \in 1 .. Len(soFar) |-> soFar[i].body] \o <<chunk.body>>)
        refused == \/ Len(soFar) + 1 > MaxChunks(max)
                   \/ ~ chunk.final /\ chunk.body = <<>>
                   \/ Len(message) > max
    IN  IF refused THEN [is |-> "error"]
        ELSE IF chunk.final THEN [is |-> "message", payload |-> message]
        ELSE [is |-> "more"]

-----------------------------------------------------------------------------
(* The phone *)

(* NoiseHandshake::write_message *)
PhoneWrites ==
    /\ phone = "new"
    /\ phone' = "wrote"
    /\ upFrames' = <<HandshakeFrame>>
    /\ UNCHANGED <<inbound, downRead, downGot, rejected, hasty, hostVars, downFrames, upSent,
                   downSent, cut>>

(* push_bytes: the next n pieces of the socket, appended or, when they do   *)
(* not fit, refused.  A refusal leaves the object usable.                   *)
PushBytes(n) ==
    /\ phone # "failed" /\ ~ cut
    /\ downRead + n <= 2 * Len(downFrames)
    /\ downRead' = downRead + n
    /\ IF Len(inbound) + n > MaxInbound
       THEN rejected' = TRUE /\ UNCHANGED inbound
       ELSE inbound' = inbound \o [i \in 1 .. n |-> downRead + i] /\ UNCHANGED rejected
    /\ UNCHANGED <<phone, downGot, hasty, hostVars, wireVars, cut>>

(* complete_frame_len, when no piece was lost *)
WholeFrame == Len(inbound) >= 2 /\ inbound[1] % 2 = 1 /\ inbound[2] = inbound[1] + 1

Frame == (inbound[1] + 1) \div 2

(* read_message of the handshake, which callers repeat until it returns a   *)
(* payload: a complete frame leaves the buffer; one that is not the agent's *)
(* message is an error and the handshake stays where it was.  After a       *)
(* refused push the prefix may claim any number of pieces.                  *)
PhoneReads ==
    /\ phone = "wrote" /\ Len(inbound) >= 2
    /\ \E n \in 2 .. Len(inbound) :
         /\ WholeFrame => n = 2
         /\ inbound' = SubSeq(inbound, n + 1, Len(inbound))
    /\ phone' = IF WholeFrame /\ Frame = 1 THEN "finished" ELSE phone
    /\ UNCHANGED <<downRead, downGot, rejected, hasty, hostVars, wireVars, cut>>

(* A slip: the bytes behind the handshake message are dropped. *)
IntoTransportDropsLeftover ==
    /\ phone \in {"new", "wrote", "finished"}
    /\ IF phone = "finished"
       THEN phone' = "transport" /\ inbound' = <<>> /\ UNCHANGED hasty
       ELSE phone' = "failed" /\ inbound' = <<>> /\ hasty' = TRUE
    /\ UNCHANGED <<downRead, downGot, rejected, hostVars, wireVars, cut>>

(* into_transport: the state is taken whether or not the handshake is       *)
(* complete; bytes already buffered move across.                            *)
IntoTransport ==
    /\ phone \in {"new", "wrote", "finished"}
    /\ IF phone = "finished"
       THEN phone' = "transport" /\ UNCHANGED <<inbound, hasty>>
       ELSE phone' = "failed" /\ inbound' = <<>> /\ hasty' = TRUE
    /\ UNCHANGED <<downRead, downGot, rejected, hostVars, wireVars, cut>>

(* next_message: one frame at a time and one chunk a message; any failure   *)
(* ends the transport for good.                                             *)
NextMessage ==
    /\ phone = "transport" /\ Len(inbound) >= 2
    /\ LET chunk == downFrames[Frame]
           good  == /\ WholeFrame /\ Frame = Len(downGot) + 2
                    /\ Outcome(<<>>, chunk, MaxChunk).is = "message"
       IN  IF good
           THEN /\ downGot' = Append(downGot, chunk.body)
                /\ inbound' = SubSeq(inbound, 3, Len(inbound))
                /\ UNCHANGED phone
           ELSE phone' = "failed" /\ UNCHANGED <<downGot, inbound>>
    /\ UNCHANGED <<downRead, rejected, hasty, hostVars, wireVars, cut>>

(* encrypt: the frames of the whole payload are written. *)
PhoneSends(len) ==
    /\ phone = "transport" /\ Len(upSent) + Len(downSent) < MaxSends
    /\ LET payload == Payload(Len(upSent) + 1, len) IN
       /\ upSent' = Append(upSent, payload)
       /\ upFrames' = upFrames \o SplitIntoChunks(payload)
    /\ UNCHANGED <<phoneVars, hostVars, downFrames, downSent, cut>>

-----------------------------------------------------------------------------
(* The agent *)

(* run_responder: msg1 is read, msg2 written, and the session begins. *)
HostAccepts ==
    /\ host = "handshake" /\ ~ cut /\ upRead = 0 /\ upFrames # <<>>
    /\ upRead' = 2 /\ host' = "session"
    /\ downFrames' = <<HandshakeFrame>>
    /\ UNCHANGED <<phoneVars, assembled, upGot, upFrames, upSent, downSent, cut>>

(* NoiseSession::send *)
HostSends(len) ==
    /\ host = "session" /\ ~ cut /\ Len(upSent) + Len(downSent) < MaxSends
    /\ LET payload == Payload(Len(downSent) + 1, len) IN
       /\ downSent' = Append(downSent, payload)
       /\ downFrames' = downFrames \o SplitIntoChunks(payload)
    /\ UNCHANGED <<phoneVars, hostVars, upFrames, upSent, cut>>

(* recv takes one frame. *)
HostReads ==
    /\ host = "session" /\ upRead + 2 <= 2 * Len(upFrames)
    /\ upRead' = upRead + 2
    /\ LET chunk == upFrames[upRead \div 2 + 1]
           out   == Outcome(assembled, chunk, MaxMessage)
       IN  /\ upGot' = IF out.is = "message" THEN Append(upGot, out.payload) ELSE upGot
           /\ assembled' = IF out.is = "more" THEN Append(assembled, chunk) ELSE <<>>
           /\ host' = IF out.is = "error" THEN "error" ELSE host
    /\ UNCHANGED <<phoneVars, wireVars, cut>>

(* A slip: the end of the stream ends the message too. *)
HostEofAcceptsPrefix ==
    /\ host \in {"handshake", "session"} /\ cut
    /\ upGot' = IF assembled = <<>> THEN upGot
                ELSE Append(upGot, FlattenSeq([i \in 1 .. Len(assembled) |-> assembled[i].body]))
    /\ host' = IF host = "session" THEN "closed" ELSE "error"
    /\ UNCHANGED <<phoneVars, assembled, upRead, wireVars, cut>>

(* The stream ends.  Between two messages that is a clean close; inside a   *)
(* frame, a message or the handshake it is an error.                        *)
HostEof ==
    /\ host \in {"handshake", "session"} /\ cut
    /\ \/ host = "session" /\ assembled = <<>> /\ host' = "closed"
       \/ host = "session" /\ assembled # <<>> /\ host' = "error"
       \/ upRead < 2 * Len(upFrames) /\ host' = "error"
       \/ host = "handshake" /\ host' = "error"
    /\ UNCHANGED <<phoneVars, assembled, upRead, upGot, wireVars, cut>>

(* The connection breaks: what the agent has not been given yet may arrive  *)
(* no more (HostEof), what it has may still be read (HostReads).            *)
Cut ==
    /\ ~ cut /\ cut' = TRUE
    /\ UNCHANGED <<phoneVars, hostVars, wireVars>>

NoiseInit ==
    /\ phone = "new" /\ inbound = <<>> /\ downRead = 0 /\ downGot = <<>>
    /\ rejected = FALSE /\ hasty = FALSE
    /\ host = "handshake" /\ assembled = <<>> /\ upRead = 0 /\ upGot = <<>>
    /\ upFrames = <<>> /\ downFrames = <<>> /\ upSent = <<>> /\ downSent = <<>>
    /\ cut = FALSE

NoiseNext ==
    \/ PhoneWrites \/ PhoneReads \/ IntoTransport \/ NextMessage
    \/ \E n \in 1 .. MaxInbound : PushBytes(n)
    \/ \E len \in UpLengths : PhoneSends(len)
    \/ \E len \in DownLengths : HostSends(len)
    \/ HostAccepts \/ HostReads \/ HostEof \/ Cut

NoiseSpec == NoiseInit /\ [][NoiseNext]_noiseVars

-----------------------------------------------------------------------------
(* Properties *)

(* What either side is given is what the other sent, whole and in order:    *)
(* however reads fall, whatever the phone's buffer refused and wherever the *)
(* connection broke, never part of a message and never one out of place.    *)
MessagesIntact == IsPrefix(upGot, upSent) /\ IsPrefix(downGot, downSent)

(* Nothing is lost where the handshake becomes the transport: as long as no *)
(* push was refused, the phone's buffer is exactly what follows the last    *)
(* message it was given (into_transport: "nothing is lost at the boundary"). *)
NothingLostAtBoundary ==
    phone = "transport" /\ ~ rejected =>
        inbound = [i \in 1 .. downRead - 2 * (Len(downGot) + 1) |-> 2 * (Len(downGot) + 1) + i]

(* A receiver gives up only for a cause: the agent on a message above its   *)
(* limit or a broken connection, the phone on a message of several chunks,  *)
(* a refused push or a promotion that came too early.  The ceiling on       *)
(* chunks never hits a message within the limit, the empty one included,    *)
(* and an agent that has read everything written has everything sent.       *)
FailuresHaveCause ==
    /\ host = "error" =>
         cut \/ \E i \in 1 .. Len(upSent) : Len(upSent[i]) > MaxMessage
    /\ phone = "failed" =>
         rejected \/ hasty \/ \E i \in 1 .. Len(downSent) : Len(downSent[i]) > MaxChunk
    /\ host = "session" /\ ~ cut /\ upRead = 2 * Len(upFrames) =>
         assembled = <<>> /\ Len(upGot) = Len(upSent)
=============================================================================
