------------------------------ MODULE Framing -------------------------------
(***************************************************************************)
(* The frame codec (protocol.rs), byte for byte, and the read loop that    *)
(* feeds it (read_frame_until): frames are encoded, their bytes arrive in  *)
(* pieces of any size, some damaged, and are decoded.  The verdicts here   *)
(* are the ones module Connection has the reader come to.                  *)
(***************************************************************************)
EXTENDS Integers, SequencesExt

CONSTANTS
    Frames,       \* the frames that are sent
    NoiseBytes,   \* what a damaged byte is read as
    MaxSent       \* bound: frames sent, one of them damaged at most

Byte == 0 .. 255
Start == 62     \* 0x3e
End == 60       \* 0x3c
Escape == 61    \* 0x3d
HeaderLen == 6

(* Types with a name, by their byte; any other type is known by its byte.  *)
Named == [ack |-> 1, data_mdr |-> 12, data_mdr_no2 |-> 14]
ToByte(type) == IF type.name = "other" THEN type.byte ELSE Named[type.name]
FromByte(b) ==
    [name |-> IF \E n \in DOMAIN Named : Named[n] = b
              THEN CHOOSE n \in DOMAIN Named : Named[n] = b ELSE "other",
     byte |-> b]

Frame(type, seq, payload) == [type |-> FromByte(type), seq |-> seq, payload |-> payload]

(* The frames that can be decoded: a type is the one that its byte names.  *)
FrameSet == [type : {FromByte(b) : b \in Byte}, seq : Byte, payload : Seq(Byte)]

(* ... and that can be encoded: the length of the payload fits a u32. *)
OnTheWire(f) ==
    f \in FrameSet /\ ((Len(f.payload) \div 256) \div 256) \div 256 \in Byte

ASSUME FramesAssumption == \A f \in Frames : OnTheWire(f)
ASSUME NoiseAssumption == NoiseBytes \subseteq Byte
ASSUME MaxSentAssumption == MaxSent \in Nat

VARIABLES
    sent,      \* history: the frames sent
    damaged,   \* history: which of them were damaged
    line,      \* bytes that are under way
    buffer,    \* the receive buffer of the connection
    verdict,   \* of the last decode_frame that gave one
    got        \* frames decoded

vars == <<sent, damaged, line, buffer, verdict, got>>

----------------------------------------------------------------------------
(* Encoding *)

(* A bug: the sum does not wrap. *)
ChecksumWide(body) ==
    LET sum[i \in 0 .. Len(body)] == IF i = 0 THEN 0 ELSE sum[i - 1] + body[i]
    IN  sum[Len(body)]

Checksum(body) ==
    LET sum[i \in 0 .. Len(body)] == IF i = 0 THEN 0 ELSE (sum[i - 1] + body[i]) % 256
    IN  sum[Len(body)]

(* A length as four bytes, most significant first, and back. *)
BigEndian(n) ==
    LET over1 == n \div 256 over2 == over1 \div 256 over3 == over2 \div 256
    IN  <<over3 % 256, over2 % 256, over1 % 256, n % 256>>
FromBigEndian(bytes) == ((bytes[1] * 256 + bytes[2]) * 256 + bytes[3]) * 256 + bytes[4]

Body(frame) ==
    <<ToByte(frame.type), frame.seq>> \o BigEndian(Len(frame.payload)) \o frame.payload

(* Bit 4 is cleared in an escaped byte, and set again. *)
Bit4(b) == (b \div 16) % 2
Escaped(b) == IF b \in {Start, End, Escape} THEN <<Escape, b - 16 * Bit4(b)>> ELSE <<b>>
EscapedBody(bytes) == FlattenSeq([i \in DOMAIN bytes |-> Escaped(bytes[i])])

(* A bug: the checksum is appended as it is. *)
EncodeRawChecksum(frame) ==
    <<Start>> \o EscapedBody(Body(frame)) \o <<Checksum(Body(frame))>> \o <<End>>

Encode(frame) ==
    <<Start>> \o EscapedBody(Append(Body(frame), Checksum(Body(frame)))) \o <<End>>

----------------------------------------------------------------------------
(* Decoding *)

(* One more byte, behind an escape or not. *)
OneByteMore(sofar, b) ==
    IF sofar.open THEN [out |-> Append(sofar.out, b + 16 * (1 - Bit4(b))), open |-> FALSE]
    ELSE IF b = Escape THEN [out |-> sofar.out, open |-> TRUE]
    ELSE [out |-> Append(sofar.out, b), open |-> FALSE]

(* The bytes without escapes; an escape with nothing behind it is open.    *)
Unescape(bytes) ==
    LET upTo[i \in 0 .. Len(bytes)] ==
            IF i = 0 THEN [out |-> <<>>, open |-> FALSE] ELSE OneByteMore(upTo[i - 1], bytes[i])
    IN  upTo[Len(bytes)]

Verdict(verdict_, frames) == [verdict |-> verdict_, frame |-> frames]

(* A bug: the checksum is not looked at. *)
JudgeUnchecked(bytes) ==
    LET payload == SubSeq(bytes, HeaderLen + 1, Len(bytes) - 1)
    IN  IF Len(bytes) < HeaderLen + 1 \/ Len(payload) # FromBigEndian(SubSeq(bytes, 3, 6))
        THEN Verdict("invalid", <<>>)
        ELSE Verdict("frame", <<Frame(bytes[1], bytes[2], payload)>>)

(* decode_frame's verdict on the unescaped bytes between two markers, with *)
(* the frame that it finds there.                                          *)
Judge(bytes) ==
    LET body == SubSeq(bytes, 1, Len(bytes) - 1)
        payload == SubSeq(body, HeaderLen + 1, Len(body))
    IN  IF Len(bytes) < HeaderLen + 1 THEN Verdict("invalid", <<>>)
        ELSE IF Checksum(body) # bytes[Len(bytes)] THEN Verdict("checksum", <<>>)
        ELSE IF Len(payload) # FromBigEndian(SubSeq(body, 3, 6)) THEN Verdict("invalid", <<>>)
        ELSE Verdict("frame", <<Frame(body[1], body[2], payload)>>)

(* The place of the first b from there on, 0 if there is none. *)
Position(buf, from, b) == SelectInSubSeq(buf, from, Len(buf), LAMBDA x : x = b)

Leaving(judged, rest) == [verdict |-> judged.verdict, frame |-> judged.frame, rest |-> rest]

(* A bug: a frame whose checksum is wrong is left in the buffer. *)
DecodeKeepsBad(buf) ==
    LET start == Position(buf, 1, Start)
        end == Position(buf, start + 1, End)
        judged == Judge(Unescape(SubSeq(buf, start + 1, end - 1)).out)
    IN  IF start = 0 \/ end = 0 THEN Leaving(Verdict("none", <<>>), buf)
        ELSE Leaving(judged,
                     IF judged.verdict = "frame" THEN SubSeq(buf, end + 1, Len(buf)) ELSE buf)

(* The first frame of the buffer and what is left of it.  Noise before the *)
(* START marker goes with the frame; a dangling escape leaves it all.      *)
DecodeFrame(buf) ==
    LET start == Position(buf, 1, Start)
        end == Position(buf, start + 1, End)
        bare == Unescape(SubSeq(buf, start + 1, end - 1))
    IN  IF start = 0 \/ end = 0 THEN Leaving(Verdict("none", <<>>), buf)
        ELSE IF bare.open THEN Leaving(Verdict("invalid", <<>>), buf)
        ELSE Leaving(Judge(bare.out), SubSeq(buf, end + 1, Len(buf)))

----------------------------------------------------------------------------
(* One byte is lost or misread, or the frame loses its head or its tail.   *)
Damaged(bytes) ==
    {RemoveAt(bytes, i) : i \in DOMAIN bytes}
        \cup {ReplaceAt(bytes, i, b) : i \in DOMAIN bytes, b \in NoiseBytes}
        \cup {SubSeq(bytes, 1, i) : i \in DOMAIN bytes}
        \cup {SubSeq(bytes, i, Len(bytes)) : i \in DOMAIN bytes}

(* What is sent is under way before it is read: a read gets any part of it *)
(* and so comes as early as it may.                                        *)
Init ==
    /\ sent \in BoundedSeq(Frames, MaxSent)
    /\ LET bytes == [i \in DOMAIN sent |-> Encode(sent[i])]
       IN  \/ damaged = {} /\ line = FlattenSeq(bytes)
           \/ \E i \in DOMAIN sent : \E b \in Damaged(bytes[i]) :
                 damaged = {i} /\ line = FlattenSeq([bytes EXCEPT ![i] = b])
    /\ buffer = <<>>
    /\ verdict = "none"
    /\ got = <<>>

(* read_frame_until reads again only when the buffer holds no whole frame. *)
Read ==
    /\ DecodeFrame(buffer).verdict = "none"
    /\ \E n \in DOMAIN line :
          /\ buffer' = buffer \o SubSeq(line, 1, n)
          /\ line' = SubSeq(line, n + 1, Len(line))
    /\ UNCHANGED <<sent, damaged, verdict, got>>

(* ... and otherwise returns the frame or the error to its caller. *)
Decode ==
    LET d == DecodeFrame(buffer)
    IN  /\ d.verdict # "none"
        /\ buffer' = d.rest
        /\ verdict' = d.verdict
        /\ got' = got \o d.frame
        /\ UNCHANGED <<sent, damaged, line>>

Next == Read \/ Decode

Spec == Init /\ [][Next]_vars

(* The front of the buffer is a frame that ends in a bare escape. *)
Stuck == LET d == DecodeFrame(buffer) IN d.verdict = "invalid" /\ d.rest = buffer

CanRead == line # <<>> /\ DecodeFrame(buffer).verdict = "none"
CanDecode ==
    LET d == DecodeFrame(buffer)
    IN  d.verdict # "none" /\ <<d.rest, d.verdict>> # <<buffer, verdict>>

(* A caller that goes on reading: the runtime polls it as data arrives.    *)
(* This is weak fairness of Read and of Decode, with their enabling        *)
(* conditions written out, which TLC evaluates faster than ENABLED.        *)
FairSpec ==
    /\ Spec
    /\ []<>~CanRead \/ []<><<Read>>_vars
    /\ []<>~CanDecode \/ []<><<Decode>>_vars

----------------------------------------------------------------------------
(* Properties *)

(* Every variable keeps its type; bytes stay bytes. *)
TypeOK ==
    /\ sent \in Seq(Frames) /\ Len(sent) <= MaxSent
    /\ damaged \subseteq DOMAIN sent
    /\ line \in Seq(Byte) /\ buffer \in Seq(Byte)
    /\ verdict \in {"none", "frame", "invalid", "checksum"}
    /\ got \in Seq(FrameSet)

(* All that was sent has been read, and the reader waits for more. *)
Quiet == line = <<>> /\ DecodeFrame(buffer).verdict = "none"

(* However the bytes of undamaged frames are split over reads, the frames  *)
(* come out as they went in, one at a time, in order and without an error. *)
IntactComesOut ==
    damaged = {} =>
        /\ IsPrefix(got, sent)
        /\ verdict \in {"none", "frame"}
        /\ Quiet => got = sent

(* The bytes a frame's checksum is sent as, and the checksum. *)
SumBytes(frame) ==
    LET sum == Checksum(Body(frame)) IN {sum} \cup ToSet(Escaped(sum))

(* A damaged frame takes at most the one behind it along, and nothing      *)
(* comes out in their place but one frame whose checksum is that of one of *)
(* them or its escaped byte: eight bits are all that protects the bytes.   *)
(* 2d 3d 2e, the bytes 45 and 62, with 2d misread as 3d are 61 and 46,     *)
(* whose sum is the same; 4d 3d 2c, the byte 77 and the checksum 60, with  *)
(* 4d misread as 3d are the byte 61 and the checksum 44.  It is said of a  *)
(* reader that has come to rest with nothing left to read: of one that is  *)
(* stuck on a bare escape, which never does, it says nothing.              *)
DamageStaysLocal ==
    \A i \in damaged :
        Quiet =>
            \E last \in {i, i + 1}, out \in {<<>>} \cup {<<f>> : f \in ToSet(got)} :
                /\ got = SubSeq(sent, 1, i - 1) \o out \o SubSeq(sent, last + 1, Len(sent))
                /\ \A f \in ToSet(out) : \E j \in {i, last} \cap DOMAIN sent :
                      Checksum(Body(f)) \in SumBytes(sent[j])

(* No damage keeps the reader from what arrives later, but for a bare      *)
(* escape in front of an END marker.                                       *)
ReadsOn == line # <<>> ~> (line = <<>> \/ Stuck)

(* "Consume one complete frame from the front of `buf`." (protocol.rs:102) *)
ConsumesOneFrame ==
    LET d == DecodeFrame(buffer)
    IN  d.verdict # "none" => Len(d.rest) < Len(buffer)
=============================================================================
