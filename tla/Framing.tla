------------------------------ MODULE Framing -------------------------------
(***************************************************************************)
(* Link frames and the parser that finds them in a stream of octets        *)
(* (internal/link: frame.go, parser.go), and the loop that feeds it        *)
(* (internal/stack: Receive).                                              *)
(*                                                                         *)
(* An octet is a number.  The ten octets of a header are three here: the   *)
(* two start octets, and one that stands for length, control, addresses    *)
(* and their CRC: HeaderOf(n) is one whose CRC is right and that declares  *)
(* n octets of payload, Undersized one whose CRC is right but whose LEN is *)
(* below MinLength.  Every block of payload is followed by its CRC, one    *)
(* octet here, which no other block has.  Payload octets are arbitrary:    *)
(* they may spell a frame.                                                 *)
(***************************************************************************)
EXTENDS Naturals, Sequences, SequencesExt

CONSTANTS
    BlockSize,      \* payload octets to a block
    MaxPayload      \* payload octets to a frame

StartByte0 == 5
StartByte1 == 6
HeaderSize == 3
CRCSize == 1

Head0 == 100
Undersized == Head0 - 1
HeaderOf(n) == Head0 + n

(* Distinct for distinct blocks of octets below 200, and itself no such    *)
(* octet.                                                                  *)
CRC(block) == FoldLeft(LAMBDA c, o : 200 * c + o, 1, block)

bodySize(n) == n + ((n + BlockSize - 1) \div BlockSize) * CRCSize

FrameSize(n) == HeaderSize + bodySize(n)

MaxFrameSize == FrameSize(MaxPayload)

parserBufSize == 2 * MaxFrameSize

Blocks(payload) ==
    [b \in 1..((Len(payload) + BlockSize - 1) \div BlockSize) |->
        SubSeq(payload, (b - 1) * BlockSize + 1,
               IF b * BlockSize < Len(payload) THEN b * BlockSize ELSE Len(payload))]

Encode(payload) ==
    FoldLeft(LAMBDA s, block : s \o block \o <<CRC(block)>>,
             <<StartByte0, StartByte1, HeaderOf(Len(payload))>>, Blocks(payload))

----------------------------------------------------------------------------
(* Decode: what the front of buf is.  Only a frame that is whole and whose *)
(* every CRC is right is a frame; one that is right so far may still come. *)
Starts(buf) == buf[1] = StartByte0 /\ buf[2] = StartByte1

DecodeHeader(buf) == Starts(buf) /\ buf[3] >= Head0 /\ buf[3] <= HeaderOf(MaxPayload)

PayloadLen(buf) == buf[3] - Head0

(* The payload of the frame of n octets at the front of buf.               *)
Payload(buf, n) ==
    [i \in 1..n |-> buf[HeaderSize + i + ((i - 1) \div BlockSize) * CRCSize]]

BodyHolds(buf) ==
    LET n == PayloadLen(buf)
    IN  Encode(Payload(buf, n)) = SubSeq(buf, 1, FrameSize(n))

ShortFrame(buf) == DecodeHeader(buf) /\ Len(buf) < FrameSize(PayloadLen(buf))

Decodes(buf) == DecodeHeader(buf) /\ ~ShortFrame(buf) /\ BodyHolds(buf)

----------------------------------------------------------------------------
(* The parser: the octets buffered, and where in the array they begin.     *)
NewParser == [buf |-> <<>>, r |-> 0, discarded |-> 0]

slide(p) == [p EXCEPT !.r = 0]

Discard(p, n) ==
    [p EXCEPT !.buf = SubSeq(@, n + 1, Len(@)), !.r = @ + n, !.discarded = @ + n]

resync(p) ==
    LET found == {i \in 1..(Len(p.buf) - 1) : p.buf[i] = StartByte0 /\ p.buf[i + 1] = StartByte1}
        keep == IF p.buf # <<>> /\ Last(p.buf) = StartByte0 THEN 1 ELSE 0
    IN  slide(Discard(p, IF found = {} THEN Len(p.buf) - keep
                         ELSE (CHOOSE i \in found : \A j \in found : i <= j) - 1))

(* Write: what did not fit is left to the caller.                          *)
Room(p) == parserBufSize - p.r - Len(p.buf)

(* A variant with a defect: the octets that are done with keep their room. *)
WriteInPlace(p, b) ==
    LET n == IF Len(b) < Room(p) THEN Len(b) ELSE Room(p)
    IN  [p |-> [p EXCEPT !.buf = @ \o SubSeq(b, 1, n)], n |-> n]

Write(p, b) ==
    LET q == IF Len(b) > Room(p) THEN slide(p) ELSE p
        n == IF Len(b) < Room(q) THEN Len(b) ELSE Room(q)
    IN  [p |-> [q EXCEPT !.buf = @ \o SubSeq(b, 1, n)], n |-> n]

(* Next, called until it asks for more: the frames, and the parser left.   *)
RECURSIVE drain(_, _)
drain(p, frames) ==
    LET size == FrameSize(PayloadLen(p.buf))
    IN  CASE Len(p.buf) < HeaderSize -> [p |-> p, frames |-> frames]
          [] Len(p.buf) >= HeaderSize /\ ~Starts(p.buf) -> drain(resync(p), frames)
          [] Len(p.buf) >= HeaderSize /\ ShortFrame(p.buf) -> [p |-> p, frames |-> frames]
          [] Len(p.buf) >= HeaderSize /\ Decodes(p.buf) ->
                drain([p EXCEPT !.buf = SubSeq(@, size + 1, Len(@)), !.r = @ + size],
                      Append(frames, Payload(p.buf, PayloadLen(p.buf))))
          [] OTHER -> drain(resync(Discard(p, 1)), frames)

(* Stack.Receive: a buffer that stays full ends the connection.            *)
RECURSIVE Receive(_, _, _)
Receive(p, data, frames) ==
    IF data = <<>> THEN [p |-> p, frames |-> frames, failed |-> FALSE]
    ELSE LET w == Write(p, data)
             d == drain(w.p, frames)
         IN  IF w.n = 0 THEN [p |-> d.p, frames |-> d.frames, failed |-> TRUE]
             ELSE Receive(d.p, SubSeq(data, w.n + 1, Len(data)), d.frames)

----------------------------------------------------------------------------
(* The frames in a stream, by definition: from left to right, a frame is   *)
(* where one decodes, nothing is known beyond one that is still short, and *)
(* any other octet is noise.                                               *)
RECURSIVE FramesIn(_)
FramesIn(s) ==
    IF Len(s) < HeaderSize THEN <<>>
    ELSE CASE ShortFrame(s) -> <<>>
           [] Decodes(s) -> LET n == PayloadLen(s)
                            IN  <<Payload(s, n)>> \o FramesIn(SubSeq(s, FrameSize(n) + 1, Len(s)))
           [] OTHER -> FramesIn(Tail(s))
=============================================================================
