------------------------- MODULE LinkTransferProofs -------------------------
(***************************************************************************)
(* What the handlers of the stack do: every step of the line is a Step of  *)
(* LinkInvariants (Steps).  With it, what holds of every behaviour: what   *)
(* the primary counts as sent was accepted, and fragments are delivered    *)
(* whole, in order and once.                                               *)
(***************************************************************************)
EXTENDS LinkInvariants

(* A leaf that names no prover is given this long.                         *)
USE SMTT(30)

(* A call that answers with a stack and frames of the right form.          *)
Proper(r) == r.stack \in Senders /\ r.out \in Seq(Frames)

(* A frame that carries a segment is a frame.                              *)
LEMMA FrameTyped ==
    ASSUME NEW fn \in DataFns, NEW c \in BOOLEAN, NEW h \in Segments
    PROVE  frame(fn, c, h) \in Frames
BY Zenon DEF frame, Frames

(* The primary q differs from p in its state at most, and in what it does  *)
(* not say of the link.                                                    *)
Alike(p, q) ==
    /\ q \in Primaries /\ q.useConfirms = p.useConfirms
    /\ q.linkUp = p.linkUp /\ q.fcb = p.fcb

LEMMA Transmits ==
    ASSUME NEW p \in Primaries, NEW st \in States, NEW f \in Frames
    PROVE  LET o == transmit([p EXCEPT !.state = st], f)
           IN  /\ Alike(p, o.pri) /\ o.pri.state = st /\ o.pri.pending = p.pending
               /\ o.pri.lastSent = f /\ o.frame = f /\ o.action = "transmit"
BY Zenon DEF Primaries, transmit, Alike

LEMMA ControlTyped ==
    /\ ResetLinkStates \in Frames /\ StatusRequest \in Frames
    /\ "waitConfirm" \in States /\ "waitLinkReset" \in States /\ "waitStatus" \in States
    /\ "idle" \in States
BY Zenon DEF Frames, States

(* sendPending and resetLink.                                              *)
LEMMA SendPendingDoes ==
    ASSUME NEW p \in Primaries, p.pending \in Segments
    PROVE  LET o == sendPending(p)
           IN  /\ Alike(p, o.pri) /\ o.pri.state = "waitConfirm" /\ o.pri.pending = p.pending
               /\ o.pri.lastSent = frame("CONFIRMED_USER_DATA", p.fcb, p.pending)
               /\ o.frame = o.pri.lastSent /\ o.frame \in Frames /\ o.action = "transmit"
<1>1. p.fcb \in BOOLEAN
  BY Zenon DEF Primaries
<1>2. frame("CONFIRMED_USER_DATA", p.fcb, p.pending) \in Frames
  BY <1>1, FrameTyped, Zenon DEF DataFns
<1>. QED BY <1>2, Transmits, ControlTyped DEF sendPending

LEMMA ResetLinkDoes ==
    ASSUME NEW p \in Primaries
    PROVE  LET o == resetLink(p)
           IN  /\ Alike(p, o.pri) /\ o.pri.state = "waitLinkReset" /\ o.pri.pending = p.pending
               /\ o.pri.lastSent = ResetLinkStates
               /\ o.frame = o.pri.lastSent /\ o.frame \in Frames /\ o.action = "transmit"
BY Transmits, ControlTyped DEF resetLink

(* Send, of a primary that is not busy.                                    *)
Sent(p, h, o) ==
    /\ o.pri \in Primaries /\ o.pri.useConfirms = p.useConfirms /\ o.frame \in Frames
    /\ p.useConfirms =>
         /\ Alike(p, o.pri) /\ o.pri.pending = h
         /\ o.frame = o.pri.lastSent /\ o.action = "transmit"
    /\ p.useConfirms /\ p.linkUp =>
         /\ o.pri.state = "waitConfirm"
         /\ o.pri.lastSent = frame("CONFIRMED_USER_DATA", p.fcb, h)
    /\ p.useConfirms /\ ~p.linkUp =>
         o.pri.state = "waitLinkReset" /\ o.pri.lastSent = ResetLinkStates
    /\ ~p.useConfirms =>
         /\ o.pri.state = p.state /\ o.action = "complete"
         /\ o.frame = frame("UNCONFIRMED_USER_DATA", FALSE, h)

LEMMA SendDoes ==
    ASSUME NEW p \in Primaries, NEW h \in Segments
    PROVE  Sent(p, h, Send(p, h))
<1>. DEFINE q == [[p EXCEPT !.retries = 0] EXCEPT !.pending = h]
<1>1. Alike(p, q) /\ q.pending = h
  BY Zenon DEF Primaries, Alike
<1>2. p.useConfirms \in BOOLEAN /\ p.linkUp \in BOOLEAN
  BY DEF Primaries
<1>3. CASE p.useConfirms /\ p.linkUp
  <2>1. Send(p, h) = sendPending(q)
    BY <1>3, Zenon DEF Send
  <2>. HIDE DEF q
  <2>. QED BY <2>1, <1>1, <1>3, SendPendingDoes, ZenonT(60) DEF Alike, Sent
<1>4. CASE p.useConfirms /\ ~p.linkUp
  <2>1. Send(p, h) = resetLink(q)
    BY <1>4, Zenon DEF Send
  <2>. HIDE DEF q
  <2>. QED BY <2>1, <1>1, <1>4, ResetLinkDoes, ZenonT(60) DEF Alike, Sent
<1>5. CASE ~p.useConfirms
  <2>. DEFINE f == frame("UNCONFIRMED_USER_DATA", FALSE, h)
              t == [[p EXCEPT !.retries = 0] EXCEPT !.lastSent = f]
  <2>0. f \in Frames
    BY FrameTyped, Zenon DEF DataFns
  <2>1. Send(p, h) = [pri |-> t, frame |-> f, action |-> "complete"]
    BY <1>5, Zenon DEF Send
  <2>. HIDE DEF f
  <2>2. t \in Primaries /\ t.useConfirms = p.useConfirms /\ t.state = p.state
    BY <2>0, Zenon DEF Primaries
  <2>. HIDE DEF t
  <2>3. /\ Send(p, h).pri \in Primaries /\ Send(p, h).pri.useConfirms = p.useConfirms
        /\ Send(p, h).pri.state = p.state /\ Send(p, h).action = "complete"
        /\ Send(p, h).frame = f
    BY <2>1, <2>2
  <2>. QED BY <2>0, <2>3, <1>5, Zenon DEF f, Sent
<1>. QED BY <1>2, <1>3, <1>4, <1>5, ZenonT(60)

(* A list of frames.                                                       *)
LEMMA ListTyped ==
    ASSUME NEW n \in Nat, NEW S, NEW q \in [1..n -> S]
    PROVE  q \in Seq(S) /\ Len(q) = n /\ DOMAIN q = 1..n
OBVIOUS

(* pumpFrames of a stack that waits for nothing.                           *)
LEMMA Pumping ==
    ASSUME NEW w \in Senders, w.pri.state = "idle", ~w.awaiting
    PROVE  /\ Proper(pumpFrames(w))
           /\ Pumps(w, pumpFrames(w).stack, pumpFrames(w).out)
<1>0. w.pri \in Primaries /\ w.seg \in Segmenters /\ w.awaiting = FALSE /\ w.seg.frag \in Seq(Payloads)
  BY DEF Senders, Segmenters
<1>1. CASE ~segPending(w.seg) \/ w.pri.dfc
  <2>1. [w EXCEPT !.awaiting = FALSE] = w
    BY <1>0 DEF Senders
  <2>2. pumpFrames(w) = quiet(w)
    BY <1>1, <2>1, Zenon DEF pumpFrames
  <2>. QED BY <2>2, <1>0 DEF quiet, Proper, Pumps, Rests, Same
<1>2. CASE segPending(w.seg) /\ ~w.pri.dfc
  <2>0. w.seg.frag # <<>> /\ Len(w.seg.frag) \in Nat \ {0} /\ w.pri.useConfirms \in BOOLEAN
    BY <1>0, <1>2 DEF segPending, Primaries
  <2>. DEFINE o(i) == Send(w.pri, segAt(w.seg, i))
              r    == pumpFrames(w)
  <2>1. ASSUME w.pri.useConfirms
        PROVE  Proper(r) /\ SendsOne(w, r.stack, r.out)
    <3>1. r = [stack |-> [pri |-> o(1).pri, seg |-> segAfter(w.seg, 1), awaiting |-> o(1).action = "transmit"],
               out |-> [i \in 1..1 |-> o(i).frame]]
      BY <1>2, <2>1, Zenon DEF pumpFrames
    <3>2. segAt(w.seg, 1) \in Segments /\ segAfter(w.seg, 1) \in Segmenters
      <4>1. 1 \in 1..Len(w.seg.frag) /\ 1 \in 0..Len(w.seg.frag)
        BY <2>0
      <4>. QED BY <4>1, <1>0, SegmentsTyped, SegmenterTyped, ZenonT(60)
    <3>3. Sent(w.pri, segAt(w.seg, 1), o(1))
      BY <3>2, <1>0, SendDoes, Zenon
    <3>. HIDE DEF o, r
    <3>4. r.stack = [pri |-> o(1).pri, seg |-> segAfter(w.seg, 1), awaiting |-> o(1).action = "transmit"]
      BY <3>1, Zenon
    <3>5. r.stack.pri = o(1).pri /\ r.stack.seg = segAfter(w.seg, 1) /\ r.stack.awaiting = TRUE
      <4>1. o(1).action = "transmit"
        BY <3>3, <2>1, Zenon DEF Sent
      <4>2. (o(1).action = "transmit") = TRUE
        BY <4>1
      <4>3. r.stack = [pri |-> o(1).pri, seg |-> segAfter(w.seg, 1), awaiting |-> TRUE]
        BY <4>2, <3>4, Zenon
      <4>. QED BY <4>3
    <3>6. r.out = <<o(1).frame>>
      <4>1. r.out = [i \in 1..1 |-> o(i).frame]
        BY <3>1, Zenon
      <4>. QED BY <4>1
    <3>7. r.stack \in Senders
      <4>1. o(1).pri \in Primaries
        BY <3>3 DEF Sent
      <4>. QED BY <4>1, <3>2, <3>4 DEF Senders
    <3>8. r.out \in Seq(Frames)
      <4>1. o(1).frame \in Frames
        BY <3>3 DEF Sent
      <4>. QED BY <4>1, <3>6
    <3>9. SendsOne(w, r.stack, r.out)
      BY <2>0, <2>1, <3>3, <3>5, <3>6, ZenonT(60) DEF SendsOne, Alike, Sent
    <3>. QED BY <3>7, <3>8, <3>9, Zenon DEF Proper
  <2>2. ASSUME ~w.pri.useConfirms
        PROVE  Proper(r) /\ SendsAll(w, r.stack, r.out)
    <3>. DEFINE n == Len(w.seg.frag)
    <3>1. r = [stack |-> [pri |-> o(n).pri, seg |-> segAfter(w.seg, n), awaiting |-> o(n).action = "transmit"],
               out |-> [i \in 1..n |-> o(i).frame]]
      BY <1>2, <2>2, Zenon DEF pumpFrames
    <3>2. \A i \in 1..n : segAt(w.seg, i) \in Segments
      BY <1>0, SegmentsTyped, Zenon
    <3>3. segAfter(w.seg, n) \in Segmenters
      <4>1. n \in 0..n
        BY <2>0
      <4>. QED BY <4>1, <1>0, SegmenterTyped, ZenonT(60)
    <3>4. \A i \in 1..n : Sent(w.pri, segAt(w.seg, i), o(i))
      BY <3>2, <1>0, SendDoes, Zenon
    <3>5. n \in 1..n /\ n \in Nat
      BY <2>0
    <3>. HIDE DEF o, r
    <3>6. /\ r.stack = [pri |-> o(n).pri, seg |-> segAfter(w.seg, n), awaiting |-> o(n).action = "transmit"]
          /\ r.out = [i \in 1..n |-> o(i).frame]
      BY <3>1, Zenon
    <3>7. r.stack.pri = o(n).pri /\ r.stack.seg = segAfter(w.seg, n) /\ r.stack.awaiting = FALSE
      <4>1. o(n).action = "complete"
        BY <3>4, <3>5, <2>2, ZenonT(60) DEF Sent
      <4>2. (o(n).action = "transmit") = FALSE
        BY <4>1
      <4>3. r.stack = [pri |-> o(n).pri, seg |-> segAfter(w.seg, n), awaiting |-> FALSE]
        BY <4>2, <3>6, Zenon
      <4>. HIDE DEF n
      <4>. QED BY <4>3
    <3>8. r.stack \in Senders
      <4>1. o(n).pri \in Primaries
        BY <3>4, <3>5, Zenon DEF Sent
      <4>. HIDE DEF n
      <4>. QED BY <4>1, <3>3, <3>6 DEF Senders
    <3>9. r.out = [i \in 1..n |-> frame("UNCONFIRMED_USER_DATA", FALSE, segAt(w.seg, i))] /\ r.out \in Seq(Frames)
      <4>1. \A i \in 1..n : /\ o(i).frame = frame("UNCONFIRMED_USER_DATA", FALSE, segAt(w.seg, i))
                            /\ o(i).frame \in Frames
        BY <3>4, <2>2, Zenon DEF Sent
      <4>. HIDE DEF n
      <4>2. [i \in 1..n |-> o(i).frame] \in Seq(Frames)
        <5>1. [i \in 1..n |-> o(i).frame] \in [1..n -> Frames]
          BY <4>1, Zenon
        <5>. QED BY <5>1, <3>5, ListTyped, Zenon
      <4>. QED BY <4>1, <4>2, <3>6, Zenon
    <3>10. SendsAll(w, r.stack, r.out)
      BY <2>0, <2>2, <3>4, <3>5, <3>7, <3>9, ZenonT(60) DEF SendsAll, Sent
    <3>. QED BY <3>8, <3>9, <3>10, Zenon DEF Proper
  <2>. QED BY <2>0, <2>1, <2>2, Zenon DEF Pumps
<1>. QED BY <1>1, <1>2

----------------------------------------------------------------------------
(* What a reply or a timeout does to the primary: p before it, o the       *)
(* outcome.                                                                *)
Ignores(p, o) ==
    /\ o.action = "none" /\ Alike(p, o.pri) /\ o.pri.state = p.state
    /\ o.pri.pending = p.pending /\ o.pri.lastSent = p.lastSent

GivesUp(p, o) ==
    /\ o.action = "failed" /\ o.pri \in Primaries /\ o.pri.useConfirms = p.useConfirms
    /\ o.pri.state = "idle" /\ ~o.pri.linkUp

Raises(p, o) ==
    /\ o.action = "transmit" /\ o.pri \in Primaries /\ o.pri.useConfirms = p.useConfirms
    /\ p.state = "waitLinkReset" /\ o.pri.state = "waitConfirm"
    /\ o.pri.linkUp /\ o.pri.fcb /\ o.pri.pending = p.pending
    /\ o.pri.lastSent = frame("CONFIRMED_USER_DATA", o.pri.fcb, o.pri.pending)
    /\ o.frame = o.pri.lastSent /\ o.frame \in Frames

Lowers(p, o) ==
    /\ o.action = "transmit" /\ o.pri \in Primaries /\ o.pri.useConfirms = p.useConfirms
    /\ p.state = "waitConfirm" /\ o.pri.state = "waitLinkReset"
    /\ ~o.pri.linkUp /\ o.pri.pending = p.pending
    /\ o.pri.lastSent = ResetLinkStates /\ o.frame = ResetLinkStates

Reports(p, o) ==
    /\ o.action = "complete" /\ o.pri \in Primaries /\ o.pri.useConfirms = p.useConfirms
    /\ p.state \in {"waitConfirm", "waitStatus"} /\ o.pri.state = "idle"
    /\ o.pri.linkUp = p.linkUp
    /\ o.pri.fcb = IF p.state = "waitConfirm" THEN ~p.fcb ELSE p.fcb

Reacts(p, fn, o) ==
    \/ Ignores(p, o) /\ ~(p.state = "waitConfirm" /\ fn = "ACK")
    \/ GivesUp(p, o) /\ p.state # "waitConfirm"
    \/ Raises(p, o) /\ fn = "ACK"
    \/ Lowers(p, o) /\ fn = "NACK"
    \/ Reports(p, o) /\ (p.state = "waitConfirm" => fn = "ACK")

LEMMA FailDoes ==
    ASSUME NEW p \in Primaries
    PROVE  GivesUp(p, fail(p))
<1>1. fail(p).pri \in Primaries /\ fail(p).pri.useConfirms = p.useConfirms
      /\ fail(p).pri.state = "idle" /\ fail(p).pri.linkUp = FALSE
  <2>1. "idle" \in States /\ 0 \in Nat /\ FALSE \in BOOLEAN /\ NoPayload \in Segments \cup {NoPayload}
    BY DEF States
  <2>. QED BY <2>1, Zenon DEF fail, Primaries
<1>. QED BY <1>1, Zenon DEF GivesUp, fail

(* onWaitLinkReset, of a primary with a segment to send.                   *)
LEMMA LinkResetDoes ==
    ASSUME NEW p \in Primaries, p.state = "waitLinkReset", p.pending \in Segments,
           NEW fn \in {"ACK", "NACK", "LINK_STATUS"}
    PROVE  Reacts(p, fn, onWaitLinkReset(p, fn))
<1>1. CASE fn = "ACK"
  <2>. DEFINE q == [p EXCEPT !.linkUp = TRUE, !.fcb = TRUE, !.retries = 0]
  <2>1. /\ q \in Primaries /\ q.useConfirms = p.useConfirms /\ q.linkUp = TRUE /\ q.fcb = TRUE
        /\ q.pending = p.pending
    <3>1. 0 \in Nat /\ TRUE \in BOOLEAN
      OBVIOUS
    <3>. QED BY <3>1, Zenon DEF Primaries
  <2>2. onWaitLinkReset(p, fn) = sendPending(q)
    BY <1>1, Zenon DEF onWaitLinkReset
  <2>. HIDE DEF q
  <2>3. Raises(p, sendPending(q))
    <3>. DEFINE o == sendPending(q)
    <3>1. /\ Alike(q, o.pri) /\ o.pri.state = "waitConfirm" /\ o.pri.pending = q.pending
          /\ o.pri.lastSent = frame("CONFIRMED_USER_DATA", q.fcb, q.pending)
          /\ o.frame = o.pri.lastSent /\ o.frame \in Frames /\ o.action = "transmit"
      BY <2>1, SendPendingDoes, Zenon
    <3>. HIDE DEF o
    <3>2. Raises(p, o)
      BY <2>1, <3>1 DEF Raises, Alike
    <3>. QED BY <3>2 DEF o
  <2>. QED BY <2>2, <2>3, <1>1, ZenonT(60) DEF Reacts
<1>2. CASE fn = "NACK"
  <2>1. onWaitLinkReset(p, fn) = fail(p)
    BY <1>2 DEF onWaitLinkReset
  <2>. QED BY <2>1, FailDoes DEF Reacts
<1>3. CASE fn = "LINK_STATUS"
  <2>1. onWaitLinkReset(p, fn) = nothing(p)
    BY <1>3 DEF onWaitLinkReset
  <2>. QED BY <2>1 DEF Reacts, Ignores, nothing, Alike
<1>. QED BY <1>1, <1>2, <1>3

(* onWaitConfirm.                                                          *)
LEMMA ConfirmDoes ==
    ASSUME NEW p \in Primaries, p.state = "waitConfirm",
           NEW fn \in {"ACK", "NACK", "LINK_STATUS"}
    PROVE  Reacts(p, fn, onWaitConfirm(p, fn))
<1>1. CASE fn = "ACK"
  <2>. DEFINE q == [p EXCEPT !.fcb = ~@, !.state = "idle", !.pending = NoPayload, !.retries = 0]
  <2>1. /\ q \in Primaries /\ q.useConfirms = p.useConfirms /\ q.linkUp = p.linkUp /\ q.fcb = ~p.fcb
        /\ q.state = "idle"
    <3>1. 0 \in Nat /\ (~p.fcb) \in BOOLEAN /\ "idle" \in States /\ NoPayload \in Segments \cup {NoPayload}
      BY DEF States
    <3>. QED BY <3>1, Zenon DEF Primaries
  <2>2. onWaitConfirm(p, fn) = complete(q)
    BY <1>1, Zenon DEF onWaitConfirm
  <2>. HIDE DEF q
  <2>3. Reports(p, complete(q))
    BY <2>1, Zenon DEF Reports, complete
  <2>. QED BY <2>2, <2>3, <1>1, ZenonT(60) DEF Reacts
<1>2. CASE fn = "NACK"
  <2>. DEFINE q == [p EXCEPT !.linkUp = FALSE, !.retries = 0]
  <2>1. q \in Primaries /\ q.useConfirms = p.useConfirms /\ q.linkUp = FALSE /\ q.pending = p.pending
    <3>1. 0 \in Nat /\ FALSE \in BOOLEAN
      OBVIOUS
    <3>. QED BY <3>1, Zenon DEF Primaries
  <2>2. onWaitConfirm(p, fn) = resetLink(q)
    BY <1>2 DEF onWaitConfirm
  <2>. HIDE DEF q
  <2>3. Lowers(p, resetLink(q))
    <3>. DEFINE o == resetLink(q)
    <3>1. /\ Alike(q, o.pri) /\ o.pri.state = "waitLinkReset" /\ o.pri.pending = q.pending
          /\ o.pri.lastSent = ResetLinkStates /\ o.frame = o.pri.lastSent /\ o.action = "transmit"
      BY <2>1, ResetLinkDoes, Zenon
    <3>. HIDE DEF o
    <3>2. Lowers(p, o)
      BY <2>1, <3>1 DEF Lowers, Alike
    <3>. QED BY <3>2 DEF o
  <2>. QED BY <2>2, <2>3, <1>2, ZenonT(60) DEF Reacts
<1>3. CASE fn = "LINK_STATUS"
  <2>1. onWaitConfirm(p, fn) = nothing(p)
    BY <1>3 DEF onWaitConfirm
  <2>. QED BY <2>1, <1>3 DEF Reacts, Ignores, nothing, Alike
<1>. QED BY <1>1, <1>2, <1>3

(* onWaitStatus.                                                           *)
LEMMA StatusDoes ==
    ASSUME NEW p \in Primaries, p.state = "waitStatus",
           NEW fn \in {"ACK", "NACK", "LINK_STATUS"}
    PROVE  Reacts(p, fn, onWaitStatus(p, fn))
<1>1. CASE fn # "NACK"
  <2>. DEFINE q == [p EXCEPT !.state = "idle", !.retries = 0]
  <2>1. /\ q \in Primaries /\ q.useConfirms = p.useConfirms /\ q.linkUp = p.linkUp /\ q.fcb = p.fcb
        /\ q.state = "idle"
    <3>1. 0 \in Nat /\ "idle" \in States
      BY DEF States
    <3>. QED BY <3>1, Zenon DEF Primaries
  <2>2. onWaitStatus(p, fn) = complete(q)
    <3>1. fn \in {"LINK_STATUS", "ACK"}
      BY <1>1
    <3>. QED BY <3>1, Zenon DEF onWaitStatus
  <2>. HIDE DEF q
  <2>3. Reports(p, complete(q))
    BY <2>1, Zenon DEF Reports, complete
  <2>. QED BY <2>2, <2>3, Zenon DEF Reacts
<1>2. CASE fn = "NACK"
  <2>1. onWaitStatus(p, fn) = fail(p)
    BY <1>2 DEF onWaitStatus
  <2>. QED BY <2>1, FailDoes DEF Reacts
<1>. QED BY <1>1, <1>2

(* Primary.OnFrame.                                                        *)
LEMMA OnFrameDoes ==
    ASSUME NEW p \in Primaries, NEW r \in Answers,
           p.state = "waitLinkReset" => p.pending \in Segments
    PROVE  Reacts(p, r.fn, priOnFrame(p, r))
<1>. DEFINE q == [p EXCEPT !.dfc = r.dfc]
<1>1. r.dfc \in BOOLEAN /\ r.fn \in {"ACK", "NACK", "LINK_STATUS"} /\ p.state \in States
  BY DEF Answers, Primaries
<1>2. Alike(p, q) /\ q.state = p.state /\ q.pending = p.pending /\ q.lastSent = p.lastSent
  BY <1>1, Zenon DEF Alike, Primaries
<1>3. ASSUME NEW o, Reacts(q, r.fn, o) PROVE Reacts(p, r.fn, o)
  <2>. HIDE DEF q
  <2>. QED BY <1>2, <1>3, ZenonT(60) DEF Reacts, Ignores, GivesUp, Raises, Lowers, Reports, Alike
<1>4. CASE p.state = "waitLinkReset"
  <2>1. priOnFrame(p, r) = onWaitLinkReset(q, r.fn)
    BY <1>4, Zenon DEF priOnFrame
  <2>. HIDE DEF q
  <2>. QED BY <1>1, <1>2, <1>3, <1>4, <2>1, LinkResetDoes, Zenon DEF Alike
<1>5. CASE p.state = "waitConfirm"
  <2>1. priOnFrame(p, r) = onWaitConfirm(q, r.fn)
    BY <1>5 DEF priOnFrame
  <2>. HIDE DEF q
  <2>. QED BY <1>1, <1>2, <1>3, <1>5, <2>1, ConfirmDoes, ZenonT(60) DEF Alike
<1>6. CASE p.state = "waitStatus"
  <2>1. priOnFrame(p, r) = onWaitStatus(q, r.fn)
    BY <1>6 DEF priOnFrame
  <2>. HIDE DEF q
  <2>. QED BY <1>1, <1>2, <1>3, <1>6, <2>1, StatusDoes, ZenonT(60) DEF Alike
<1>7. CASE p.state = "idle"
  <2>1. priOnFrame(p, r) = nothing(p)
    BY <1>7 DEF priOnFrame
  <2>. QED BY <2>1, <1>7 DEF Reacts, Ignores, nothing, Alike
<1>. QED BY <1>1, <1>4, <1>5, <1>6, <1>7 DEF States

----------------------------------------------------------------------------
(* A stack with another primary.                                           *)
LEMMA WithPrimary ==
    ASSUME NEW u \in Senders, NEW p \in Primaries, NEW t, t = [u EXCEPT !.pri = p]
    PROVE  t \in Senders /\ t.pri = p /\ t.seg = u.seg /\ t.awaiting = u.awaiting
BY Zenon DEF Senders

LEMMA GaveUpDoes ==
    ASSUME NEW u \in Senders, NEW o, GivesUp(u.pri, o),
           NEW t \in Senders, t.pri = o.pri, t.seg = u.seg
    PROVE  LET r == gaveUp(t) IN Proper(r) /\ Fails(u, r.stack, r.out)
<1>. DEFINE g == [t.seg EXCEPT !.frag = <<>>, !.first = FALSE]
            v == [t EXCEPT !.awaiting = FALSE, !.seg = g]
<1>1. t.seg \in Segmenters /\ FALSE \in BOOLEAN /\ <<>> \in Seq(Payloads) /\ <<>> \in Seq(Frames)
  BY DEF Senders
<1>2. g \in Segmenters /\ g.frag = <<>> /\ g.seq = u.seg.seq
  BY <1>1, Zenon DEF Segmenters
<1>3. gaveUp(t) = [stack |-> v, out |-> <<>>]
  BY Zenon DEF gaveUp, quiet, segClear
<1>. HIDE DEF g
<1>4. v \in Senders /\ v.pri = t.pri /\ v.seg = g /\ v.awaiting = FALSE
  BY <1>1, <1>2, ZenonT(60) DEF Senders
<1>. HIDE DEF v
<1>5. gaveUp(t).stack = v /\ gaveUp(t).out = <<>>
  BY <1>3
<1>. QED BY <1>1, <1>2, <1>4, <1>5 DEF Proper, Fails, GivesUp

(* SendTo.                                                                 *)
LEMMA SendToDoes ==
    ASSUME NEW u \in Senders, u.awaiting = (u.pri.state # "idle"), ~StackBusy(u),
           NEW fragment \in Seq(Payloads)
    PROVE  /\ Proper(SendTo(u, fragment))
           /\ \E w \in Senders : /\ Loads(u, w, fragment)
                                 /\ Pumps(w, SendTo(u, fragment).stack, SendTo(u, fragment).out)
<1>. DEFINE g == [u.seg EXCEPT !.frag = fragment, !.first = TRUE]
            w == [u EXCEPT !.seg = g]
<1>1. u.seg \in Segmenters /\ TRUE \in BOOLEAN /\ ~u.awaiting /\ u.seg.frag = <<>> /\ u.pri.state = "idle"
  BY DEF Senders, StackBusy, segPending
<1>2. g \in Segmenters /\ g.frag = fragment /\ g.first = TRUE /\ g.seq = u.seg.seq
  BY <1>1, Zenon DEF Segmenters
<1>3. SendTo(u, fragment) = pumpFrames(w)
  BY Zenon DEF SendTo, segReset
<1>. HIDE DEF g
<1>4. w \in Senders /\ w.pri = u.pri /\ w.seg = g /\ w.awaiting = u.awaiting
  BY <1>2, Zenon DEF Senders
<1>. HIDE DEF w
<1>5. Loads(u, w, fragment)
  BY <1>1, <1>2, <1>4 DEF Loads
<1>. QED BY <1>1, <1>3, <1>4, <1>5, Pumping, ZenonT(60)

(* SendLinkStatusRequest.                                                  *)
LEMMA ProbeDoes ==
    ASSUME NEW u \in Senders, u.pri.state = "idle"
    PROVE  LET r == SendLinkStatusRequest(u)
           IN  Proper(r) /\ Probes(u, r.stack, r.out)
<1>. DEFINE q == [u.pri EXCEPT !.state = "waitStatus", !.retries = 0]
            p == [q EXCEPT !.lastSent = StatusRequest]
            v == [u EXCEPT !.pri = p, !.awaiting = TRUE]
            r == SendLinkStatusRequest(u)
<1>1. /\ u.pri \in Primaries /\ "waitStatus" \in States /\ 0 \in Nat
      /\ StatusRequest \in Frames /\ TRUE \in BOOLEAN
  BY ControlTyped DEF Senders
<1>2. Alike(u.pri, q) /\ q.state = "waitStatus"
  BY <1>1, Zenon DEF Primaries, Alike
<1>3. RequestLinkStatus(u.pri) = [pri |-> p, frame |-> StatusRequest, action |-> "transmit"]
  BY Zenon DEF RequestLinkStatus, transmit, StatusRequest
<1>. HIDE DEF q
<1>4. Alike(u.pri, p) /\ p.state = "waitStatus" /\ p.lastSent = StatusRequest
  BY <1>1, <1>2, Zenon DEF Primaries, Alike
<1>. HIDE DEF p
<1>5. r = [stack |-> v, out |-> <<StatusRequest>>]
  <2>1. RequestLinkStatus(u.pri).pri = p /\ RequestLinkStatus(u.pri).frame = StatusRequest
    BY <1>3
  <2>. QED BY <2>1, ZenonT(60) DEF SendLinkStatusRequest
<1>6. v \in Senders /\ v.pri = p /\ v.seg = u.seg /\ v.awaiting = TRUE
  BY <1>1, <1>4, ZenonT(60) DEF Senders, Alike
<1>. HIDE DEF v, r
<1>7. r.stack = v /\ r.out = <<StatusRequest>>
  BY <1>5
<1>8. Proper(r) /\ Probes(u, r.stack, r.out)
  BY <1>1, <1>4, <1>6, <1>7 DEF Proper, Probes, Alike
<1>. QED BY <1>8 DEF r

(* OnTimeout, of a stack that awaits an answer.                            *)
LEMMA TimeoutDoes ==
    ASSUME NEW u \in Senders, NEW c, Fits(u, c), u.awaiting
    PROVE  LET r == OnTimeout(u)
           IN  Proper(r) /\ (Fails(u, r.stack, r.out) \/ Resends(u, r.stack, r.out))
<1>1. u.pri \in Primaries /\ u.pri.state # "idle" /\ u.pri.state \in States /\ u.pri.lastSent \in Frames
  <2>1. u.pri \in Primaries /\ u.pri.state # "idle" /\ u.pri.state \in States /\ u.pri.fcb \in BOOLEAN
    BY DEF Fits, Senders, Primaries
  <2>. QED BY <2>1, ControlTyped, FrameTyped DEF Fits, States, DataFns
<1>. DEFINE r == OnTimeout(u)
<1>2. CASE u.pri.retries >= LinkRetries
  <2>. DEFINE t == [u EXCEPT !.pri = fail(u.pri).pri]
  <2>0. GivesUp(u.pri, fail(u.pri))
    BY <1>1, FailDoes
  <2>1. priOnTimeout(u.pri) = fail(u.pri)
    BY <1>1, <1>2, Zenon DEF priOnTimeout
  <2>2. t \in Senders /\ t.pri = fail(u.pri).pri /\ t.seg = u.seg
    <3>1. fail(u.pri).pri \in Primaries
      BY <2>0, Zenon DEF GivesUp
    <3>. QED BY <3>1, Zenon DEF Senders
  <2>3. r = gaveUp(t)
    <3>1. fail(u.pri).action = "failed" /\ "failed" # "transmit"
      BY DEF fail
    <3>. QED BY <2>1, <3>1, ZenonT(60) DEF OnTimeout
  <2>. HIDE DEF t, r
  <2>4. Proper(r) /\ Fails(u, r.stack, r.out)
    <3>1. Proper(gaveUp(t)) /\ Fails(u, gaveUp(t).stack, gaveUp(t).out)
      BY <2>0, <2>2, GaveUpDoes
    <3>. QED BY <2>3, <3>1, ZenonT(60)
  <2>. QED BY <2>4 DEF r
<1>3. CASE ~(u.pri.retries >= LinkRetries)
  <2>. DEFINE q == [u.pri EXCEPT !.retries = @ + 1]
              f == u.pri.lastSent
              p == [q EXCEPT !.lastSent = f]
              t == [u EXCEPT !.pri = p]
  <2>1. priOnTimeout(u.pri) = [pri |-> p, frame |-> f, action |-> "transmit"]
    BY <1>1, <1>3, Zenon DEF priOnTimeout, transmit
  <2>2. Alike(u.pri, q) /\ q.state = u.pri.state /\ q.pending = u.pri.pending
    <3>1. u.pri.retries + 1 \in Nat
      BY <1>1 DEF Primaries
    <3>. QED BY <1>1, <3>1, ZenonT(60) DEF Primaries, Alike
  <2>. HIDE DEF q, f
  <2>3. Alike(u.pri, p) /\ p.state = u.pri.state /\ p.pending = u.pri.pending /\ p.lastSent = f
    <3>1. f \in Frames
      BY <1>1, Zenon DEF f
    <3>. QED BY <2>2, <3>1, ZenonT(60) DEF Primaries, Alike
  <2>. HIDE DEF p
  <2>4. t \in Senders /\ t.pri = p /\ t.seg = u.seg /\ t.awaiting = u.awaiting
    BY <2>3, WithPrimary, Zenon DEF Alike
  <2>5. r = [stack |-> t, out |-> <<f>>]
    <3>1. /\ priOnTimeout(u.pri).pri = p /\ priOnTimeout(u.pri).frame = f
          /\ priOnTimeout(u.pri).action = "transmit"
      BY <2>1
    <3>. QED BY <3>1, Zenon DEF OnTimeout
  <2>. HIDE DEF t, r
  <2>6. r.stack = t /\ r.out = <<f>>
    BY <2>5
  <2>7. Proper(r) /\ Resends(u, r.stack, r.out)
    <3>1. Same(u, t) /\ t \in Senders
      BY <2>3, <2>4, ZenonT(60) DEF Same, Alike, f
    <3>2. <<f>> \in Seq(Frames)
      BY <1>1 DEF f
    <3>. QED BY <1>1, <3>1, <3>2, <2>6, ZenonT(60) DEF Proper, Resends, f
  <2>. QED BY <2>7 DEF r
<1>. QED BY <1>2, <1>3

LEMMA DrainDoes ==
    ASSUME NEW u \in Senders, NEW c, Fits(u, c), NEW x \in Answers
    PROVE  LET r == drainReply(u, x)
           IN  Proper(r) /\ Drains(u, x.fn, r.stack, r.out)
<1>. DEFINE o == priOnFrame(u.pri, x)
            t == [u EXCEPT !.pri = o.pri]
            r == drainReply(u, x)
<1>1. u.pri \in Primaries /\ (u.pri.state = "waitLinkReset" => u.pri.pending \in Segments)
  BY DEF Fits, Senders
<1>2. Reacts(u.pri, x.fn, o)
  BY <1>1, OnFrameDoes
<1>3. /\ o.action = "transmit" => r = [stack |-> t, out |-> <<o.frame>>]
      /\ o.action = "complete" => r = pumpFrames([t EXCEPT !.awaiting = FALSE])
      /\ o.action = "failed" => r = gaveUp(t)
      /\ o.action = "none" => r = quiet(t)
  BY DEF drainReply
<1>. HIDE DEF o
<1>4. o.pri \in Primaries
  BY <1>2, Zenon DEF Reacts, Ignores, GivesUp, Raises, Lowers, Reports, Alike
<1>5. t \in Senders /\ t.pri = o.pri /\ t.seg = u.seg /\ t.awaiting = u.awaiting
  BY <1>4, WithPrimary, ZenonT(60)
<1>. HIDE DEF t, r
<1>6. ASSUME Ignores(u.pri, o), ~(u.pri.state = "waitConfirm" /\ x.fn = "ACK")
      PROVE  Proper(r) /\ Drains(u, x.fn, r.stack, r.out)
  <2>1. r = quiet(t)
    BY <1>3, <1>6 DEF Ignores
  <2>2. r.stack = t /\ r.out = <<>>
    BY <2>1 DEF quiet
  <2>3. Rests(u, r.stack, r.out) /\ Proper(r)
    BY <2>2, <1>5, <1>6 DEF Rests, Same, Ignores, Alike, Proper
  <2>. QED BY <2>3, <1>6, Zenon DEF Drains
<1>7. ASSUME GivesUp(u.pri, o), u.pri.state # "waitConfirm"
      PROVE  Proper(r) /\ Drains(u, x.fn, r.stack, r.out)
  <2>1. r = gaveUp(t)
    BY <1>3, <1>7 DEF GivesUp
  <2>. QED BY <2>1, <1>5, <1>7, GaveUpDoes, ZenonT(60) DEF Drains
<1>8. ASSUME Raises(u.pri, o), x.fn = "ACK"
      PROVE  Proper(r) /\ Drains(u, x.fn, r.stack, r.out)
  <2>1. r = [stack |-> t, out |-> <<o.frame>>]
    BY <1>3, <1>8, ZenonT(60) DEF Raises
  <2>2. r.stack = t /\ r.out = <<o.frame>>
    BY <2>1
  <2>3. Establishes(u, r.stack, r.out) /\ Proper(r)
    <3>0. o.frame \in Frames
      BY <1>8, Zenon DEF Raises
    <3>1. <<o.frame>> \in Seq(Frames)
      BY <3>0
    <3>. QED BY <2>2, <3>1, <1>5, <1>8, ZenonT(60) DEF Establishes, Raises, Proper
  <2>. QED BY <2>3, <1>8, ZenonT(60) DEF Drains
<1>9. ASSUME Lowers(u.pri, o), x.fn = "NACK"
      PROVE  Proper(r) /\ Drains(u, x.fn, r.stack, r.out)
  <2>1. r = [stack |-> t, out |-> <<o.frame>>]
    BY <1>3, <1>9 DEF Lowers
  <2>2. r.stack = t /\ r.out = <<o.frame>>
    BY <2>1, Zenon
  <2>3. Renews(u, r.stack, r.out) /\ Proper(r)
    <3>1. <<o.frame>> = <<ResetLinkStates>> /\ <<ResetLinkStates>> \in Seq(Frames)
      BY <1>9, ControlTyped DEF Lowers
    <3>. QED BY <2>2, <3>1, <1>5, <1>9, ZenonT(60) DEF Renews, Lowers, Proper
  <2>. QED BY <2>3, <1>9, Zenon DEF Drains
<1>10. ASSUME Reports(u.pri, o), u.pri.state = "waitConfirm" => x.fn = "ACK"
       PROVE  Proper(r) /\ Drains(u, x.fn, r.stack, r.out)
  <2>. DEFINE w == [t EXCEPT !.awaiting = FALSE]
  <2>1. r = pumpFrames(w)
    BY <1>3, <1>10 DEF Reports
  <2>2. w \in Senders /\ w.pri = o.pri /\ w.seg = u.seg /\ w.awaiting = FALSE
    <3>1. FALSE \in BOOLEAN
      OBVIOUS
    <3>. QED BY <1>5, <3>1, Zenon DEF Senders
  <2>. HIDE DEF w
  <2>3. Completes(u, w) /\ w.pri.state = "idle" /\ ~w.awaiting
    BY <2>2, <1>10 DEF Completes, Reports
  <2>4. Proper(r) /\ Pumps(w, r.stack, r.out)
    BY <2>1, <2>2, <2>3, Pumping, ZenonT(60)
  <2>. QED BY <2>2, <2>3, <2>4, <1>10, ZenonT(60) DEF Drains
<1>11. Proper(r) /\ Drains(u, x.fn, r.stack, r.out)
  BY <1>2, <1>6, <1>7, <1>8, <1>9, <1>10, ZenonT(60) DEF Reacts
<1>. QED BY <1>11 DEF r

LEMMA AppendDoes ==
    ASSUME NEW r \in Reassemblers, NEW h \in Segments
    PROVE  LET o == append(r, h)
           IN  /\ o.reasm \in Reassemblers /\ o.fragment \in Seq(Payloads)
               /\ \/ Drops(o.reasm, o.fragment)
                  \/ /\ o.reasm.buf = Append(r.buf, h.payload)
                     /\ o.reasm.expect = (h.seq + 1) % SegModulus /\ o.reasm.assembly = ~h.fin
                     /\ o.fragment = IF h.fin THEN o.reasm.buf ELSE NoFragment
<1>1. /\ r.buf \in Seq(Payloads) /\ h.payload \in Payloads /\ h.seq \in Numbers /\ h.fin \in BOOLEAN
      /\ (~h.fin) \in BOOLEAN /\ FALSE \in BOOLEAN /\ <<>> \in Seq(Payloads)
  BY DEF Reassemblers, Segments
<1>2. (h.seq + 1) % SegModulus \in Numbers
  BY <1>1, TransportAssumption DEF Numbers
<1>3. Append(r.buf, h.payload) \in Seq(Payloads)
  BY <1>1
<1>. DEFINE o == append(r, h)
            n == Len(r.buf) + 1 > MaxFragment
            y == Append(r.buf, h.payload)
            t == [buf |-> y, expect |-> (h.seq + 1) % SegModulus, assembly |-> ~h.fin]
            z == [r EXCEPT !.buf = <<>>, !.assembly = FALSE]
<1>4. CASE n
  <2>1. o = [reasm |-> z, fragment |-> <<>>]
    BY <1>4, Zenon DEF append, reasmReset, NoFragment
  <2>2. z \in Reassemblers /\ z.assembly = FALSE
    BY <1>1, Zenon DEF Reassemblers
  <2>. HIDE DEF z, o
  <2>3. o.reasm = z /\ o.fragment = <<>>
    BY <2>1
  <2>4. Drops(o.reasm, o.fragment) /\ o.reasm \in Reassemblers /\ o.fragment \in Seq(Payloads)
    BY <2>2, <2>3, <1>1, ZenonT(60) DEF Drops, NoFragment
  <2>. QED BY <2>4, Zenon DEF o
<1>5. CASE ~n
  <2>1. o = [reasm |-> t, fragment |-> IF h.fin THEN y ELSE <<>>]
    BY <1>5, Zenon DEF append, NoFragment
  <2>2. t \in Reassemblers /\ t.buf = y /\ t.expect = (h.seq + 1) % SegModulus /\ t.assembly = ~h.fin
    <3>. HIDE DEF y
    <3>1. y \in Seq(Payloads)
      BY <1>3 DEF y
    <3>. QED BY <3>1, <1>1, <1>2, Zenon DEF Reassemblers
  <2>. HIDE DEF t, o, y
  <2>3. o.reasm = t /\ o.fragment = IF h.fin THEN y ELSE <<>>
    BY <2>1, Zenon
  <2>4. /\ o.reasm \in Reassemblers /\ o.fragment \in Seq(Payloads)
        /\ o.reasm.buf = y
        /\ o.reasm.expect = (h.seq + 1) % SegModulus /\ o.reasm.assembly = ~h.fin
        /\ o.fragment = IF h.fin THEN o.reasm.buf ELSE NoFragment
    <3>1. y \in Seq(Payloads)
      BY <1>3, Zenon DEF y
    <3>. QED BY <2>2, <2>3, <3>1, <1>1, ZenonT(60) DEF NoFragment
  <2>. QED BY <2>4, Zenon DEF o, y
<1>. QED BY <1>4, <1>5

LEMMA AcceptDoes ==
    ASSUME NEW r \in Reassemblers, NEW h \in Segments
    PROVE  LET o == Accept(r, h)
           IN  /\ o.reasm \in Reassemblers /\ o.fragment \in Seq(Payloads)
               /\ Drops(o.reasm, o.fragment) \/ Grows(r, h, o.reasm, o.fragment)
<1>. DEFINE o == Accept(r, h)
            Goal == /\ o.reasm \in Reassemblers /\ o.fragment \in Seq(Payloads)
                    /\ Drops(o.reasm, o.fragment) \/ Grows(r, h, o.reasm, o.fragment)
<1>1. ASSUME h.fir PROVE Goal
  <2>. DEFINE q == [buf |-> <<>>, expect |-> h.seq, assembly |-> TRUE]
  <2>1. o = append(q, h)
    BY <1>1, ZenonT(60) DEF Accept
  <2>2. q \in Reassemblers /\ q.buf = <<>>
    BY DEF Reassemblers, Segments
  <2>3. Append(<<>>, h.payload) = <<h.payload>>
    OBVIOUS
  <2>. HIDE DEF q, o
  <2>4. /\ o.reasm \in Reassemblers /\ o.fragment \in Seq(Payloads)
        /\ \/ Drops(o.reasm, o.fragment)
           \/ /\ o.reasm.buf = Append(q.buf, h.payload)
              /\ o.reasm.expect = (h.seq + 1) % SegModulus /\ o.reasm.assembly = ~h.fin
              /\ o.fragment = IF h.fin THEN o.reasm.buf ELSE NoFragment
    BY <2>1, <2>2, AppendDoes, Zenon
  <2>. QED BY <2>2, <2>3, <2>4, <1>1, ZenonT(60) DEF Grows
<1>2. ASSUME ~h.fir, ~r.assembly PROVE Goal
  <2>1. o = [reasm |-> r, fragment |-> NoFragment]
    BY <1>2, Zenon DEF Accept
  <2>2. o.reasm = r /\ o.fragment = NoFragment /\ NoFragment \in Seq(Payloads)
    BY <2>1 DEF NoFragment
  <2>. QED BY <2>2, <1>2 DEF Drops
<1>3. ASSUME ~h.fir, r.assembly, h.seq # r.expect PROVE Goal
  <2>. DEFINE z == [r EXCEPT !.buf = <<>>, !.assembly = FALSE]
  <2>1. o = [reasm |-> z, fragment |-> <<>>]
    BY <1>3, Zenon DEF Accept, reasmReset, NoFragment
  <2>0. FALSE \in BOOLEAN /\ <<>> \in Seq(Payloads)
    OBVIOUS
  <2>2. z \in Reassemblers /\ z.assembly = FALSE
    BY <2>0, ZenonT(60) DEF Reassemblers
  <2>. HIDE DEF z, o
  <2>3. o.reasm = z /\ o.fragment = <<>>
    BY <2>1, Zenon
  <2>. QED BY <2>0, <2>2, <2>3, ZenonT(60) DEF Drops, NoFragment
<1>4. ASSUME ~h.fir, r.assembly, h.seq = r.expect PROVE Goal
  <2>1. o = append(r, h)
    BY <1>4, ZenonT(60) DEF Accept
  <2>. HIDE DEF o
  <2>4. /\ o.reasm \in Reassemblers /\ o.fragment \in Seq(Payloads)
        /\ \/ Drops(o.reasm, o.fragment)
           \/ /\ o.reasm.buf = Append(r.buf, h.payload)
              /\ o.reasm.expect = (h.seq + 1) % SegModulus /\ o.reasm.assembly = ~h.fin
              /\ o.fragment = IF h.fin THEN o.reasm.buf ELSE NoFragment
    BY <2>1, AppendDoes
  <2>. QED BY <2>4, <1>4, ZenonT(60) DEF Grows
<1>5. h.fir \in BOOLEAN /\ r.assembly \in BOOLEAN
  BY DEF Segments, Reassemblers
<1>6. Goal
  BY <1>1, <1>2, <1>3, <1>4, <1>5
<1>. QED BY <1>6

Drained(x, f, r) ==
    /\ r.stack \in Receivers /\ r.fragment \in Seq(Payloads)
    /\ \/ \E fn \in {"ACK", "NACK", "LINK_STATUS"} :
            /\ Hears(x, f, r.stack, fn) /\ r.reply = <<reply(fn)>>
            /\ r.taken = {} /\ r.fragment = NoFragment
       \/ /\ Takes(x, f, r.stack, r.fragment) /\ r.taken = {f.payload.payload}
          /\ r.reply = IF f.fn = "CONFIRMED_USER_DATA" THEN <<reply("ACK")>> ELSE <<>>

LEMMA SegmentIsPayload ==
    ASSUME NEW h \in Segments
    PROVE  h # NoPayload
BY DEF Segments, NoPayload

(* A frame whose payload is not passed up.                                 *)
LEMMA HearDoes ==
    ASSUME NEW x \in Receivers, NEW f, NEW s \in Secondaries, NEW fn \in {"ACK", "NACK", "LINK_STATUS"},
           secOnFrame(x.sec, f) = answer(s, fn, NoPayload),
           \A y : y.reasm = x.reasm /\ y.sec = s => Hears(x, f, y, fn)
    PROVE  Drained(x, f, drainPrimary(x, f))
<1>. DEFINE r == drainPrimary(x, f)
            y == [x EXCEPT !.sec = s]
<1>1. y \in Receivers /\ y.sec = s /\ y.reasm = x.reasm
  BY ZenonT(60) DEF Receivers
<1>2. /\ secOnFrame(x.sec, f).payload = NoPayload /\ secOnFrame(x.sec, f).sec = s
      /\ secOnFrame(x.sec, f).reply = <<reply(fn)>>
  BY DEF answer
<1>3. r = [stack |-> y, reply |-> <<reply(fn)>>, taken |-> {}, fragment |-> NoFragment]
  BY <1>2, Zenon DEF drainPrimary
<1>. HIDE DEF y, r
<1>4. r.stack = y /\ r.reply = <<reply(fn)>> /\ r.taken = {} /\ r.fragment = NoFragment
  BY <1>3, ZenonT(60)
<1>5. NoFragment \in Seq(Payloads)
  BY DEF NoFragment
<1>6. Drained(x, f, r)
  BY <1>1, <1>4, <1>5, ZenonT(60) DEF Drained
<1>. QED BY <1>6 DEF r

(* A frame whose payload is passed up.                                     *)
LEMMA TakeDoes ==
    ASSUME NEW x \in Receivers, NEW f \in Frames, Data(f), NEW s \in Secondaries, NEW q,
           secOnFrame(x.sec, f) = [sec |-> s, reply |-> q, payload |-> f.payload],
           q = IF f.fn = "CONFIRMED_USER_DATA" THEN <<reply("ACK")>> ELSE <<>>,
           IF f.fn = "CONFIRMED_USER_DATA"
           THEN /\ x.sec.reset /\ f.fcb = x.sec.expectFCB
                /\ s.reset /\ s.expectFCB = ~x.sec.expectFCB
           ELSE s = x.sec
    PROVE  Drained(x, f, drainPrimary(x, f))
<1>. DEFINE r == drainPrimary(x, f)
            t == Accept(x.reasm, f.payload)
            y == [sec |-> s, reasm |-> t.reasm]
<1>1. f.payload \in Segments /\ f.payload # NoPayload /\ x.reasm \in Reassemblers
  BY DataTyped, SegmentIsPayload DEF Receivers
<1>2. /\ secOnFrame(x.sec, f).payload = f.payload /\ secOnFrame(x.sec, f).sec = s
      /\ secOnFrame(x.sec, f).reply = q
  OBVIOUS
<1>3. r = [stack |-> y, reply |-> q, taken |-> {f.payload.payload}, fragment |-> t.fragment]
  BY <1>1, <1>2, ZenonT(60) DEF drainPrimary
<1>4. /\ t.reasm \in Reassemblers /\ t.fragment \in Seq(Payloads)
      /\ Drops(t.reasm, t.fragment) \/ Grows(x.reasm, f.payload, t.reasm, t.fragment)
  BY <1>1, AcceptDoes
<1>. HIDE DEF t, r
<1>5. y \in Receivers /\ y.sec = s /\ y.reasm = t.reasm
  BY <1>4, Zenon DEF Receivers
<1>. HIDE DEF y
<1>6. r.stack = y /\ r.reply = q /\ r.taken = {f.payload.payload} /\ r.fragment = t.fragment
  BY <1>3, Zenon
<1>7. Takes(x, f, y, t.fragment)
  BY <1>4, <1>5, ZenonT(60) DEF Takes
<1>8. Drained(x, f, r)
  BY <1>4, <1>5, <1>6, <1>7, ZenonT(60) DEF Drained
<1>. QED BY <1>8 DEF r

(* drain and deliver.                                                      *)
LEMMA DrainPrimaryDoes ==
    ASSUME NEW x \in Receivers, NEW f \in Frames
    PROVE  Drained(x, f, drainPrimary(x, f))
<1>0. x.sec \in Secondaries /\ x.sec.reset \in BOOLEAN /\ x.sec.expectFCB \in BOOLEAN
  BY Zenon DEF Receivers, Secondaries
<1>1. CASE f = ResetLinkStates
  <2>. DEFINE s == [reset |-> TRUE, expectFCB |-> TRUE]
  <2>1. s \in Secondaries /\ s.reset = TRUE /\ s.expectFCB = TRUE
    BY Zenon DEF Secondaries
  <2>2. secOnFrame(x.sec, f) = answer(s, "ACK", NoPayload)
    <3>1. f.fn = "RESET_LINK_STATES"
      BY <1>1 DEF ResetLinkStates, frame
    <3>. QED BY <3>1, Zenon DEF secOnFrame
  <2>. HIDE DEF s
  <2>3. \A y : y.reasm = x.reasm /\ y.sec = s => Hears(x, f, y, "ACK")
    BY <1>1, <2>1 DEF Hears
  <2>. QED BY <2>1, <2>2, <2>3, HearDoes
<1>2. CASE f = StatusRequest
  <2>1. secOnFrame(x.sec, f) = answer(x.sec, "LINK_STATUS", NoPayload)
    <3>1. f.fn = "REQUEST_LINK_STATUS"
      BY <1>2 DEF StatusRequest, frame
    <3>. QED BY <3>1 DEF secOnFrame
  <2>2. \A y : y.reasm = x.reasm /\ y.sec = x.sec => Hears(x, f, y, "LINK_STATUS")
    BY <1>2 DEF Hears
  <2>. QED BY <2>1, <2>2, <1>0, HearDoes
<1>3. CASE f.fn = "CONFIRMED_USER_DATA" /\ Data(f)
  <2>0. secOnFrame(x.sec, f) = onConfirmedUserData(x.sec, f)
    BY <1>3 DEF secOnFrame
  <2>1. CASE ~x.sec.reset
    <3>1. secOnFrame(x.sec, f) = answer(x.sec, "NACK", NoPayload)
      BY <2>0, <2>1, ZenonT(60) DEF onConfirmedUserData
    <3>2. \A y : y.reasm = x.reasm /\ y.sec = x.sec => Hears(x, f, y, "NACK")
      BY <1>3, <2>1 DEF Hears
    <3>. QED BY <3>1, <3>2, <1>0, HearDoes
  <2>2. CASE x.sec.reset /\ f.fcb # x.sec.expectFCB
    <3>1. secOnFrame(x.sec, f) = answer(x.sec, "ACK", NoPayload)
      BY <2>0, <2>2, ZenonT(60) DEF onConfirmedUserData
    <3>2. \A y : y.reasm = x.reasm /\ y.sec = x.sec => Hears(x, f, y, "ACK")
      BY <1>3, <2>2 DEF Hears
    <3>. QED BY <3>1, <3>2, <1>0, HearDoes
  <2>3. CASE x.sec.reset /\ f.fcb = x.sec.expectFCB
    <3>. DEFINE s == [x.sec EXCEPT !.expectFCB = ~@]
                q == <<reply("ACK")>>
    <3>1. secOnFrame(x.sec, f) = [sec |-> s, reply |-> q, payload |-> f.payload]
      BY <2>0, <2>3, ZenonT(60) DEF onConfirmedUserData, answer
    <3>2. s \in Secondaries /\ s.reset = x.sec.reset /\ s.expectFCB = ~x.sec.expectFCB
      <4>1. (~x.sec.expectFCB) \in BOOLEAN
        BY Zenon
      <4>. QED BY <1>0, <4>1, ZenonT(60) DEF Secondaries
    <3>. HIDE DEF s
    <3>3. /\ q = IF f.fn = "CONFIRMED_USER_DATA" THEN <<reply("ACK")>> ELSE <<>>
          /\ IF f.fn = "CONFIRMED_USER_DATA"
             THEN /\ x.sec.reset /\ f.fcb = x.sec.expectFCB
                  /\ s.reset /\ s.expectFCB = ~x.sec.expectFCB
             ELSE s = x.sec
      BY <1>3, <2>3, <3>2, ZenonT(60)
    <3>. HIDE DEF q
    <3>. QED BY <1>3, <3>1, <3>2, <3>3, TakeDoes
  <2>. QED BY <1>0, <2>1, <2>2, <2>3
<1>4. CASE f.fn = "UNCONFIRMED_USER_DATA" /\ Data(f)
  <2>. DEFINE q == <<>>
  <2>1. secOnFrame(x.sec, f) = [sec |-> x.sec, reply |-> q, payload |-> f.payload]
    BY <1>4 DEF secOnFrame
  <2>2. /\ q = IF f.fn = "CONFIRMED_USER_DATA" THEN <<reply("ACK")>> ELSE <<>>
        /\ IF f.fn = "CONFIRMED_USER_DATA"
           THEN /\ x.sec.reset /\ f.fcb = x.sec.expectFCB
                /\ x.sec.reset /\ x.sec.expectFCB = ~x.sec.expectFCB
           ELSE x.sec = x.sec
    BY <1>4
  <2>. HIDE DEF q
  <2>. QED BY <1>0, <1>4, <2>1, <2>2, TakeDoes
<1>5. \/ f = ResetLinkStates \/ f = StatusRequest
      \/ f.fn = "CONFIRMED_USER_DATA" /\ Data(f)
      \/ f.fn = "UNCONFIRMED_USER_DATA" /\ Data(f)
  BY DEF Frames, Data, DataFns
<1>. QED BY <1>1, <1>2, <1>3, <1>4, <1>5

(* The bounds are counted up one at a time.                                *)
LEMMA UseCounts ==
    ASSUME used \in [Bounds -> Nat], NEW what \in Bounds, Use(what)
    PROVE  /\ used' \in [Bounds -> Nat]
           /\ used'[what] = used[what] + 1
           /\ \A other \in Bounds \ {what} : used'[other] = used[other]
BY DEF Use

LEMMA Spendings ==
    ASSUME used \in [Bounds -> Nat]
    PROVE  /\ used' = used => used' \in [Bounds -> Nat] /\ Spent(0, 0, 0)
           /\ Use("losses") => used' \in [Bounds -> Nat] /\ Spent(1, 0, 0)
           /\ Use("early") => used' \in [Bounds -> Nat] /\ Spent(0, 1, 0)
           /\ Use("restarts") => used' \in [Bounds -> Nat] /\ Spent(0, 0, 1)
           /\ Use("reconnects") => used' \in [Bounds -> Nat] /\ Spent(0, 0, 0)
           /\ Use("holds") => used' \in [Bounds -> Nat] /\ Spent(0, 0, 0)
<1>0. used.losses \in Nat /\ used.early \in Nat /\ used.restarts \in Nat
  BY Zenon DEF Bounds
<1>1. used' = used => used' \in [Bounds -> Nat] /\ Spent(0, 0, 0)
  BY <1>0 DEF Spent
<1>2. Use("losses") => used' \in [Bounds -> Nat] /\ Spent(1, 0, 0)
  BY <1>0, UseCounts DEF Spent, Bounds
<1>3. Use("early") => used' \in [Bounds -> Nat] /\ Spent(0, 1, 0)
  BY <1>0, UseCounts DEF Spent, Bounds
<1>4. Use("restarts") => used' \in [Bounds -> Nat] /\ Spent(0, 0, 1)
  BY <1>0, UseCounts DEF Spent, Bounds
<1>5. Use("reconnects") => used' \in [Bounds -> Nat] /\ Spent(0, 0, 0)
  BY <1>0, UseCounts DEF Spent, Bounds
<1>6. Use("holds") => used' \in [Bounds -> Nat] /\ Spent(0, 0, 0)
  BY <1>0, UseCounts DEF Spent, Bounds
<1>. QED BY <1>1, <1>2, <1>3, <1>4, <1>5, <1>6, Zenon

(* The steps of the sender.                                                *)
LEMMA SenderSteps ==
    ASSUME TypeOK, Sane, line' = line,
           Transfer \/ checkKeepAlive \/ checkLinkTimeout \/ EarlyLinkTimeout \/ ReceiveReply
    PROVE  TypeOK' /\ (LoadStep \/ ProbeStep \/ TimeoutStep \/ ReplyStep)
<1>0. /\ a \in Senders /\ b \in Receivers /\ ab \in Seq(Frames) /\ ba \in Seq(Answers)
      /\ sent \in Seq(Seq(Payloads)) /\ delivered \in Seq(Seq(Payloads))
      /\ used \in [Bounds -> Nat] /\ line \in Lines
      /\ a.awaiting = (a.pri.state # "idle")
  BY DEF TypeOK, Sane, Fits
<1>1. ASSUME NEW r, Proper(r), Does(r)
      PROVE  a' \in Senders /\ ab' \in Seq(Frames) /\ r.out \in Seq(Frames)
  BY <1>0, <1>1, Joined DEF Proper, Does
<1>2. CASE Transfer
  <2>1. PICK n \in Lengths : /\ Does(SendTo(a, Fragment(Len(sent) + 1, n)))
                             /\ sent' = Append(sent, Fragment(Len(sent) + 1, n))
    BY <1>2, ZenonT(60) DEF Transfer
  <2>. DEFINE F == Fragment(Len(sent) + 1, n)
  <2>2. n \in Nat \ {0} /\ Len(sent) + 1 \in Nat
    BY <1>0, LinesAssumption
  <2>3. F \in Seq(Payloads)
    BY <2>2, FragmentTyped, ZenonT(60)
  <2>4. UNCHANGED <<b, ba, delivered, acked, taken, used>> /\ ~StackBusy(a)
    BY <1>2, ZenonT(60) DEF Transfer
  <2>5. Does(SendTo(a, F)) /\ sent' = Append(sent, F)
    BY <2>1, ZenonT(60)
  <2>. HIDE DEF F
  <2>6. /\ Proper(SendTo(a, F))
        /\ \E w \in Senders : Loads(a, w, F) /\ Pumps(w, SendTo(a, F).stack, SendTo(a, F).out)
    BY <1>0, <2>3, <2>4, SendToDoes, ZenonT(60)
  <2>7. a' \in Senders /\ ab' \in Seq(Frames) /\ SendTo(a, F).out \in Seq(Frames)
    BY <1>1, <2>5, <2>6, ZenonT(60)
  <2>8. sent' \in Seq(Seq(Payloads))
    BY <1>0, <2>3, <2>5
  <2>9. used' \in [Bounds -> Nat] /\ Spent(0, 0, 0)
    BY <1>0, <2>4, Spendings, ZenonT(60)
  <2>10. TypeOK'
    BY <1>0, <2>4, <2>7, <2>8, <2>9, ZenonT(60) DEF TypeOK
  <2>11. LoadStep
    <3>1. a' = SendTo(a, F).stack /\ ab' = ab \o SendTo(a, F).out
      BY <2>5, Zenon DEF Does
    <3>2. \E w \in Senders : \E out \in Seq(Frames) : Loads(a, w, F) /\ Pumps(w, a', out) /\ ab' = ab \o out
      BY <3>1, <2>6, <2>7, ZenonT(60)
    <3>. QED BY <3>2, <2>2, <2>4, <2>5, <2>9, ZenonT(60) DEF LoadStep, F
  <2>. QED BY <2>10, <2>11
<1>3. CASE checkKeepAlive
  <2>. DEFINE r == SendLinkStatusRequest(a)
  <2>1. Does(r) /\ UNCHANGED <<b, ba, sent, delivered, acked, taken, used>>
    BY <1>3, Zenon DEF checkKeepAlive
  <2>2. a.pri.state = "idle" /\ a.seg.frag = <<>>
    BY <1>0, <1>3, ZenonT(60) DEF checkKeepAlive, StackBusy, segPending
  <2>3. Proper(r) /\ Probes(a, r.stack, r.out)
    BY <1>0, <2>2, ProbeDoes, ZenonT(60)
  <2>. HIDE DEF r
  <2>4. used' \in [Bounds -> Nat] /\ Spent(0, 0, 0)
    BY <1>0, <2>1, Spendings, ZenonT(60)
  <2>5. a' \in Senders /\ ab' \in Seq(Frames) /\ r.out \in Seq(Frames)
    BY <1>1, <2>1, <2>3, ZenonT(60)
  <2>6. TypeOK'
    BY <1>0, <2>1, <2>4, <2>5, ZenonT(60) DEF TypeOK
  <2>7. ProbeStep
    BY <2>1, <2>2, <2>3, <2>4, <2>5, ZenonT(60) DEF ProbeStep, Does
  <2>. QED BY <2>6, <2>7
<1>4. ASSUME a.awaiting, Does(OnTimeout(a)), UNCHANGED <<b, ba, sent, delivered, acked, taken>>,
             used' \in [Bounds -> Nat],
             (Spent(0, 0, 0) /\ ab = <<>> /\ ba = <<>>) \/ Spent(0, 1, 0)
      PROVE  TypeOK' /\ TimeoutStep
  <2>. DEFINE r == OnTimeout(a)
  <2>1. Proper(r) /\ (Fails(a, r.stack, r.out) \/ Resends(a, r.stack, r.out))
    BY <1>0, <1>4, TimeoutDoes DEF Sane
  <2>2. Does(r)
    BY <1>4, Zenon
  <2>. HIDE DEF r
  <2>3. a' \in Senders /\ ab' \in Seq(Frames) /\ r.out \in Seq(Frames)
    BY <1>1, <2>1, <2>2, ZenonT(60)
  <2>4. TypeOK'
    BY <1>0, <1>4, <2>3, ZenonT(60) DEF TypeOK
  <2>5. TimeoutStep
    BY <1>4, <2>1, <2>2, <2>3, ZenonT(60) DEF TimeoutStep, Does
  <2>. QED BY <2>4, <2>5
<1>5. CASE checkLinkTimeout
  <2>1. used' \in [Bounds -> Nat] /\ Spent(0, 0, 0)
    BY <1>0, <1>5, Spendings, ZenonT(60) DEF checkLinkTimeout
  <2>. QED BY <2>1, <1>4, <1>5, ZenonT(60) DEF checkLinkTimeout
<1>6. CASE EarlyLinkTimeout
  <2>1. used' \in [Bounds -> Nat] /\ Spent(0, 1, 0)
    BY <1>0, <1>6, Spendings, ZenonT(60) DEF EarlyLinkTimeout
  <2>. QED BY <2>1, <1>4, <1>6, ZenonT(60) DEF EarlyLinkTimeout
<1>7. CASE ReceiveReply
  <2>1. ba # <<>> /\ ba' = Tail(ba)
    BY <1>7, Zenon DEF ReceiveReply
  <2>2. Head(ba) = ba[1] /\ ba[1] \in Answers /\ ba' \in Seq(Answers)
    BY <1>0, <2>1, Shorter, ZenonT(60)
  <2>. DEFINE x == ba[1]
              r == drainReply(a, x)
  <2>3. /\ Does(r) /\ UNCHANGED <<b, sent, delivered, taken, used>>
        /\ acked' = IF a.pri.state = "waitConfirm" /\ ba[1].fn = "ACK"
                    THEN acked \cup {a.pri.pending.payload} ELSE acked
    BY <1>7, <2>2, ZenonT(60) DEF ReceiveReply
  <2>4. Proper(r) /\ Drains(a, x.fn, r.stack, r.out)
    BY <1>0, <2>2, DrainDoes DEF Sane
  <2>. HIDE DEF r
  <2>5. a' \in Senders /\ ab' \in Seq(Frames) /\ r.out \in Seq(Frames)
    BY <1>1, <2>3, <2>4, ZenonT(60)
  <2>6. used' \in [Bounds -> Nat] /\ Spent(0, 0, 0)
    BY <1>0, <2>3, Spendings, ZenonT(60)
  <2>7. TypeOK'
    BY <1>0, <2>2, <2>3, <2>5, <2>6, ZenonT(60) DEF TypeOK
  <2>8. ReplyStep
    <3>1. a' = r.stack /\ ab' = ab \o r.out
      BY <2>3, Zenon DEF Does
    <3>2. \E out \in Seq(Frames) : Drains(a, ba[1].fn, a', out) /\ ab' = ab \o out
      BY <3>1, <2>4, <2>5, ZenonT(60)
    <3>. QED BY <3>2, <2>1, <2>3, <2>6, ZenonT(60) DEF ReplyStep
  <2>. QED BY <2>7, <2>8
<1>. QED BY <1>2, <1>3, <1>5, <1>6, <1>7, ZenonT(60)

(* The steps of the receiver.                                              *)
LEMMA ReplyMarked ==
    ASSUME NEW fn, NEW held
    PROVE  /\ [i \in 1..Len(<<reply(fn)>>) |-> [<<reply(fn)>>[i] EXCEPT !.dfc = held]]
                = <<[fn |-> fn, dfc |-> held]>>
           /\ [i \in 1..Len(<<>>) |-> [<<>>[i] EXCEPT !.dfc = held]] = <<>>
<1>1. [reply(fn) EXCEPT !.dfc = held] = [fn |-> fn, dfc |-> held]
  BY DEF reply
<1>. HIDE DEF reply
<1>2. [i \in 1..Len(<<reply(fn)>>) |-> [<<reply(fn)>>[i] EXCEPT !.dfc = held]]
         = <<[reply(fn) EXCEPT !.dfc = held]>>
  OBVIOUS
<1>. QED BY <1>1, <1>2

LEMMA ReceiverSteps ==
    ASSUME TypeOK, line' = line, NEW held \in BOOLEAN, Receive(held),
           used' \in [Bounds -> Nat], Spent(0, 0, 0)
    PROVE  TypeOK' /\ (HearStep \/ TakeStep)
<1>0. /\ a \in Senders /\ b \in Receivers /\ ab \in Seq(Frames) /\ ba \in Seq(Answers)
      /\ sent \in Seq(Seq(Payloads)) /\ delivered \in Seq(Seq(Payloads)) /\ line \in Lines
  BY DEF TypeOK
<1>. DEFINE r == drainPrimary(b, ab[1])
            q == [i \in 1..Len(r.reply) |-> [r.reply[i] EXCEPT !.dfc = held]]
<1>1. ab # <<>> /\ ab' = Tail(ab) /\ UNCHANGED <<a, sent, acked>>
  BY Zenon DEF Receive
<1>2. ab[1] \in Frames /\ Head(ab) = ab[1] /\ ab' \in Seq(Frames)
  BY <1>0, <1>1, Shorter, ZenonT(60)
<1>3. /\ b' = r.stack /\ ba' = ba \o q /\ taken' = taken \cup r.taken
      /\ delivered' = IF r.fragment = NoFragment THEN delivered ELSE Append(delivered, r.fragment)
  BY <1>2, Zenon DEF Receive
<1>4. Drained(b, ab[1], r)
  BY <1>0, <1>2, DrainPrimaryDoes, ZenonT(60)
<1>. HIDE DEF r
<1>5. b' \in Receivers /\ delivered' \in Seq(Seq(Payloads))
  <2>1. r.stack \in Receivers /\ r.fragment \in Seq(Payloads)
    BY <1>4, ZenonT(60) DEF Drained
  <2>. QED BY <2>1, <1>0, <1>3
<1>6. ASSUME NEW fn \in {"ACK", "NACK", "LINK_STATUS"}, r.reply = <<reply(fn)>>
      PROVE  ba' = ba \o <<[fn |-> fn, dfc |-> held]>> /\ ba' \in Seq(Answers)
  <2>1. q = <<[fn |-> fn, dfc |-> held]>>
    <3>. DEFINE z == <<reply(fn)>>
    <3>1. q = [i \in 1..Len(z) |-> [z[i] EXCEPT !.dfc = held]]
      BY <1>6, ZenonT(60)
    <3>. QED BY <3>1, ReplyMarked, ZenonT(60)
  <2>2. <<[fn |-> fn, dfc |-> held]>> \in Seq(Answers)
    BY DEF Answers
  <2>. HIDE DEF q
  <2>. QED BY <2>1, <2>2, <1>0, <1>3, Joined, Zenon
<1>7. ASSUME r.reply = <<>>
      PROVE  ba' = ba /\ ba' \in Seq(Answers)
  <2>1. q = <<>>
    <3>. DEFINE z == <<>>
    <3>1. q = [i \in 1..Len(z) |-> [z[i] EXCEPT !.dfc = held]]
      BY <1>7, Zenon
    <3>. QED BY <3>1, ReplyMarked, ZenonT(60)
  <2>. HIDE DEF q
  <2>. QED BY <2>1, <1>0, <1>3
<1>. HIDE DEF q
<1>8. ASSUME NEW fn \in {"ACK", "NACK", "LINK_STATUS"},
             Hears(b, ab[1], r.stack, fn), r.reply = <<reply(fn)>>, r.taken = {}, r.fragment = NoFragment
      PROVE  TypeOK' /\ HearStep
  <2>1. ba' = ba \o <<[fn |-> fn, dfc |-> held]>> /\ ba' \in Seq(Answers)
    BY <1>6, <1>8, ZenonT(60)
  <2>2. taken' = taken /\ delivered' = delivered
    BY <1>3, <1>8
  <2>3. HearStep
    BY <1>1, <1>3, <1>8, <2>1, <2>2, ZenonT(60) DEF HearStep
  <2>. QED BY <1>0, <1>1, <1>2, <1>5, <2>1, <2>2, <2>3, ZenonT(60) DEF TypeOK
<1>9. ASSUME Takes(b, ab[1], r.stack, r.fragment), r.taken = {ab[1].payload.payload},
             r.reply = IF ab[1].fn = "CONFIRMED_USER_DATA" THEN <<reply("ACK")>> ELSE <<>>
      PROVE  TypeOK' /\ TakeStep
  <2>1. /\ ba' \in Seq(Answers)
        /\ IF ab[1].fn = "CONFIRMED_USER_DATA"
           THEN \E h \in BOOLEAN : ba' = ba \o <<[fn |-> "ACK", dfc |-> h]>>
           ELSE ba' = ba
    <3>1. CASE ab[1].fn = "CONFIRMED_USER_DATA"
      <4>1. r.reply = <<reply("ACK")>> /\ "ACK" \in {"ACK", "NACK", "LINK_STATUS"}
        BY <3>1, <1>9
      <4>. QED BY <4>1, <3>1, <1>6, ZenonT(60)
    <3>2. CASE ab[1].fn # "CONFIRMED_USER_DATA"
      <4>1. r.reply = <<>>
        BY <3>2, <1>9
      <4>. QED BY <4>1, <3>2, <1>7, ZenonT(60)
    <3>. QED BY <3>1, <3>2, ZenonT(60)
  <2>2. r.fragment \in Seq(Payloads)
    BY <1>4, ZenonT(60) DEF Drained
  <2>3. TakeStep
    BY <1>1, <1>3, <1>9, <2>1, <2>2, ZenonT(60) DEF TakeStep
  <2>. QED BY <1>0, <1>1, <1>2, <1>5, <2>1, <2>3, ZenonT(60) DEF TypeOK
<1>. QED BY <1>4, <1>8, <1>9, ZenonT(60) DEF Drained

(* Stack.Reset.                                                            *)
LEMMA ResetSenderDoes ==
    ASSUME NEW u \in Senders
    PROVE  ResetSender(u) \in Senders /\ Fails(u, ResetSender(u), <<>>)
<1>0. /\ FALSE \in BOOLEAN /\ <<>> \in Seq(Payloads) /\ 0 \in Nat /\ "idle" \in States
      /\ NoPayload \in Segments \cup {NoPayload}
  BY DEF States
<1>. DEFINE p == priReset(u.pri)
            g == segClear(u.seg)
            v == [pri |-> p, seg |-> g, awaiting |-> FALSE]
<1>1. u.pri \in Primaries /\ u.seg \in Segmenters
  BY DEF Senders
<1>2. p \in Primaries /\ p.state = "idle" /\ p.linkUp = FALSE /\ p.useConfirms = u.pri.useConfirms
  BY <1>0, <1>1, ZenonT(60) DEF priReset, Primaries
<1>3. g \in Segmenters /\ g.frag = <<>> /\ g.seq = u.seg.seq
  BY <1>0, <1>1, ZenonT(60) DEF segClear, Segmenters
<1>4. ResetSender(u) = v
  BY Zenon DEF ResetSender
<1>. HIDE DEF p, g
<1>5. v \in Senders /\ v.pri = p /\ v.seg = g /\ v.awaiting = FALSE
  BY <1>0, <1>2, <1>3, ZenonT(60) DEF Senders
<1>. HIDE DEF v
<1>6. Fails(u, v, <<>>)
  BY <1>2, <1>3, <1>5, ZenonT(60) DEF Fails
<1>. QED BY <1>4, <1>5, <1>6, ZenonT(60)

LEMMA ResetReceiverDoes ==
    ASSUME NEW x \in Receivers
    PROVE  /\ ResetReceiver(x) \in Receivers
           /\ ~ResetReceiver(x).sec.reset /\ ~ResetReceiver(x).reasm.assembly
<1>0. /\ FALSE \in BOOLEAN /\ <<>> \in Seq(Payloads) /\ 0 \in Nat /\ "idle" \in States
      /\ NoPayload \in Segments \cup {NoPayload}
  BY DEF States
<1>. DEFINE z == reasmReset(x.reasm)
            y == [sec |-> NewSecondary, reasm |-> z]
<1>1. z \in Reassemblers /\ z.assembly = FALSE
  <2>1. x.reasm \in Reassemblers
    BY DEF Receivers
  <2>. QED BY <1>0, <2>1, ZenonT(60) DEF reasmReset, Reassemblers
<1>2. NewSecondary \in Secondaries /\ NewSecondary.reset = FALSE
  BY DEF NewSecondary, Secondaries
<1>3. ResetReceiver(x) = y
  BY Zenon DEF ResetReceiver
<1>. HIDE DEF z
<1>4. y \in Receivers /\ y.sec = NewSecondary /\ y.reasm = z
  BY <1>1, <1>2, ZenonT(60) DEF Receivers
<1>. QED BY <1>1, <1>2, <1>3, <1>4, ZenonT(60)

LEMMA Steps ==
    ASSUME TypeOK, Sane, Next
    PROVE  TypeOK' /\ Step /\ line' = line
<1>0. /\ a \in Senders /\ b \in Receivers /\ ab \in Seq(Frames) /\ ba \in Seq(Answers)
      /\ sent \in Seq(Seq(Payloads)) /\ delivered \in Seq(Seq(Payloads))
      /\ used \in [Bounds -> Nat] /\ line \in Lines
  BY DEF TypeOK
<1>1. line' = line
  BY DEF Next
<1>2. CASE Transfer \/ checkKeepAlive \/ checkLinkTimeout \/ EarlyLinkTimeout \/ ReceiveReply
  BY <1>1, <1>2, SenderSteps, ZenonT(60) DEF Step
<1>3. CASE ReceiveFrame \/ ReceiveAndHold
  <2>1. used' \in [Bounds -> Nat] /\ Spent(0, 0, 0)
    BY <1>0, <1>3, Spendings, ZenonT(60) DEF ReceiveFrame, ReceiveAndHold
  <2>2. \E held \in BOOLEAN : Receive(held)
    BY <1>3, Zenon DEF ReceiveFrame, ReceiveAndHold
  <2>. QED BY <1>1, <2>1, <2>2, ReceiverSteps, ZenonT(60) DEF Step
<1>4. CASE LoseFrame
  <2>1. used' \in [Bounds -> Nat] /\ Spent(1, 0, 0)
    BY <1>0, <1>4, Spendings, ZenonT(60) DEF LoseFrame
  <2>2. LoseFrameStep
    BY <1>4, <2>1, ZenonT(60) DEF LoseFrame, LoseFrameStep
  <2>3. Tail(ab) \in Seq(Frames)
    BY <1>0, <2>2, Shorter, ZenonT(60) DEF LoseFrameStep
  <2>. QED BY <1>0, <1>1, <2>1, <2>2, <2>3, ZenonT(60) DEF TypeOK, Step, LoseFrameStep
<1>5. CASE LoseReply
  <2>1. used' \in [Bounds -> Nat] /\ Spent(1, 0, 0)
    BY <1>0, <1>5, Spendings, ZenonT(60) DEF LoseReply
  <2>2. LoseReplyStep
    BY <1>5, <2>1, Zenon DEF LoseReply, LoseReplyStep
  <2>3. Tail(ba) \in Seq(Answers)
    BY <1>0, <2>2, Shorter, ZenonT(60) DEF LoseReplyStep
  <2>. QED BY <1>0, <1>1, <2>1, <2>2, <2>3, ZenonT(60) DEF TypeOK, Step, LoseReplyStep
<1>6. CASE RestartReceiver
  <2>1. used' \in [Bounds -> Nat] /\ Spent(0, 0, 1)
    BY <1>0, <1>6, Spendings, ZenonT(60) DEF RestartReceiver
  <2>2. RestartStep /\ b' \in Receivers
    BY <1>0, <1>6, <2>1, ResetReceiverDoes, ZenonT(60) DEF RestartReceiver, RestartStep, Forgotten
  <2>. QED BY <1>0, <1>1, <2>1, <2>2, ZenonT(60) DEF TypeOK, Step, RestartStep
<1>7. CASE Reconnect
  <2>1. used' \in [Bounds -> Nat] /\ Spent(0, 0, 0)
    BY <1>0, <1>7, Spendings, ZenonT(60) DEF Reconnect
  <2>2. ReconnectStep /\ b' \in Receivers /\ a' \in Senders
    BY <1>0, <1>7, <2>1, ResetSenderDoes, ResetReceiverDoes, ZenonT(60) DEF Reconnect, ReconnectStep, Forgotten
  <2>3. <<>> \in Seq(Frames) /\ <<>> \in Seq(Answers)
    OBVIOUS
  <2>. QED BY <1>0, <1>1, <2>1, <2>2, <2>3, ZenonT(60) DEF TypeOK, Step, ReconnectStep
<1>. QED BY <1>1, <1>2, <1>3, <1>4, <1>5, <1>6, <1>7, ZenonT(60) DEF Next

----------------------------------------------------------------------------
(* The invariant.                                                          *)
LEMMA InitInv ==
    ASSUME Init
    PROVE  Inv
<1>0. line \in Lines /\ line.confirms \in BOOLEAN
  BY LinesAssumption DEF Init
<1>1. 0 \in Numbers /\ NoPayload \in Segments \cup {NoPayload}
  BY TransportAssumption DEF Numbers
<1>2. /\ a \in Senders /\ a.pri.useConfirms = line.confirms /\ ~a.pri.linkUp /\ a.pri.state = "idle"
      /\ ~a.awaiting /\ a.seg.frag = <<>> /\ a.seg.seq = 0
  BY <1>0, <1>1 DEF Init, NewSender, NewPrimary, NewSegmenter, Senders, Primaries, Segmenters, States
<1>3. b \in Receivers /\ ~b.sec.reset /\ ~b.reasm.assembly
  BY <1>1 DEF Init, NewReceiver, NewSecondary, NewReassembler, Receivers, Secondaries, Reassemblers
<1>4. used \in [Bounds -> Nat] /\ DOMAIN line = Bounds \cup {"confirms"}
  BY <1>0, LinesAssumption, Zenon DEF Init, Bounds
<1>5. ab = <<>> /\ ba = <<>> /\ sent = <<>> /\ delivered = <<>> /\ acked = {} /\ taken = {}
  BY DEF Init
<1>6. TypeOK
  BY <1>0, <1>2, <1>3, <1>4, <1>5 DEF TypeOK
<1>7. Sane
  <2>1. /\ a.pri.state # "waitStatus" /\ a.pri.state # "waitLinkReset" /\ a.pri.state # "waitConfirm"
        /\ a.awaiting \in BOOLEAN
    BY <1>2 DEF Senders
  <2>2. a.awaiting = (a.pri.state # "idle")
    BY <1>2, <2>1
  <2>. QED BY <1>2, <2>1, <2>2, ZenonT(60) DEF Sane, Fits
<1>8. ~Sends(a) /\ ~Sending /\ ~Taken
  BY <1>2 DEF Sending, Sends, Taken
<1>9. Fragments
  BY <1>2, <1>5, <1>8 DEF Fragments, Made, Carries, Cuts
<1>10. Alone /\ Bits /\ Continues /\ Linked
  BY <1>2, <1>3, <1>5, <1>8 DEF Alone, Bits, Continues, Linked, CompletedAccepted
<1>11. Gaps
  BY <1>1, <1>2, <1>3, <1>5, RunsNone, ZenonT(60) DEF Gaps
<1>12. Ordered
  <2>1. DOMAIN delivered = {} /\ DOMAIN ab = {}
    BY <1>5
  <2>. QED BY <1>2, <1>3, <1>8, <2>1, ZenonT(60) DEF Ordered, Past, Ahead, Queued
<1>13. WholeFragments
  BY <1>5 DEF WholeFragments
<1>. QED BY <1>6, <1>7, <1>9, <1>10, <1>11, <1>12, <1>13, ZenonT(60) DEF Inv

LEMMA NextInv ==
    ASSUME Inv, Next
    PROVE  Inv'
<1>1. TypeOK /\ Sane /\ Fragments
  BY Zenon DEF Inv
<1>2. TypeOK' /\ Step /\ line' = line
  BY <1>1, Steps, ZenonT(60)
<1>3. Sane'
  BY <1>1, <1>2, SaneStep, ZenonT(60)
<1>4. Fragments'
  BY <1>1, <1>2, FragmentsStep, ZenonT(60)
<1>5. /\ used.losses \in Nat /\ used.early \in Nat /\ used.restarts \in Nat
      /\ used'.losses >= used.losses /\ used'.early >= used.early /\ used'.restarts >= used.restarts
      /\ used'.losses \in Nat /\ used'.early \in Nat /\ used'.restarts \in Nat
  <2>1. /\ used.losses \in Nat /\ used.early \in Nat /\ used.restarts \in Nat
        /\ used'.losses \in Nat /\ used'.early \in Nat /\ used'.restarts \in Nat
    BY <1>1, <1>2 DEF TypeOK, Bounds
  <2>2. PICK x, y, z \in {0, 1} : Spent(x, y, z)
    BY <1>2, ZenonT(60) DEF Step, LoadStep, ProbeStep, TimeoutStep, ReplyStep, HearStep, TakeStep,
       LoseFrameStep, LoseReplyStep, RestartStep, ReconnectStep
  <2>. QED BY <2>1, <2>2 DEF Spent
<1>6. /\ used'.early = 0 => used.early = 0
      /\ used'.restarts = 0 => used.restarts = 0
      /\ used'.losses < SegModulus => used.losses < SegModulus
  BY <1>5, TransportAssumption
<1>7. /\ Confirming' => Confirming /\ line.confirms
      /\ Punctual' => Punctual
      /\ FewLosses' => FewLosses
  BY <1>2, <1>6, ZenonT(60) DEF Confirming, Punctual, FewLosses
<1>8. ASSUME Confirming' PROVE (Alone /\ Bits /\ Continues)'
  <2>1. Confirming /\ Alone /\ Bits /\ Continues
    BY <1>7, <1>8, ZenonT(60) DEF Inv
  <2>2. Alone'
    BY <1>1, <1>2, <1>8, <2>1, AloneStep, ZenonT(60)
  <2>3. Bits'
    BY <1>1, <1>2, <1>8, <2>1, BitsStep, ZenonT(60)
  <2>4. Continues'
    BY <1>1, <1>2, <1>8, <2>1, <2>3, ContinuesStep, ZenonT(60)
  <2>. QED BY <2>2, <2>3, <2>4
<1>9. ASSUME Confirming', used'.restarts = 0 PROVE Linked'
  <2>1. Confirming /\ Alone /\ used.restarts = 0 /\ Linked
    BY <1>6, <1>7, <1>9, ZenonT(60) DEF Inv
  <2>. QED BY <1>1, <1>2, <1>9, <2>1, LinkedStep, ZenonT(60)
<1>10. ASSUME ~line'.confirms, used'.losses < SegModulus PROVE Gaps'
  <2>1. ~line.confirms /\ used.losses < SegModulus /\ Gaps
    BY <1>2, <1>6, <1>10, ZenonT(60) DEF Inv
  <2>. QED BY <1>1, <1>2, <2>1, GapsStep, ZenonT(60)
<1>11. ASSUME Punctual', used'.restarts = 0 PROVE Ordered'
  <2>1. Punctual /\ used.restarts = 0 /\ Ordered
    BY <1>6, <1>7, <1>11, ZenonT(60) DEF Inv
  <2>2. line.confirms => Confirming /\ Confirming' /\ Alone /\ Bits
    BY <1>2, <1>11, <2>1, ZenonT(60) DEF Inv, Punctual, Confirming
  <2>. QED BY <1>1, <1>2, <1>4, <1>11, <2>1, <2>2, OrderedStep, ZenonT(60)
<1>12. ASSUME Punctual', FewLosses' PROVE WholeFragments'
  <2>1. Punctual /\ FewLosses /\ WholeFragments
    BY <1>7, <1>12, ZenonT(60) DEF Inv
  <2>2. line.confirms => Confirming /\ Alone /\ Bits /\ Continues
    BY <2>1, ZenonT(60) DEF Inv, Punctual, Confirming
  <2>3. ~line.confirms => Gaps /\ used.losses < SegModulus
    BY <2>1, Zenon DEF Inv, FewLosses
  <2>. QED BY <1>1, <1>2, <2>1, <2>2, <2>3, WholeStep, ZenonT(60)
<1>. QED BY <1>2, <1>3, <1>4, <1>8, <1>9, <1>10, <1>11, <1>12, ZenonT(60) DEF Inv

LEMMA StutterInv ==
    ASSUME Inv, UNCHANGED vars
    PROVE  Inv'
<1>1. /\ line' = line /\ a' = a /\ b' = b /\ ab' = ab /\ ba' = ba /\ sent' = sent
      /\ delivered' = delivered /\ acked' = acked /\ taken' = taken /\ used' = used
  BY DEF vars
<1>2. TypeOK' /\ Sane' /\ Fragments'
  BY <1>1, ZenonT(60) DEF Inv, TypeOK, Sane, Fragments
<1>3. Sending' = Sending /\ Taken' = Taken
  BY <1>1, Zenon DEF Sending, Taken
<1>4. /\ (Alone => Alone') /\ (Confirming' <=> Confirming) /\ (Punctual' <=> Punctual)
      /\ (FewLosses' <=> FewLosses) /\ (Linked => Linked') /\ (WholeFragments => WholeFragments')
  BY <1>1, Zenon DEF Alone, Confirming, Punctual, FewLosses, Linked, WholeFragments
<1>5. Bits => Bits'
  BY <1>1, <1>3, ZenonT(60) DEF Bits, CompletedAccepted
<1>6. Continues => Continues'
  BY <1>1, <1>3, ZenonT(60) DEF Continues, Upto
<1>7. Gaps => Gaps'
  BY <1>1, Zenon DEF Gaps, Missing
<1>8. Ordered => Ordered'
  BY <1>1, <1>3, ZenonT(60) DEF Ordered, Past, Ahead, Queued, Above, First, IdOf
<1>. QED BY <1>1, <1>2, <1>4, <1>5, <1>6, <1>7, <1>8, ZenonT(60) DEF Inv

LEMMA AlwaysInv == Spec => []Inv
<1>1. Init => Inv
  BY InitInv
<1>2. Inv /\ [Next]_vars => Inv'
  BY NextInv, StutterInv
<1>. QED BY <1>1, <1>2, PTL DEF Spec

(* What the primary of a line with link confirms counts as sent has been   *)
(* passed up by the peer's secondary (primary.go, ActionComplete), for any *)
(* number of losses, reconnections and restarts, of fragments of any       *)
(* length, as long as the link timeout is longer than the round trip.      *)
THEOREM CompletedWereAccepted == Spec => [](Punctual => CompletedAccepted)
<1>1. Inv => (Punctual => CompletedAccepted)
  BY ZenonT(60) DEF Inv, Punctual, Confirming, Bits, Fragments, CompletedAccepted
<1>. QED BY <1>1, AlwaysInv, PTL

(* A receiver that does not restart is handed the fragments in the order   *)
(* they were sent and none of them twice (secondary.go, OnFrame;           *)
(* transport.go, Accept): without link confirms always, and with them as   *)
(* long as the link timeout is longer than the round trip.                 *)
THEOREM DeliveredInOrder == Spec => [](Punctual => InOrderOnce)
<1>1. Inv => (Punctual => InOrderOnce)
  BY Zenon DEF Inv, Ordered, Past, InOrderOnce
<1>. QED BY <1>1, AlwaysInv, PTL

(* The application is only handed whole fragments as they were sent: with  *)
(* link confirms whatever the line loses, the link timeout again being     *)
(* longer than the round trip; without them as long as it has lost fewer   *)
(* frames than there are segment numbers (transport.go, Accept, compares   *)
(* the number of a segment with the one that is due).                      *)
THEOREM DeliveredWhole == Spec => [](Punctual /\ FewLosses => WholeFragments)
<1>1. Inv => (Punctual /\ FewLosses => WholeFragments)
  BY Zenon DEF Inv
<1>. QED BY <1>1, AlwaysInv, PTL
=============================================================================
