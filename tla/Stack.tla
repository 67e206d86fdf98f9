------------------------------- MODULE Stack -------------------------------
(***************************************************************************)
(* One connection's protocol stack (internal/stack): link halves, transport*)
(* halves and the flag that says a frame awaits its acknowledgement.       *)
(*                                                                         *)
(* A stack sends with pri, seg and awaiting, and receives with sec and     *)
(* reasm; the two directions of one stack share no state, so the model     *)
(* keeps a sending stack [pri, seg, awaiting] and a receiving one          *)
(* [sec, reasm].  Framing, CRC and address filtering happen before these   *)
(* handlers see a frame and are left out; a write always succeeds (a       *)
(* failed write ends the connection, which is a Reset).                    *)
(*                                                                         *)
(* Handlers of the sender answer with the stack and the frames written.    *)
(***************************************************************************)
EXTENDS LinkLayer, Transport

NewSender(useConfirms) ==
    [pri |-> NewPrimary(useConfirms), seg |-> NewSegmenter, awaiting |-> FALSE]

NewReceiver == [sec |-> NewSecondary, reasm |-> NewReassembler]

(* Stack.Reset.  The segmenter's counter survives it.                      *)
ResetSender(s) ==
    [pri |-> priReset(s.pri), seg |-> segClear(s.seg), awaiting |-> FALSE]

ResetReceiver(s) == [sec |-> NewSecondary, reasm |-> reasmReset(s.reasm)]

StackBusy(s) == s.awaiting \/ segPending(s.seg)

quiet(s) == [stack |-> s, out |-> <<>>]

----------------------------------------------------------------------------
(* pumpFrames: segments go out until one needs acknowledging, the peer's   *)
(* flow control holds the rest back, or the fragment is done.  Sending one *)
(* that needs no acknowledging depends on nothing an earlier one changed.  *)
pumpFrames(s) ==
    LET n    == IF s.pri.useConfirms THEN 1 ELSE Len(s.seg.frag)
        o(i) == Send(s.pri, segAt(s.seg, i))
    IN  CASE ~segPending(s.seg) -> quiet([s EXCEPT !.awaiting = FALSE])
          [] segPending(s.seg) /\ s.pri.dfc -> quiet(s)
          [] OTHER -> [stack |-> [pri |-> o(n).pri, seg |-> segAfter(s.seg, n),
                                  awaiting |-> o(n).action = "transmit"],
                       out   |-> [i \in 1..n |-> o(i).frame]]

(* SendTo, of a stack that is not busy.                                    *)
SendTo(s, fragment) == pumpFrames([s EXCEPT !.seg = segReset(@, fragment)])

(* SendLinkStatusRequest, of a stack that awaits nothing.                  *)
SendLinkStatusRequest(s) ==
    LET o == RequestLinkStatus(s.pri)
    IN  [stack |-> [s EXCEPT !.pri = o.pri, !.awaiting = TRUE],
         out   |-> <<o.frame>>]

(* A variant with a defect: the rest of a fragment the link gave up on    *)
(* stays queued.                                                           *)
GaveUpKeepsRest(s) == quiet([s EXCEPT !.awaiting = FALSE])

gaveUp(s) == quiet([s EXCEPT !.awaiting = FALSE, !.seg = segClear(@)])

OnTimeout(s) ==
    LET o == priOnTimeout(s.pri)
        t == [s EXCEPT !.pri = o.pri]
    IN  CASE ~s.awaiting                           -> quiet(s)
          [] s.awaiting /\ o.action = "transmit" -> [stack |-> t, out |-> <<o.frame>>]
          [] s.awaiting /\ o.action = "failed"   -> gaveUp(t)
          [] OTHER                               -> quiet([t EXCEPT !.awaiting = FALSE])

(* drain, of a reply to something sent.                                    *)
drainReply(s, answered) ==
    LET o == priOnFrame(s.pri, answered)
        t == [s EXCEPT !.pri = o.pri]
    IN  CASE o.action = "transmit" -> [stack |-> t, out |-> <<o.frame>>]
          [] o.action = "complete" -> pumpFrames([t EXCEPT !.awaiting = FALSE])
          [] o.action = "failed"   -> gaveUp(t)
          [] OTHER                 -> quiet(t)

(* drain and deliver, of a frame from the peer's primary: the receiver,    *)
(* its reply, the payload passed up and the fragment completed by it.      *)
drainPrimary(s, f) ==
    LET o == secOnFrame(s.sec, f)
        t == Accept(s.reasm, o.payload)
    IN  IF o.payload = NoPayload
        THEN [stack |-> [s EXCEPT !.sec = o.sec], reply |-> o.reply,
              taken |-> {}, fragment |-> NoFragment]
        ELSE [stack |-> [sec |-> o.sec, reasm |-> t.reasm], reply |-> o.reply,
              taken |-> {o.payload.payload}, fragment |-> t.fragment]
=============================================================================
