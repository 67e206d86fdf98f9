----------------------------- MODULE LinkLayer -----------------------------
(***************************************************************************)
(* The two halves of the link layer (internal/link/primary.go and          *)
(* secondary.go).  The primary sends one frame at a time and, with link    *)
(* confirms, waits for its acknowledgement; the secondary answers.         *)
(*                                                                         *)
(* A handler is an operator from the half before the call to a record with *)
(* the half after it and what the call returns.  Addresses, lengths and    *)
(* the validity matrix of the control field are left out: the frames are   *)
(* the ones these two halves send each other.                              *)
(***************************************************************************)
EXTENDS Integers, Sequences

CONSTANT LinkRetries  \* Primary.MaxRetries

ASSUME LinkAssumption == LinkRetries \in Nat

NoPayload == [none |-> TRUE]

NoFrame == [fn |-> "NONE"]

frame(fn, fcb, payload) == [fn |-> fn, fcb |-> fcb, payload |-> payload]

ResetLinkStates == frame("RESET_LINK_STATES", FALSE, NoPayload)

----------------------------------------------------------------------------
(* The primary.                                                            *)
NewPrimary(useConfirms) ==
    [useConfirms |-> useConfirms, state |-> "idle", linkUp |-> FALSE, fcb |-> FALSE, retries |-> 0,
     pending |-> NoPayload, lastSent |-> NoFrame, dfc |-> FALSE]

priReset(p) ==
    [p EXCEPT !.state = "idle", !.linkUp = FALSE, !.fcb = FALSE,
              !.retries = 0, !.pending = NoPayload, !.dfc = FALSE]

Busy(p) == p.state # "idle"

transmit(p, f) ==
    [pri |-> [p EXCEPT !.lastSent = f], frame |-> f, action |-> "transmit"]

nothing(p) == [pri |-> p, frame |-> NoFrame, action |-> "none"]

complete(p) == [pri |-> p, frame |-> NoFrame, action |-> "complete"]

fail(p) ==
    [pri |-> [p EXCEPT !.state = "idle", !.linkUp = FALSE, !.dfc = FALSE,
                       !.pending = NoPayload, !.retries = 0],
     frame |-> NoFrame, action |-> "failed"]

sendPending(p) ==
    transmit([p EXCEPT !.state = "waitConfirm"],
             frame("CONFIRMED_USER_DATA", p.fcb, p.pending))

resetLink(p) == transmit([p EXCEPT !.state = "waitLinkReset"], ResetLinkStates)

(* Send, of a primary that is neither busy nor held by flow control.       *)
Send(p, payload) ==
    LET fresh == [p EXCEPT !.retries = 0]
        data  == frame("UNCONFIRMED_USER_DATA", FALSE, payload)
        queue == [fresh EXCEPT !.pending = payload]
    IN  CASE ~p.useConfirms -> [pri |-> [fresh EXCEPT !.lastSent = data],
                              frame |-> data, action |-> "complete"]
          [] p.useConfirms /\ ~p.linkUp -> resetLink(queue)
          [] OTHER                    -> sendPending(queue)

RequestLinkStatus(p) ==
    transmit([p EXCEPT !.state = "waitStatus", !.retries = 0],
             frame("REQUEST_LINK_STATUS", FALSE, NoPayload))

(* A variant with a defect: the frame count bit keeps the value it had     *)
(* when the link went down.                                                *)
LinkResetKeepsBit(p, fn) ==
    CASE fn = "ACK"                      -> sendPending([p EXCEPT !.linkUp = TRUE, !.retries = 0])
      [] fn \in {"NACK", "NOT_SUPPORTED"} -> fail(p)
      [] OTHER                           -> nothing(p)

onWaitLinkReset(p, fn) ==
    CASE fn = "ACK" ->
           sendPending([p EXCEPT !.linkUp = TRUE, !.fcb = TRUE, !.retries = 0])
      [] fn \in {"NACK", "NOT_SUPPORTED"} -> fail(p)
      [] OTHER -> nothing(p)

onWaitConfirm(p, fn) ==
    CASE fn = "ACK" ->
           complete([p EXCEPT !.fcb = ~@, !.state = "idle",
                              !.pending = NoPayload, !.retries = 0])
      [] fn = "NACK" -> resetLink([p EXCEPT !.linkUp = FALSE, !.retries = 0])
      [] fn = "NOT_SUPPORTED" -> fail(p)
      [] OTHER -> nothing(p)

onWaitStatus(p, fn) ==
    CASE fn \in {"LINK_STATUS", "ACK"} ->
           complete([p EXCEPT !.state = "idle", !.retries = 0])
      [] fn \in {"NACK", "NOT_SUPPORTED"} -> fail(p)
      [] OTHER -> nothing(p)

priOnFrame(p, r) ==
    LET heard == [p EXCEPT !.dfc = r.dfc]
    IN  CASE p.state = "waitLinkReset" -> onWaitLinkReset(heard, r.fn)
          [] p.state = "waitConfirm"   -> onWaitConfirm(heard, r.fn)
          [] p.state = "waitStatus"    -> onWaitStatus(heard, r.fn)
          [] OTHER                     -> nothing(p)

priOnTimeout(p) ==
    CASE p.state = "idle"                               -> nothing(p)
      [] p.state # "idle" /\ p.retries >= LinkRetries -> fail(p)
      [] OTHER -> transmit([p EXCEPT !.retries = @ + 1], p.lastSent)

----------------------------------------------------------------------------
(* The secondary.  A reply carries the function and the flow control bit,  *)
(* which this secondary never sets.                                        *)
NewSecondary == [reset |-> FALSE, expectFCB |-> FALSE]

reply(fn) == [fn |-> fn, dfc |-> FALSE]

answer(s, fn, payload) == [sec |-> s, reply |-> <<reply(fn)>>, payload |-> payload]

(* A variant with a defect: the count bit is not looked at.                *)
AcceptsAnyBit(s, f) ==
    IF ~s.reset THEN answer(s, "NACK", NoPayload)
    ELSE answer([s EXCEPT !.expectFCB = ~@], "ACK", f.payload)

onConfirmedUserData(s, f) ==
    CASE ~s.reset -> answer(s, "NACK", NoPayload)
      [] s.reset /\ f.fcb # s.expectFCB -> answer(s, "ACK", NoPayload)
      [] OTHER -> answer([s EXCEPT !.expectFCB = ~@], "ACK", f.payload)

onTestLinkStates(s, f) ==
    IF ~s.reset \/ f.fcb # s.expectFCB
    THEN answer(s, "NACK", NoPayload)
    ELSE answer([s EXCEPT !.expectFCB = ~@], "ACK", NoPayload)

secOnFrame(s, f) ==
    CASE f.fn = "RESET_LINK_STATES" ->
           answer([reset |-> TRUE, expectFCB |-> TRUE], "ACK", NoPayload)
      [] f.fn = "TEST_LINK_STATES"      -> onTestLinkStates(s, f)
      [] f.fn = "CONFIRMED_USER_DATA"   -> onConfirmedUserData(s, f)
      [] f.fn = "UNCONFIRMED_USER_DATA" ->
           [sec |-> s, reply |-> <<>>, payload |-> f.payload]
      [] f.fn = "REQUEST_LINK_STATUS"   -> answer(s, "LINK_STATUS", NoPayload)
      [] OTHER                          -> answer(s, "NOT_SUPPORTED", NoPayload)
=============================================================================
