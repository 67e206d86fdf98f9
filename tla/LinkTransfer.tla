---------------------------- MODULE LinkTransfer ----------------------------
(***************************************************************************)
(* A sending stack, a receiving stack and the line between them: fragments *)
(* cut into segments, segments sent as link frames, with or without link   *)
(* confirms, over a line that keeps the order of what it does not lose.    *)
(*                                                                         *)
(* The sender is a master's: it probes an idle link (checkKeepAlive).      *)
(* The receiver is this library's, or, where holds is above zero, one that *)
(* also uses data flow control, which this library's secondary never does. *)
(*                                                                         *)
(* A behaviour is of one line: whether its stations use link confirms, and *)
(* how often it loses a frame or a reply, how often a link timeout strikes *)
(* while one is under way, how often the receiver restarts unnoticed, the  *)
(* connection is replaced, or a reply sets the flow control bit.           *)
(***************************************************************************)
EXTENDS Stack, FiniteSets

CONSTANTS
    Lengths,       \* the lengths of the fragments sent, in segments
    MaxFragments,  \* bound: fragments sent
    Lines          \* [confirms, losses, early, restarts, reconnects, holds]

ASSUME LinesAssumption ==
    /\ Lengths \subseteq Nat \ {0}
    /\ Lines \subseteq [confirms : BOOLEAN, losses : Nat, early : Nat, restarts : Nat,
                       reconnects : Nat, holds : Nat]

VARIABLES
    line,       \* the line this behaviour is of
    a,          \* the sending stack
    b,          \* the receiving stack
    ab,         \* frames under way, oldest first
    ba,         \* replies under way, oldest first
    sent,       \* history: the fragments handed to SendTo, in order
    delivered,  \* history: the fragments the receiver completed, in order
    acked,      \* history: the payloads the primary reported complete
    taken,      \* history: the payloads the secondary passed up
    used        \* how much of each bound is used

vars == <<line, a, b, ab, ba, sent, delivered, acked, taken, used>>

Use(what) ==
    /\ used[what] < line[what]
    /\ used' = [used EXCEPT ![what] = @ + 1]

Fragment(id, n) == [i \in 1..n |-> <<id, i>>]

Init ==
    /\ line \in Lines
    /\ a = NewSender(line.confirms)
    /\ b = NewReceiver
    /\ ab = <<>>
    /\ ba = <<>>
    /\ sent = <<>>
    /\ delivered = <<>>
    /\ acked = {}
    /\ taken = {}
    /\ used = [what \in DOMAIN line \ {"confirms"} |-> 0]

Does(r) == a' = r.stack /\ ab' = ab \o r.out

----------------------------------------------------------------------------
Transfer ==
    /\ Len(sent) < MaxFragments
    /\ ~StackBusy(a)
    /\ \E n \in Lengths :
         LET fragment == Fragment(Len(sent) + 1, n)
         IN  Does(SendTo(a, fragment)) /\ sent' = Append(sent, fragment)
    /\ UNCHANGED <<b, ba, delivered, acked, taken, used>>

(* checkKeepAlive, with no application request in flight.                  *)
checkKeepAlive ==
    /\ ~StackBusy(a)
    /\ Does(SendLinkStatusRequest(a))
    /\ UNCHANGED <<b, ba, sent, delivered, acked, taken, used>>

(* checkLinkTimeout, while nothing is under way: the link timeout is       *)
(* longer than the round trip.                                             *)
checkLinkTimeout ==
    /\ a.awaiting
    /\ ab = <<>> /\ ba = <<>>
    /\ Does(OnTimeout(a))
    /\ UNCHANGED <<b, ba, sent, delivered, acked, taken, used>>

(* The same with a link timeout shorter than the round trip.               *)
EarlyLinkTimeout ==
    /\ a.awaiting
    /\ ab # <<>> \/ ba # <<>>
    /\ Use("early")
    /\ Does(OnTimeout(a))
    /\ UNCHANGED <<b, ba, sent, delivered, acked, taken>>

(* The reply to the oldest frame, as this library's secondary sends it.    *)
Receive(held) ==
    /\ ab # <<>>
    /\ LET r == drainPrimary(b, Head(ab))
       IN  /\ b' = r.stack
           /\ ba' = ba \o [i \in 1..Len(r.reply) |-> [r.reply[i] EXCEPT !.dfc = held]]
           /\ taken' = taken \cup r.taken
           /\ delivered' = IF r.fragment = NoFragment THEN delivered
                           ELSE Append(delivered, r.fragment)
    /\ ab' = Tail(ab)
    /\ UNCHANGED <<a, sent, acked>>

ReceiveFrame == Receive(FALSE) /\ UNCHANGED used

(* A peer short of buffers answers with the flow control bit set.          *)
ReceiveAndHold == Receive(TRUE) /\ Use("holds")

ReceiveReply ==
    /\ ba # <<>>
    /\ Does(drainReply(a, Head(ba)))
    /\ acked' = IF a.pri.state = "waitConfirm" /\ Head(ba).fn = "ACK"
                THEN acked \cup {a.pri.pending.payload} ELSE acked
    /\ ba' = Tail(ba)
    /\ UNCHANGED <<b, sent, delivered, taken, used>>

LoseFrame ==
    /\ ab # <<>>
    /\ Use("losses")
    /\ ab' = Tail(ab)
    /\ UNCHANGED <<a, b, ba, sent, delivered, acked, taken>>

LoseReply ==
    /\ ba # <<>>
    /\ Use("losses")
    /\ ba' = Tail(ba)
    /\ UNCHANGED <<a, b, ab, sent, delivered, acked, taken>>

(* The receiving process restarts on a line that has no connections.       *)
RestartReceiver ==
    /\ Use("restarts")
    /\ b' = ResetReceiver(b)
    /\ UNCHANGED <<a, ab, ba, sent, delivered, acked, taken>>

(* A new connection: both stacks are reset and what was under way is gone. *)
Reconnect ==
    /\ Use("reconnects")
    /\ a' = ResetSender(a)
    /\ b' = ResetReceiver(b)
    /\ ab' = <<>>
    /\ ba' = <<>>
    /\ UNCHANGED <<sent, delivered, acked, taken>>

Next ==
    /\ \/ Transfer \/ checkKeepAlive
       \/ checkLinkTimeout \/ EarlyLinkTimeout
       \/ ReceiveFrame \/ ReceiveAndHold \/ ReceiveReply
       \/ LoseFrame \/ LoseReply
       \/ RestartReceiver \/ Reconnect
    /\ UNCHANGED line

Spec == Init /\ [][Next]_vars

(* The line carries what it does not lose, both stations read it, and a    *)
(* session's timers fire.                                                  *)
FairSpec ==
    /\ Spec
    /\ []<>(ab = <<>>) \/ []<><<ReceiveFrame>>_vars
    /\ []<>(ba = <<>>) \/ []<><<ReceiveReply>>_vars
    /\ []<>~(a.awaiting /\ ab = <<>> /\ ba = <<>>) \/ []<><<checkLinkTimeout>>_vars
    /\ []<>StackBusy(a) \/ []<><<checkKeepAlive>>_vars

----------------------------------------------------------------------------
(* Whatever is lost, repeated or cut short by a new connection, the        *)
(* application is only ever handed a fragment as it was sent: Accept does  *)
(* not stitch around a hole, and does not join two fragments.              *)
WholeFragments ==
    \A k \in DOMAIN delivered : \E id \in DOMAIN sent : delivered[k] = sent[id]

(* Fragments are handed over in the order they were sent and none twice: a *)
(* frame repeated because its acknowledgement was lost is recognised by    *)
(* its count bit (secondary.go, OnFrame) and its payload dropped.  A       *)
(* receiver that has restarted has forgotten the bit.                      *)
InOrderOnce ==
    used.restarts = 0 => \A j, k \in DOMAIN delivered : j < k => delivered[j][1][1] < delivered[k][1][1]

(* ActionComplete "means the queued payload was delivered and              *)
(* acknowledged" (primary.go): what the primary counts as sent has been    *)
(* passed up by the secondary.                                             *)
CompletedAccepted == acked \subseteq taken

(* Every fragment is either sent to its end or given up: a stack does not  *)
(* stay busy for good, whatever the line loses, as long as the peer does   *)
(* not use flow control (stack.go, OnTimeout, drain).                      *)
SendEnds == (line.holds = 0 /\ StackBusy(a)) ~> ~StackBusy(a)

(* And sending resumes by itself after flow control (stack.go,             *)
(* pumpFrames).                                                            *)
SendResumes == StackBusy(a) ~> ~StackBusy(a)
=============================================================================
