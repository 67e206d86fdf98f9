--------------------------- MODULE LinkInvariants ---------------------------
(***************************************************************************)
(* The inductive invariant of two stacks and the line between them, and    *)
(* what a step preserves of it, for any lengths and numbers of fragments,  *)
(* any limits, and any number of losses, restarts, new connections and     *)
(* uses of flow control.                                                   *)
(*                                                                         *)
(* With link confirms the line is stop-and-wait, as long as no link        *)
(* timeout overtakes an answer (Punctual): one frame or its reply is under *)
(* way, and the count bits of the two stations tell whether the receiver   *)
(* has passed the frame up.  Without them, what arrives is what was sent   *)
(* but for gaps at the front, which the segment numbers show while fewer   *)
(* frames were lost than there are numbers.                                *)
(*                                                                         *)
(* Step says what an action may do, without the handlers it is made of;    *)
(* LinkTransferProofs shows that Next is a Step.                           *)
(***************************************************************************)
EXTENDS LinkTransfer, TLAPS

(* A leaf that names no prover is given this long.                         *)
USE SMTT(30)

Payloads == Nat \X Nat
Numbers == 0..(SegModulus - 1)
Segments == [fir : BOOLEAN, fin : BOOLEAN, seq : Numbers, payload : Payloads]

StatusRequest == frame("REQUEST_LINK_STATUS", FALSE, NoPayload)
DataFns == {"CONFIRMED_USER_DATA", "UNCONFIRMED_USER_DATA"}
Data(f) == f.fn \in DataFns
Frames == {ResetLinkStates, StatusRequest}
              \cup [fn : DataFns, fcb : BOOLEAN, payload : Segments]
Answers == [fn : {"ACK", "NACK", "LINK_STATUS"}, dfc : BOOLEAN]

States == {"idle", "waitLinkReset", "waitConfirm", "waitStatus"}
Primaries == [useConfirms : BOOLEAN, state : States, linkUp : BOOLEAN, fcb : BOOLEAN,
              retries : Nat, pending : Segments \cup {NoPayload},
              lastSent : Frames \cup {NoFrame}, dfc : BOOLEAN]
Segmenters == [frag : Seq(Payloads), first : BOOLEAN, seq : Numbers]
Senders == [pri : Primaries, seg : Segmenters, awaiting : BOOLEAN]
Secondaries == [reset : BOOLEAN, expectFCB : BOOLEAN]
Reassemblers == [buf : Seq(Payloads), expect : Numbers, assembly : BOOLEAN]
Receivers == [sec : Secondaries, reasm : Reassemblers]
Bounds == {"losses", "early", "restarts", "reconnects", "holds"}

TypeOK ==
    /\ line \in Lines /\ used \in [Bounds -> Nat]
    /\ a \in Senders /\ b \in Receivers
    /\ ab \in Seq(Frames) /\ ba \in Seq(Answers)
    /\ sent \in Seq(Seq(Payloads)) /\ delivered \in Seq(Seq(Payloads))

(* What the sender's state says of what it sent last; c is whether it uses *)
(* link confirms.                                                          *)
Fits(u, c) ==
    /\ u.pri.useConfirms = c
    /\ u.awaiting = (u.pri.state # "idle")
    /\ u.pri.state = "waitStatus" => u.seg.frag = <<>> /\ u.pri.lastSent = StatusRequest
    /\ u.pri.state = "waitLinkReset" =>
         c /\ u.pri.pending \in Segments /\ u.pri.lastSent = ResetLinkStates
    /\ u.pri.state = "waitConfirm" =>
         /\ c /\ u.pri.linkUp /\ u.pri.pending \in Segments
         /\ u.pri.lastSent = frame("CONFIRMED_USER_DATA", u.pri.fcb, u.pri.pending)

Sane == Fits(a, line.confirms)

(* h is a segment of a fragment of s.                                      *)
Cut(s, h) ==
    /\ h.payload[1] \in DOMAIN s /\ h.payload[2] \in 1..Len(s[h.payload[1]])
    /\ h.fir = (h.payload[2] = 1) /\ h.fin = (h.payload[2] = Len(s[h.payload[1]]))

(* g holds the rest of the last fragment of s.                             *)
Rest(s, g) ==
    /\ Len(s) > 0 /\ Len(g.frag) <= Len(s[Len(s)]) /\ g.first = (Len(g.frag) = Len(s[Len(s)]))
    /\ \A i \in 1..Len(g.frag) : g.frag[i] = <<Len(s), Len(s[Len(s)]) - Len(g.frag) + i>>

Sends(u) == u.pri.state \in {"waitLinkReset", "waitConfirm"}
Sending == Sends(a)

(* The fragments of s are numbered; u sends the last of them; the frames   *)
(* under way carry segments of them.                                       *)
Made(s) ==
    \A id \in DOMAIN s : s[id] # <<>> /\ \A i \in DOMAIN s[id] : s[id][i] = <<id, i>>

Carries(s, u) ==
    /\ u.seg.frag # <<>> => Rest(s, u.seg)
    /\ Sends(u) => /\ Len(s) > 0 /\ Cut(s, u.pri.pending)
                   /\ u.pri.pending.payload = <<Len(s), Len(s[Len(s)]) - Len(u.seg.frag)>>

Cuts(s, q, c) ==
    \A k \in DOMAIN q : Data(q[k]) =>
        Cut(s, q[k].payload) /\ (q[k].fn = "CONFIRMED_USER_DATA") = c

Fragments ==
    /\ Made(sent) /\ Carries(sent, a) /\ Cuts(sent, ab, line.confirms)
    /\ ~line.confirms => acked = {}

----------------------------------------------------------------------------
(* With link confirms.                                                     *)
Punctual == line.confirms => used.early = 0
Confirming == line.confirms /\ used.early = 0

(* One frame or its reply is under way.                                    *)
Alone ==
    /\ ab = <<>> \/ ba = <<>>
    /\ Len(ab) <= 1 /\ Len(ba) <= 1
    /\ ab # <<>> \/ ba # <<>> => a.pri.state # "idle"
    /\ ab # <<>> => ab[1] = a.pri.lastSent
    /\ ba # <<>> => /\ a.pri.state = "waitLinkReset" => ba[1].fn = "ACK"
                    /\ a.pri.state = "waitConfirm" => ba[1].fn \in {"ACK", "NACK"}
                    /\ a.pri.state = "waitStatus" => ba[1].fn = "LINK_STATUS"

(* The receiver's bit shows whether it has passed the frame up.            *)
Taken == a.pri.state = "waitConfirm" /\ b.sec.reset /\ b.sec.expectFCB # a.pri.fcb

Bits ==
    /\ Taken => a.pri.pending.payload \in taken
    /\ a.pri.state = "waitConfirm" /\ ba # <<>> =>
         /\ ba[1].fn = "ACK" => a.pri.pending.payload \in taken
         /\ b.sec.reset => ba[1].fn = "ACK" /\ Taken
    /\ b.sec.reset =>
         /\ a.pri.state \in {"idle", "waitStatus"} /\ a.pri.linkUp => b.sec.expectFCB = a.pri.fcb
         /\ a.pri.state = "waitLinkReset" /\ ba # <<>> => b.sec.expectFCB
    /\ CompletedAccepted

(* A partial fragment goes on with the segment that is sent next, unless   *)
(* that starts a new one.                                                  *)
Prefix(s, buf) ==
    /\ buf # <<>>
    /\ LET id == buf[1][1]
       IN  /\ id \in DOMAIN s /\ Len(buf) < Len(s[id])
           /\ \A i \in DOMAIN buf : buf[i] = <<id, i>>

Upto(n) == b.reasm.buf[1][1] = Len(sent) /\ Len(b.reasm.buf) = n

Continues ==
    b.reasm.assembly =>
        /\ b.sec.reset /\ Prefix(sent, b.reasm.buf)
        /\ Sending =>
             LET i == a.pri.pending.payload[2]
             IN  IF Taken THEN Upto(i) ELSE i = 1 \/ Upto(i - 1)
        /\ ~Sending /\ a.seg.frag # <<>> =>
             a.seg.first \/ Upto(Len(sent[Len(sent)]) - Len(a.seg.frag))

(* A receiver that has not restarted remembers that the link is up.        *)
Linked ==
    /\ a.pri.linkUp => b.sec.reset
    /\ a.pri.state = "waitLinkReset" /\ ba # <<>> => b.sec.reset

----------------------------------------------------------------------------
(* Without link confirms.  Each frame has the number after that of the one *)
(* before it, the segments of a fragment follow each other, and a partial  *)
(* fragment goes on with the frame that arrives next, unless some were     *)
(* lost.                                                                   *)
Follows(f, g) ==
    /\ Data(g) /\ g.payload.payload = <<f.payload.payload[1], f.payload.payload[2] + 1>>

Chained(q) ==
    \A k \in DOMAIN q : Data(q[k]) /\ ~q[k].payload.fin =>
        k + 1 \in DOMAIN q /\ Follows(q[k], q[k + 1])

Counts(S, q, k) ==
    IF Data(q[k]) THEN q[k].payload.seq = S[k] /\ S[k + 1] = (S[k] + 1) % SegModulus
    ELSE S[k + 1] = S[k]

Numbering(S, q) == S \in [1..(Len(q) + 1) -> Numbers] /\ \A k \in DOMAIN q : Counts(S, q, k)

(* q takes the counter of the segmenter from l to m.                       *)
Runs(l, q, m) == Chained(q) /\ \E S : Numbering(S, q) /\ S[1] = l /\ S[Len(q) + 1] = m

Missing(n) ==
    /\ Prefix(sent, b.reasm.buf)
    /\ \E d \in 0..used.losses :
         /\ n = (b.reasm.expect + d) % SegModulus
         /\ d = 0 => /\ ab # <<>> /\ Data(ab[1])
                     /\ ab[1].payload.payload = <<b.reasm.buf[1][1], Len(b.reasm.buf) + 1>>

Gaps == \E n \in Numbers : Runs(n, ab, a.seg.seq) /\ (b.reasm.assembly => Missing(n))

FewLosses == line.confirms \/ used.losses < SegModulus

----------------------------------------------------------------------------
(* The fragments that were delivered, the partial one, and those that      *)
(* start to arrive are in order.                                           *)
Above(n) ==
    /\ \A k \in DOMAIN delivered : delivered[k][1][1] < n
    /\ b.reasm.assembly => b.reasm.buf[1][1] < n

First(k) == Data(ab[k]) /\ ab[k].payload.fir
IdOf(k) == ab[k].payload.payload[1]

Past ==
    /\ \A k \in DOMAIN delivered : delivered[k] # <<>> /\ delivered[k][1][1] <= Len(sent)
    /\ \A j, k \in DOMAIN delivered : j < k => delivered[j][1][1] < delivered[k][1][1]
    /\ b.reasm.assembly =>
         /\ b.reasm.buf # <<>> /\ b.reasm.buf[1][1] <= Len(sent)
         /\ \A k \in DOMAIN delivered : delivered[k][1][1] < b.reasm.buf[1][1]

Ahead ==
    /\ a.seg.frag # <<>> /\ a.seg.first => Above(Len(sent))
    /\ Sending /\ a.pri.pending.fir /\ ~Taken => Above(Len(sent))

Queued ==
    \A k \in DOMAIN ab : First(k) =>
        /\ Above(IdOf(k)) /\ (a.seg.frag # <<>> /\ a.seg.first => IdOf(k) < Len(sent))
        /\ \A j \in 1..(k - 1) : First(j) => IdOf(j) < IdOf(k)

Ordered == Past /\ Ahead /\ (~line.confirms => Queued)

----------------------------------------------------------------------------
Inv ==
    /\ TypeOK /\ Sane /\ Fragments
    /\ Confirming => Alone /\ Bits /\ Continues
    /\ Confirming /\ used.restarts = 0 => Linked
    /\ ~line.confirms /\ used.losses < SegModulus => Gaps
    /\ Punctual /\ used.restarts = 0 => Ordered
    /\ Punctual /\ FewLosses => WholeFragments
----------------------------------------------------------------------------
(* What a call does to the sender: u before it, v after it, out the frames *)
(* it writes.                                                              *)
Same(u, v) ==
    /\ v.pri.useConfirms = u.pri.useConfirms /\ v.pri.state = u.pri.state
    /\ v.pri.linkUp = u.pri.linkUp /\ v.pri.fcb = u.pri.fcb
    /\ v.pri.pending = u.pri.pending /\ v.pri.lastSent = u.pri.lastSent
    /\ v.seg = u.seg /\ v.awaiting = u.awaiting

Rests(u, v, out) == out = <<>> /\ Same(u, v)

Resends(u, v, out) == u.pri.state # "idle" /\ out = <<u.pri.lastSent>> /\ Same(u, v)

Fails(u, v, out) ==
    /\ out = <<>> /\ v.pri.useConfirms = u.pri.useConfirms
    /\ v.pri.state = "idle" /\ ~v.pri.linkUp /\ ~v.awaiting
    /\ v.seg.frag = <<>> /\ v.seg.seq = u.seg.seq

Probes(u, v, out) ==
    /\ out = <<StatusRequest>> /\ v.pri.useConfirms = u.pri.useConfirms
    /\ u.pri.state = "idle" /\ v.pri.state = "waitStatus" /\ v.pri.lastSent = StatusRequest
    /\ v.pri.linkUp = u.pri.linkUp /\ v.pri.fcb = u.pri.fcb
    /\ v.seg = u.seg /\ v.awaiting

Establishes(u, v, out) ==
    /\ out = <<v.pri.lastSent>> /\ v.pri.useConfirms = u.pri.useConfirms
    /\ u.pri.state = "waitLinkReset" /\ v.pri.state = "waitConfirm"
    /\ v.pri.linkUp /\ v.pri.fcb /\ v.pri.pending = u.pri.pending
    /\ v.pri.lastSent = frame("CONFIRMED_USER_DATA", v.pri.fcb, v.pri.pending)
    /\ v.seg = u.seg /\ v.awaiting = u.awaiting

Renews(u, v, out) ==
    /\ out = <<ResetLinkStates>> /\ v.pri.useConfirms = u.pri.useConfirms
    /\ u.pri.state = "waitConfirm" /\ v.pri.state = "waitLinkReset"
    /\ ~v.pri.linkUp /\ v.pri.pending = u.pri.pending /\ v.pri.lastSent = ResetLinkStates
    /\ v.seg = u.seg /\ v.awaiting = u.awaiting

(* The primary reports a frame complete; the stack goes on as w.           *)
Completes(u, w) ==
    /\ u.pri.state \in {"waitConfirm", "waitStatus"}
    /\ w.pri.useConfirms = u.pri.useConfirms /\ w.pri.state = "idle"
    /\ w.pri.linkUp = u.pri.linkUp
    /\ w.pri.fcb = IF u.pri.state = "waitConfirm" THEN ~u.pri.fcb ELSE u.pri.fcb
    /\ w.seg = u.seg /\ ~w.awaiting

Loads(u, w, fragment) ==
    /\ u.pri.state = "idle" /\ u.seg.frag = <<>> /\ ~u.awaiting
    /\ w.pri = u.pri /\ ~w.awaiting
    /\ w.seg.frag = fragment /\ w.seg.first /\ w.seg.seq = u.seg.seq

(* pumpFrames of w, which waits for nothing, sends one segment, all of     *)
(* them, or none.                                                          *)
SendsOne(w, v, out) ==
    /\ w.seg.frag # <<>> /\ w.pri.useConfirms /\ v.pri.useConfirms
    /\ v.pri.linkUp = w.pri.linkUp /\ v.pri.fcb = w.pri.fcb
    /\ v.pri.pending = segAt(w.seg, 1) /\ v.seg = segAfter(w.seg, 1) /\ v.awaiting
    /\ IF w.pri.linkUp
       THEN /\ v.pri.state = "waitConfirm"
            /\ v.pri.lastSent = frame("CONFIRMED_USER_DATA", v.pri.fcb, v.pri.pending)
       ELSE v.pri.state = "waitLinkReset" /\ v.pri.lastSent = ResetLinkStates
    /\ out = <<v.pri.lastSent>>

SendsAll(w, v, out) ==
    /\ w.seg.frag # <<>> /\ ~w.pri.useConfirms /\ ~v.pri.useConfirms
    /\ v.pri.state = "idle" /\ v.seg = segAfter(w.seg, Len(w.seg.frag)) /\ ~v.awaiting
    /\ out = [i \in 1..Len(w.seg.frag) |->
                frame("UNCONFIRMED_USER_DATA", FALSE, segAt(w.seg, i))]

Pumps(w, v, out) == Rests(w, v, out) \/ SendsOne(w, v, out) \/ SendsAll(w, v, out)

(* drain, of a reply to something sent.                                    *)
Drains(u, fn, v, out) ==
    \/ Rests(u, v, out) /\ ~(u.pri.state = "waitConfirm" /\ fn = "ACK")
    \/ Fails(u, v, out) /\ u.pri.state # "waitConfirm"
    \/ Establishes(u, v, out) /\ fn = "ACK"
    \/ Renews(u, v, out) /\ fn = "NACK"
    \/ \E w \in Senders : /\ Completes(u, w) /\ (u.pri.state = "waitConfirm" => fn = "ACK")
                          /\ Pumps(w, v, out)

----------------------------------------------------------------------------
(* What the reassembler makes of segment h: t is the reassembler after it, *)
(* g the fragment it completes.                                            *)
Drops(t, g) == ~t.assembly /\ g = NoFragment

Grows(r, h, t, g) ==
    /\ \/ h.fir /\ t.buf = <<h.payload>>
       \/ ~h.fir /\ r.assembly /\ h.seq = r.expect /\ t.buf = Append(r.buf, h.payload)
    /\ t.expect = (h.seq + 1) % SegModulus
    /\ t.assembly = ~h.fin
    /\ g = IF h.fin THEN t.buf ELSE NoFragment

(* What the receiver makes of frame f: x before it, y after it, fn the     *)
(* function of its reply.                                                  *)
Hears(x, f, y, fn) ==
    /\ y.reasm = x.reasm
    /\ \/ f = ResetLinkStates /\ y.sec.reset /\ y.sec.expectFCB /\ fn = "ACK"
       \/ f = StatusRequest /\ y.sec = x.sec /\ fn = "LINK_STATUS"
       \/ f.fn = "CONFIRMED_USER_DATA" /\ ~x.sec.reset /\ y.sec = x.sec /\ fn = "NACK"
       \/ /\ f.fn = "CONFIRMED_USER_DATA" /\ x.sec.reset /\ f.fcb # x.sec.expectFCB
          /\ y.sec = x.sec /\ fn = "ACK"

Takes(x, f, y, g) ==
    /\ Data(f)
    /\ IF f.fn = "CONFIRMED_USER_DATA"
       THEN /\ x.sec.reset /\ f.fcb = x.sec.expectFCB
            /\ y.sec.reset /\ y.sec.expectFCB = ~x.sec.expectFCB
       ELSE y.sec = x.sec
    /\ Drops(y.reasm, g) \/ Grows(x.reasm, f.payload, y.reasm, g)

----------------------------------------------------------------------------
(* The steps of the line, in these terms.                                  *)
Spent(losses, early, restarts) ==
    /\ used'.losses = used.losses + losses
    /\ used'.early = used.early + early
    /\ used'.restarts = used.restarts + restarts

LoadStep ==
    /\ Spent(0, 0, 0) /\ UNCHANGED <<b, ba, delivered, acked, taken>>
    /\ \E n \in Nat \ {0} : \E w \in Senders : \E out \in Seq(Frames) :
         /\ Loads(a, w, Fragment(Len(sent) + 1, n)) /\ Pumps(w, a', out)
         /\ ab' = ab \o out /\ sent' = Append(sent, Fragment(Len(sent) + 1, n))

ProbeStep ==
    /\ Spent(0, 0, 0) /\ UNCHANGED <<b, ba, sent, delivered, acked, taken>>
    /\ a.seg.frag = <<>>
    /\ \E out \in Seq(Frames) : Probes(a, a', out) /\ ab' = ab \o out

TimeoutStep ==
    /\ \/ Spent(0, 0, 0) /\ ab = <<>> /\ ba = <<>>
       \/ Spent(0, 1, 0)
    /\ UNCHANGED <<b, ba, sent, delivered, acked, taken>>
    /\ \E out \in Seq(Frames) : /\ Fails(a, a', out) \/ Resends(a, a', out)
                                /\ ab' = ab \o out

ReplyStep ==
    /\ Spent(0, 0, 0) /\ UNCHANGED <<b, sent, delivered, taken>>
    /\ ba # <<>> /\ ba' = Tail(ba)
    /\ \E out \in Seq(Frames) : Drains(a, ba[1].fn, a', out) /\ ab' = ab \o out
    /\ acked' = IF a.pri.state = "waitConfirm" /\ ba[1].fn = "ACK"
                THEN acked \cup {a.pri.pending.payload} ELSE acked

HearStep ==
    /\ Spent(0, 0, 0) /\ UNCHANGED <<a, sent, delivered, acked, taken>>
    /\ ab # <<>> /\ ab' = Tail(ab)
    /\ \E fn \in {"ACK", "NACK", "LINK_STATUS"} : \E held \in BOOLEAN :
         Hears(b, ab[1], b', fn) /\ ba' = ba \o <<[fn |-> fn, dfc |-> held]>>

TakeStep ==
    /\ Spent(0, 0, 0) /\ UNCHANGED <<a, sent, acked>>
    /\ ab # <<>> /\ ab' = Tail(ab) /\ taken' = taken \cup {ab[1].payload.payload}
    /\ \E g \in Seq(Payloads) :
         /\ Takes(b, ab[1], b', g)
         /\ delivered' = IF g = NoFragment THEN delivered ELSE Append(delivered, g)
    /\ IF ab[1].fn = "CONFIRMED_USER_DATA"
       THEN \E held \in BOOLEAN : ba' = ba \o <<[fn |-> "ACK", dfc |-> held]>>
       ELSE ba' = ba

LoseFrameStep ==
    /\ Spent(1, 0, 0) /\ UNCHANGED <<a, b, ba, sent, delivered, acked, taken>>
    /\ ab # <<>> /\ ab' = Tail(ab)

LoseReplyStep ==
    /\ Spent(1, 0, 0) /\ UNCHANGED <<a, b, ab, sent, delivered, acked, taken>>
    /\ ba # <<>> /\ ba' = Tail(ba)

Forgotten == ~b'.sec.reset /\ ~b'.reasm.assembly

RestartStep ==
    /\ Spent(0, 0, 1) /\ UNCHANGED <<a, ab, ba, sent, delivered, acked, taken>>
    /\ Forgotten

ReconnectStep ==
    /\ Spent(0, 0, 0) /\ UNCHANGED <<sent, delivered, acked, taken>>
    /\ Forgotten /\ ab' = <<>> /\ ba' = <<>>
    /\ Fails(a, a', <<>>)

Step ==
    \/ LoadStep \/ ProbeStep \/ TimeoutStep \/ ReplyStep \/ HearStep \/ TakeStep
    \/ LoseFrameStep \/ LoseReplyStep \/ RestartStep \/ ReconnectStep

Joins(q, out, r) ==
    /\ DOMAIN r = 1..(Len(q) + Len(out))
    /\ \A k \in 1..Len(q) : r[k] = q[k]
    /\ \A k \in 1..Len(out) : r[Len(q) + k] = out[k]
    /\ \A k \in DOMAIN r : k \in 1..Len(q) \/ \E i \in 1..Len(out) : k = Len(q) + i

(* The segments are well formed.                                           *)
LEMMA SegmentsTyped ==
    ASSUME NEW g \in Segmenters, NEW i \in 1..Len(g.frag)
    PROVE  segAt(g, i) \in Segments
<1>1. g.frag[i] \in Payloads /\ g.seq \in Numbers /\ g.frag \in Seq(Payloads) /\ g.first \in BOOLEAN
  BY DEF Segmenters
<1>2. (g.seq + i - 1) % SegModulus \in Numbers
  BY <1>1, TransportAssumption DEF Numbers
<1>. QED BY <1>1, <1>2, Zenon DEF segAt, Segments

(* What is left of a fragment.                                             *)
LEMMA SegmenterTyped ==
    ASSUME NEW g \in Segmenters, NEW n \in 0..Len(g.frag)
    PROVE  /\ segAfter(g, n) \in Segmenters
           /\ segAfter(g, n).seq = (g.seq + n) % SegModulus
           /\ ~segAfter(g, n).first
           /\ Len(segAfter(g, n).frag) = Len(g.frag) - n
           /\ \A i \in 1..(Len(g.frag) - n) : segAfter(g, n).frag[i] = g.frag[n + i]
<1>1. g.seq \in Numbers /\ g.frag \in Seq(Payloads)
  BY Zenon DEF Segmenters
<1>2. (g.seq + n) % SegModulus \in Numbers
  BY <1>1, TransportAssumption DEF Numbers
<1>3. /\ SubSeq(g.frag, n + 1, Len(g.frag)) \in Seq(Payloads)
      /\ Len(SubSeq(g.frag, n + 1, Len(g.frag))) = Len(g.frag) - n
      /\ \A i \in 1..(Len(g.frag) - n) : SubSeq(g.frag, n + 1, Len(g.frag))[i] = g.frag[n + i]
  BY <1>1
<1>. QED BY <1>2, <1>3 DEF segAfter, Segmenters

LEMMA DataTyped ==
    ASSUME NEW f \in Frames, Data(f)
    PROVE  f.payload \in Segments /\ f.fcb \in BOOLEAN
BY DEF Frames, Data, DataFns, ResetLinkStates, StatusRequest, frame

(* Lists of frames.                                                        *)
LEMMA Joined ==
    ASSUME NEW S, NEW q \in Seq(S), NEW out \in Seq(S)
    PROVE  /\ q \o out \in Seq(S) /\ Len(q \o out) = Len(q) + Len(out)
           /\ \A k \in 1..Len(q) : (q \o out)[k] = q[k]
           /\ \A k \in 1..Len(out) : (q \o out)[Len(q) + k] = out[k]
           /\ \A k \in DOMAIN (q \o out) : k \in 1..Len(q) \/ \E i \in 1..Len(out) : k = Len(q) + i
           /\ DOMAIN (q \o out) = 1..(Len(q) + Len(out))
           /\ out = <<>> => q \o out = q
<1>1. \A k \in 1..(Len(q) + Len(out)) : k \in 1..Len(q) \/ \E i \in 1..Len(out) : k = Len(q) + i
  <2>1. SUFFICES ASSUME NEW k \in 1..(Len(q) + Len(out)), k \notin 1..Len(q)
                 PROVE  k - Len(q) \in 1..Len(out) /\ k = Len(q) + (k - Len(q))
    BY Zenon
  <2>. QED BY <2>1
<1>. QED BY <1>1

LEMMA JoinedFrames ==
    ASSUME NEW q \in Seq(Frames), NEW out \in Seq(Frames)
    PROVE  Joins(q, out, q \o out)
BY Joined DEF Joins

LEMMA Shorter ==
    ASSUME NEW S, NEW q \in Seq(S), q # <<>>
    PROVE  /\ Tail(q) \in Seq(S) /\ Len(Tail(q)) = Len(q) - 1 /\ Len(q) \in Nat \ {0}
           /\ \A k \in 1..(Len(q) - 1) : Tail(q)[k] = q[k + 1]
           /\ q[1] \in S /\ Head(q) = q[1] /\ DOMAIN Tail(q) = 1..(Len(q) - 1)
OBVIOUS

LEMMA FragmentTyped ==
    ASSUME NEW id \in Nat, NEW n \in Nat \ {0}
    PROVE  /\ Fragment(id, n) \in Seq(Payloads) /\ Len(Fragment(id, n)) = n
           /\ Fragment(id, n) # <<>>
           /\ \A i \in 1..n : Fragment(id, n)[i] = <<id, i>>
BY DEF Fragment, Payloads

----------------------------------------------------------------------------
(* What the sender's state says of what it sent last stays true.           *)
LEMMA PumpFits ==
    ASSUME NEW w \in Senders, NEW v \in Senders, NEW out, NEW c, Pumps(w, v, out),
           w.pri.state = "idle", ~w.awaiting, w.pri.useConfirms = c
    PROVE  Fits(v, c)
<1>0. /\ v.awaiting \in BOOLEAN /\ w.awaiting \in BOOLEAN /\ w.seg \in Segmenters
      /\ w.seg.frag \in Seq(Payloads)
  BY Zenon DEF Senders, Segmenters
<1>1. CASE Rests(w, v, out)
  BY <1>0, <1>1 DEF Fits, Rests, Same
<1>2. CASE SendsOne(w, v, out)
  <2>1. 1 \in 1..Len(w.seg.frag)
    BY <1>0, <1>2 DEF SendsOne
  <2>2. v.pri.pending \in Segments
    BY <1>0, <1>2, <2>1, SegmentsTyped, Zenon DEF SendsOne
  <2>3. v.awaiting = TRUE /\ v.pri.state # "idle" /\ v.pri.state # "waitStatus"
    BY <1>0, <1>2 DEF SendsOne
  <2>. QED BY <1>2, <2>2, <2>3, Zenon DEF Fits, SendsOne
<1>3. CASE SendsAll(w, v, out)
  <2>1. w.pri.useConfirms \in BOOLEAN /\ v.pri.useConfirms \in BOOLEAN
    BY Zenon DEF Senders, Primaries
  <2>2. v.pri.useConfirms = c /\ v.awaiting = FALSE /\ v.pri.state = "idle"
    BY <1>0, <1>3, <2>1 DEF SendsAll
  <2>. QED BY <2>2, Zenon DEF Fits
<1>. QED BY <1>1, <1>2, <1>3, Zenon DEF Pumps

LEMMA SaneStep ==
    ASSUME TypeOK, Sane, TypeOK', Step, line' = line
    PROVE  Sane'
<1>. DEFINE c == line.confirms
<1>0. /\ a \in Senders /\ a' \in Senders /\ a.awaiting \in BOOLEAN /\ a'.awaiting \in BOOLEAN
      /\ Fits(a, c)
  BY Zenon DEF TypeOK, Senders, Sane
<1>1. SUFFICES Fits(a', c)
  BY Zenon DEF Sane
<1>. HIDE DEF c
<1>2. ASSUME NEW out, Rests(a, a', out) \/ Resends(a, a', out) PROVE Fits(a', c)
  BY <1>0, <1>2, Zenon DEF Fits, Rests, Resends, Same
<1>3. ASSUME NEW out, Fails(a, a', out) PROVE Fits(a', c)
  BY <1>0, <1>3, Zenon DEF Fits, Fails
<1>4. ASSUME NEW out, Establishes(a, a', out) PROVE Fits(a', c)
  BY <1>0, <1>4 DEF Fits, Establishes
<1>5. ASSUME NEW out, Renews(a, a', out) PROVE Fits(a', c)
  BY <1>0, <1>5 DEF Fits, Renews
<1>6. ASSUME NEW out, Probes(a, a', out), a.seg.frag = <<>> PROVE Fits(a', c)
  BY <1>0, <1>6, Zenon DEF Fits, Probes
<1>7. ASSUME NEW out, NEW w \in Senders, Completes(a, w), Pumps(w, a', out) PROVE Fits(a', c)
  BY <1>0, <1>7, PumpFits DEF Fits, Completes
<1>8. ASSUME NEW out, NEW w \in Senders, NEW F, Loads(a, w, F), Pumps(w, a', out) PROVE Fits(a', c)
  BY <1>0, <1>8, PumpFits DEF Fits, Loads
<1>9. CASE a' = a
  BY <1>0, <1>9
<1>10. CASE LoadStep
  BY <1>8, <1>10, Zenon DEF LoadStep
<1>11. CASE ProbeStep
  BY <1>6, <1>11, Zenon DEF ProbeStep
<1>12. CASE TimeoutStep
  BY <1>2, <1>3, <1>12, Zenon DEF TimeoutStep
<1>13. CASE ReplyStep
  BY <1>2, <1>3, <1>4, <1>5, <1>7, <1>13, Zenon DEF ReplyStep, Drains
<1>14. CASE ReconnectStep
  BY <1>3, <1>14, Zenon DEF ReconnectStep
<1>. QED BY <1>9, <1>10, <1>11, <1>12, <1>13, <1>14, Zenon
         DEF Step, HearStep, TakeStep, LoseFrameStep, LoseReplyStep, RestartStep

----------------------------------------------------------------------------
(* The segments of the rest of a fragment.                                 *)
LEMMA SegmentsCut ==
    ASSUME NEW s \in Seq(Seq(Payloads)), NEW g \in Segmenters, Rest(s, g), NEW i \in 1..Len(g.frag)
    PROVE  /\ Cut(s, segAt(g, i))
           /\ segAt(g, i).payload = <<Len(s), Len(s[Len(s)]) - Len(g.frag) + i>>
<1>. DEFINE n == Len(s)
            m == Len(s[n])
            k == Len(g.frag)
            h == segAt(g, i)
<1>1. n \in Nat /\ n \in DOMAIN s /\ m \in Nat /\ k \in Nat /\ k <= m /\ g.first = (k = m)
  BY DEF Rest, Segmenters
<1>2. h.payload = <<n, m - k + i>>
  BY Zenon DEF segAt, Rest
<1>3. h.payload[1] = n /\ h.payload[2] = m - k + i
  BY <1>2
<1>4. h.fir = (g.first /\ i = 1) /\ h.fin = (i = k)
  BY Zenon DEF segAt
<1>. HIDE DEF h, n, m, k
<1>5. i \in 1..k
  BY Zenon DEF k
<1>6. m - k + i \in 1..m
  BY <1>1, <1>5
<1>7. (g.first /\ i = 1) = (m - k + i = 1) /\ (i = k) = (m - k + i = m)
  <2>1. ((k = m) /\ i = 1) <=> (m - k + i = 1)
    BY <1>1, <1>5
  <2>2. (i = k) <=> (m - k + i = m)
    BY <1>1, <1>5
  <2>. QED BY <2>1, <2>2, <1>1, Zenon
<1>8. Cut(s, h)
  BY <1>1, <1>3, <1>4, <1>6, <1>7, Zenon DEF Cut, n, m
<1>. QED BY <1>2, <1>8, Zenon DEF h, n, m, k

LEMMA RestAfter ==
    ASSUME NEW s \in Seq(Seq(Payloads)), NEW g \in Segmenters, Rest(s, g), g.frag # <<>>
    PROVE  /\ Rest(s, segAfter(g, 1))
           /\ Len(segAfter(g, 1).frag) = Len(g.frag) - 1
<1>. DEFINE n == Len(s)
            m == Len(s[n])
            k == Len(g.frag)
            t == segAfter(g, 1)
<1>1. n \in Nat /\ m \in Nat /\ k \in Nat /\ k <= m /\ k >= 1 /\ n > 0
  BY DEF Rest, Segmenters
<1>2. /\ ~t.first /\ t.first \in BOOLEAN /\ Len(t.frag) = k - 1
      /\ \A i \in 1..(k - 1) : t.frag[i] = g.frag[1 + i]
  <2>1. 1 \in 0..k
    BY <1>1
  <2>2. /\ t \in Segmenters /\ ~t.first /\ Len(t.frag) = k - 1
        /\ \A i \in 1..(k - 1) : t.frag[i] = g.frag[1 + i]
    BY <2>1, SegmenterTyped, Zenon
  <2>. QED BY <2>2, Zenon DEF Segmenters
<1>3. \A i \in 1..k : g.frag[i] = <<n, m - k + i>>
  BY Zenon DEF Rest
<1>. HIDE DEF n, m, k, t
<1>4. \A i \in 1..(k - 1) : t.frag[i] = <<n, m - (k - 1) + i>>
  <2>1. \A i \in 1..(k - 1) : 1 + i \in 1..k /\ m - k + (1 + i) = m - (k - 1) + i
    BY <1>1
  <2>. QED BY <2>1, <1>2, <1>3, Zenon
<1>5. t.first = (k - 1 = m)
  BY <1>1, <1>2
<1>6. k - 1 <= m
  BY <1>1
<1>. QED BY <1>1, <1>2, <1>4, <1>5, <1>6, Zenon DEF Rest, n, m, k, t

(* A list of one frame, a longer list, a shorter list.                     *)
LEMMA CutsLists ==
    ASSUME NEW s, NEW c, NEW q \in Seq(Frames), NEW out \in Seq(Frames)
    PROVE  /\ Cuts(s, <<>>, c)
           /\ Cuts(s, q, c) /\ Cuts(s, out, c) => Cuts(s, q \o out, c)
           /\ Cuts(s, q, c) /\ q # <<>> => Cuts(s, Tail(q), c)
<1>1. Cuts(s, <<>>, c)
  BY DEF Cuts
<1>2. ASSUME Cuts(s, q, c), Cuts(s, out, c) PROVE Cuts(s, q \o out, c)
  BY <1>2, Joined DEF Cuts
<1>3. ASSUME Cuts(s, q, c), q # <<>> PROVE Cuts(s, Tail(q), c)
  BY <1>3, Shorter DEF Cuts
<1>. QED BY <1>1, <1>2, <1>3, Zenon

LEMMA CutsOne ==
    ASSUME NEW s, NEW c, NEW f,
           Data(f) => Cut(s, f.payload) /\ (f.fn = "CONFIRMED_USER_DATA") = c
    PROVE  Cuts(s, <<f>>, c)
<1>1. DOMAIN <<f>> = {1} /\ <<f>>[1] = f
  OBVIOUS
<1>. QED BY <1>1, Zenon DEF Cuts

LEMMA PumpCarries ==
    ASSUME NEW s \in Seq(Seq(Payloads)), NEW w \in Senders, NEW v \in Senders, NEW out \in Seq(Frames),
           NEW c, Pumps(w, v, out), w.pri.state = "idle", w.pri.useConfirms = c,
           w.seg.frag # <<>> => Rest(s, w.seg)
    PROVE  Carries(s, v) /\ Cuts(s, out, c)
<1>0. w.seg \in Segmenters /\ w.seg.frag \in Seq(Payloads)
  BY DEF Senders, Segmenters
<1>1. CASE Rests(w, v, out)
  BY <1>1, CutsLists, Zenon DEF Carries, Rests, Same, Sends
<1>2. CASE SendsOne(w, v, out)
  <2>0. 1 \in 1..Len(w.seg.frag) /\ Rest(s, w.seg)
    BY <1>0, <1>2 DEF SendsOne
  <2>1. /\ Cut(s, v.pri.pending)
        /\ v.pri.pending.payload = <<Len(s), Len(s[Len(s)]) - Len(w.seg.frag) + 1>>
    BY <1>0, <1>2, <2>0, SegmentsCut, ZenonT(60) DEF SendsOne
  <2>2. Rest(s, v.seg) /\ Len(v.seg.frag) = Len(w.seg.frag) - 1
    BY <1>0, <1>2, <2>0, RestAfter, Zenon DEF SendsOne
  <2>3. Len(s[Len(s)]) - Len(w.seg.frag) + 1 = Len(s[Len(s)]) - Len(v.seg.frag)
    <3>1. Len(s[Len(s)]) \in Nat /\ Len(w.seg.frag) \in Nat
      BY <1>0, <2>0 DEF Rest
    <3>. QED BY <3>1, <2>2
  <2>4. Carries(s, v)
    BY <2>0, <2>1, <2>2, <2>3, Zenon DEF Carries, Rest
  <2>5. Cuts(s, <<v.pri.lastSent>>, c)
    <3>1. CASE w.pri.linkUp
      <4>1. v.pri.lastSent = frame("CONFIRMED_USER_DATA", v.pri.fcb, v.pri.pending) /\ c = TRUE
        <5>1. w.pri.useConfirms \in BOOLEAN
          BY DEF Senders, Primaries
        <5>. QED BY <1>2, <3>1, <5>1 DEF SendsOne
      <4>2. v.pri.lastSent.payload = v.pri.pending /\ v.pri.lastSent.fn = "CONFIRMED_USER_DATA"
        BY <4>1 DEF frame
      <4>. QED BY <4>1, <4>2, <2>1, CutsOne, Zenon
    <3>2. CASE ~w.pri.linkUp
      <4>1. ~Data(v.pri.lastSent)
        BY <1>2, <3>2 DEF SendsOne, Data, DataFns, ResetLinkStates, frame
      <4>. QED BY <4>1, CutsOne, Zenon
    <3>. QED BY <3>1, <3>2, Zenon
  <2>. QED BY <2>4, <2>5, <1>2, Zenon DEF SendsOne
<1>3. CASE SendsAll(w, v, out)
  <2>. DEFINE n == Len(w.seg.frag)
  <2>0. n \in Nat /\ Rest(s, w.seg) /\ c = FALSE
    <3>1. w.pri.useConfirms \in BOOLEAN
      BY Zenon DEF Senders, Primaries
    <3>. QED BY <1>0, <1>3, <3>1 DEF SendsAll
  <2>1. v.seg.frag = <<>>
    <3>1. n \in 0..n /\ v.seg = segAfter(w.seg, n)
      BY <2>0, <1>3 DEF SendsAll
    <3>2. Len(v.seg.frag) = n - n /\ v.seg \in Segmenters
      BY <3>1, <1>0, SegmenterTyped, Zenon
    <3>. QED BY <3>2, <2>0 DEF Segmenters
  <2>2. Carries(s, v)
    BY <2>1, <1>3 DEF Carries, SendsAll, Sends
  <2>3. /\ DOMAIN out = 1..n
        /\ \A i \in 1..n : out[i] = frame("UNCONFIRMED_USER_DATA", FALSE, segAt(w.seg, i))
    BY <1>3, Zenon DEF SendsAll
  <2>4. \A i \in 1..n : out[i].payload = segAt(w.seg, i) /\ out[i].fn # "CONFIRMED_USER_DATA"
    <3>. HIDE DEF n
    <3>. QED BY <2>3 DEF frame
  <2>5. \A i \in 1..n : Cut(s, segAt(w.seg, i))
    BY <1>0, <2>0, SegmentsCut, Zenon
  <2>6. Cuts(s, out, c)
    <3>. HIDE DEF n
    <3>. QED BY <2>0, <2>3, <2>4, <2>5, Zenon DEF Cuts
  <2>. QED BY <2>2, <2>6
<1>. QED BY <1>1, <1>2, <1>3 DEF Pumps

(* One more fragment is handed to SendTo.                                  *)
Longer(s, t, F, n) ==
    /\ t \in Seq(Seq(Payloads)) /\ Len(t) = Len(s) + 1 /\ t[Len(t)] = F
    /\ \A id \in DOMAIN s : id \in DOMAIN t /\ t[id] = s[id]
    /\ \A id \in DOMAIN t : id \in DOMAIN s \/ id = Len(t)
    /\ F \in Seq(Payloads) /\ Len(F) = n /\ F # <<>> /\ \A i \in DOMAIN F : F[i] = <<Len(t), i>>

LEMMA OneMore ==
    ASSUME NEW s \in Seq(Seq(Payloads)), NEW n \in Nat \ {0}
    PROVE  Longer(s, Append(s, Fragment(Len(s) + 1, n)), Fragment(Len(s) + 1, n), n)
<1>. DEFINE F == Fragment(Len(s) + 1, n)
            t == Append(s, F)
<1>1. F \in Seq(Payloads) /\ Len(F) = n /\ F # <<>> /\ \A i \in 1..n : F[i] = <<Len(s) + 1, i>>
  BY FragmentTyped
<1>2. /\ t \in Seq(Seq(Payloads)) /\ Len(t) = Len(s) + 1 /\ t[Len(t)] = F
      /\ \A id \in DOMAIN s : id \in DOMAIN t /\ t[id] = s[id]
      /\ \A id \in DOMAIN t : id \in DOMAIN s \/ id = Len(t)
  BY <1>1
<1>3. DOMAIN F = 1..n
  BY <1>1
<1>4. Longer(s, t, F, n)
  <2>. HIDE DEF F, t
  <2>. QED BY <1>1, <1>2, <1>3, Zenon DEF Longer
<1>. QED BY <1>4

LEMMA CutMore ==
    ASSUME NEW s, NEW t, NEW h, \A id \in DOMAIN s : id \in DOMAIN t /\ t[id] = s[id], Cut(s, h)
    PROVE  Cut(t, h)
BY Zenon DEF Cut

(* All of the fragment that was handed over last is to be sent.            *)
LEMMA RestOfNew ==
    ASSUME NEW s \in Seq(Seq(Payloads)), NEW t \in Seq(Seq(Payloads)), NEW F, NEW n \in Nat \ {0},
           Len(t) = Len(s) + 1, t[Len(t)] = F, Len(F) = n, \A i \in DOMAIN F : F[i] = <<Len(t), i>>,
           NEW g \in Segmenters, g.frag = F, g.first
    PROVE  Rest(t, g)
<1>1. Len(s) \in Nat /\ g.first \in BOOLEAN /\ DOMAIN F = 1..n
  BY DEF Segmenters
<1>2. \A i \in 1..n : i = n - n + i
  OBVIOUS
<1>3. Len(t) > 0 /\ n <= n
  BY <1>1
<1>4. \A i \in 1..n : F[i] = <<Len(t), n - n + i>>
  BY <1>1, <1>2, ZenonT(60)
<1>5. g.first = (n = n)
  BY <1>1, Zenon
<1>. QED BY <1>3, <1>4, <1>5, Zenon DEF Rest

(* The frames under way carry segments of what was sent.                   *)
LEMMA FragmentsStep ==
    ASSUME TypeOK, Sane, Fragments, TypeOK', Step, line' = line
    PROVE  Fragments'
<1>. DEFINE c == line.confirms
            Goal == Made(sent') /\ Carries(sent', a') /\ Cuts(sent', ab', c)
<1>0. /\ a \in Senders /\ a' \in Senders /\ ab \in Seq(Frames) /\ sent \in Seq(Seq(Payloads))
      /\ sent' \in Seq(Seq(Payloads)) /\ Fits(a, c) /\ c \in BOOLEAN
      /\ Made(sent) /\ Carries(sent, a) /\ Cuts(sent, ab, c) /\ (~c => acked = {})
  BY LinesAssumption DEF TypeOK, Sane, Fragments
<1>1. SUFFICES Goal /\ (~c => acked' = {})
  BY DEF Fragments
<1>. HIDE DEF c
<1>2. ASSUME NEW out \in Seq(Frames), sent' = sent, ab' = ab \o out, Carries(sent, a'), Cuts(sent, out, c)
      PROVE  Goal
  BY <1>0, <1>2, CutsLists, Zenon
<1>3. ASSUME NEW out \in Seq(Frames), sent' = sent, ab' = ab \o out, Rests(a, a', out) PROVE Goal
  <2>1. Carries(sent, a')
    BY <1>0, <1>3, Zenon DEF Carries, Rests, Same, Sends
  <2>. QED BY <2>1, <1>0, <1>2, <1>3, CutsLists, Zenon DEF Rests
<1>4. ASSUME NEW out \in Seq(Frames), sent' = sent, ab' = ab \o out, Resends(a, a', out) PROVE Goal
  <2>1. Carries(sent, a')
    BY <1>0, <1>4, Zenon DEF Carries, Resends, Same, Sends
  <2>2. Data(a.pri.lastSent) =>
          Cut(sent, a.pri.lastSent.payload) /\ (a.pri.lastSent.fn = "CONFIRMED_USER_DATA") = c
    <3>1. a.pri.state \in States
      BY <1>0 DEF Senders, Primaries
    <3>2. CASE a.pri.state = "waitConfirm"
      <4>1. /\ a.pri.lastSent = frame("CONFIRMED_USER_DATA", a.pri.fcb, a.pri.pending)
            /\ Cut(sent, a.pri.pending) /\ c = TRUE
        BY <1>0, <3>2 DEF Fits, Carries, Sends
      <4>2. a.pri.lastSent.payload = a.pri.pending /\ a.pri.lastSent.fn = "CONFIRMED_USER_DATA"
        BY <4>1 DEF frame
      <4>. QED BY <4>1, <4>2, Zenon
    <3>3. CASE a.pri.state \in {"waitLinkReset", "waitStatus"}
      <4>1. a.pri.lastSent \in {ResetLinkStates, StatusRequest}
        BY <1>0, <3>3, Zenon DEF Fits
      <4>. QED BY <4>1 DEF Data, DataFns, ResetLinkStates, StatusRequest, frame
    <3>. QED BY <1>4, <3>1, <3>2, <3>3, Zenon DEF States, Resends
  <2>. QED BY <2>1, <2>2, <1>0, <1>2, <1>4, CutsOne, Zenon DEF Resends
<1>5. ASSUME NEW out \in Seq(Frames), sent' = sent, ab' = ab \o out, Fails(a, a', out) PROVE Goal
  <2>1. Carries(sent, a')
    BY <1>5 DEF Carries, Fails, Sends
  <2>. QED BY <2>1, <1>0, <1>2, <1>5, CutsLists, Zenon DEF Fails
<1>6. ASSUME NEW out \in Seq(Frames), sent' = sent, ab' = ab \o out, Probes(a, a', out) PROVE Goal
  <2>1. Carries(sent, a')
    BY <1>0, <1>6 DEF Carries, Probes, Sends
  <2>2. ~Data(StatusRequest)
    BY DEF Data, DataFns, StatusRequest, frame
  <2>. QED BY <2>1, <2>2, <1>2, <1>6, CutsOne, ZenonT(60) DEF Probes
<1>7. ASSUME NEW out \in Seq(Frames), sent' = sent, ab' = ab \o out, Renews(a, a', out) PROVE Goal
  <2>1. Carries(sent, a')
    BY <1>0, <1>7, Zenon DEF Carries, Renews, Sends
  <2>2. ~Data(ResetLinkStates)
    BY DEF Data, DataFns, ResetLinkStates, frame
  <2>. QED BY <2>1, <2>2, <1>2, <1>7, CutsOne, Zenon DEF Renews
<1>8. ASSUME NEW out \in Seq(Frames), sent' = sent, ab' = ab \o out, Establishes(a, a', out) PROVE Goal
  <2>1. Carries(sent, a')
    BY <1>0, <1>8, ZenonT(60) DEF Carries, Establishes, Sends
  <2>2. /\ a'.pri.lastSent = frame("CONFIRMED_USER_DATA", a'.pri.fcb, a.pri.pending)
        /\ Cut(sent, a.pri.pending) /\ c = TRUE
    BY <1>0, <1>8 DEF Establishes, Fits, Carries, Sends
  <2>3. Cut(sent, a'.pri.lastSent.payload) /\ (a'.pri.lastSent.fn = "CONFIRMED_USER_DATA") = c
    <3>1. a'.pri.lastSent.payload = a.pri.pending /\ a'.pri.lastSent.fn = "CONFIRMED_USER_DATA"
      BY <2>2 DEF frame
    <3>. QED BY <2>2, <3>1, Zenon
  <2>. QED BY <2>1, <2>3, <1>2, <1>8, CutsOne, ZenonT(60) DEF Establishes
<1>9. ASSUME NEW out \in Seq(Frames), sent' = sent, ab' = ab \o out,
             NEW w \in Senders, Completes(a, w), Pumps(w, a', out)
      PROVE  Goal
  <2>1. /\ w.pri.state = "idle" /\ w.pri.useConfirms = c
        /\ w.seg.frag # <<>> => Rest(sent, w.seg)
    BY <1>0, <1>9, Zenon DEF Completes, Fits, Carries
  <2>2. Carries(sent, a') /\ Cuts(sent, out, c)
    BY <1>0, <1>9, <2>1, PumpCarries, Zenon
  <2>. QED BY <2>2, <1>2, <1>9, Zenon
<1>10. ASSUME LoadStep PROVE Goal
  <2>1. PICK n \in Nat \ {0}, w \in Senders, out \in Seq(Frames) :
          /\ Loads(a, w, Fragment(Len(sent) + 1, n)) /\ Pumps(w, a', out)
          /\ ab' = ab \o out /\ sent' = Append(sent, Fragment(Len(sent) + 1, n))
    BY <1>10, Zenon DEF LoadStep
  <2>. DEFINE F == Fragment(Len(sent) + 1, n)
  <2>2. Loads(a, w, F) /\ Pumps(w, a', out) /\ ab' = ab \o out /\ sent' = Append(sent, F)
    BY <2>1, Zenon
  <2>. HIDE DEF F
  <2>3. /\ Len(sent') = Len(sent) + 1 /\ sent'[Len(sent')] = F
        /\ \A id \in DOMAIN sent : id \in DOMAIN sent' /\ sent'[id] = sent[id]
        /\ \A id \in DOMAIN sent' : id \in DOMAIN sent \/ id = Len(sent')
        /\ F \in Seq(Payloads) /\ Len(F) = n /\ F # <<>> /\ \A i \in DOMAIN F : F[i] = <<Len(sent'), i>>
    <3>1. F = Fragment(Len(sent) + 1, n) /\ sent' = Append(sent, F) /\ sent \in Seq(Seq(Payloads))
      BY <1>0, <2>2, Zenon DEF F
    <3>2. Longer(sent, sent', F, n)
      BY <3>1, OneMore, Zenon
    <3>. QED BY <3>2, Zenon DEF Longer
  <2>4. Made(sent')
    BY <1>0, <2>3, ZenonT(60) DEF Made
  <2>5. Cuts(sent', ab, c)
    <3>1. \A h : Cut(sent, h) => Cut(sent', h)
      <4>1. \A id \in DOMAIN sent : id \in DOMAIN sent' /\ sent'[id] = sent[id]
        BY <2>3
      <4>. QED BY <4>1, CutMore, Zenon
    <3>2. Cuts(sent, ab, c)
      BY <1>0
    <3>. QED BY <3>1, <3>2, Zenon DEF Cuts
  <2>6. /\ w.pri.state = "idle" /\ w.pri.useConfirms = c
        /\ w.seg.frag # <<>> => Rest(sent', w.seg)
    <3>1. w.pri.state = "idle" /\ w.pri.useConfirms = c /\ w.seg.frag = F /\ w.seg.first
      BY <1>0, <2>2, Zenon DEF Loads, Fits
    <3>2. sent \in Seq(Seq(Payloads)) /\ sent' \in Seq(Seq(Payloads)) /\ w.seg \in Segmenters
      BY <1>0, Zenon DEF Senders
    <3>3. /\ Len(sent') = Len(sent) + 1 /\ sent'[Len(sent')] = F /\ Len(F) = n
          /\ \A i \in DOMAIN F : F[i] = <<Len(sent'), i>>
      BY <2>3
    <3>4. Rest(sent', w.seg)
      BY <3>1, <3>2, <3>3, RestOfNew, Zenon
    <3>. QED BY <3>1, <3>4
  <2>7. Carries(sent', a') /\ Cuts(sent', out, c)
    BY <1>0, <2>2, <2>6, PumpCarries, Zenon
  <2>. QED BY <2>2, <2>4, <2>5, <2>7, <1>0, CutsLists, Zenon
<1>11. ASSUME ProbeStep PROVE Goal
  BY <1>6, <1>11, Zenon DEF ProbeStep
<1>12. ASSUME TimeoutStep PROVE Goal
  BY <1>4, <1>5, <1>12, Zenon DEF TimeoutStep
<1>13. ASSUME ReplyStep PROVE Goal
  BY <1>3, <1>5, <1>7, <1>8, <1>9, <1>13, Zenon DEF ReplyStep, Drains
<1>14. ASSUME ReconnectStep PROVE Goal
  <2>1. sent' = sent /\ ab' = <<>> /\ Carries(sent, a')
    BY <1>14 DEF ReconnectStep, Carries, Fails, Sends
  <2>. QED BY <2>1, <1>0, CutsLists, Zenon
<1>15. ASSUME HearStep \/ TakeStep \/ LoseFrameStep PROVE Goal
  <2>1. sent' = sent /\ a' = a /\ ab # <<>> /\ ab' = Tail(ab)
    BY <1>15, Zenon DEF HearStep, TakeStep, LoseFrameStep
  <2>. QED BY <2>1, <1>0, CutsLists, Zenon
<1>16. ASSUME LoseReplyStep \/ RestartStep PROVE Goal
  BY <1>0, <1>16, Zenon DEF LoseReplyStep, RestartStep
<1>17. Goal
  BY <1>10, <1>11, <1>12, <1>13, <1>14, <1>15, <1>16, Zenon DEF Step
<1>18. ~c => acked' = {}
  <2>1. ~c => ~(a.pri.state = "waitConfirm")
    BY <1>0, Zenon DEF Fits
  <2>. QED BY <2>1, <1>0, Zenon DEF Step, LoadStep, ProbeStep, TimeoutStep, ReplyStep, ReconnectStep,
              HearStep, TakeStep, LoseFrameStep, LoseReplyStep, RestartStep
<1>. QED BY <1>17, <1>18

----------------------------------------------------------------------------
(* With link confirms one frame, or its reply, is under way.               *)
LEMMA HearsWhat ==
    ASSUME NEW x, NEW f, NEW y, NEW fn, Hears(x, f, y, fn)
    PROVE  /\ y.reasm = x.reasm
           /\ \/ f.fn = "RESET_LINK_STATES" /\ y.sec.reset /\ y.sec.expectFCB /\ fn = "ACK"
              \/ f.fn = "REQUEST_LINK_STATUS" /\ y.sec = x.sec /\ fn = "LINK_STATUS"
              \/ f.fn = "CONFIRMED_USER_DATA" /\ ~x.sec.reset /\ y.sec = x.sec /\ fn = "NACK"
              \/ /\ f.fn = "CONFIRMED_USER_DATA" /\ x.sec.reset /\ f.fcb # x.sec.expectFCB
                 /\ y.sec = x.sec /\ fn = "ACK"
<1>1. ResetLinkStates.fn = "RESET_LINK_STATES" /\ StatusRequest.fn = "REQUEST_LINK_STATUS"
  BY DEF ResetLinkStates, StatusRequest, frame
<1>. QED BY <1>1, Zenon DEF Hears

LEMMA HearsReset ==
    ASSUME NEW x, NEW f, NEW y, NEW fn, Hears(x, f, y, fn), x.sec.reset
    PROVE  y.sec.reset
BY Zenon DEF Hears

LEMMA UnderWay ==
    ASSUME TypeOK, Sane, Alone, ab # <<>>
    PROVE  /\ Tail(ab) = <<>> /\ ba = <<>> /\ a.pri.state \in {"waitLinkReset", "waitConfirm", "waitStatus"}
           /\ a.pri.state = "waitLinkReset" => ab[1].fn = "RESET_LINK_STATES"
           /\ a.pri.state = "waitStatus" => ab[1].fn = "REQUEST_LINK_STATUS"
           /\ a.pri.state = "waitConfirm" =>
                /\ ab[1].fn = "CONFIRMED_USER_DATA" /\ ab[1].fcb = a.pri.fcb
                /\ ab[1].payload = a.pri.pending
<1>1. ab[1] = a.pri.lastSent /\ ba = <<>> /\ a.pri.state # "idle" /\ Len(ab) <= 1
  BY DEF Alone
<1>2. a.pri.state \in States
  BY DEF TypeOK, Senders, Primaries
<1>3. Tail(ab) = <<>>
  BY <1>1 DEF TypeOK
<1>4. a.pri.state = "waitLinkReset" => ab[1].fn = "RESET_LINK_STATES"
  BY <1>1 DEF Sane, Fits, ResetLinkStates, frame
<1>5. a.pri.state = "waitStatus" => ab[1].fn = "REQUEST_LINK_STATUS"
  BY <1>1 DEF Sane, Fits, StatusRequest, frame
<1>6. ASSUME a.pri.state = "waitConfirm"
      PROVE  /\ ab[1].fn = "CONFIRMED_USER_DATA" /\ ab[1].fcb = a.pri.fcb
             /\ ab[1].payload = a.pri.pending
  <2>1. ab[1] = frame("CONFIRMED_USER_DATA", a.pri.fcb, a.pri.pending)
    BY <1>1, <1>6 DEF Sane, Fits
  <2>. QED BY <2>1 DEF frame
<1>. QED BY <1>1, <1>2, <1>3, <1>4, <1>5, <1>6 DEF States

(* While nothing arrives early, a timeout finds nothing under way.         *)
LEMMA Prompt ==
    ASSUME TypeOK, Confirming, Confirming', TimeoutStep
    PROVE  ab = <<>> /\ ba = <<>>
<1>1. used.early = 0 /\ used'.early = 0
  BY DEF Confirming
<1>2. ~Spent(0, 1, 0)
  BY <1>1 DEF Spent
<1>. QED BY <1>2, Zenon DEF TimeoutStep

(* What the sender writes at once.                                         *)
AtOnce(v, out) == out = <<>> \/ (out = <<v.pri.lastSent>> /\ v.pri.state # "idle")

LEMMA PumpAtOnce ==
    ASSUME NEW w, NEW v, NEW out, Pumps(w, v, out), w.pri.useConfirms
    PROVE  AtOnce(v, out) /\ ~SendsAll(w, v, out)
<1>1. ~SendsAll(w, v, out)
  BY DEF SendsAll
<1>2. CASE SendsOne(w, v, out)
  <2>1. v.pri.state # "idle" /\ out = <<v.pri.lastSent>>
    BY <1>2 DEF SendsOne
  <2>. QED BY <1>1, <2>1 DEF AtOnce
<1>3. CASE Rests(w, v, out)
  BY <1>1, <1>3 DEF AtOnce, Rests
<1>. QED BY <1>1, <1>2, <1>3 DEF Pumps

LEMMA AloneStep ==
    ASSUME TypeOK, Sane, Alone, Confirming, Confirming', Step
    PROVE  Alone'
<1>0. /\ ab \in Seq(Frames) /\ ba \in Seq(Answers) /\ a.pri.useConfirms
      /\ a.awaiting = (a.pri.state # "idle")
  BY DEF TypeOK, Sane, Fits, Confirming
<1>1. ASSUME NEW out \in Seq(Frames), ab = <<>>, ba' = <<>>, ab' = ab \o out, AtOnce(a', out)
      PROVE  Alone'
  <2>1. ab' = out
    BY <1>1
  <2>2. CASE out = <<>>
    BY <1>1, <2>1, <2>2 DEF Alone
  <2>3. CASE out = <<a'.pri.lastSent>> /\ a'.pri.state # "idle"
    BY <1>1, <2>1, <2>3 DEF Alone
  <2>. QED BY <1>1, <2>2, <2>3 DEF AtOnce
<1>2. a.pri.state = "idle" => ab = <<>> /\ ba = <<>>
  BY DEF Alone
<1>3. ba # <<>> => ab = <<>> /\ Tail(ba) = <<>>
  BY <1>0 DEF Alone
<1>4. CASE LoadStep
  <2>1. PICK n \in Nat \ {0}, w \in Senders, out \in Seq(Frames) :
          Loads(a, w, Fragment(Len(sent) + 1, n)) /\ Pumps(w, a', out) /\ ab' = ab \o out
    BY <1>4, Zenon DEF LoadStep
  <2>2. w.pri.useConfirms /\ a.pri.state = "idle"
    BY <1>0, <2>1 DEF Loads
  <2>. QED BY <1>1, <1>2, <1>4, <2>1, <2>2, PumpAtOnce, Zenon DEF LoadStep
<1>5. CASE ProbeStep
  <2>1. PICK out \in Seq(Frames) : Probes(a, a', out) /\ ab' = ab \o out
    BY <1>5, Zenon DEF ProbeStep
  <2>2. AtOnce(a', out) /\ a.pri.state = "idle"
    BY <2>1 DEF Probes, AtOnce
  <2>. QED BY <1>1, <1>2, <1>5, <2>1, <2>2, Zenon DEF ProbeStep
<1>6. CASE TimeoutStep
  <2>0. ab = <<>> /\ ba = <<>>
    BY <1>6, Prompt
  <2>1. PICK out \in Seq(Frames) : (Fails(a, a', out) \/ Resends(a, a', out)) /\ ab' = ab \o out
    BY <1>6, Zenon DEF TimeoutStep
  <2>2. AtOnce(a', out)
    BY <2>1, Zenon DEF Fails, Resends, Same, AtOnce
  <2>. QED BY <1>1, <1>6, <2>0, <2>1, <2>2, Zenon DEF TimeoutStep
<1>7. CASE ReplyStep
  <2>1. PICK out \in Seq(Frames) : Drains(a, ba[1].fn, a', out) /\ ab' = ab \o out
    BY <1>7, Zenon DEF ReplyStep
  <2>2. AtOnce(a', out)
    <3>1. \A w \in Senders : Completes(a, w) => w.pri.useConfirms
      BY <1>0, Zenon DEF Completes
    <3>2. ASSUME Rests(a, a', out) \/ Fails(a, a', out) PROVE AtOnce(a', out)
      BY <3>2, Zenon DEF Rests, Fails, AtOnce
    <3>3. ASSUME Establishes(a, a', out) \/ Renews(a, a', out) PROVE AtOnce(a', out)
      BY <3>3 DEF Establishes, Renews, AtOnce
    <3>. QED BY <2>1, <3>1, <3>2, <3>3, PumpAtOnce, Zenon DEF Drains
  <2>. QED BY <1>1, <1>3, <1>7, <2>1, <2>2, Zenon DEF ReplyStep
<1>8. CASE HearStep
  <2>1. ab # <<>> /\ ab' = Tail(ab) /\ a' = a
    BY <1>8, Zenon DEF HearStep
  <2>2. PICK fn \in {"ACK", "NACK", "LINK_STATUS"}, held \in BOOLEAN :
          Hears(b, ab[1], b', fn) /\ ba' = ba \o <<[fn |-> fn, dfc |-> held]>>
    BY <1>8, Zenon DEF HearStep
  <2>3. ab' = <<>> /\ ba' = <<[fn |-> fn, dfc |-> held]>>
    BY <2>1, <2>2, UnderWay
  <2>4. ba'[1].fn = fn /\ Len(ba') = 1 /\ Len(ab') = 0
    BY <2>3
  <2>5. /\ a.pri.state = "waitLinkReset" => fn = "ACK"
        /\ a.pri.state = "waitConfirm" => fn \in {"ACK", "NACK"}
        /\ a.pri.state = "waitStatus" => fn = "LINK_STATUS"
        /\ a.pri.state # "idle"
    BY <2>1, <2>2, UnderWay, HearsWhat
  <2>. QED BY <2>1, <2>3, <2>4, <2>5 DEF Alone
<1>9. CASE TakeStep
  <2>1. ab # <<>> /\ ab' = Tail(ab) /\ a' = a /\ Data(ab[1])
    BY <1>9, Zenon DEF TakeStep, Takes
  <2>2. a.pri.state = "waitConfirm" /\ ab[1].fn = "CONFIRMED_USER_DATA"
    BY <2>1, UnderWay DEF Data, DataFns
  <2>3. PICK held \in BOOLEAN : ba' = ba \o <<[fn |-> "ACK", dfc |-> held]>>
    BY <1>9, <2>2, Zenon DEF TakeStep
  <2>4. ab' = <<>> /\ ba' = <<[fn |-> "ACK", dfc |-> held]>>
    BY <2>1, <2>3, UnderWay
  <2>5. ba'[1].fn = "ACK" /\ Len(ba') = 1 /\ Len(ab') = 0
    BY <2>4
  <2>. QED BY <2>1, <2>2, <2>4, <2>5 DEF Alone
<1>10. CASE LoseFrameStep
  <2>1. a' = a /\ ba' = ba /\ ab # <<>> /\ ab' = Tail(ab)
    BY <1>10, Zenon DEF LoseFrameStep
  <2>2. ab' = <<>> /\ ba' = <<>>
    BY <2>1, UnderWay
  <2>. QED BY <2>2 DEF Alone
<1>11. CASE LoseReplyStep
  <2>1. ab' = <<>> /\ ba' = <<>>
    BY <1>3, <1>11, Zenon DEF LoseReplyStep
  <2>. QED BY <2>1, Zenon DEF Alone
<1>12. CASE RestartStep
  BY <1>12 DEF RestartStep, Alone
<1>13. CASE ReconnectStep
  <2>1. ab' = <<>> /\ ba' = <<>>
    BY <1>13, Zenon DEF ReconnectStep
  <2>. QED BY <2>1, Zenon DEF Alone
<1>. QED BY <1>4, <1>5, <1>6, <1>7, <1>8, <1>9, <1>10, <1>11, <1>12, <1>13, ZenonT(60) DEF Step

----------------------------------------------------------------------------
(* The count bits tell whether the frame was passed up.                    *)
Agree(w) == b.sec.reset /\ w.pri.linkUp => b.sec.expectFCB = w.pri.fcb

LEMMA CompletesAgree ==
    ASSUME TypeOK, Sane, Bits, ba # <<>>, NEW w, Completes(a, w)
    PROVE  Agree(w)
<1>1. a.pri.fcb \in BOOLEAN /\ b.sec.expectFCB \in BOOLEAN
  BY Zenon DEF TypeOK, Senders, Receivers, Primaries, Secondaries
<1>2. CASE a.pri.state = "waitConfirm"
  <2>1. b.sec.reset => b.sec.expectFCB # a.pri.fcb
    BY <1>2 DEF Bits, Taken
  <2>2. w.pri.fcb = ~a.pri.fcb
    BY <1>2 DEF Completes
  <2>. QED BY <1>1, <2>1, <2>2 DEF Agree
<1>3. CASE a.pri.state = "waitStatus"
  <2>1. w.pri.fcb = a.pri.fcb /\ w.pri.linkUp = a.pri.linkUp
    BY <1>3 DEF Completes
  <2>2. b.sec.reset /\ a.pri.linkUp => b.sec.expectFCB = a.pri.fcb
    BY <1>3, Zenon DEF Bits
  <2>. QED BY <2>1, <2>2, Zenon DEF Agree
<1>. QED BY <1>2, <1>3 DEF Completes

(* The part of Bits about the bits.                                        *)
BitsOnly ==
    /\ Taken => a.pri.pending.payload \in taken
    /\ a.pri.state = "waitConfirm" /\ ba # <<>> =>
         /\ ba[1].fn = "ACK" => a.pri.pending.payload \in taken
         /\ b.sec.reset => ba[1].fn = "ACK" /\ Taken
    /\ b.sec.reset =>
         /\ a.pri.state \in {"idle", "waitStatus"} /\ a.pri.linkUp => b.sec.expectFCB = a.pri.fcb
         /\ a.pri.state = "waitLinkReset" /\ ba # <<>> => b.sec.expectFCB

LEMMA PumpBits ==
    ASSUME NEW w, NEW out, Pumps(w, a', out), w.pri.useConfirms, w.pri.state = "idle", Agree(w),
           b' = b, ba' = <<>>
    PROVE  BitsOnly' /\ ~Taken'
<1>1. CASE Rests(w, a', out)
  <2>1. a'.pri.state = "idle" /\ a'.pri.linkUp = w.pri.linkUp /\ a'.pri.fcb = w.pri.fcb
    BY <1>1 DEF Rests, Same
  <2>. QED BY <2>1 DEF BitsOnly, Taken, Agree
<1>2. CASE SendsOne(w, a', out)
  <2>1. /\ a'.pri.state \in {"waitLinkReset", "waitConfirm"} /\ a'.pri.fcb = w.pri.fcb
        /\ a'.pri.state = "waitConfirm" => w.pri.linkUp
    BY <1>2 DEF SendsOne
  <2>2. ~Taken'
    BY <2>1 DEF Taken, Agree
  <2>. QED BY <2>1, <2>2 DEF BitsOnly
<1>. QED BY <1>1, <1>2, PumpAtOnce, Zenon DEF Pumps

LEMMA BitsStep ==
    ASSUME TypeOK, TypeOK', Sane, Alone, Bits, Confirming, Confirming', Step
    PROVE  Bits'
<1>0. /\ a.pri.useConfirms /\ ba \in Seq(Answers) /\ a.pri.fcb \in BOOLEAN
      /\ b.sec.expectFCB \in BOOLEAN /\ b.sec.reset \in BOOLEAN /\ a.pri.state \in States
      /\ acked \subseteq taken
  BY DEF TypeOK, Sane, Fits, Confirming, Senders, Receivers, Primaries, Secondaries, Bits, CompletedAccepted
<1>1. SUFFICES BitsOnly' /\ acked' \subseteq taken'
  BY Zenon DEF Bits, BitsOnly, CompletedAccepted
<1>2. ba # <<>> => Tail(ba) = <<>>
  BY <1>0 DEF Alone
<1>3. acked' \subseteq taken'
  <2>1. taken \subseteq taken'
    BY Zenon DEF Step, LoadStep, ProbeStep, TimeoutStep, ReplyStep, ReconnectStep,
              HearStep, TakeStep, LoseFrameStep, LoseReplyStep, RestartStep
  <2>2. CASE ReplyStep
    <3>1. a.pri.state = "waitConfirm" /\ ba[1].fn = "ACK" => a.pri.pending.payload \in taken
      BY <2>2, Zenon DEF Bits, ReplyStep
    <3>. QED BY <1>0, <2>1, <2>2, <3>1, Zenon DEF ReplyStep
  <2>3. CASE ~ReplyStep
    <3>1. acked' = acked
      BY <2>3, ZenonT(60) DEF Step, LoadStep, ProbeStep, TimeoutStep, ReconnectStep,
              HearStep, TakeStep, LoseFrameStep, LoseReplyStep, RestartStep
    <3>. QED BY <3>1, <2>1, <1>0, Zenon
  <2>. QED BY <2>2, <2>3
<1>4. ASSUME b' = b, taken' = taken, ba' = <<>>, NEW out, Rests(a, a', out) \/ Resends(a, a', out)
      PROVE  BitsOnly'
  <2>1. /\ a'.pri.state = a.pri.state /\ a'.pri.linkUp = a.pri.linkUp /\ a'.pri.fcb = a.pri.fcb
        /\ a'.pri.pending = a.pri.pending
    BY <1>4, Zenon DEF Rests, Resends, Same
  <2>. QED BY <2>1, <1>4 DEF Bits, BitsOnly, Taken
<1>5. ASSUME a'.pri.state = "idle", ~a'.pri.linkUp PROVE BitsOnly'
  BY <1>5 DEF BitsOnly, Taken
<1>6. CASE LoadStep
  <2>1. PICK n \in Nat \ {0}, w \in Senders, out \in Seq(Frames) :
          Loads(a, w, Fragment(Len(sent) + 1, n)) /\ Pumps(w, a', out)
    BY <1>6, Zenon DEF LoadStep
  <2>2. w.pri.useConfirms /\ a.pri.state = "idle" /\ w.pri = a.pri
    BY <1>0, <2>1 DEF Loads
  <2>3. Agree(w)
    BY <2>2 DEF Agree, Bits
  <2>4. ba' = <<>> /\ b' = b
    BY <1>6, <2>2 DEF LoadStep, Alone
  <2>. QED BY <1>3, <2>1, <2>2, <2>3, <2>4, PumpBits, Zenon
<1>7. CASE ProbeStep
  <2>1. PICK out \in Seq(Frames) : Probes(a, a', out)
    BY <1>7, ZenonT(60) DEF ProbeStep
  <2>2. /\ a.pri.state = "idle" /\ a'.pri.state = "waitStatus"
        /\ a'.pri.linkUp = a.pri.linkUp /\ a'.pri.fcb = a.pri.fcb /\ b' = b
    BY <2>1, <1>7 DEF Probes, ProbeStep
  <2>. QED BY <1>3, <2>2 DEF Bits, BitsOnly, Taken
<1>8. CASE TimeoutStep
  <2>0. ba = <<>>
    BY <1>8, Prompt
  <2>1. PICK out \in Seq(Frames) : Fails(a, a', out) \/ Resends(a, a', out)
    BY <1>8, Zenon DEF TimeoutStep
  <2>2. b' = b /\ taken' = taken /\ ba' = <<>>
    BY <2>0, <1>8, Zenon DEF TimeoutStep
  <2>. QED BY <1>3, <1>4, <1>5, <2>1, <2>2, Zenon DEF Fails
<1>9. CASE ReplyStep
  <2>1. PICK out \in Seq(Frames) : Drains(a, ba[1].fn, a', out)
    BY <1>9, Zenon DEF ReplyStep
  <2>2. b' = b /\ taken' = taken /\ ba' = <<>> /\ ba # <<>>
    BY <1>2, <1>9, Zenon DEF ReplyStep
  <2>3. ASSUME Establishes(a, a', out) PROVE BitsOnly'
    <3>1. a.pri.state = "waitLinkReset" /\ a'.pri.state = "waitConfirm" /\ a'.pri.fcb
      BY <2>3 DEF Establishes
    <3>2. b.sec.reset => b.sec.expectFCB
      BY <2>2, <3>1, Zenon DEF Bits
    <3>3. a'.pri.fcb \in BOOLEAN
      BY DEF TypeOK, Senders, Primaries
    <3>. QED BY <1>0, <2>2, <3>1, <3>2, <3>3, Zenon DEF BitsOnly, Taken
  <2>4. ASSUME Renews(a, a', out) PROVE BitsOnly'
    <3>1. a'.pri.state = "waitLinkReset"
      BY <2>4 DEF Renews
    <3>. QED BY <2>2, <3>1 DEF BitsOnly, Taken
  <2>5. ASSUME NEW w \in Senders, Completes(a, w), Pumps(w, a', out) PROVE BitsOnly'
    <3>1. Agree(w)
      BY <2>2, <2>5, CompletesAgree, Zenon
    <3>2. w.pri.useConfirms /\ w.pri.state = "idle"
      BY <1>0, <2>5 DEF Completes
    <3>. QED BY <2>2, <2>5, <3>1, <3>2, PumpBits, Zenon
  <2>. QED BY <1>3, <1>4, <1>5, <2>1, <2>2, <2>3, <2>4, <2>5, ZenonT(60) DEF Drains, Fails
<1>10. CASE HearStep
  <2>1. ab # <<>> /\ a' = a /\ taken' = taken
    BY <1>10, Zenon DEF HearStep
  <2>2. PICK fn \in {"ACK", "NACK", "LINK_STATUS"}, held \in BOOLEAN :
          Hears(b, ab[1], b', fn) /\ ba' = ba \o <<[fn |-> fn, dfc |-> held]>>
    BY <1>10, Zenon DEF HearStep
  <2>3. ba' = <<[fn |-> fn, dfc |-> held]>>
    BY <2>1, <2>2, UnderWay
  <2>4. ba'[1].fn = fn /\ ba' # <<>>
    BY <2>3, Zenon
  <2>5. CASE a.pri.state = "waitLinkReset"
    <3>1. b'.sec.expectFCB
      BY <2>1, <2>2, <2>5, UnderWay, HearsWhat
    <3>. QED BY <1>3, <2>1, <2>5, <3>1 DEF BitsOnly, Taken
  <2>6. CASE a.pri.state = "waitStatus"
    <3>1. b'.sec = b.sec
      BY <2>1, <2>2, <2>6, UnderWay, HearsWhat
    <3>. QED BY <1>3, <2>1, <2>6, <3>1 DEF BitsOnly, Bits, Taken
  <2>7. CASE a.pri.state = "waitConfirm"
    <3>1. /\ b'.sec = b.sec
          /\ \/ ~b.sec.reset /\ fn = "NACK"
             \/ b.sec.reset /\ a.pri.fcb # b.sec.expectFCB /\ fn = "ACK"
      BY <2>1, <2>2, <2>7, UnderWay, HearsWhat
    <3>. QED BY <1>3, <2>1, <2>4, <2>7, <3>1, Zenon DEF BitsOnly, Bits, Taken
  <2>. QED BY <2>1, <2>5, <2>6, <2>7, UnderWay
<1>11. CASE TakeStep
  <2>1. ab # <<>> /\ a' = a /\ Data(ab[1]) /\ taken' = taken \cup {ab[1].payload.payload}
    BY <1>11, Zenon DEF TakeStep, Takes
  <2>2. a.pri.state = "waitConfirm" /\ ab[1].fn = "CONFIRMED_USER_DATA" /\ ab[1].fcb = a.pri.fcb
        /\ ab[1].payload = a.pri.pending
    BY <2>1, UnderWay DEF Data, DataFns
  <2>3. ab[1].fcb = b.sec.expectFCB /\ b'.sec.reset /\ b'.sec.expectFCB = ~b.sec.expectFCB
    BY <1>11, <2>2, Zenon DEF TakeStep, Takes
  <2>4. PICK held \in BOOLEAN : ba' = ba \o <<[fn |-> "ACK", dfc |-> held]>>
    BY <1>11, <2>2, Zenon DEF TakeStep
  <2>5. ba' = <<[fn |-> "ACK", dfc |-> held]>>
    BY <2>1, <2>4, UnderWay
  <2>6. ba'[1].fn = "ACK"
    BY <2>5, Zenon
  <2>7. a'.pri.pending.payload \in taken' /\ a'.pri.state = "waitConfirm"
    BY <2>1, <2>2
  <2>8. Taken'
    BY <1>0, <2>1, <2>2, <2>3 DEF Taken
  <2>. QED BY <1>3, <2>6, <2>7, <2>8, Zenon DEF BitsOnly
<1>12. CASE LoseFrameStep
  BY <1>3, <1>12, ZenonT(60) DEF LoseFrameStep, BitsOnly, Bits, Taken
<1>13. CASE LoseReplyStep
  <2>1. a' = a /\ b' = b /\ taken' = taken /\ ba' = <<>>
    BY <1>2, <1>13, Zenon DEF LoseReplyStep
  <2>. QED BY <1>3, <2>1 DEF BitsOnly, Bits, Taken
<1>14. CASE RestartStep
  <2>1. a' = a /\ ba' = ba /\ taken' = taken /\ ~b'.sec.reset
    BY <1>14, Zenon DEF RestartStep, Forgotten
  <2>. QED BY <1>3, <2>1, Zenon DEF BitsOnly, Bits, Taken
<1>15. CASE ReconnectStep
  BY <1>3, <1>5, <1>15, Zenon DEF ReconnectStep, Fails
<1>. QED BY <1>6, <1>7, <1>8, <1>9, <1>10, <1>11, <1>12, <1>13, <1>14, <1>15, ZenonT(60) DEF Step
----------------------------------------------------------------------------
(* A partial fragment that goes on.                                        *)
LEMMA Pairs ==
    ASSUME NEW p \in Payloads
    PROVE  p = <<p[1], p[2]>> /\ p[1] \in Nat /\ p[2] \in Nat
BY DEF Payloads

(* t holds the first n segments of a fragment, and that is not all of them *)
(* unless fin.                                                             *)
Reaches(s, id, n, t, fin) ==
    /\ t[1][1] = id /\ Len(t) = n /\ t # <<>> /\ \A i \in DOMAIN t : t[i] = <<id, i>>
    /\ ~fin => Prefix(s, t)

LEMMA Starts ==
    ASSUME NEW s \in Seq(Seq(Payloads)), NEW h \in Segments, Cut(s, h), h.fir
    PROVE  Reaches(s, h.payload[1], 1, <<h.payload>>, h.fin)
<1>. DEFINE t == <<h.payload>>
<1>1. h.payload \in Payloads
  BY Zenon DEF Segments
<1>2. h.payload[2] = 1 /\ h.payload[1] \in DOMAIN s /\ h.payload = <<h.payload[1], h.payload[2]>>
  <2>1. h.payload[2] = 1 /\ h.payload[1] \in DOMAIN s
    BY Zenon DEF Cut
  <2>. QED BY <1>1, <2>1, Pairs, Zenon
<1>3. t[1] = h.payload /\ Len(t) = 1 /\ DOMAIN t = {1} /\ t # <<>>
  OBVIOUS
<1>4. \A i \in DOMAIN t : t[i] = <<h.payload[1], i>>
  BY <1>2, <1>3, Zenon
<1>5. ASSUME ~h.fin PROVE 1 < Len(s[h.payload[1]])
  <2>. DEFINE m == Len(s[h.payload[1]])
  <2>1. 1 \in 1..m /\ 1 # m
    BY <1>2, <1>5, Zenon DEF Cut
  <2>2. m \in Nat
    BY <1>2
  <2>. HIDE DEF m
  <2>3. 1 < m
    BY <2>1, <2>2
  <2>. QED BY <2>3, Zenon DEF m
<1>. HIDE DEF t
<1>6. Reaches(s, h.payload[1], 1, t, h.fin)
  BY <1>2, <1>3, <1>4, <1>5, ZenonT(60) DEF Prefix, Reaches
<1>. QED BY <1>6, Zenon DEF t

LEMMA GoesOn ==
    ASSUME NEW s \in Seq(Seq(Payloads)), NEW h \in Segments, Cut(s, h), NEW buf \in Seq(Payloads),
           Prefix(s, buf), h.payload = <<buf[1][1], Len(buf) + 1>>
    PROVE  Reaches(s, buf[1][1], Len(buf) + 1, Append(buf, h.payload), h.fin)
<1>. DEFINE id == buf[1][1]
            n == Len(buf)
            t == Append(buf, h.payload)
<1>1. buf # <<>> /\ id \in DOMAIN s /\ n < Len(s[id]) /\ \A i \in 1..n : buf[i] = <<id, i>>
  BY DEF Prefix
<1>2. n \in Nat \ {0}
  BY <1>1
<1>3. Len(t) = n + 1 /\ DOMAIN t = 1..(n + 1) /\ t[n + 1] = h.payload /\ \A i \in 1..n : t[i] = buf[i]
  OBVIOUS
<1>. HIDE DEF n
<1>4. t[1] = buf[1] /\ t # <<>>
  <2>1. 1 \in 1..n /\ n + 1 # 0
    BY <1>2
  <2>2. Len(t) = n + 1
    BY <1>3, Zenon
  <2>. HIDE DEF t
  <2>3. t # <<>>
    BY <1>2, <2>2
  <2>. QED BY <1>3, <2>1, <2>3, Zenon
<1>5. \A i \in 1..(n + 1) : i \in 1..n \/ i = n + 1
  BY <1>2
<1>6. h.payload = <<id, n + 1>>
  BY Zenon DEF n
<1>7. \A i \in DOMAIN t : t[i] = <<id, i>>
  BY <1>1, <1>3, <1>5, <1>6, Zenon
<1>8. ASSUME ~h.fin PROVE n + 1 < Len(s[id])
  <2>1. n + 1 # Len(s[id])
    <3>1. h.payload[1] = id /\ h.payload[2] = n + 1
      BY <1>6
    <3>. QED BY <1>8, <3>1, Zenon DEF Cut
  <2>2. Len(s[id]) \in Nat
    BY <1>1
  <2>. QED BY <1>1, <1>2, <2>1, <2>2
<1>. HIDE DEF t, id
<1>9. t[1][1] = id
  BY <1>4, Zenon DEF id
<1>10. Reaches(s, id, n + 1, t, h.fin)
  BY <1>1, <1>3, <1>4, <1>7, <1>8, <1>9, ZenonT(60) DEF Prefix, Reaches
<1>. QED BY <1>10, Zenon DEF t, id, n

(* With link confirms a partial fragment goes on with what is sent next.   *)
Onward(s, g) ==
    g.frag # <<>> =>
        g.first \/ (b.reasm.buf[1][1] = Len(s) /\ Len(b.reasm.buf) = Len(s[Len(s)]) - Len(g.frag))

LEMMA PumpContinues ==
    ASSUME NEW w \in Senders, NEW out, Pumps(w, a', out), w.pri.useConfirms, w.pri.state = "idle",
           sent' \in Seq(Seq(Payloads)), w.seg.frag # <<>> => Rest(sent', w.seg),
           b' = b, ~Taken', b.sec.reset, Prefix(sent', b.reasm.buf), Onward(sent', w.seg)
    PROVE  Continues'
<1>0. w.seg \in Segmenters /\ w.seg.frag \in Seq(Payloads)
  BY Zenon DEF Senders, Segmenters
<1>1. CASE Rests(w, a', out)
  <2>1. a'.pri.state = "idle" /\ a'.seg = w.seg
    BY <1>1, Zenon DEF Rests, Same
  <2>2. ~Sending'
    BY <2>1, Zenon DEF Sending, Sends
  <2>. QED BY <2>1, <2>2, ZenonT(60) DEF Continues, Onward, Upto
<1>2. CASE SendsOne(w, a', out)
  <2>0. w.seg.frag # <<>> /\ a'.pri.pending = segAt(w.seg, 1) /\ Rest(sent', w.seg)
    BY <1>2, Zenon DEF SendsOne
  <2>. DEFINE n == Len(w.seg.frag)
              m == Len(sent'[Len(sent')])
              i == a'.pri.pending.payload[2]
  <2>1. n \in Nat \ {0} /\ m \in Nat /\ (w.seg.first => n = m)
    <3>1. n \in Nat \ {0}
      BY <1>0, <2>0
    <3>2. Len(sent') > 0 /\ (w.seg.first => n = m)
      BY <2>0, ZenonT(60) DEF Rest
    <3>3. Len(sent') \in DOMAIN sent'
      BY <3>2
    <3>4. m \in Nat
      BY <3>3
    <3>. QED BY <3>1, <3>2, <3>4
  <2>2. a'.pri.pending.payload = <<Len(sent'), m - n + 1>>
    <3>1. 1 \in 1..n
      BY <2>1
    <3>2. segAt(w.seg, 1).payload = <<Len(sent'), m - n + 1>>
      BY <1>0, <2>0, <3>1, SegmentsCut, ZenonT(60)
    <3>. QED BY <2>0, <3>2, ZenonT(60)
  <2>3. i = m - n + 1
    BY <2>2
  <2>4. i = 1 \/ (b.reasm.buf[1][1] = Len(sent') /\ Len(b.reasm.buf) = i - 1)
    <3>1. w.seg.first \/ (b.reasm.buf[1][1] = Len(sent') /\ Len(b.reasm.buf) = m - n)
      BY <2>0, ZenonT(60) DEF Onward
    <3>2. (n = m => i = 1) /\ m - n = i - 1
      <4>. HIDE DEF n, m, i
      <4>. QED BY <2>1, <2>3
    <3>. QED BY <3>1, <3>2, <2>1, Zenon
  <2>5. Sending'
    BY <1>2, Zenon DEF SendsOne, Sending, Sends
  <2>. QED BY <2>4, <2>5, ZenonT(60) DEF Continues, Upto
<1>. QED BY <1>1, <1>2, PumpAtOnce, ZenonT(60) DEF Pumps

LEMMA ConfirmedReaches ==
    ASSUME TypeOK, Continues, Sending, ~Taken, a.pri.pending \in Segments, Cut(sent, a.pri.pending),
           a.pri.pending.payload[1] = Len(sent), NEW t, NEW g, Grows(b.reasm, a.pri.pending, t, g)
    PROVE  Reaches(sent, a.pri.pending.payload[1], a.pri.pending.payload[2], t.buf, a.pri.pending.fin)
<1>. DEFINE h == a.pri.pending
<1>0. sent \in Seq(Seq(Payloads)) /\ b.reasm.buf \in Seq(Payloads) /\ h.payload \in Payloads
  BY Zenon DEF TypeOK, Receivers, Reassemblers, Segments
<1>1. CASE h.fir /\ t.buf = <<h.payload>>
  <2>1. Reaches(sent, h.payload[1], 1, t.buf, h.fin)
    BY <1>0, <1>1, Starts, Zenon
  <2>2. h.payload[2] = 1
    BY <1>1, Zenon DEF Cut
  <2>. QED BY <2>1, <2>2, Zenon
<1>2. CASE ~h.fir /\ b.reasm.assembly /\ t.buf = Append(b.reasm.buf, h.payload)
  <2>1. h.payload[2] # 1 /\ h.payload[2] \in Nat /\ h.payload = <<h.payload[1], h.payload[2]>>
    BY <1>0, <1>2, Pairs, Zenon DEF Cut
  <2>2. Prefix(sent, b.reasm.buf) /\ Upto(h.payload[2] - 1)
    BY <1>2, <2>1, Zenon DEF Continues
  <2>3. b.reasm.buf[1][1] = Len(sent) /\ Len(b.reasm.buf) = h.payload[2] - 1
    BY <2>2, ZenonT(60) DEF Upto
  <2>4. Len(b.reasm.buf) + 1 = h.payload[2]
    BY <2>1, <2>3
  <2>5. h.payload = <<b.reasm.buf[1][1], Len(b.reasm.buf) + 1>>
    BY <2>1, <2>3, <2>4, Zenon
  <2>6. Reaches(sent, b.reasm.buf[1][1], Len(b.reasm.buf) + 1, t.buf, h.fin)
    BY <1>0, <1>2, <2>2, <2>5, GoesOn, Zenon
  <2>. QED BY <2>3, <2>4, <2>6, Zenon
<1>. QED BY <1>1, <1>2, ZenonT(60) DEF Grows

LEMMA ContinuesStep ==
    ASSUME TypeOK, TypeOK', Sane, Fragments, Alone, Bits, Bits', Continues, Confirming, Confirming', Step
    PROVE  Continues'
<1>0. /\ a.pri.useConfirms /\ a \in Senders /\ ba \in Seq(Answers) /\ a.pri.fcb \in BOOLEAN
      /\ b.sec.expectFCB \in BOOLEAN /\ b.sec.reset \in BOOLEAN /\ a.pri.state \in States
      /\ sent \in Seq(Seq(Payloads)) /\ sent' \in Seq(Seq(Payloads)) /\ b.reasm.buf \in Seq(Payloads)
      /\ Carries(sent, a) /\ Made(sent)
  BY Zenon DEF TypeOK, Sane, Fits, Confirming, Senders, Receivers, Primaries, Secondaries, Reassemblers, Fragments
<1>1. SUFFICES ASSUME b'.reasm.assembly PROVE Continues'
  BY Zenon DEF Continues
<1>2. ASSUME b' = b
      PROVE  b.reasm.assembly /\ b.sec.reset /\ Prefix(sent, b.reasm.buf)
  BY <1>1, <1>2, Zenon DEF Continues
<1>3. ASSUME b' = b, sent' = sent, NEW out, Rests(a, a', out) \/ Resends(a, a', out) PROVE Continues'
  <2>1. /\ a'.pri.state = a.pri.state /\ a'.pri.fcb = a.pri.fcb
        /\ a'.pri.pending = a.pri.pending /\ a'.seg = a.seg
    BY <1>3, ZenonT(60) DEF Rests, Resends, Same
  <2>. QED BY <2>1, <1>3, Zenon DEF Continues, Sending, Sends, Taken, Upto
<1>4. ASSUME b' = b, sent' = sent, a'.pri.state \notin {"waitLinkReset", "waitConfirm"}, a'.seg.frag = <<>>
      PROVE  Continues'
  BY <1>2, <1>4 DEF Continues, Sending, Sends
<1>5. CASE LoadStep
  <2>1. PICK n \in Nat \ {0}, w \in Senders, out \in Seq(Frames) :
          /\ Loads(a, w, Fragment(Len(sent) + 1, n)) /\ Pumps(w, a', out)
          /\ sent' = Append(sent, Fragment(Len(sent) + 1, n))
    BY <1>5, ZenonT(60) DEF LoadStep
  <2>. DEFINE F == Fragment(Len(sent) + 1, n)
  <2>2. b' = b /\ ba' = ba /\ ba = <<>>
    <3>1. a.pri.state = "idle"
      BY <2>1 DEF Loads
    <3>. QED BY <1>5, <3>1, Zenon DEF LoadStep, Alone
  <2>3. w.pri.useConfirms /\ w.pri.state = "idle" /\ w.seg.frag = F /\ w.seg.first /\ w.pri = a.pri
    BY <1>0, <2>1 DEF Loads
  <2>. HIDE DEF F
  <2>4. /\ \A id \in DOMAIN sent : id \in DOMAIN sent' /\ sent'[id] = sent[id]
        /\ Len(sent') = Len(sent) + 1 /\ sent'[Len(sent')] = F
        /\ Len(F) = n /\ \A i \in DOMAIN F : F[i] = <<Len(sent'), i>>
    <3>1. F = Fragment(Len(sent) + 1, n) /\ sent' = Append(sent, F) /\ sent \in Seq(Seq(Payloads))
      BY <1>0, <2>1, Zenon DEF F
    <3>2. Longer(sent, sent', F, n)
      BY <3>1, OneMore, Zenon
    <3>. QED BY <3>2, Zenon DEF Longer
  <2>5. Prefix(sent', b.reasm.buf)
    <3>1. Prefix(sent, b.reasm.buf)
      BY <1>2, <2>2
    <3>. QED BY <2>4, <3>1, Zenon DEF Prefix
  <2>6. Agree(w)
    BY <2>1, <2>3 DEF Agree, Bits, Loads
  <2>7. ~Taken'
    BY <2>1, <2>2, <2>3, <2>6, PumpBits, ZenonT(60)
  <2>8. Rest(sent', w.seg)
    <3>1. sent \in Seq(Seq(Payloads)) /\ sent' \in Seq(Seq(Payloads)) /\ w.seg \in Segmenters
      BY <1>0, Zenon DEF Senders
    <3>2. w.seg.frag = F /\ w.seg.first
      BY <2>3, Zenon
    <3>. QED BY <2>4, <3>1, <3>2, RestOfNew, ZenonT(60)
  <2>. QED BY <1>0, <1>2, <2>1, <2>2, <2>3, <2>5, <2>7, <2>8, PumpContinues, ZenonT(60) DEF Onward
<1>6. CASE ProbeStep
  <2>1. PICK out \in Seq(Frames) : Probes(a, a', out)
    BY <1>6, ZenonT(60) DEF ProbeStep
  <2>2. a'.pri.state = "waitStatus" /\ a'.seg.frag = <<>> /\ b' = b /\ sent' = sent
    BY <1>6, <2>1, Zenon DEF ProbeStep, Probes
  <2>. QED BY <1>4, <2>2, Zenon
<1>7. ASSUME b' = b, sent' = sent, NEW out, Fails(a, a', out) PROVE Continues'
  BY <1>4, <1>7, Zenon DEF Fails
<1>8. CASE TimeoutStep
  BY <1>3, <1>7, <1>8, Zenon DEF TimeoutStep
<1>9. CASE ReplyStep
  <2>1. PICK out \in Seq(Frames) : Drains(a, ba[1].fn, a', out)
    BY <1>9, Zenon DEF ReplyStep
  <2>2. b' = b /\ sent' = sent /\ ba # <<>> /\ ba' = <<>>
    <3>1. ba # <<>> => Tail(ba) = <<>>
      BY <1>0 DEF Alone
    <3>. QED BY <1>9, <3>1, ZenonT(60) DEF ReplyStep
  <2>3. b.sec.reset /\ b.reasm.assembly /\ Prefix(sent, b.reasm.buf)
    BY <1>2, <2>2
  <2>4. ASSUME Establishes(a, a', out) PROVE Continues'
    <3>1. /\ a.pri.state = "waitLinkReset" /\ a'.pri.fcb /\ a'.pri.pending = a.pri.pending
          /\ a'.pri.state = "waitConfirm"
      BY <2>4 DEF Establishes
    <3>2. b.sec.expectFCB
      BY <2>2, <2>3, <3>1, Zenon DEF Bits
    <3>3. a'.pri.fcb \in BOOLEAN
      BY DEF TypeOK, Senders, Primaries
    <3>4. ~Taken /\ ~Taken'
      BY <1>0, <2>2, <3>1, <3>2, <3>3 DEF Taken
    <3>5. Sending /\ Sending'
      BY <3>1 DEF Sending, Sends
    <3>. QED BY <2>2, <2>3, <3>1, <3>4, <3>5, ZenonT(60) DEF Continues, Upto
  <2>5. ASSUME ba[1].fn = "NACK" PROVE ~Renews(a, a', out)
    <3>1. a.pri.state = "waitConfirm" => ba[1].fn = "ACK"
      BY <2>2, <2>3, ZenonT(60) DEF Bits
    <3>. QED BY <2>5, <3>1 DEF Renews
  <2>6. ASSUME NEW w \in Senders, Completes(a, w), Pumps(w, a', out) PROVE Continues'
    <3>1. Agree(w)
      BY <2>2, <2>6, CompletesAgree, ZenonT(60)
    <3>2. w.pri.useConfirms /\ w.pri.state = "idle" /\ w.seg = a.seg
      BY <1>0, <2>6 DEF Completes
    <3>3. ~Taken'
      BY <2>2, <2>6, <3>1, <3>2, PumpBits, Zenon
    <3>4. a.seg.frag # <<>> => Rest(sent, a.seg)
      BY <1>0, Zenon DEF Carries
    <3>5. CASE a.pri.state = "waitConfirm"
      <4>1. Taken /\ Sending
        <5>1. Taken
          BY <2>2, <2>3, <3>5, Zenon DEF Bits
        <5>. QED BY <3>5, <5>1 DEF Sending, Sends
      <4>2. Upto(a.pri.pending.payload[2])
        BY <4>1, <2>3, Zenon DEF Continues
      <4>3. a.pri.pending.payload = <<Len(sent), Len(sent[Len(sent)]) - Len(a.seg.frag)>>
        BY <1>0, <4>1, ZenonT(60) DEF Carries, Sending
      <4>4. a.pri.pending.payload[2] = Len(sent[Len(sent)]) - Len(a.seg.frag)
        BY <4>3
      <4>5. Onward(sent, a.seg)
        BY <4>2, <4>4, ZenonT(60) DEF Onward, Upto
      <4>. QED BY <1>0, <2>2, <2>3, <2>6, <3>2, <3>3, <3>4, <4>5, PumpContinues, ZenonT(60)
    <3>6. CASE a.pri.state = "waitStatus"
      <4>1. a.seg.frag = <<>>
        BY <3>6, Zenon DEF Sane, Fits
      <4>5. Onward(sent, a.seg)
        BY <4>1, Zenon DEF Onward
      <4>. QED BY <1>0, <2>2, <2>3, <2>6, <3>2, <3>3, <3>4, <4>5, PumpContinues, Zenon
    <3>. QED BY <2>6, <3>5, <3>6 DEF Completes
  <2>. QED BY <1>3, <1>7, <2>1, <2>2, <2>4, <2>5, <2>6, ZenonT(60) DEF Drains
<1>10. CASE HearStep
  <2>1. ab # <<>> /\ a' = a /\ sent' = sent
    BY <1>10, Zenon DEF HearStep
  <2>2. PICK fn \in {"ACK", "NACK", "LINK_STATUS"} : Hears(b, ab[1], b', fn)
    BY <1>10, Zenon DEF HearStep
  <2>3. b'.reasm = b.reasm /\ b.reasm.assembly
    BY <1>1, <2>2, HearsWhat, ZenonT(60)
  <2>4. b'.sec.reset
    <3>1. b.sec.reset
      BY <2>3, Zenon DEF Continues
    <3>. QED BY <2>2, <3>1, HearsReset, Zenon
  <2>5. Taken' = Taken
    <3>1. a.pri.state # "waitConfirm" => ~Taken /\ ~Taken'
      BY <2>1 DEF Taken
    <3>2. a.pri.state = "waitConfirm" => b'.sec = b.sec
      BY <2>1, <2>2, UnderWay, HearsWhat
    <3>3. b'.sec = b.sec => Taken' = Taken
      BY <2>1, Zenon DEF Taken
    <3>4. ~Taken /\ ~Taken' => Taken' = Taken
      BY Zenon DEF Taken
    <3>. QED BY <3>1, <3>2, <3>3, <3>4
  <2>. QED BY <2>1, <2>3, <2>4, <2>5, Zenon DEF Continues, Sending, Sends, Upto
<1>11. CASE TakeStep
  <2>1. ab # <<>> /\ a' = a /\ Data(ab[1]) /\ sent' = sent
    BY <1>11, Zenon DEF TakeStep, Takes
  <2>2. a.pri.state = "waitConfirm" /\ ab[1].fn = "CONFIRMED_USER_DATA" /\ ab[1].fcb = a.pri.fcb
        /\ ab[1].payload = a.pri.pending
    BY <2>1, UnderWay DEF Data, DataFns
  <2>3. ab[1].fcb = b.sec.expectFCB /\ b'.sec.reset /\ b'.sec.expectFCB = ~b.sec.expectFCB
    BY <1>11, <2>2, ZenonT(60) DEF TakeStep, Takes
  <2>4. Taken' /\ ~Taken
    BY <1>0, <2>1, <2>2, <2>3 DEF Taken
  <2>. DEFINE h == a.pri.pending
  <2>5. Grows(b.reasm, h, b'.reasm, NoFragment)
    <3>1. PICK g \in Seq(Payloads) : Drops(b'.reasm, g) \/ Grows(b.reasm, h, b'.reasm, g)
      BY <1>11, <2>2, ZenonT(60) DEF TakeStep, Takes
    <3>2. Grows(b.reasm, h, b'.reasm, g)
      BY <1>1, <3>1 DEF Drops
    <3>3. ~h.fin
      BY <1>1, <3>2, Zenon DEF Grows
    <3>. QED BY <3>2, <3>3, Zenon DEF Grows
  <2>6. h \in Segments /\ Cut(sent, h) /\ h.payload[1] = Len(sent) /\ h.payload \in Payloads
    <3>1. h \in Segments
      BY <2>2, Zenon DEF Sane, Fits
    <3>2. Cut(sent, h) /\ h.payload = <<Len(sent), Len(sent[Len(sent)]) - Len(a.seg.frag)>>
      BY <1>0, <2>2, ZenonT(60) DEF Carries, Sends
    <3>3. h.payload[1] = Len(sent)
      BY <3>2
    <3>. QED BY <3>1, <3>2, <3>3, ZenonT(60) DEF Segments
  <2>7. ~h.fin
    BY <1>1, <2>5, Zenon DEF Grows
  <2>8. Prefix(sent, b'.reasm.buf) /\ b'.reasm.buf[1][1] = Len(sent) /\ Len(b'.reasm.buf) = h.payload[2]
    <3>1. Sending
      BY <2>2 DEF Sending, Sends
    <3>2. Reaches(sent, h.payload[1], h.payload[2], b'.reasm.buf, h.fin)
      BY <2>4, <2>5, <2>6, <3>1, ConfirmedReaches, ZenonT(60)
    <3>. QED BY <2>6, <2>7, <3>2, Zenon DEF Reaches
  <2>9. Sending'
    BY <2>1, <2>2 DEF Sending, Sends
  <2>. QED BY <2>1, <2>3, <2>4, <2>8, <2>9, Zenon DEF Continues, Upto
<1>12. CASE LoseFrameStep \/ LoseReplyStep
  <2>1. a' = a /\ b' = b /\ sent' = sent
    BY <1>12, Zenon DEF LoseFrameStep, LoseReplyStep
  <2>. QED BY <2>1, Zenon DEF Continues, Sending, Sends, Taken, Upto
<1>13. CASE RestartStep \/ ReconnectStep
  BY <1>1, <1>13, Zenon DEF RestartStep, ReconnectStep, Forgotten
<1>. QED BY <1>5, <1>6, <1>8, <1>9, <1>10, <1>11, <1>12, <1>13, ZenonT(60) DEF Step

----------------------------------------------------------------------------
(* A receiver that does not restart remembers that the link is up.         *)
LEMMA LinkedStep ==
    ASSUME TypeOK, TypeOK', Sane, Alone, Linked, Confirming, Confirming',
           used.restarts = 0, used'.restarts = 0, Step
    PROVE  Linked'
<1>0. /\ a.pri.useConfirms /\ ba \in Seq(Answers) /\ a.pri.state \in States
      /\ b.sec.reset \in BOOLEAN
  BY Zenon DEF TypeOK, Sane, Fits, Confirming, Senders, Receivers, Primaries, Secondaries
<1>1. ba # <<>> => Tail(ba) = <<>>
  BY <1>0 DEF Alone
<1>2. ASSUME b' = b, ba' = <<>>, a'.pri.linkUp => a.pri.linkUp PROVE Linked'
  BY <1>2, Zenon DEF Linked
<1>3. ASSUME NEW w, NEW out, Pumps(w, a', out) PROVE w.pri.useConfirms => a'.pri.linkUp = w.pri.linkUp
  <2>1. Rests(w, a', out) => a'.pri.linkUp = w.pri.linkUp
    BY Zenon DEF Rests, Same
  <2>2. SendsOne(w, a', out) => a'.pri.linkUp = w.pri.linkUp
    BY Zenon DEF SendsOne
  <2>3. SendsAll(w, a', out) => ~w.pri.useConfirms
    BY Zenon DEF SendsAll
  <2>. QED BY <1>3, <2>1, <2>2, <2>3, Zenon DEF Pumps
<1>4. CASE LoadStep
  <2>1. PICK n \in Nat \ {0}, w \in Senders, out \in Seq(Frames) :
          Loads(a, w, Fragment(Len(sent) + 1, n)) /\ Pumps(w, a', out)
    BY <1>4, Zenon DEF LoadStep
  <2>2. w.pri = a.pri /\ a.pri.state = "idle"
    BY <2>1, ZenonT(60) DEF Loads
  <2>3. ba' = <<>> /\ b' = b
    BY <1>4, <2>2 DEF LoadStep, Alone
  <2>. QED BY <1>0, <1>2, <1>3, <2>1, <2>2, <2>3, Zenon
<1>5. CASE ProbeStep
  <2>1. PICK out \in Seq(Frames) : Probes(a, a', out)
    BY <1>5, Zenon DEF ProbeStep
  <2>2. a'.pri.linkUp = a.pri.linkUp /\ a.pri.state = "idle" /\ b' = b
    BY <1>5, <2>1, ZenonT(60) DEF Probes, ProbeStep
  <2>3. ba' = <<>>
    BY <1>5, <2>2 DEF ProbeStep, Alone
  <2>. QED BY <1>2, <2>2, <2>3, Zenon
<1>6. CASE TimeoutStep
  <2>1. ba = <<>>
    BY <1>6, Prompt
  <2>2. PICK out \in Seq(Frames) : Fails(a, a', out) \/ Resends(a, a', out)
    BY <1>6, Zenon DEF TimeoutStep
  <2>3. b' = b /\ ba' = <<>>
    BY <2>1, <1>6, Zenon DEF TimeoutStep
  <2>. QED BY <1>2, <2>2, <2>3, Zenon DEF Fails, Resends, Same
<1>7. CASE ReplyStep
  <2>1. PICK out \in Seq(Frames) : Drains(a, ba[1].fn, a', out)
    BY <1>7, Zenon DEF ReplyStep
  <2>2. b' = b /\ ba' = <<>> /\ ba # <<>>
    BY <1>1, <1>7, Zenon DEF ReplyStep
  <2>3. ASSUME Establishes(a, a', out) PROVE Linked'
    <3>1. b.sec.reset
      BY <2>2, <2>3, Zenon DEF Linked, Establishes
    <3>. QED BY <2>2, <3>1, Zenon DEF Linked
  <2>4. ASSUME NEW w \in Senders, Completes(a, w), Pumps(w, a', out) PROVE Linked'
    BY <1>0, <1>2, <1>3, <2>2, <2>4, Zenon DEF Completes
  <2>. QED BY <1>2, <2>1, <2>2, <2>3, <2>4, Zenon DEF Drains, Fails, Rests, Same, Renews
<1>8. CASE HearStep
  <2>1. ab # <<>> /\ a' = a
    BY <1>8, Zenon DEF HearStep
  <2>2. PICK fn \in {"ACK", "NACK", "LINK_STATUS"} : Hears(b, ab[1], b', fn)
    BY <1>8, Zenon DEF HearStep
  <2>3. b.sec.reset => b'.sec.reset
    BY <2>2, HearsReset, ZenonT(60)
  <2>4. a.pri.state = "waitLinkReset" => b'.sec.reset
    BY <2>1, <2>2, UnderWay, HearsWhat
  <2>. QED BY <2>1, <2>3, <2>4, Zenon DEF Linked
<1>9. CASE TakeStep
  <2>1. ab # <<>> /\ a' = a /\ Data(ab[1])
    BY <1>9, Zenon DEF TakeStep, Takes
  <2>2. ab[1].fn = "CONFIRMED_USER_DATA"
    BY <2>1, UnderWay DEF Data, DataFns
  <2>3. b'.sec.reset
    BY <1>9, <2>2, Zenon DEF TakeStep, Takes
  <2>. QED BY <2>3, Zenon DEF Linked
<1>10. CASE LoseFrameStep
  BY <1>10, Zenon DEF LoseFrameStep, Linked
<1>11. CASE LoseReplyStep
  BY <1>1, <1>2, <1>11, Zenon DEF LoseReplyStep
<1>12. ~RestartStep
  BY DEF RestartStep, Spent
<1>13. CASE ReconnectStep
  BY <1>13, Zenon DEF ReconnectStep, Fails, Linked
<1>. QED BY <1>4, <1>5, <1>6, <1>7, <1>8, <1>9, <1>10, <1>11, <1>12, <1>13, ZenonT(60) DEF Step

----------------------------------------------------------------------------
(* The order of fragments.                                                 *)
LEMMA Ids ==
    ASSUME TypeOK, Past
    PROVE  /\ \A k \in DOMAIN delivered : delivered[k][1][1] \in Nat
           /\ b.reasm.assembly => b.reasm.buf[1][1] \in Nat
           /\ Len(sent) \in Nat /\ Len(delivered) \in Nat /\ DOMAIN delivered = 1..Len(delivered)
<1>0. /\ delivered \in Seq(Seq(Payloads)) /\ b.reasm.buf \in Seq(Payloads) /\ sent \in Seq(Seq(Payloads))
  BY Zenon DEF TypeOK, Receivers, Reassemblers
<1>1. \A x \in Seq(Payloads) : x # <<>> => x[1] \in Payloads
  OBVIOUS
<1>2. \A k \in DOMAIN delivered : delivered[k] \in Seq(Payloads)
  BY <1>0
<1>3. \A k \in DOMAIN delivered : delivered[k][1] \in Payloads
  BY <1>1, <1>2, Zenon DEF Past
<1>4. b.reasm.assembly => b.reasm.buf[1] \in Payloads
  BY <1>0, <1>1, Zenon DEF Past
<1>5. Len(sent) \in Nat /\ Len(delivered) \in Nat /\ DOMAIN delivered = 1..Len(delivered)
  BY <1>0
<1>. QED BY <1>3, <1>4, <1>5, Pairs, Zenon

LEMMA StayPast ==
    ASSUME TypeOK, Past, delivered' = delivered, b'.reasm = b.reasm \/ ~b'.reasm.assembly,
           sent' \in Seq(Seq(Payloads)), Len(sent') >= Len(sent)
    PROVE  Past' /\ \A n : Above(n) => Above(n)'
<1>1. \A n : Above(n) => Above(n)'
  BY Zenon DEF Above
<1>2. \A x \in Nat : x <= Len(sent) => x <= Len(sent')
  BY DEF TypeOK
<1>3. /\ \A k \in DOMAIN delivered : delivered[k][1][1] <= Len(sent')
      /\ b.reasm.assembly => b.reasm.buf[1][1] <= Len(sent')
  BY <1>2, Ids, Zenon DEF Past
<1>. QED BY <1>1, <1>3, Zenon DEF Past

LEMMA Appended ==
    ASSUME NEW q \in Seq(Payloads), NEW p \in Payloads, q # <<>>
    PROVE  Append(q, p) # <<>> /\ Append(q, p)[1] = q[1]
OBVIOUS

(* A segment that is passed up.                                            *)
LEMMA TakePast ==
    ASSUME TypeOK, TypeOK', Past, sent' = sent,
           NEW h \in Segments, NEW g \in Seq(Payloads),
           Drops(b'.reasm, g) \/ Grows(b.reasm, h, b'.reasm, g),
           delivered' = IF g = NoFragment THEN delivered ELSE Append(delivered, g),
           h.fir => Above(h.payload[1]) /\ h.payload[1] <= Len(sent)
    PROVE  Past' /\ \A n : Above(n) /\ (h.fir => h.payload[1] < n) => Above(n)'
<1>. DEFINE t == b'.reasm
            d == Len(delivered)
<1>0. /\ delivered \in Seq(Seq(Payloads)) /\ b.reasm.buf \in Seq(Payloads)
      /\ h.payload \in Payloads /\ h.fin \in BOOLEAN /\ h.payload[1] \in Nat
      /\ d \in Nat /\ DOMAIN delivered = 1..d
  BY Pairs DEF TypeOK, Receivers, Reassemblers, Segments
<1>1. CASE Drops(t, g)
  <2>1. delivered' = delivered /\ ~t.assembly
    BY <1>1, ZenonT(60) DEF Drops
  <2>2. sent' \in Seq(Seq(Payloads)) /\ Len(sent') >= Len(sent)
    BY DEF TypeOK
  <2>. QED BY <2>1, <2>2, StayPast, Zenon
<1>2. CASE Grows(b.reasm, h, t, g)
  (* x is the number of the fragment that h belongs to.                    *)
  <2>. DEFINE x == IF h.fir THEN h.payload[1] ELSE b.reasm.buf[1][1]
  <2>1. /\ t.buf # <<>> /\ t.buf[1][1] = x /\ x \in Nat /\ x <= Len(sent)
        /\ \A k \in DOMAIN delivered : delivered[k][1][1] < x
    <3>1. CASE h.fir /\ t.buf = <<h.payload>>
      <4>1. t.buf # <<>> /\ t.buf[1] = h.payload
        BY <3>1
      <4>. QED BY <1>0, <3>1, <4>1, ZenonT(60) DEF Above
    <3>2. CASE ~h.fir /\ b.reasm.assembly /\ t.buf = Append(b.reasm.buf, h.payload)
      <4>1. b.reasm.buf # <<>> /\ b.reasm.buf[1][1] <= Len(sent)
            /\ \A k \in DOMAIN delivered : delivered[k][1][1] < b.reasm.buf[1][1]
        BY <3>2, Zenon DEF Past
      <4>2. t.buf # <<>> /\ t.buf[1] = b.reasm.buf[1]
        BY <1>0, <3>2, <4>1, Appended, ZenonT(60)
      <4>3. b.reasm.buf[1][1] \in Nat
        BY <3>2, Ids, Zenon
      <4>. QED BY <3>2, <4>1, <4>2, <4>3, Zenon
    <3>. QED BY <1>2, <3>1, <3>2, Zenon DEF Grows
  <2>2. \A n : Above(n) /\ (h.fir => h.payload[1] < n) => x < n
    <3>1. h.fir \/ b.reasm.assembly
      BY <1>2, Zenon DEF Grows
    <3>. QED BY <3>1, Zenon DEF Above
  <2>. HIDE DEF x
  <2>3. CASE h.fin
    <3>1. g = t.buf /\ ~t.assembly
      BY <1>2, <2>3, ZenonT(60) DEF Grows
    <3>2. g # NoFragment
      BY <2>1, <3>1 DEF NoFragment
    <3>3. delivered' = Append(delivered, g)
      BY <3>2, ZenonT(60)
    <3>4. /\ DOMAIN delivered' = 1..(d + 1) /\ delivered'[d + 1] = g
          /\ \A k \in 1..d : delivered'[k] = delivered[k]
      BY <1>0, <3>3
    <3>5. \A k \in 1..(d + 1) : k \in 1..d \/ k = d + 1
      BY <1>0
    <3>6. delivered'[d + 1][1][1] = x /\ delivered'[d + 1] # <<>>
      BY <2>1, <3>1, <3>4, Zenon
    <3>7. \A k \in DOMAIN delivered' : delivered'[k] # <<>> /\ delivered'[k][1][1] <= Len(sent')
      BY <1>0, <2>1, <3>4, <3>5, <3>6, Zenon DEF Past
    <3>8. ASSUME NEW j \in DOMAIN delivered', NEW k \in DOMAIN delivered', j < k
          PROVE  delivered'[j][1][1] < delivered'[k][1][1]
      <4>1. j \in 1..d
        BY <1>0, <3>4, <3>8
      <4>2. CASE k \in 1..d
        <5>1. delivered[j][1][1] < delivered[k][1][1]
          BY <1>0, <3>8, <4>1, <4>2, Zenon DEF Past
        <5>. QED BY <3>4, <4>1, <4>2, <5>1, Zenon
      <4>3. CASE k = d + 1
        <5>1. delivered[j][1][1] < x
          BY <1>0, <2>1, <4>1, Zenon
        <5>. QED BY <3>4, <3>6, <4>1, <4>3, <5>1, Zenon
      <4>. QED BY <3>4, <3>5, <3>8, <4>2, <4>3, ZenonT(60)
    <3>9. Past'
      BY <3>1, <3>7, <3>8, Zenon DEF Past
    <3>10. \A n : Above(n) /\ (h.fir => h.payload[1] < n) => Above(n)'
      <4>1. SUFFICES ASSUME NEW n, Above(n), h.fir => h.payload[1] < n PROVE Above(n)'
        BY Zenon
      <4>2. x < n
        BY <2>2, <4>1, Zenon
      <4>3. \A k \in 1..d : delivered[k][1][1] < n
        BY <1>0, <4>1, Zenon DEF Above
      <4>. QED BY <3>1, <3>4, <3>5, <3>6, <4>2, <4>3, ZenonT(60) DEF Above
    <3>. QED BY <3>9, <3>10
  <2>4. CASE ~h.fin
    <3>1. g = NoFragment /\ delivered' = delivered
      BY <1>2, <2>4, Zenon DEF Grows
    <3>2. Past'
      BY <2>1, <3>1, Zenon DEF Past
    <3>3. \A n : Above(n) /\ (h.fir => h.payload[1] < n) => Above(n)'
      BY <2>1, <2>2, <3>1, Zenon DEF Above
    <3>. QED BY <3>2, <3>3, Zenon
  <2>. QED BY <2>3, <2>4, Zenon
<1>. QED BY <1>1, <1>2

(* What the sender has started to send is not the first segment any more.  *)
LEMMA NotFirst ==
    ASSUME TypeOK, Fragments, Sending, a.seg.frag # <<>>
    PROVE  ~a.seg.first
<1>. DEFINE n == Len(a.seg.frag)
            m == Len(sent[Len(sent)])
<1>0. sent \in Seq(Seq(Payloads)) /\ a.seg.frag \in Seq(Payloads)
  BY Zenon DEF TypeOK, Senders, Segmenters
<1>1. /\ a.seg.first = (n = m) /\ Len(sent) > 0
      /\ Cut(sent, a.pri.pending) /\ a.pri.pending.payload = <<Len(sent), m - n>>
  BY Zenon DEF Fragments, Carries, Rest, Sending
<1>2. a.pri.pending.payload[1] = Len(sent) /\ a.pri.pending.payload[2] = m - n
  BY <1>1
<1>3. m - n \in 1..m
  BY <1>1, <1>2, Zenon DEF Cut
<1>4. n \in Nat /\ m \in Nat
  <2>1. Len(sent) \in DOMAIN sent
    BY <1>0, <1>1
  <2>. QED BY <1>0, <2>1
<1>5. n # m
  <2>. HIDE DEF n, m
  <2>. QED BY <1>3, <1>4
<1>. QED BY <1>1, <1>5, Zenon

(* The frames that are added to the queue, and the one that leaves it.     *)
LEMMA QueuedMore ==
    ASSUME TypeOK, Queued, NEW out \in Seq(Frames), ab' = ab \o out, Len(sent') >= Len(sent),
           \A n : Above(n) => Above(n)',
           \A k \in DOMAIN out : ~(Data(out[k]) /\ out[k].payload.fir),
           a'.seg.frag # <<>> /\ a'.seg.first => a.seg.frag # <<>> /\ a.seg.first /\ Len(sent') = Len(sent)
    PROVE  Queued'
<1>. DEFINE q == Len(ab)
            n == Len(out)
<1>0. ab \in Seq(Frames) /\ q \in Nat /\ n \in Nat /\ DOMAIN ab = 1..q /\ DOMAIN out = 1..n
  BY DEF TypeOK
<1>1. /\ DOMAIN ab' = 1..(q + n)
      /\ \A k \in 1..q : ab'[k] = ab[k]
      /\ \A k \in 1..n : ab'[q + k] = out[k]
      /\ \A k \in DOMAIN ab' : k \in 1..q \/ \E i \in 1..n : k = q + i
  <2>1. Joins(ab, out, ab')
    BY <1>0, JoinedFrames, Zenon
  <2>. QED BY <2>1, Zenon DEF Joins
<1>2. ASSUME NEW k \in DOMAIN ab', First(k)'
      PROVE  k \in 1..q /\ First(k) /\ IdOf(k)' = IdOf(k)
  <2>1. k \in 1..q
    <3>1. ASSUME NEW i \in 1..n, k = q + i PROVE FALSE
      <4>1. Data(out[i]) /\ out[i].payload.fir
        BY <1>1, <1>2, <3>1, ZenonT(60) DEF First
      <4>. QED BY <1>0, <4>1, Zenon
    <3>. QED BY <1>1, <3>1, Zenon
  <2>. QED BY <1>1, <1>2, <2>1, Zenon DEF First, IdOf
<1>3. \A k \in 1..q : \A j \in 1..(k - 1) : j \in 1..q
  BY <1>0
<1>. HIDE DEF q, n
<1>4. SUFFICES ASSUME NEW k \in DOMAIN ab', First(k)'
               PROVE  /\ Above(IdOf(k))' /\ (a'.seg.frag # <<>> /\ a'.seg.first => IdOf(k)' < Len(sent'))
                      /\ \A j \in 1..(k - 1) : First(j)' => IdOf(j)' < IdOf(k)'
  BY Zenon DEF Queued
<1>5. k \in 1..q /\ First(k) /\ IdOf(k)' = IdOf(k)
  BY <1>2, <1>4, Zenon
<1>6. /\ Above(IdOf(k)) /\ (a.seg.frag # <<>> /\ a.seg.first => IdOf(k) < Len(sent))
      /\ \A j \in 1..(k - 1) : First(j) => IdOf(j) < IdOf(k)
  BY <1>0, <1>5, Zenon DEF Queued
<1>7. \A j \in 1..(k - 1) : First(j)' => First(j) /\ IdOf(j)' = IdOf(j)
  BY <1>1, <1>3, <1>5, Zenon DEF First, IdOf
<1>8. Above(IdOf(k))'
  BY <1>5, <1>6, Zenon DEF Above
<1>. QED BY <1>5, <1>6, <1>7, <1>8, ZenonT(60)

LEMMA QueuedLess ==
    ASSUME TypeOK, Queued, ab # <<>>, ab' = Tail(ab), a' = a, sent' = sent,
           \A n : Above(n) /\ (First(1) => IdOf(1) < n) => Above(n)'
    PROVE  Queued'
<1>. DEFINE q == Len(ab)
<1>0. ab \in Seq(Frames) /\ q \in Nat \ {0} /\ DOMAIN ab = 1..q
      /\ DOMAIN ab' = 1..(q - 1) /\ \A k \in 1..(q - 1) : ab'[k] = ab[k + 1]
  BY Shorter DEF TypeOK
<1>1. \A k \in 1..(q - 1) : First(k)' = First(k + 1) /\ IdOf(k)' = IdOf(k + 1)
  BY <1>0, Zenon DEF First, IdOf
<1>2. \A k \in 1..(q - 1) : /\ k + 1 \in 1..q /\ 1 \in 1..((k + 1) - 1)
                            /\ \A j \in 1..(k - 1) : j \in 1..(q - 1) /\ j + 1 \in 1..((k + 1) - 1)
  BY <1>0
<1>. HIDE DEF q
<1>4. SUFFICES ASSUME NEW k \in DOMAIN ab', First(k)'
               PROVE  /\ Above(IdOf(k))' /\ (a'.seg.frag # <<>> /\ a'.seg.first => IdOf(k)' < Len(sent'))
                      /\ \A j \in 1..(k - 1) : First(j)' => IdOf(j)' < IdOf(k)'
  BY Zenon DEF Queued
<1>5. k \in 1..(q - 1) /\ k + 1 \in DOMAIN ab /\ First(k + 1) /\ IdOf(k)' = IdOf(k + 1)
  BY <1>0, <1>1, <1>2, <1>4, Zenon
<1>6. /\ Above(IdOf(k + 1)) /\ (a.seg.frag # <<>> /\ a.seg.first => IdOf(k + 1) < Len(sent))
      /\ \A j \in 1..((k + 1) - 1) : First(j) => IdOf(j) < IdOf(k + 1)
  BY <1>5, Zenon DEF Queued
<1>7. First(1) => IdOf(1) < IdOf(k + 1)
  BY <1>2, <1>5, <1>6, Zenon
<1>8. Above(IdOf(k))'
  <2>1. PICK n : n = IdOf(k + 1)
    OBVIOUS
  <2>2. Above(n)'
    BY <1>6, <1>7, <2>1, ZenonT(60)
  <2>3. n = IdOf(k)'
    BY <1>5, <2>1
  <2>. QED BY <2>2, <2>3, Zenon DEF Above
<1>9. \A j \in 1..(k - 1) : First(j)' => IdOf(j)' < IdOf(k)'
  BY <1>1, <1>2, <1>5, <1>6, Zenon
<1>. QED BY <1>5, <1>6, <1>8, <1>9, ZenonT(60)

LEMMA QueuedLoad ==
    ASSUME TypeOK, Queued, NEW c, Cuts(sent, ab, c), NEW out \in Seq(Frames), ab' = ab \o out,
           Len(sent') = Len(sent) + 1, \A n : Above(n) => Above(n)', Above(Len(sent))',
           \A k \in DOMAIN out : Data(out[k]) /\ out[k].payload.fir =>
               k = 1 /\ out[k].payload.payload[1] = Len(sent'),
           out # <<>> => a'.seg.frag = <<>>
    PROVE  Queued'
<1>. DEFINE q == Len(ab)
            n == Len(out)
<1>0. ab \in Seq(Frames) /\ q \in Nat /\ n \in Nat /\ DOMAIN ab = 1..q /\ DOMAIN out = 1..n
      /\ sent \in Seq(Seq(Payloads)) /\ (n # 0 => out # <<>>)
  BY DEF TypeOK
<1>1. /\ DOMAIN ab' = 1..(q + n)
      /\ \A k \in 1..q : ab'[k] = ab[k]
      /\ \A k \in 1..n : ab'[q + k] = out[k]
      /\ \A k \in DOMAIN ab' : k \in 1..q \/ \E i \in 1..n : k = q + i
  <2>1. Joins(ab, out, ab')
    BY <1>0, JoinedFrames, Zenon
  <2>. QED BY <2>1, Zenon DEF Joins
<1>. HIDE DEF q, n
<1>2. \A k \in 1..q : (First(k)' <=> First(k)) /\ IdOf(k)' = IdOf(k)
  BY <1>1, Zenon DEF First, IdOf
<1>3. \A k \in 1..q : First(k) => IdOf(k) < Len(sent')
  <2>1. \A k \in 1..q : First(k) => IdOf(k) \in DOMAIN sent
    BY <1>0, ZenonT(60) DEF First, IdOf, Cuts, Cut
  <2>2. \A x \in DOMAIN sent : x < Len(sent')
    BY <1>0
  <2>. QED BY <2>1, <2>2, ZenonT(60)
<1>4. SUFFICES ASSUME NEW k \in DOMAIN ab', First(k)'
               PROVE  /\ Above(IdOf(k))' /\ (a'.seg.frag # <<>> /\ a'.seg.first => IdOf(k)' < Len(sent'))
                      /\ \A j \in 1..(k - 1) : First(j)' => IdOf(j)' < IdOf(k)'
  BY Zenon DEF Queued
<1>5. CASE k \in 1..q
  <2>1. First(k) /\ IdOf(k)' = IdOf(k)
    BY <1>2, <1>4, <1>5, Zenon
  <2>2. Above(IdOf(k)) /\ \A j \in 1..(k - 1) : First(j) => IdOf(j) < IdOf(k)
    BY <1>0, <1>5, <2>1, ZenonT(60) DEF Queued
  <2>3. \A j \in 1..(k - 1) : j \in 1..q
    BY <1>0, <1>5
  <2>4. Above(IdOf(k))'
    BY <2>1, <2>2, Zenon DEF Above
  <2>5. \A j \in 1..(k - 1) : First(j)' => IdOf(j)' < IdOf(k)'
    BY <1>2, <2>1, <2>2, <2>3, Zenon
  <2>. QED BY <1>3, <1>5, <2>1, <2>4, <2>5, Zenon
<1>6. ASSUME NEW i \in 1..n, k = q + i
      PROVE  /\ Above(IdOf(k))' /\ (a'.seg.frag # <<>> /\ a'.seg.first => IdOf(k)' < Len(sent'))
             /\ \A j \in 1..(k - 1) : First(j)' => IdOf(j)' < IdOf(k)'
  <2>1. ab'[k] = out[i] /\ i \in DOMAIN out
    BY <1>0, <1>1, <1>6, Zenon
  <2>2. i = 1 /\ IdOf(k)' = Len(sent')
    BY <1>4, <2>1, ZenonT(60) DEF First, IdOf
  <2>3. a'.seg.frag = <<>>
    <3>1. n # 0
      BY <1>0, <1>6
    <3>. QED BY <1>0, <3>1
  <2>4. \A j \in 1..(k - 1) : j \in 1..q
    BY <1>0, <1>6, <2>2
  <2>5. Above(IdOf(k))'
    BY <2>2, Zenon DEF Above
  <2>. QED BY <1>2, <1>3, <2>2, <2>3, <2>4, <2>5, Zenon
<1>. QED BY <1>1, <1>4, <1>5, <1>6, ZenonT(60)

(* Without link confirms a fragment that is handed over is queued whole.   *)
LEMMA LoadQueues ==
    ASSUME NEW s \in Seq(Seq(Payloads)), NEW w \in Senders, NEW v \in Senders, NEW out \in Seq(Frames),
           Pumps(w, v, out), ~w.pri.useConfirms, Rest(s, w.seg)
    PROVE  /\ \A k \in DOMAIN out : Data(out[k]) /\ out[k].payload.fir =>
                k = 1 /\ out[k].payload.payload[1] = Len(s)
           /\ out # <<>> => v.seg.frag = <<>>
<1>0. w.seg \in Segmenters /\ w.seg.frag \in Seq(Payloads) /\ v.seg \in Segmenters
  BY Zenon DEF Senders, Segmenters
<1>1. CASE Rests(w, v, out)
  <2>1. out = <<>> /\ DOMAIN out = {}
    BY <1>1 DEF Rests
  <2>. QED BY <2>1, Zenon
<1>2. CASE SendsAll(w, v, out)
  <2>. DEFINE n == Len(w.seg.frag)
  <2>1. /\ DOMAIN out = 1..n
        /\ \A i \in 1..n : out[i] = frame("UNCONFIRMED_USER_DATA", FALSE, segAt(w.seg, i))
    BY <1>2, ZenonT(60) DEF SendsAll
  <2>2. \A i \in 1..n : out[i].payload = segAt(w.seg, i)
    <3>. HIDE DEF n
    <3>. QED BY <2>1 DEF frame
  <2>3. \A i \in 1..n : segAt(w.seg, i).payload[1] = Len(s)
    <3>1. \A i \in 1..n : segAt(w.seg, i).payload = <<Len(s), Len(s[Len(s)]) - n + i>>
      BY <1>0, SegmentsCut, Zenon
    <3>2. \A x, y : <<x, y>>[1] = x
      OBVIOUS
    <3>. QED BY <3>1, <3>2, Zenon
  <2>4. \A i \in 1..n : segAt(w.seg, i).fir => i = 1
    BY Zenon DEF segAt
  <2>5. v.seg.frag = <<>>
    <3>1. n \in 0..n /\ v.seg = segAfter(w.seg, n) /\ n \in Nat
      BY <1>0, <1>2 DEF SendsAll
    <3>2. Len(v.seg.frag) = n - n
      BY <3>1, <1>0, SegmenterTyped, Zenon
    <3>. QED BY <1>0, <3>1, <3>2 DEF Segmenters
  <2>6. ASSUME NEW k \in 1..n, out[k].payload.fir
        PROVE  k = 1 /\ out[k].payload.payload[1] = Len(s)
    <3>1. out[k].payload = segAt(w.seg, k)
      BY <2>2
    <3>. QED BY <2>3, <2>4, <2>6, <3>1, ZenonT(60)
  <2>. HIDE DEF n
  <2>. QED BY <2>1, <2>5, <2>6, Zenon
<1>. QED BY <1>1, <1>2, ZenonT(60) DEF Pumps, SendsOne

LEMMA OrderedStep ==
    ASSUME TypeOK, TypeOK', Sane, Fragments, Fragments', Ordered, Step, line' = line,
           used.restarts = 0, used'.restarts = 0,
           line.confirms => Confirming /\ Confirming' /\ Alone /\ Bits
    PROVE  Ordered'
<1>0. /\ a \in Senders /\ a' \in Senders /\ ab \in Seq(Frames) /\ ba \in Seq(Answers)
      /\ sent \in Seq(Seq(Payloads)) /\ sent' \in Seq(Seq(Payloads)) /\ Len(sent) \in Nat
      /\ line.confirms \in BOOLEAN /\ a.pri.useConfirms = line.confirms /\ a.pri.state \in States
      /\ Past /\ Ahead /\ (~line.confirms => Queued)
  BY LinesAssumption DEF TypeOK, Sane, Fits, Ordered, Senders, Primaries
<1>1. SUFFICES Past' /\ Ahead' /\ (~line.confirms => Queued')
  BY Zenon DEF Ordered
<1>. DEFINE Later == \A n : Above(n) => Above(n)'
<1>2. ASSUME delivered' = delivered, b'.reasm = b.reasm \/ ~b'.reasm.assembly, sent' = sent
      PROVE  Past' /\ Later
  <2>1. Len(sent') >= Len(sent)
    BY <1>0, <1>2
  <2>. QED BY <1>0, <1>2, <2>1, StayPast, ZenonT(60)
<1>3. ASSUME Later, sent' = sent,
             a'.seg.frag # <<>> /\ a'.seg.first => a.seg.frag # <<>> /\ a.seg.first,
             Sending' /\ a'.pri.pending.fir /\ ~Taken' => Sending /\ a.pri.pending.fir /\ ~Taken
      PROVE  Ahead'
  <2>1. Above(Len(sent)) => Above(Len(sent))'
    BY <1>3, Zenon DEF Above
  <2>. QED BY <1>0, <1>3, <2>1, Zenon DEF Ahead
<1>4. ASSUME Later, sent' = sent, NEW out \in Seq(Frames), ab' = ab \o out,
             a'.seg.frag # <<>> /\ a'.seg.first => a.seg.frag # <<>> /\ a.seg.first,
             \A k \in DOMAIN out : ~(Data(out[k]) /\ out[k].payload.fir)
      PROVE  ~line.confirms => Queued'
  <2>1. Len(sent') >= Len(sent)
    BY <1>0, <1>4
  <2>. QED BY <1>0, <1>4, <2>1, QueuedMore, ZenonT(60)
<1>5. DOMAIN <<>> = {} /\ \A f : DOMAIN <<f>> = {1} /\ <<f>>[1] = f
  OBVIOUS
<1>6. ~Data(StatusRequest)
  BY DEF Data, DataFns, StatusRequest, frame
<1>. DEFINE Goal == Past' /\ Ahead' /\ (~line.confirms => Queued')
<1>7. ASSUME b' = b, sent' = sent, delivered' = delivered, NEW out \in Seq(Frames), ab' = ab \o out,
             Rests(a, a', out)
      PROVE  Goal
  <2>1. /\ a'.pri.state = a.pri.state /\ a'.pri.fcb = a.pri.fcb /\ out = <<>>
        /\ a'.pri.pending = a.pri.pending /\ a'.seg = a.seg
    BY <1>7, Zenon DEF Rests, Same
  <2>2. Later /\ Past'
    BY <1>2, <1>7, Zenon
  <2>3. (Sending' <=> Sending) /\ (Taken' <=> Taken)
    BY <1>7, <2>1, ZenonT(60) DEF Sending, Sends, Taken
  <2>. QED BY <1>3, <1>4, <1>5, <1>7, <2>1, <2>2, <2>3, ZenonT(60)
<1>8. ASSUME b' = b, sent' = sent, delivered' = delivered, NEW out \in Seq(Frames), ab' = ab \o out,
             Resends(a, a', out)
      PROVE  Goal
  <2>1. /\ a'.pri.state = a.pri.state /\ a'.pri.fcb = a.pri.fcb /\ out = <<a.pri.lastSent>>
        /\ a'.pri.pending = a.pri.pending /\ a'.seg = a.seg /\ a.pri.state # "idle"
    BY <1>8, Zenon DEF Resends, Same
  <2>2. Later /\ Past'
    BY <1>2, <1>8, Zenon
  <2>3. (Sending' <=> Sending) /\ (Taken' <=> Taken)
    BY <1>8, <2>1, ZenonT(60) DEF Sending, Sends, Taken
  <2>4. ~line.confirms => a.pri.lastSent = StatusRequest
    BY <1>0, <2>1 DEF Sane, Fits, States
  <2>5. ~line.confirms => \A k \in DOMAIN out : ~Data(out[k])
    <3>1. DOMAIN out = {1} /\ out[1] = a.pri.lastSent
      BY <1>5, <2>1, Zenon
    <3>. QED BY <1>6, <2>4, <3>1, Zenon
  <2>6. Ahead'
    BY <1>3, <1>8, <2>1, <2>2, <2>3, ZenonT(60)
  <2>7. ~line.confirms => Queued'
    BY <1>4, <1>8, <2>1, <2>2, <2>5, ZenonT(60)
  <2>. QED BY <2>2, <2>6, <2>7
<1>9. ASSUME b' = b, sent' = sent, delivered' = delivered, NEW out \in Seq(Frames), ab' = ab \o out,
             Fails(a, a', out)
      PROVE  Goal
  <2>1. a'.pri.state = "idle" /\ a'.seg.frag = <<>> /\ out = <<>>
    BY <1>9, ZenonT(60) DEF Fails
  <2>2. Later /\ Past'
    BY <1>2, <1>9, Zenon
  <2>3. ~Sending'
    BY <2>1 DEF Sending, Sends
  <2>. QED BY <1>3, <1>4, <1>5, <1>9, <2>1, <2>2, <2>3, ZenonT(60)
<1>10. CASE LoadStep
  <2>1. PICK n \in Nat \ {0}, w \in Senders, out \in Seq(Frames) :
          /\ Loads(a, w, Fragment(Len(sent) + 1, n)) /\ Pumps(w, a', out) /\ ab' = ab \o out
          /\ sent' = Append(sent, Fragment(Len(sent) + 1, n))
    BY <1>10, Zenon DEF LoadStep
  <2>. DEFINE F == Fragment(Len(sent) + 1, n)
  <2>2. b' = b /\ delivered' = delivered
    BY <1>10, Zenon DEF LoadStep
  <2>3. w.pri = a.pri /\ w.seg.frag = F /\ w.seg.first
    BY <2>1, Zenon DEF Loads
  <2>. HIDE DEF F
  <2>4. /\ Len(sent') = Len(sent) + 1 /\ sent'[Len(sent')] = F
        /\ Len(F) = n /\ F # <<>> /\ \A i \in DOMAIN F : F[i] = <<Len(sent'), i>>
    <3>1. F = Fragment(Len(sent) + 1, n) /\ sent' = Append(sent, F) /\ sent \in Seq(Seq(Payloads))
      BY <1>0, <2>1, Zenon DEF F
    <3>2. Longer(sent, sent', F, n)
      BY <3>1, OneMore, Zenon
    <3>. QED BY <3>2, Zenon DEF Longer
  <2>5. Rest(sent', w.seg)
    <3>1. sent \in Seq(Seq(Payloads)) /\ sent' \in Seq(Seq(Payloads)) /\ w.seg \in Segmenters
      BY <1>0, Zenon DEF Senders
    <3>. QED BY <2>3, <2>4, <3>1, RestOfNew, ZenonT(60)
  <2>6. Past' /\ Later
    <3>1. Len(sent') >= Len(sent)
      BY <1>0, <2>4
    <3>. QED BY <1>0, <2>2, <3>1, StayPast, ZenonT(60)
  <2>7. Above(Len(sent))'
    <3>1. \A x \in Nat : x <= Len(sent) => x < Len(sent')
      BY <1>0, <2>4
    <3>2. /\ \A k \in DOMAIN delivered : delivered[k][1][1] < Len(sent')
          /\ b.reasm.assembly => b.reasm.buf[1][1] < Len(sent')
      BY <1>0, <3>1, Ids, Zenon DEF Past
    <3>. QED BY <2>2, <3>2, ZenonT(60) DEF Above
  <2>8. ASSUME ~line.confirms PROVE Queued'
    <3>1. /\ \A k \in DOMAIN out : Data(out[k]) /\ out[k].payload.fir =>
               k = 1 /\ out[k].payload.payload[1] = Len(sent')
          /\ out # <<>> => a'.seg.frag = <<>>
      <4>1. ~w.pri.useConfirms
        BY <1>0, <2>3, <2>8, ZenonT(60)
      <4>2. sent' \in Seq(Seq(Payloads)) /\ a' \in Senders
        BY <1>0
      <4>. QED BY <2>1, <2>5, <4>1, <4>2, LoadQueues, ZenonT(60)
    <3>2. Queued /\ Cuts(sent, ab, line.confirms)
      BY <1>0, <2>8, Zenon DEF Fragments
    <3>. QED BY <2>1, <2>4, <2>6, <2>7, <3>1, <3>2, QueuedLoad, ZenonT(60)
  <2>9. Ahead'
    BY <2>7, Zenon DEF Ahead
  <2>. QED BY <2>6, <2>8, <2>9
<1>11. CASE ProbeStep
  <2>1. PICK out \in Seq(Frames) : Probes(a, a', out) /\ ab' = ab \o out
    BY <1>11, Zenon DEF ProbeStep
  <2>2. b' = b /\ sent' = sent /\ delivered' = delivered /\ a.seg.frag = <<>>
    BY <1>11, Zenon DEF ProbeStep
  <2>3. a'.pri.state = "waitStatus" /\ a'.seg = a.seg /\ out = <<StatusRequest>>
    BY <2>1, Zenon DEF Probes
  <2>4. Later /\ Past'
    BY <1>2, <2>2, ZenonT(60)
  <2>5. ~Sending'
    BY <2>3 DEF Sending, Sends
  <2>6. \A k \in DOMAIN out : ~Data(out[k])
    BY <1>5, <1>6, <2>3, Zenon
  <2>7. Ahead'
    BY <1>3, <2>2, <2>3, <2>4, <2>5, ZenonT(60)
  <2>8. ~line.confirms => Queued'
    BY <1>4, <2>1, <2>2, <2>3, <2>4, <2>6, ZenonT(60)
  <2>. QED BY <2>4, <2>7, <2>8
<1>12. CASE TimeoutStep
  <2>1. PICK out \in Seq(Frames) : (Fails(a, a', out) \/ Resends(a, a', out)) /\ ab' = ab \o out
    BY <1>12, Zenon DEF TimeoutStep
  <2>2. b' = b /\ sent' = sent /\ delivered' = delivered
    BY <1>12, Zenon DEF TimeoutStep
  <2>. QED BY <1>8, <1>9, <2>1, <2>2, ZenonT(60)
<1>13. CASE ReplyStep
  <2>1. PICK out \in Seq(Frames) : Drains(a, ba[1].fn, a', out) /\ ab' = ab \o out
    BY <1>13, Zenon DEF ReplyStep
  <2>2. b' = b /\ sent' = sent /\ delivered' = delivered /\ ba # <<>>
    BY <1>13, Zenon DEF ReplyStep
  <2>3. Later /\ Past'
    BY <1>2, <2>2, Zenon
  <2>4. ASSUME Establishes(a, a', out) PROVE Goal
    <3>1. a.pri.state = "waitLinkReset" /\ a'.pri.pending = a.pri.pending /\ a'.seg = a.seg
      BY <2>4, ZenonT(60) DEF Establishes
    <3>2. Sending /\ ~Taken /\ line.confirms
      BY <3>1 DEF Sending, Sends, Taken, Sane, Fits
    <3>. QED BY <1>3, <2>2, <2>3, <3>1, <3>2, ZenonT(60)
  <2>5. ASSUME Renews(a, a', out), ba[1].fn = "NACK" PROVE Goal
    <3>1. a.pri.state = "waitConfirm" /\ a'.pri.pending = a.pri.pending /\ a'.seg = a.seg
      BY <2>5, ZenonT(60) DEF Renews
    <3>2. Sending /\ line.confirms
      BY <3>1 DEF Sending, Sends, Sane, Fits
    <3>3. ~Taken
      <4>1. b.sec.reset => ba[1].fn = "ACK"
        BY <2>2, <3>1, <3>2, Zenon DEF Bits
      <4>. QED BY <2>5, <4>1 DEF Taken
    <3>. QED BY <1>3, <2>2, <2>3, <3>1, <3>2, <3>3, ZenonT(60)
  <2>6. ASSUME NEW w \in Senders, Completes(a, w), Pumps(w, a', out) PROVE Goal
    <3>1. w.seg = a.seg /\ w.pri.state = "idle" /\ w.pri.useConfirms = a.pri.useConfirms
      BY <2>6, ZenonT(60) DEF Completes
    <3>2. w.seg.frag # <<>> => ~w.seg.first /\ a.pri.state = "waitConfirm"
      <4>1. CASE a.pri.state = "waitConfirm"
        <5>1. Sending
          BY <4>1 DEF Sending, Sends
        <5>. QED BY <3>1, <4>1, <5>1, NotFirst, ZenonT(60)
      <4>2. CASE a.pri.state = "waitStatus"
        BY <3>1, <4>2, ZenonT(60) DEF Sane, Fits
      <4>. QED BY <2>6, <4>1, <4>2 DEF Completes
    <3>3. CASE Rests(w, a', out)
      <4>1. a'.seg = w.seg /\ a'.pri.state = "idle" /\ out = <<>>
        BY <3>1, <3>3, ZenonT(60) DEF Rests, Same
      <4>2. ~Sending'
        BY <4>1 DEF Sending, Sends
      <4>3. Ahead'
        BY <1>3, <2>2, <2>3, <3>2, <4>1, <4>2, ZenonT(60)
      <4>4. ~line.confirms => Queued'
        BY <1>4, <1>5, <2>1, <2>2, <2>3, <3>2, <4>1, ZenonT(60)
      <4>. QED BY <2>3, <4>3, <4>4
    <3>4. CASE SendsOne(w, a', out)
      <4>1. w.seg.frag # <<>> /\ a'.pri.pending = segAt(w.seg, 1) /\ a'.seg = segAfter(w.seg, 1)
            /\ w.pri.useConfirms
        BY <3>4, Zenon DEF SendsOne
      <4>2. ~a'.pri.pending.fir /\ ~a'.seg.first
        <5>1. segAt(w.seg, 1).fir = (w.seg.first /\ 1 = 1)
          BY DEF segAt
        <5>2. ~segAfter(w.seg, 1).first
          BY DEF segAfter
        <5>. QED BY <3>2, <4>1, <5>1, <5>2, ZenonT(60)
      <4>3. Ahead'
        BY <1>3, <2>2, <2>3, <4>2, ZenonT(60)
      <4>4. line.confirms
        BY <1>0, <3>1, <4>1, ZenonT(60)
      <4>. QED BY <2>3, <4>3, <4>4
    <3>5. ~SendsAll(w, a', out)
      <4>1. ASSUME SendsAll(w, a', out) PROVE FALSE
        <5>1. w.seg.frag # <<>> /\ ~w.pri.useConfirms
          BY <4>1, Zenon DEF SendsAll
        <5>2. a.pri.state = "waitConfirm" /\ ~line.confirms
          BY <1>0, <3>1, <3>2, <5>1, ZenonT(60)
        <5>. QED BY <5>2, Zenon DEF Sane, Fits
      <4>. QED BY <4>1
    <3>. QED BY <2>6, <3>3, <3>4, <3>5, Zenon DEF Pumps
  <2>. QED BY <1>7, <1>9, <2>1, <2>2, <2>4, <2>5, <2>6, ZenonT(60) DEF Drains
<1>14. CASE HearStep
  <2>1. ab # <<>> /\ a' = a /\ sent' = sent /\ delivered' = delivered /\ ab' = Tail(ab)
    BY <1>14, Zenon DEF HearStep
  <2>2. PICK fn \in {"ACK", "NACK", "LINK_STATUS"} : Hears(b, ab[1], b', fn)
    BY <1>14, Zenon DEF HearStep
  <2>3. b'.reasm = b.reasm
    BY <2>2, HearsWhat, ZenonT(60)
  <2>4. Later /\ Past'
    BY <1>2, <2>1, <2>3, Zenon
  <2>5. Sending /\ ~Taken' => ~Taken
    <3>1. a.pri.state = "waitConfirm" => b'.sec = b.sec
      <4>1. a.pri.state = "waitConfirm" => line.confirms
        BY Zenon DEF Sane, Fits
      <4>. QED BY <2>1, <2>2, <4>1, UnderWay, HearsWhat
    <3>. QED BY <2>1, <3>1, ZenonT(60) DEF Taken
  <2>6. Sending' <=> Sending
    BY <2>1, Zenon DEF Sending, Sends
  <2>7. Ahead'
    BY <1>3, <2>1, <2>4, <2>5, <2>6, ZenonT(60)
  <2>8. ~line.confirms => Queued'
    BY <1>0, <2>1, <2>4, QueuedLess, ZenonT(60)
  <2>. QED BY <2>4, <2>7, <2>8
<1>15. CASE TakeStep
  <2>1. ab # <<>> /\ a' = a /\ sent' = sent /\ ab' = Tail(ab) /\ Data(ab[1])
    BY <1>15, Zenon DEF TakeStep, Takes
  <2>. DEFINE h == ab[1].payload
  <2>2. PICK g \in Seq(Payloads) :
          /\ Drops(b'.reasm, g) \/ Grows(b.reasm, h, b'.reasm, g)
          /\ delivered' = IF g = NoFragment THEN delivered ELSE Append(delivered, g)
    BY <1>15, ZenonT(60) DEF TakeStep, Takes
  <2>3. ab[1] \in Frames /\ 1 \in DOMAIN ab
    BY <1>0, <2>1
  <2>4. h \in Segments /\ Cut(sent, h) /\ (ab[1].fn = "CONFIRMED_USER_DATA") = line.confirms
    BY <2>1, <2>3, DataTyped, ZenonT(60) DEF Fragments, Cuts
  <2>5. h.payload[1] <= Len(sent)
    <3>1. h.payload[1] \in DOMAIN sent
      BY <2>4, Zenon DEF Cut
    <3>2. sent \in Seq(Seq(Payloads))
      BY <1>0, Zenon
    <3>. QED BY <3>1, <3>2
  <2>6. ASSUME line.confirms
        PROVE  /\ a.pri.state = "waitConfirm" /\ h = a.pri.pending /\ Sending
               /\ ~Taken /\ Taken' /\ h.payload[1] = Len(sent)
    <3>1. ab[1].fn = "CONFIRMED_USER_DATA"
      BY <2>4, <2>6, ZenonT(60)
    <3>2. a.pri.state = "waitConfirm" /\ ab[1].fcb = a.pri.fcb /\ h = a.pri.pending
      <4>1. Alone
        BY <2>6
      <4>. QED BY <2>1, <3>1, <4>1, UnderWay
    <3>3. ab[1].fcb = b.sec.expectFCB /\ b'.sec.reset /\ b'.sec.expectFCB = ~b.sec.expectFCB
      BY <1>15, <3>1, ZenonT(60) DEF TakeStep, Takes
    <3>4. b.sec.expectFCB \in BOOLEAN /\ a.pri.fcb \in BOOLEAN
      BY DEF TypeOK, Senders, Receivers, Primaries, Secondaries
    <3>5. Taken' /\ ~Taken
      BY <2>1, <3>2, <3>3, <3>4 DEF Taken
    <3>6. Sending
      BY <3>2 DEF Sending, Sends
    <3>7. a.pri.pending.payload = <<Len(sent), Len(sent[Len(sent)]) - Len(a.seg.frag)>>
      BY <3>6, Zenon DEF Fragments, Carries, Sending
    <3>8. a.pri.pending.payload[1] = Len(sent)
      BY <3>7
    <3>. QED BY <3>2, <3>5, <3>6, <3>8, Zenon
  <2>7. h.fir => Above(h.payload[1])
    <3>1. CASE line.confirms
      BY <1>0, <2>6, <3>1, Zenon DEF Ahead
    <3>2. CASE ~line.confirms
      BY <1>0, <2>1, <2>3, <3>2, ZenonT(60) DEF Queued, First, IdOf
    <3>. QED BY <3>1, <3>2
  <2>8. Past' /\ \A n : Above(n) /\ (h.fir => h.payload[1] < n) => Above(n)'
    <3>1. Past /\ (h.fir => Above(h.payload[1]) /\ h.payload[1] <= Len(sent)) /\ h \in Segments
      BY <1>0, <2>4, <2>5, <2>7, ZenonT(60)
    <3>. HIDE DEF h
    <3>. QED BY <2>1, <2>2, <3>1, TakePast, ZenonT(60)
  <2>9. ~line.confirms => Queued'
    <3>1. First(1) => h.fir /\ h.payload[1] = IdOf(1)
      BY Zenon DEF First, IdOf
    <3>2. h.fir => First(1)
      BY <2>1, Zenon DEF First
    <3>3. \A n : Above(n) /\ (First(1) => IdOf(1) < n) => Above(n)'
      BY <2>8, <3>1, <3>2, Zenon
    <3>. QED BY <1>0, <2>1, <3>3, QueuedLess, ZenonT(60)
  <2>10. Ahead'
    <3>1. CASE line.confirms
      <4>1. a.seg.frag # <<>> => ~a.seg.first
        BY <2>6, <3>1, NotFirst, Zenon
      <4>. QED BY <2>1, <2>6, <3>1, <4>1, ZenonT(60) DEF Ahead
    <3>2. CASE ~line.confirms
      <4>1. ~Sending'
        BY <2>1, <3>2 DEF Sending, Sends, Sane, Fits
      <4>2. ASSUME a.seg.frag # <<>>, a.seg.first PROVE Above(Len(sent))'
        <5>1. h.fir => h.payload[1] < Len(sent)
          BY <1>0, <2>1, <2>3, <3>2, <4>2, ZenonT(60) DEF Queued, First, IdOf
        <5>2. Above(Len(sent))
          BY <1>0, <4>2, Zenon DEF Ahead
        <5>3. PICK n : n = Len(sent)
          BY Zenon
        <5>4. Above(n)'
          BY <2>8, <5>1, <5>2, <5>3, ZenonT(60)
        <5>. QED BY <2>1, <5>3, <5>4, Zenon DEF Above
      <4>. QED BY <2>1, <4>1, <4>2, ZenonT(60) DEF Ahead
    <3>. QED BY <3>1, <3>2
  <2>. QED BY <2>8, <2>9, <2>10
<1>16. CASE LoseFrameStep
  <2>1. ab # <<>> /\ a' = a /\ b' = b /\ sent' = sent /\ delivered' = delivered /\ ab' = Tail(ab)
    BY <1>16, Zenon DEF LoseFrameStep
  <2>2. Later /\ Past'
    BY <1>2, <2>1, Zenon
  <2>3. (Sending' <=> Sending) /\ (Taken' <=> Taken)
    BY <2>1, Zenon DEF Sending, Sends, Taken
  <2>4. Ahead'
    BY <1>3, <2>1, <2>2, <2>3, Zenon
  <2>5. ~line.confirms => Queued'
    BY <1>0, <2>1, <2>2, QueuedLess, Zenon
  <2>. QED BY <2>2, <2>4, <2>5
<1>17. CASE LoseReplyStep
  <2>1. a' = a /\ b' = b /\ sent' = sent /\ delivered' = delivered /\ ab' = ab
    BY <1>17, Zenon DEF LoseReplyStep
  <2>. QED BY <1>0, <2>1, Zenon DEF Past, Ahead, Queued, Sending, Sends, Taken, Above, First, IdOf
<1>18. ~RestartStep
  BY DEF RestartStep, Spent
<1>19. CASE ReconnectStep
  <2>1. /\ sent' = sent /\ delivered' = delivered /\ ~b'.reasm.assembly
        /\ a'.pri.state = "idle" /\ a'.seg.frag = <<>> /\ ab' = <<>>
    BY <1>19, Zenon DEF ReconnectStep, Forgotten, Fails
  <2>2. Later /\ Past'
    BY <1>2, <2>1, ZenonT(60)
  <2>3. ~Sending'
    BY <2>1 DEF Sending, Sends
  <2>4. Queued'
    BY <1>5, <2>1, Zenon DEF Queued
  <2>. QED BY <1>3, <2>1, <2>2, <2>3, <2>4, Zenon
<1>. QED BY <1>10, <1>11, <1>12, <1>13, <1>14, <1>15, <1>16, <1>17, <1>18, <1>19, ZenonT(60) DEF Step

----------------------------------------------------------------------------
(* The segment numbers, modulo SegModulus.                                 *)
LEMMA Remainders ==
    ASSUME NEW x \in Nat
    PROVE  /\ x = SegModulus * (x \div SegModulus) + (x % SegModulus)
           /\ x % SegModulus \in Numbers /\ x \div SegModulus \in Nat
           /\ x \in Numbers => x % SegModulus = x
BY TransportAssumption DEF Numbers

LEMMA OneRemainder ==
    ASSUME NEW q \in Nat, NEW r \in Numbers, NEW p \in Nat, NEW s \in Numbers,
           SegModulus * q + r = SegModulus * p + s
    PROVE  r = s
<1>. DEFINE M == SegModulus
<1>1. M * (q - p) = s - r
  BY TransportAssumption DEF Numbers
<1>2. q - p \in Int /\ s - r \in Int /\ s - r < M /\ s - r > -M /\ M \in Nat \ {0}
  BY TransportAssumption DEF Numbers
<1>. HIDE DEF M
<1>3. q - p >= 1 => M * (q - p) >= M
  BY <1>2
<1>4. q - p <= -1 => M * (q - p) <= -M
  BY <1>2
<1>. QED BY <1>1, <1>2, <1>3, <1>4 DEF Numbers

LEMMA NextNumber ==
    ASSUME NEW x \in Nat
    PROVE  ((x % SegModulus) + 1) % SegModulus = (x + 1) % SegModulus
<1>. DEFINE M == SegModulus
            q == x \div M
            r == x % M
            p == (x + 1) \div M
            s == (x + 1) % M
<1>0. M \in Nat \ {0} /\ Numbers = 0..(M - 1)
  BY TransportAssumption DEF Numbers
<1>1. q \in Nat /\ r \in Numbers /\ x = M * q + r
  BY Remainders
<1>2. p \in Nat /\ s \in Numbers /\ x + 1 = M * p + s
  BY Remainders
<1>. HIDE DEF q, r, p, s
<1>3. CASE r + 1 < M
  <2>1. M * q + (r + 1) = M * p + s
    BY <1>0, <1>1, <1>2
  <2>2. r + 1 \in Numbers
    BY <1>0, <1>1, <1>3
  <2>3. s = r + 1
    BY <1>1, <1>2, <2>1, <2>2, OneRemainder, ZenonT(60)
  <2>4. (r + 1) % M = r + 1
    BY <1>0, <1>1, <1>3
  <2>. QED BY <2>3, <2>4, Zenon DEF r, s
<1>4. CASE r + 1 = M
  <2>1. M * (q + 1) + 0 = M * p + s
    BY <1>0, <1>1, <1>2, <1>4
  <2>2. s = 0
    <3>1. q + 1 \in Nat /\ 0 \in Numbers
      BY <1>0, <1>1
    <3>. QED BY <1>2, <2>1, <3>1, OneRemainder, ZenonT(60)
  <2>3. (r + 1) % M = 0
    BY <1>0, <1>4
  <2>. QED BY <2>2, <2>3 DEF r, s
<1>5. r + 1 < M \/ r + 1 = M
  BY <1>0, <1>1
<1>. QED BY <1>3, <1>4, <1>5, Zenon

(* Fewer losses than numbers leave a gap that shows.                       *)
LEMMA NoGap ==
    ASSUME NEW e \in Numbers, NEW d \in Nat, d < SegModulus, e = (e + d) % SegModulus
    PROVE  d = 0
BY TransportAssumption DEF Numbers

(* The counter along a queue.                                              *)
LEMMA RunsNone ==
    ASSUME NEW l \in Numbers
    PROVE  Runs(l, <<>>, l)
<1>. DEFINE S == [k \in 1..1 |-> l]
<1>1. Chained(<<>>)
  BY DEF Chained
<1>2. Numbering(S, <<>>) /\ S[1] = l /\ S[Len(<<>>) + 1] = l
  BY DEF Numbering
<1>. QED BY <1>1, <1>2, Zenon DEF Runs

LEMMA RunsControl ==
    ASSUME NEW l \in Numbers, NEW f, ~Data(f)
    PROVE  Runs(l, <<f>>, l)
<1>. DEFINE S == [k \in 1..2 |-> l]
<1>0. DOMAIN <<f>> = {1} /\ <<f>>[1] = f /\ Len(<<f>>) = 1
  OBVIOUS
<1>1. Chained(<<f>>)
  BY <1>0, Zenon DEF Chained
<1>2. S[1] = l /\ S[1 + 1] = l /\ S \in [1..(1 + 1) -> Numbers]
  OBVIOUS
<1>. HIDE DEF S
<1>3. Numbering(S, <<f>>)
  BY <1>0, <1>2, Zenon DEF Numbering, Counts
<1>. QED BY <1>0, <1>1, <1>2, <1>3, ZenonT(60) DEF Runs

LEMMA ChainedMore ==
    ASSUME NEW q \in Seq(Frames), NEW out \in Seq(Frames), Chained(q), Chained(out)
    PROVE  Chained(q \o out)
<1>. DEFINE r == q \o out
            m == Len(q)
            n == Len(out)
<1>0. m \in Nat /\ n \in Nat /\ DOMAIN q = 1..m /\ DOMAIN out = 1..n
  OBVIOUS
<1>1. /\ DOMAIN r = 1..(m + n)
      /\ \A k \in 1..m : r[k] = q[k]
      /\ \A k \in 1..n : r[m + k] = out[k]
      /\ \A k \in DOMAIN r : k \in 1..m \/ \E i \in 1..n : k = m + i
  BY JoinedFrames, Zenon DEF Joins
<1>. HIDE DEF r, m, n
<1>2. ASSUME NEW k \in 1..m, Data(r[k]), ~r[k].payload.fin
      PROVE  k + 1 \in DOMAIN r /\ Follows(r[k], r[k + 1])
  <2>1. k + 1 \in 1..m /\ Follows(q[k], q[k + 1])
    BY <1>0, <1>1, <1>2, Zenon DEF Chained
  <2>2. k + 1 \in 1..(m + n)
    BY <1>0, <2>1
  <2>. QED BY <1>1, <2>1, <2>2, Zenon
<1>3. ASSUME NEW i \in 1..n, Data(r[m + i]), ~r[m + i].payload.fin
      PROVE  (m + i) + 1 \in DOMAIN r /\ Follows(r[m + i], r[(m + i) + 1])
  <2>1. i + 1 \in 1..n /\ Follows(out[i], out[i + 1])
    BY <1>0, <1>1, <1>3, ZenonT(60) DEF Chained
  <2>2. (m + i) + 1 \in 1..(m + n) /\ (m + i) + 1 = m + (i + 1)
    BY <1>0, <2>1
  <2>3. r[m + i] = out[i] /\ r[m + (i + 1)] = out[i + 1] /\ DOMAIN r = 1..(m + n)
    BY <1>1, <2>1, ZenonT(60)
  <2>4. r[(m + i) + 1] = out[i + 1]
    BY <2>2, <2>3
  <2>. QED BY <2>1, <2>2, <2>3, <2>4, Zenon
<1>4. Chained(r)
  BY <1>1, <1>2, <1>3, Zenon DEF Chained
<1>. QED BY <1>4 DEF r

LEMMA RunsMore ==
    ASSUME NEW q \in Seq(Frames), NEW out \in Seq(Frames), NEW l, NEW x, NEW y,
           Runs(l, q, x), Runs(x, out, y)
    PROVE  Runs(l, q \o out, y)
<1>1. PICK S : Numbering(S, q) /\ S[1] = l /\ S[Len(q) + 1] = x
  BY Zenon DEF Runs
<1>2. PICK T : Numbering(T, out) /\ T[1] = x /\ T[Len(out) + 1] = y
  BY Zenon DEF Runs
<1>. DEFINE r == q \o out
            m == Len(q)
            n == Len(out)
            R == [k \in 1..((m + n) + 1) |-> IF k <= m + 1 THEN S[k] ELSE T[k - m]]
<1>3. m \in Nat /\ n \in Nat /\ DOMAIN q = 1..m /\ DOMAIN out = 1..n
  OBVIOUS
<1>4. /\ DOMAIN r = 1..(m + n)
      /\ \A k \in 1..m : r[k] = q[k]
      /\ \A k \in 1..n : r[m + k] = out[k]
      /\ \A k \in DOMAIN r : k \in 1..m \/ \E i \in 1..n : k = m + i
  BY JoinedFrames, Zenon DEF Joins
<1>5. Len(r) = m + n
  OBVIOUS
<1>6. S \in [1..(m + 1) -> Numbers] /\ T \in [1..(n + 1) -> Numbers] /\ T[1] = S[m + 1]
  BY <1>1, <1>2, ZenonT(60) DEF Numbering
<1>. HIDE DEF r, m, n
<1>7. \A k \in 1..(m + 1) : k \in 1..((m + n) + 1) /\ R[k] = S[k]
  BY <1>3
<1>8. \A i \in 1..(n + 1) : m + i \in 1..((m + n) + 1) /\ R[m + i] = T[i]
  <2>1. SUFFICES ASSUME NEW i \in 1..(n + 1) PROVE m + i \in 1..((m + n) + 1) /\ R[m + i] = T[i]
    BY Zenon
  <2>2. m + i \in 1..((m + n) + 1) /\ (m + i) - m = i /\ (i # 1 => ~(m + i <= m + 1)) /\ m + 1 <= m + 1
    BY <1>3
  <2>3. CASE i = 1
    BY <1>6, <2>2, <2>3
  <2>4. CASE i # 1
    BY <2>2, <2>4
  <2>. QED BY <2>3, <2>4
<1>9. \A k \in 1..((m + n) + 1) : k \in 1..(m + 1) \/ \E i \in 1..(n + 1) : k = m + i
  <2>1. SUFFICES ASSUME NEW k \in 1..((m + n) + 1), k \notin 1..(m + 1)
                 PROVE  k - m \in 1..(n + 1) /\ k = m + (k - m)
    BY Zenon
  <2>. QED BY <1>3, <2>1
<1>10. R \in [1..((m + n) + 1) -> Numbers]
  <2>1. DOMAIN R = 1..((m + n) + 1) /\ R = [k \in DOMAIN R |-> R[k]]
    BY Zenon
  <2>2. \A k \in 1..((m + n) + 1) : R[k] \in Numbers
    <3>. HIDE DEF R
    <3>1. (\A k \in 1..(m + 1) : S[k] \in Numbers) /\ (\A i \in 1..(n + 1) : T[i] \in Numbers)
      BY <1>6, Zenon
    <3>2. \A k \in 1..(m + 1) : R[k] \in Numbers
      BY <1>7, <3>1, Zenon
    <3>3. \A i \in 1..(n + 1) : R[m + i] \in Numbers
      BY <1>8, <3>1, Zenon
    <3>. QED BY <1>9, <3>2, <3>3, Zenon
  <2>. HIDE DEF R
  <2>. QED BY <2>1, <2>2, ZenonT(60)
<1>. HIDE DEF R
<1>11. ASSUME NEW k \in 1..m
       PROVE  Counts(R, r, k)
  <2>1. IF Data(q[k]) THEN q[k].payload.seq = S[k] /\ S[k + 1] = (S[k] + 1) % SegModulus
        ELSE S[k + 1] = S[k]
    BY <1>1, <1>3, Zenon DEF Numbering, Counts
  <2>2. k \in 1..(m + 1) /\ k + 1 \in 1..(m + 1)
    BY <1>3
  <2>. QED BY <1>4, <1>7, <2>1, <2>2, ZenonT(60) DEF Counts
<1>12. ASSUME NEW i \in 1..n
       PROVE  Counts(R, r, m + i)
  <2>1. IF Data(out[i]) THEN out[i].payload.seq = T[i] /\ T[i + 1] = (T[i] + 1) % SegModulus
        ELSE T[i + 1] = T[i]
    BY <1>2, <1>3, ZenonT(60) DEF Numbering, Counts
  <2>2. i \in 1..(n + 1) /\ i + 1 \in 1..(n + 1) /\ (m + i) + 1 = m + (i + 1)
    BY <1>3
  <2>3. R[m + i] = T[i] /\ R[m + (i + 1)] = T[i + 1] /\ r[m + i] = out[i]
    BY <1>4, <1>8, <2>2, ZenonT(60)
  <2>4. R[(m + i) + 1] = T[i + 1]
    BY <2>2, <2>3
  <2>. QED BY <2>1, <2>3, <2>4, Zenon DEF Counts
<1>13. Numbering(R, r)
  <2>1. \A k \in DOMAIN r : Counts(R, r, k)
    BY <1>4, <1>11, <1>12, ZenonT(60)
  <2>. QED BY <1>5, <1>10, <2>1, Zenon DEF Numbering
<1>14. R[1] = l /\ R[Len(r) + 1] = y
  <2>1. 1 \in 1..(m + 1) /\ n + 1 \in 1..(n + 1) /\ (m + n) + 1 = m + (n + 1)
    BY <1>3
  <2>2. R[1] = l
    BY <1>1, <1>7, <2>1, Zenon
  <2>3. R[m + (n + 1)] = T[n + 1]
    BY <1>8, <2>1, Zenon
  <2>. QED BY <1>2, <1>5, <2>1, <2>2, <2>3, ZenonT(60) DEF n
<1>15. Chained(r)
  BY ChainedMore, Zenon DEF Runs, r
<1>16. Runs(l, r, y)
  BY <1>13, <1>14, <1>15, Zenon DEF Runs
<1>. QED BY <1>16 DEF r

LEMMA RunsLess ==
    ASSUME NEW q \in Seq(Frames), q # <<>>, NEW l, NEW x, Runs(l, q, x)
    PROVE  /\ l \in Numbers
           /\ IF Data(q[1]) THEN q[1].payload.seq = l /\ Runs((l + 1) % SegModulus, Tail(q), x)
              ELSE Runs(l, Tail(q), x)
           /\ Data(q[1]) /\ ~q[1].payload.fin => Tail(q) # <<>> /\ Follows(q[1], Tail(q)[1])
<1>1. PICK S : Numbering(S, q) /\ S[1] = l /\ S[Len(q) + 1] = x
  BY Zenon DEF Runs
<1>. DEFINE r == Tail(q)
            n == Len(q)
            R == [k \in 1..((n - 1) + 1) |-> S[k + 1]]
<1>2. n \in Nat \ {0} /\ DOMAIN q = 1..n /\ DOMAIN r = 1..(n - 1) /\ Len(r) = n - 1
      /\ \A k \in 1..(n - 1) : r[k] = q[k + 1]
  BY Shorter
<1>3. S \in [1..(n + 1) -> Numbers]
  BY <1>1, Zenon DEF Numbering
<1>. HIDE DEF r, n
<1>4. r = <<>> => n = 1
  <2>1. r = <<>> => Len(r) = 0
    OBVIOUS
  <2>2. n \in Nat /\ Len(r) = n - 1
    BY <1>2, Zenon
  <2>. QED BY <2>1, <2>2
<1>5. l \in Numbers
  BY <1>1, <1>2, <1>3
<1>6. \A k \in 1..n : IF Data(q[k]) THEN q[k].payload.seq = S[k] /\ S[k + 1] = (S[k] + 1) % SegModulus
                      ELSE S[k + 1] = S[k]
  BY <1>1, <1>2, ZenonT(60) DEF Numbering, Counts
<1>7. (n - 1) + 1 = n /\ 1 \in 1..n /\ 1 + 1 = 2
  BY <1>2
<1>8. R \in [1..((n - 1) + 1) -> Numbers]
  BY <1>2, <1>3
<1>9. \A k \in 1..n : R[k] = S[k + 1]
  BY <1>2
<1>. HIDE DEF R
<1>10. Numbering(R, r)
  <2>1. \A k \in 1..(n - 1) : k \in 1..n /\ k + 1 \in 1..n
    BY <1>2
  <2>2. \A k \in 1..(n - 1) : Counts(R, r, k)
    BY <1>2, <1>6, <1>9, <2>1, ZenonT(60) DEF Counts
  <2>. QED BY <1>2, <1>8, <2>2, ZenonT(60) DEF Numbering
<1>11. R[1] = S[2] /\ R[Len(r) + 1] = x
  <2>1. n \in 1..n
    BY <1>2
  <2>2. S[n + 1] = x
    BY <1>1 DEF n
  <2>3. R[1] = S[1 + 1] /\ R[n] = S[n + 1]
    BY <1>7, <1>9, <2>1, ZenonT(60)
  <2>4. Len(r) + 1 = n /\ S[1 + 1] = S[2]
    BY <1>2
  <2>. QED BY <2>2, <2>3, <2>4, ZenonT(60)
<1>12. Chained(r)
  <2>1. SUFFICES ASSUME NEW k \in 1..(n - 1), Data(r[k]), ~r[k].payload.fin
                 PROVE  k + 1 \in 1..(n - 1) /\ Follows(r[k], r[k + 1])
    BY <1>2, Zenon DEF Chained
  <2>2. k + 1 \in 1..n
    BY <1>2
  <2>3. (k + 1) + 1 \in 1..n /\ Follows(q[k + 1], q[(k + 1) + 1])
    BY <1>2, <2>1, <2>2, ZenonT(60) DEF Runs, Chained
  <2>4. k + 1 \in 1..(n - 1)
    BY <1>2, <2>3
  <2>. QED BY <1>2, <2>3, <2>4, Zenon
<1>13. Runs(S[2], r, x)
  BY <1>10, <1>11, <1>12, Zenon DEF Runs
<1>14. IF Data(q[1]) THEN q[1].payload.seq = l /\ S[2] = (l + 1) % SegModulus ELSE S[2] = l
  BY <1>1, <1>6, <1>7, Zenon
<1>15. ASSUME Data(q[1]), ~q[1].payload.fin PROVE r # <<>> /\ Follows(q[1], r[1])
  <2>1. 1 + 1 \in 1..n /\ Follows(q[1], q[1 + 1])
    BY <1>2, <1>7, <1>15, ZenonT(60) DEF Runs, Chained
  <2>2. 1 \in 1..(n - 1) /\ n # 1
    BY <1>2, <2>1
  <2>. QED BY <1>2, <1>4, <2>1, <2>2, ZenonT(60)
<1>. QED BY <1>5, <1>13, <1>14, <1>15, ZenonT(60) DEF r

LEMMA RunsAll ==
    ASSUME NEW s \in Seq(Seq(Payloads)), NEW w \in Senders, NEW v, NEW out \in Seq(Frames),
           Rest(s, w.seg), SendsAll(w, v, out)
    PROVE  Runs(w.seg.seq, out, v.seg.seq)
<1>. DEFINE n == Len(w.seg.frag)
            x == w.seg.seq
            S == [k \in 1..(n + 1) |-> (x + k - 1) % SegModulus]
<1>0. w.seg \in Segmenters /\ w.seg.frag \in Seq(Payloads) /\ n \in Nat /\ x \in Numbers /\ x \in Nat
  BY DEF Senders, Segmenters, Numbers
<1>1. /\ DOMAIN out = 1..n
      /\ \A i \in 1..n : out[i] = frame("UNCONFIRMED_USER_DATA", FALSE, segAt(w.seg, i))
  BY ZenonT(60) DEF SendsAll
<1>2. Len(out) = n
  BY <1>0, <1>1
<1>3. \A i \in 1..n : Data(out[i]) /\ out[i].payload = segAt(w.seg, i)
  <2>. HIDE DEF n
  <2>. QED BY <1>1 DEF frame, Data, DataFns
<1>4. \A i \in 1..n : /\ segAt(w.seg, i).fin = (i = n)
                      /\ segAt(w.seg, i).seq = (x + i - 1) % SegModulus
  BY Zenon DEF segAt
<1>5. v.seg.seq = (x + n) % SegModulus
  <2>1. n \in 0..n /\ v.seg = segAfter(w.seg, n)
    BY <1>0 DEF SendsAll
  <2>. QED BY <1>0, <2>1, SegmenterTyped, ZenonT(60)
<1>6. Chained(out)
  <2>. DEFINE m == Len(s[Len(s)])
  <2>1. \A i \in 1..n : segAt(w.seg, i).payload = <<Len(s), m - n + i>>
    BY <1>0, SegmentsCut, Zenon
  <2>2. m \in Nat
    <3>1. Len(s) > 0
      BY Zenon DEF Rest
    <3>2. Len(s) \in DOMAIN s
      BY <3>1
    <3>. QED BY <3>2
  <2>. HIDE DEF m, n
  <2>3. SUFFICES ASSUME NEW i \in 1..n, ~out[i].payload.fin
                 PROVE  i + 1 \in 1..n /\ Follows(out[i], out[i + 1])
    BY <1>1, Zenon DEF Chained
  <2>4. i # n
    BY <1>3, <1>4, <2>3, ZenonT(60)
  <2>5. i + 1 \in 1..n /\ m - n + (i + 1) = (m - n + i) + 1
    BY <1>0, <2>2, <2>4
  <2>6. out[i].payload.payload = <<Len(s), m - n + i>> /\ out[i + 1].payload.payload = <<Len(s), m - n + (i + 1)>>
    BY <1>3, <2>1, <2>5, ZenonT(60)
  <2>7. out[i].payload.payload[1] = Len(s) /\ out[i].payload.payload[2] = m - n + i
    BY <2>6
  <2>8. out[i + 1].payload.payload = <<out[i].payload.payload[1], out[i].payload.payload[2] + 1>>
    BY <2>5, <2>6, <2>7, ZenonT(60)
  <2>. QED BY <1>3, <2>5, <2>8, Zenon DEF Follows
<1>. HIDE DEF n, x
<1>7. \A k \in 1..(n + 1) : x + k - 1 \in Nat
  BY <1>0
<1>8. S \in [1..(n + 1) -> Numbers]
  <2>1. \A k \in 1..(n + 1) : (x + k - 1) % SegModulus \in Numbers
    BY <1>7, Remainders, Zenon
  <2>. QED BY <2>1, Zenon
<1>9. ASSUME NEW k \in 1..n PROVE Counts(S, out, k)
  <2>1. k \in 1..(n + 1) /\ k + 1 \in 1..(n + 1) /\ x + k - 1 \in Nat /\ x + (k + 1) - 1 = (x + k - 1) + 1
    BY <1>0
  <2>2. S[k] = (x + k - 1) % SegModulus /\ S[k + 1] = (x + (k + 1) - 1) % SegModulus
    BY <2>1, Zenon
  <2>3. S[k + 1] = ((x + k - 1) + 1) % SegModulus
    BY <2>1, <2>2, Zenon
  <2>. HIDE DEF S
  <2>4. S[k + 1] = (S[k] + 1) % SegModulus
    BY <2>1, <2>2, <2>3, NextNumber, ZenonT(60)
  <2>5. out[k].payload.seq = S[k]
    BY <1>3, <1>4, <2>2, Zenon
  <2>. QED BY <1>3, <2>4, <2>5, ZenonT(60) DEF Counts
<1>10. S[1] = x /\ S[n + 1] = v.seg.seq
  <2>1. 1 \in 1..(n + 1) /\ n + 1 \in 1..(n + 1) /\ x + 1 - 1 = x /\ x + (n + 1) - 1 = x + n
    BY <1>0
  <2>2. S[1] = (x + 1 - 1) % SegModulus /\ S[n + 1] = (x + (n + 1) - 1) % SegModulus
    BY <2>1, Zenon
  <2>3. x % SegModulus = x
    BY <1>0, Remainders, Zenon
  <2>. HIDE DEF S
  <2>. QED BY <1>5, <2>1, <2>2, <2>3, ZenonT(60)
<1>. HIDE DEF S
<1>11. Numbering(S, out)
  BY <1>1, <1>2, <1>8, <1>9, Zenon DEF Numbering
<1>12. Runs(x, out, v.seg.seq)
  BY <1>2, <1>6, <1>10, <1>11, ZenonT(60) DEF Runs
<1>. QED BY <1>12 DEF x

LEMMA PumpRuns ==
    ASSUME NEW s \in Seq(Seq(Payloads)), NEW w \in Senders, NEW v, NEW out \in Seq(Frames),
           w.seg.frag # <<>> => Rest(s, w.seg), ~w.pri.useConfirms, Pumps(w, v, out)
    PROVE  Runs(w.seg.seq, out, v.seg.seq)
<1>0. w.seg.seq \in Numbers
  BY DEF Senders, Segmenters
<1>1. CASE Rests(w, v, out)
  <2>1. out = <<>> /\ v.seg = w.seg
    BY <1>1, Zenon DEF Rests, Same
  <2>. QED BY <1>0, <2>1, RunsNone, Zenon
<1>2. CASE SendsAll(w, v, out)
  <2>1. Rest(s, w.seg)
    BY <1>2, Zenon DEF SendsAll
  <2>. QED BY <1>2, <2>1, RunsAll, Zenon
<1>. QED BY <1>1, <1>2, ZenonT(60) DEF Pumps, SendsOne

(* The sender adds frames to the queue.                                    *)
LEMMA GapsMore ==
    ASSUME TypeOK, Gaps, NEW out \in Seq(Frames), ab' = ab \o out, Runs(a.seg.seq, out, a'.seg.seq),
           b'.reasm = b.reasm, used'.losses >= used.losses, used'.losses \in Nat,
           \A id \in DOMAIN sent : id \in DOMAIN sent' /\ sent'[id] = sent[id]
    PROVE  Gaps'
<1>0. ab \in Seq(Frames) /\ used.losses \in Nat
  BY DEF TypeOK, Bounds
<1>1. PICK n \in Numbers : Runs(n, ab, a.seg.seq) /\ (b.reasm.assembly => Missing(n))
  BY Zenon DEF Gaps
<1>2. Runs(n, ab', a'.seg.seq)
  BY <1>0, <1>1, RunsMore, Zenon
<1>3. ASSUME b'.reasm.assembly PROVE Missing(n)'
  <2>1. PICK d \in 0..used.losses :
          /\ n = (b.reasm.expect + d) % SegModulus
          /\ d = 0 => /\ ab # <<>> /\ Data(ab[1])
                      /\ ab[1].payload.payload = <<b.reasm.buf[1][1], Len(b.reasm.buf) + 1>>
    BY <1>1, <1>3, ZenonT(60) DEF Missing
  <2>2. d \in 0..used'.losses
    BY <1>0
  <2>3. Prefix(sent', b.reasm.buf)
    BY <1>1, <1>3, ZenonT(60) DEF Missing, Prefix
  <2>4. ab # <<>> => ab' # <<>> /\ ab'[1] = ab[1]
    BY <1>0
  <2>5. d = 0 => /\ ab' # <<>> /\ Data(ab'[1])
                 /\ ab'[1].payload.payload = <<b.reasm.buf[1][1], Len(b.reasm.buf) + 1>>
    BY <2>1, <2>4, Zenon
  <2>. QED BY <2>1, <2>2, <2>3, <2>5, ZenonT(60) DEF Missing
<1>. QED BY <1>2, <1>3, ZenonT(60) DEF Gaps

(* The segment at the head of the queue goes on with the partial fragment, *)
(* if its number does.                                                     *)
LEMMA UnconfirmedReaches ==
    ASSUME TypeOK, Gaps, used.losses < SegModulus, ab # <<>>, Data(ab[1]), NEW h, h = ab[1].payload,
           h \in Segments, Cut(sent, h), NEW t, NEW g, Grows(b.reasm, h, t, g)
    PROVE  Reaches(sent, h.payload[1], h.payload[2], t.buf, h.fin)
<1>0. /\ sent \in Seq(Seq(Payloads)) /\ b.reasm.buf \in Seq(Payloads) /\ h.payload \in Payloads
      /\ ab \in Seq(Frames) /\ used.losses \in Nat /\ b.reasm.expect \in Numbers
  BY DEF TypeOK, Receivers, Reassemblers, Segments, Bounds
<1>1. CASE h.fir /\ t.buf = <<h.payload>>
  <2>1. Reaches(sent, h.payload[1], 1, t.buf, h.fin)
    BY <1>0, <1>1, Starts, Zenon
  <2>2. h.payload[2] = 1
    BY <1>1, Zenon DEF Cut
  <2>. QED BY <2>1, <2>2, Zenon
<1>2. CASE ~h.fir /\ b.reasm.assembly /\ h.seq = b.reasm.expect /\ t.buf = Append(b.reasm.buf, h.payload)
  <2>1. PICK n \in Numbers : Runs(n, ab, a.seg.seq) /\ Missing(n)
    BY <1>2, Zenon DEF Gaps
  <2>2. h.seq = n
    BY <1>0, <2>1, RunsLess, ZenonT(60)
  <2>3. PICK d \in 0..used.losses :
          /\ n = (b.reasm.expect + d) % SegModulus
          /\ d = 0 => ab[1].payload.payload = <<b.reasm.buf[1][1], Len(b.reasm.buf) + 1>>
    BY <2>1, ZenonT(60) DEF Missing
  <2>4. d \in Nat /\ d < SegModulus
    BY <1>0, <2>3, TransportAssumption
  <2>5. d = 0
    BY <1>0, <1>2, <2>2, <2>3, <2>4, NoGap, ZenonT(60)
  <2>6. h.payload = <<b.reasm.buf[1][1], Len(b.reasm.buf) + 1>>
    BY <2>3, <2>5, Zenon
  <2>7. Prefix(sent, b.reasm.buf)
    BY <2>1, Zenon DEF Missing
  <2>8. Reaches(sent, b.reasm.buf[1][1], Len(b.reasm.buf) + 1, t.buf, h.fin)
    BY <1>0, <1>2, <2>6, <2>7, GoesOn, ZenonT(60)
  <2>9. h.payload[1] = b.reasm.buf[1][1] /\ h.payload[2] = Len(b.reasm.buf) + 1
    BY <2>6
  <2>. QED BY <2>8, <2>9, Zenon
<1>. QED BY <1>1, <1>2, ZenonT(60) DEF Grows

LEMMA GapsStep ==
    ASSUME TypeOK, TypeOK', Sane, Fragments, Gaps, ~line.confirms, used.losses < SegModulus,
           Step, line' = line
    PROVE  Gaps'
<1>0. /\ a \in Senders /\ a' \in Senders /\ ab \in Seq(Frames) /\ sent \in Seq(Seq(Payloads))
      /\ sent' \in Seq(Seq(Payloads)) /\ a.seg.seq \in Numbers /\ a'.seg.seq \in Numbers
      /\ used.losses \in Nat /\ used'.losses \in Nat /\ b.reasm.expect \in Numbers
      /\ b'.reasm.expect \in Numbers /\ ~a.pri.useConfirms /\ Carries(sent, a)
      /\ Cuts(sent, ab, line.confirms) /\ line.confirms = FALSE
  <2>1. line.confirms \in BOOLEAN
    BY LinesAssumption DEF TypeOK
  <2>. QED BY <2>1, ZenonT(60) DEF TypeOK, Sane, Fits, Fragments, Senders, Segmenters, Receivers, Reassemblers, Bounds
<1>1. ASSUME NEW out \in Seq(Frames), ab' = ab \o out, Runs(a.seg.seq, out, a'.seg.seq),
             b' = b, sent' = sent, Spent(0, 0, 0) \/ Spent(0, 1, 0)
      PROVE  Gaps'
  <2>1. used'.losses >= used.losses
    BY <1>0, <1>1 DEF Spent
  <2>2. \A id \in DOMAIN sent : id \in DOMAIN sent' /\ sent'[id] = sent[id]
    BY <1>1, Zenon
  <2>. QED BY <1>0, <1>1, <2>1, <2>2, GapsMore, ZenonT(60)
<1>2. ~Data(StatusRequest)
  BY DEF Data, DataFns, StatusRequest, frame
<1>3. ASSUME NEW out, Rests(a, a', out) \/ Fails(a, a', out) PROVE Runs(a.seg.seq, out, a'.seg.seq)
  <2>1. out = <<>> /\ a'.seg.seq = a.seg.seq
    BY <1>3, Zenon DEF Rests, Same, Fails
  <2>. QED BY <1>0, <2>1, RunsNone, Zenon
<1>4. ASSUME NEW out, Probes(a, a', out) \/ Resends(a, a', out) PROVE Runs(a.seg.seq, out, a'.seg.seq)
  <2>1. a'.seg.seq = a.seg.seq
    BY <1>4, Zenon DEF Probes, Resends, Same
  <2>2. out = <<StatusRequest>>
    <3>1. ASSUME Resends(a, a', out) PROVE a.pri.lastSent = StatusRequest
      <4>1. a.pri.state \in States /\ a.pri.state # "idle"
        BY <1>0, <3>1 DEF Senders, Primaries, Resends
      <4>. QED BY <4>1 DEF Sane, Fits, States
    <3>. QED BY <1>4, <3>1, ZenonT(60) DEF Probes, Resends
  <2>. QED BY <1>0, <1>2, <2>1, <2>2, RunsControl, ZenonT(60)
<1>5. CASE LoadStep
  <2>1. PICK n \in Nat \ {0}, w \in Senders, out \in Seq(Frames) :
          /\ Loads(a, w, Fragment(Len(sent) + 1, n)) /\ Pumps(w, a', out) /\ ab' = ab \o out
          /\ sent' = Append(sent, Fragment(Len(sent) + 1, n))
    BY <1>5, ZenonT(60) DEF LoadStep
  <2>. DEFINE F == Fragment(Len(sent) + 1, n)
  <2>2. b' = b /\ used'.losses >= used.losses
    BY <1>0, <1>5 DEF LoadStep, Spent
  <2>3. w.pri = a.pri /\ w.seg.frag = F /\ w.seg.first /\ w.seg.seq = a.seg.seq
    BY <2>1, Zenon DEF Loads
  <2>. HIDE DEF F
  <2>4. Longer(sent, sent', F, n)
    <3>1. F = Fragment(Len(sent) + 1, n) /\ sent' = Append(sent, F) /\ sent \in Seq(Seq(Payloads))
      BY <1>0, <2>1, Zenon DEF F
    <3>. QED BY <3>1, OneMore, Zenon
  <2>5. /\ Len(sent') = Len(sent) + 1 /\ sent'[Len(sent')] = F
        /\ Len(F) = n /\ F # <<>> /\ \A i \in DOMAIN F : F[i] = <<Len(sent'), i>>
    BY <2>4, Zenon DEF Longer
  <2>6. \A id \in DOMAIN sent : id \in DOMAIN sent' /\ sent'[id] = sent[id]
    BY <2>4, Zenon DEF Longer
  <2>7. Rest(sent', w.seg)
    <3>1. sent \in Seq(Seq(Payloads)) /\ sent' \in Seq(Seq(Payloads)) /\ w.seg \in Segmenters
      BY <1>0, Zenon DEF Senders
    <3>. QED BY <2>3, <2>5, <3>1, RestOfNew, ZenonT(60)
  <2>8. Runs(a.seg.seq, out, a'.seg.seq)
    <3>1. sent' \in Seq(Seq(Payloads)) /\ ~w.pri.useConfirms
      BY <1>0, <2>3, ZenonT(60)
    <3>. QED BY <2>1, <2>3, <2>7, <3>1, PumpRuns, ZenonT(60)
  <2>9. b'.reasm = b.reasm /\ used'.losses \in Nat
    BY <1>0, <2>2
  <2>. QED BY <2>1, <2>2, <2>6, <2>8, <2>9, GapsMore, ZenonT(60)
<1>6. CASE ProbeStep
  <2>1. b' = b /\ sent' = sent /\ Spent(0, 0, 0)
    BY <1>6, Zenon DEF ProbeStep
  <2>2. PICK out \in Seq(Frames) : Probes(a, a', out) /\ ab' = ab \o out
    BY <1>6, Zenon DEF ProbeStep
  <2>. QED BY <1>1, <1>4, <2>1, <2>2, Zenon
<1>7. CASE TimeoutStep
  <2>1. b' = b /\ sent' = sent /\ (Spent(0, 0, 0) \/ Spent(0, 1, 0))
    BY <1>7, Zenon DEF TimeoutStep
  <2>2. PICK out \in Seq(Frames) : (Fails(a, a', out) \/ Resends(a, a', out)) /\ ab' = ab \o out
    BY <1>7, Zenon DEF TimeoutStep
  <2>. QED BY <1>1, <1>3, <1>4, <2>1, <2>2, Zenon
<1>8. CASE ReplyStep
  <2>1. b' = b /\ sent' = sent /\ Spent(0, 0, 0)
    BY <1>8, Zenon DEF ReplyStep
  <2>2. PICK out \in Seq(Frames) : Drains(a, ba[1].fn, a', out) /\ ab' = ab \o out
    BY <1>8, Zenon DEF ReplyStep
  <2>3. ~Establishes(a, a', out) /\ ~Renews(a, a', out)
    BY Zenon DEF Establishes, Renews, Sane, Fits
  <2>4. ASSUME NEW w \in Senders, Completes(a, w), Pumps(w, a', out) PROVE Runs(a.seg.seq, out, a'.seg.seq)
    <3>1. w.seg = a.seg /\ ~w.pri.useConfirms
      BY <1>0, <2>4, Zenon DEF Completes
    <3>2. w.seg.frag # <<>> => Rest(sent, w.seg)
      BY <1>0, <3>1, ZenonT(60) DEF Carries
    <3>3. sent \in Seq(Seq(Payloads))
      BY <1>0
    <3>. QED BY <2>4, <3>1, <3>2, <3>3, PumpRuns, ZenonT(60)
  <2>5. Runs(a.seg.seq, out, a'.seg.seq)
    BY <1>3, <2>2, <2>3, <2>4, ZenonT(60) DEF Drains
  <2>. QED BY <1>1, <2>1, <2>2, <2>5, Zenon
<1>9. PICK n \in Numbers : Runs(n, ab, a.seg.seq) /\ (b.reasm.assembly => Missing(n))
  BY Zenon DEF Gaps
(* A frame leaves the queue.                                               *)
<1>10. ASSUME ab # <<>>, ab' = Tail(ab), a' = a, sent' = sent, b'.reasm = b.reasm,
              \/ ~Data(ab[1]) /\ used'.losses >= used.losses
              \/ used'.losses = used.losses + 1
       PROVE  Gaps'
  <2>0. PICK m : (Data(ab[1]) => m = (n + 1) % SegModulus) /\ (~Data(ab[1]) => m = n)
    BY Zenon
  <2>1. Runs(m, ab', a'.seg.seq)
    BY <1>0, <1>9, <1>10, <2>0, RunsLess, ZenonT(60)
  <2>2. m \in Numbers
    <3>1. n + 1 \in Nat
      BY DEF Numbers
    <3>. QED BY <2>0, <3>1, Remainders, Zenon
  <2>3. ASSUME b'.reasm.assembly PROVE Missing(m)'
    <3>1. PICK d \in 0..used.losses :
            /\ n = (b.reasm.expect + d) % SegModulus
            /\ d = 0 => Data(ab[1])
      BY <1>9, <1>10, <2>3, Zenon DEF Missing
    <3>2. Prefix(sent', b'.reasm.buf)
      BY <1>9, <1>10, <2>3, ZenonT(60) DEF Missing
    <3>3. d \in Nat /\ b.reasm.expect + d \in Nat /\ b.reasm.expect + (d + 1) = (b.reasm.expect + d) + 1
      <4>1. d \in Nat /\ b.reasm.expect \in Nat
        BY <1>0 DEF Numbers
      <4>. QED BY <4>1
    <3>4. CASE Data(ab[1])
      <4>1. m = (b.reasm.expect + (d + 1)) % SegModulus
        BY <2>0, <3>1, <3>3, <3>4, NextNumber, ZenonT(60)
      <4>2. d + 1 \in 0..used'.losses /\ d + 1 # 0
        BY <1>0, <1>10, <3>1, <3>4
      <4>. QED BY <1>10, <3>2, <4>1, <4>2, Zenon DEF Missing
    <3>5. CASE ~Data(ab[1])
      <4>1. m = (b.reasm.expect + d) % SegModulus /\ d # 0
        BY <2>0, <3>1, <3>5, ZenonT(60)
      <4>2. d \in 0..used'.losses
        BY <1>0, <1>10, <3>1
      <4>. QED BY <1>10, <3>2, <4>1, <4>2, Zenon DEF Missing
    <3>. QED BY <3>4, <3>5
  <2>. QED BY <2>1, <2>2, <2>3, Zenon DEF Gaps
<1>11. CASE HearStep
  <2>1. ab # <<>> /\ a' = a /\ sent' = sent /\ ab' = Tail(ab) /\ Spent(0, 0, 0)
    BY <1>11, Zenon DEF HearStep
  <2>2. PICK fn \in {"ACK", "NACK", "LINK_STATUS"} : Hears(b, ab[1], b', fn)
    BY <1>11, Zenon DEF HearStep
  <2>3. b'.reasm = b.reasm
    BY <2>2, HearsWhat, ZenonT(60)
  <2>4. ~Data(ab[1])
    <3>1. 1 \in DOMAIN ab
      BY <1>0, <2>1
    <3>2. Data(ab[1]) => ab[1].fn # "CONFIRMED_USER_DATA"
      BY <1>0, <3>1, ZenonT(60) DEF Cuts
    <3>. QED BY <2>2, <3>2, HearsWhat, Zenon DEF Data, DataFns
  <2>5. used'.losses >= used.losses
    BY <1>0, <2>1 DEF Spent
  <2>. QED BY <1>10, <2>1, <2>3, <2>4, <2>5, ZenonT(60)
<1>12. CASE LoseFrameStep
  <2>1. ab # <<>> /\ a' = a /\ sent' = sent /\ ab' = Tail(ab) /\ b'.reasm = b.reasm
    BY <1>12, Zenon DEF LoseFrameStep
  <2>2. used'.losses = used.losses + 1
    BY <1>12, Zenon DEF LoseFrameStep, Spent
  <2>. QED BY <1>10, <2>1, <2>2, Zenon
<1>13. CASE TakeStep
  <2>1. ab # <<>> /\ a' = a /\ sent' = sent /\ ab' = Tail(ab) /\ Data(ab[1])
    BY <1>13, Zenon DEF TakeStep, Takes
  <2>. DEFINE h == ab[1].payload
              m == (n + 1) % SegModulus
  <2>2. PICK g \in Seq(Payloads) : Drops(b'.reasm, g) \/ Grows(b.reasm, h, b'.reasm, g)
    BY <1>13, ZenonT(60) DEF TakeStep, Takes
  <2>3. ab[1] \in Frames /\ 1 \in DOMAIN ab
    BY <1>0, <2>1
  <2>4. h \in Segments /\ Cut(sent, h)
    BY <1>0, <2>1, <2>3, DataTyped, ZenonT(60) DEF Cuts
  <2>5. /\ h.seq = n /\ Runs(m, ab', a'.seg.seq)
        /\ ~h.fin => ab' # <<>> /\ Follows(ab[1], ab'[1])
    BY <1>0, <1>9, <2>1, RunsLess, ZenonT(60)
  <2>6. m \in Numbers
    <3>1. n + 1 \in Nat
      BY DEF Numbers
    <3>. QED BY <3>1, Remainders, Zenon
  <2>7. ASSUME b'.reasm.assembly PROVE Missing(m)'
    <3>1. Grows(b.reasm, h, b'.reasm, g)
      BY <2>2, <2>7, Zenon DEF Drops
    <3>2. ~h.fin /\ b'.reasm.expect = m
      BY <2>5, <2>7, <3>1, ZenonT(60) DEF Grows
    <3>3. Reaches(sent, h.payload[1], h.payload[2], b'.reasm.buf, h.fin)
      BY <2>1, <2>4, <3>1, UnconfirmedReaches, ZenonT(60)
    <3>4. b'.reasm.buf[1][1] = h.payload[1] /\ Len(b'.reasm.buf) = h.payload[2] /\ Prefix(sent, b'.reasm.buf)
      BY <3>2, <3>3, Zenon DEF Reaches
    <3>5. ab' # <<>> /\ Data(ab'[1]) /\ ab'[1].payload.payload = <<h.payload[1], h.payload[2] + 1>>
      BY <2>5, <3>2, Zenon DEF Follows
    <3>6. m = (b'.reasm.expect + 0) % SegModulus
      <4>1. m \in Nat /\ m + 0 = m
        BY <2>6 DEF Numbers
      <4>2. m = (m + 0) % SegModulus
        BY <2>6, <4>1, Remainders, ZenonT(60)
      <4>. QED BY <3>2, <4>2, ZenonT(60)
    <3>7. 0 \in 0..used'.losses
      BY <1>0
    <3>8. ab'[1].payload.payload = <<b'.reasm.buf[1][1], Len(b'.reasm.buf) + 1>>
      BY <3>4, <3>5, Zenon
    <3>. HIDE DEF m
    <3>. QED BY <2>1, <3>4, <3>5, <3>6, <3>7, <3>8, ZenonT(60) DEF Missing
  <2>. HIDE DEF m
  <2>. QED BY <2>5, <2>6, <2>7, Zenon DEF Gaps
<1>14. CASE LoseReplyStep
  <2>1. b' = b /\ sent' = sent /\ a' = a /\ ab' = ab /\ used'.losses >= used.losses
    BY <1>0, <1>14 DEF LoseReplyStep, Spent
  <2>2. ab' = ab \o <<>> /\ <<>> \in Seq(Frames)
    BY <1>0, <2>1
  <2>3. Runs(a.seg.seq, <<>>, a'.seg.seq)
    BY <1>0, <2>1, RunsNone, Zenon
  <2>4. b'.reasm = b.reasm /\ \A id \in DOMAIN sent : id \in DOMAIN sent' /\ sent'[id] = sent[id]
    BY <2>1, Zenon
  <2>. QED BY <1>0, <2>1, <2>2, <2>3, <2>4, GapsMore, ZenonT(60)
<1>15. CASE RestartStep
  BY <1>9, <1>15, Zenon DEF RestartStep, Forgotten, Gaps
<1>16. CASE ReconnectStep
  <2>1. ab' = <<>> /\ ~b'.reasm.assembly
    BY <1>16, Zenon DEF ReconnectStep, Forgotten
  <2>2. Runs(a'.seg.seq, ab', a'.seg.seq)
    BY <1>0, <2>1, RunsNone, Zenon
  <2>. QED BY <1>0, <2>1, <2>2, Zenon DEF Gaps
<1>. QED BY <1>5, <1>6, <1>7, <1>8, <1>11, <1>12, <1>13, <1>14, <1>15, <1>16, ZenonT(60) DEF Step

----------------------------------------------------------------------------
(* What is delivered.                                                      *)
LEMMA ConfirmedTake ==
    ASSUME TypeOK, Sane, Fragments, Alone, Bits, Continues, Confirming, TakeStep,
           NEW g, Grows(b.reasm, ab[1].payload, b'.reasm, g)
    PROVE  LET h == ab[1].payload
           IN  Reaches(sent, h.payload[1], h.payload[2], b'.reasm.buf, h.fin)
<1>0. a.pri.fcb \in BOOLEAN /\ Carries(sent, a) /\ line.confirms
  BY DEF TypeOK, Senders, Primaries, Fragments, Confirming
<1>1. ab # <<>> /\ Data(ab[1])
  BY ZenonT(60) DEF TakeStep, Takes
<1>2. a.pri.state = "waitConfirm" /\ ab[1].fn = "CONFIRMED_USER_DATA" /\ ab[1].fcb = a.pri.fcb
      /\ ab[1].payload = a.pri.pending
  BY <1>1, UnderWay DEF Data, DataFns
<1>3. ab[1].fcb = b.sec.expectFCB
  BY <1>2, Zenon DEF TakeStep, Takes
<1>4. ~Taken
  BY <1>2, <1>3, Zenon DEF Taken
<1>. DEFINE h == a.pri.pending
<1>5. h \in Segments
  BY <1>0, <1>2, ZenonT(60) DEF Sane, Fits
<1>6. Sending /\ Sends(a)
  BY <1>2 DEF Sending, Sends
<1>7. Cut(sent, h) /\ h.payload = <<Len(sent), Len(sent[Len(sent)]) - Len(a.seg.frag)>>
  BY <1>0, <1>6, ZenonT(60) DEF Carries
<1>8. h.payload[1] = Len(sent)
  BY <1>7
<1>9. Grows(b.reasm, h, b'.reasm, g)
  BY <1>2, Zenon
<1>10. Reaches(sent, h.payload[1], h.payload[2], b'.reasm.buf, h.fin)
  BY <1>4, <1>5, <1>6, <1>7, <1>8, <1>9, ConfirmedReaches, ZenonT(60)
<1>. QED BY <1>2, <1>10, ZenonT(60)

(* A buffer that reaches the last segment is the fragment.                 *)
LEMMA ReachesEnd ==
    ASSUME NEW s \in Seq(Seq(Payloads)), Made(s), NEW h \in Segments, Cut(s, h), h.fin,
           NEW t \in Seq(Payloads), Reaches(s, h.payload[1], h.payload[2], t, h.fin)
    PROVE  \E id \in DOMAIN s : t = s[id]
<1>1. PICK id : id = h.payload[1]
  BY Zenon
<1>2. id \in DOMAIN s /\ h.payload[2] = Len(s[id])
  BY <1>1, Zenon DEF Cut
<1>3. Len(t) = Len(s[id]) /\ \A i \in DOMAIN t : t[i] = <<id, i>>
  BY <1>1, <1>2, ZenonT(60) DEF Reaches
<1>4. \A i \in DOMAIN s[id] : s[id][i] = <<id, i>>
  BY <1>2, ZenonT(60) DEF Made
<1>5. s[id] \in Seq(Payloads)
  BY <1>2
<1>6. t = s[id]
  <2>1. PICK u \in Seq(Payloads) : u = s[id]
    BY <1>5, Zenon
  <2>2. Len(t) = Len(u) /\ (\A i \in DOMAIN t : t[i] = <<id, i>>) /\ \A i \in DOMAIN u : u[i] = <<id, i>>
    BY <1>3, <1>4, <2>1, Zenon
  <2>3. \A i \in 1..Len(t) : t[i] = u[i]
    <3>1. DOMAIN t = 1..Len(t) /\ DOMAIN u = 1..Len(u)
      BY <2>1
    <3>. QED BY <2>2, <3>1, ZenonT(60)
  <2>4. t = u
    BY <2>2, <2>3
  <2>. QED BY <2>1, <2>4, Zenon
<1>. QED BY <1>2, <1>6, Zenon

LEMMA WholeStep ==
    ASSUME TypeOK, TypeOK', Sane, Fragments, WholeFragments, Step, line' = line,
           line.confirms => Confirming /\ Alone /\ Bits /\ Continues,
           ~line.confirms => Gaps /\ used.losses < SegModulus
    PROVE  WholeFragments'
<1>0. /\ sent \in Seq(Seq(Payloads)) /\ delivered \in Seq(Seq(Payloads)) /\ ab \in Seq(Frames)
      /\ b'.reasm.buf \in Seq(Payloads) /\ Made(sent) /\ Cuts(sent, ab, line.confirms)
  BY DEF TypeOK, Receivers, Reassemblers, Fragments
<1>1. CASE LoadStep
  <2>1. PICK n \in Nat \ {0} : sent' = Append(sent, Fragment(Len(sent) + 1, n)) /\ delivered' = delivered
    BY <1>1, Zenon DEF LoadStep
  <2>2. Longer(sent, sent', Fragment(Len(sent) + 1, n), n)
    BY <1>0, <2>1, OneMore, ZenonT(60)
  <2>3. \A id \in DOMAIN sent : id \in DOMAIN sent' /\ sent'[id] = sent[id]
    BY <2>2, Zenon DEF Longer
  <2>4. ASSUME NEW k \in DOMAIN delivered' PROVE \E id \in DOMAIN sent' : delivered'[k] = sent'[id]
    <3>1. PICK id \in DOMAIN sent : delivered[k] = sent[id]
      BY <2>1, <2>4, ZenonT(60) DEF WholeFragments
    <3>. QED BY <2>1, <2>3, <3>1, ZenonT(60)
  <2>. QED BY <2>4, Zenon DEF WholeFragments
<1>2. CASE TakeStep
  <2>1. ab # <<>> /\ Data(ab[1]) /\ sent' = sent
    BY <1>2, Zenon DEF TakeStep, Takes
  <2>. DEFINE h == ab[1].payload
  <2>2. PICK g \in Seq(Payloads) :
          /\ Drops(b'.reasm, g) \/ Grows(b.reasm, h, b'.reasm, g)
          /\ delivered' = IF g = NoFragment THEN delivered ELSE Append(delivered, g)
    BY <1>2, Zenon DEF TakeStep, Takes
  <2>3. CASE delivered' = delivered
    BY <2>1, <2>3, Zenon DEF WholeFragments
  <2>4. CASE delivered' # delivered
    <3>1. Grows(b.reasm, h, b'.reasm, g) /\ g # NoFragment /\ delivered' = Append(delivered, g)
      BY <2>2, <2>4, Zenon DEF Drops
    <3>2. h.fin /\ g = b'.reasm.buf
      BY <3>1, ZenonT(60) DEF Grows
    <3>3. ab[1] \in Frames /\ 1 \in DOMAIN ab
      BY <1>0, <2>1
    <3>4. h \in Segments /\ Cut(sent, h)
      BY <1>0, <2>1, <3>3, DataTyped, ZenonT(60) DEF Cuts
    <3>5. Reaches(sent, h.payload[1], h.payload[2], b'.reasm.buf, h.fin)
      <4>1. CASE line.confirms
        BY <1>2, <3>1, <4>1, ConfirmedTake, ZenonT(60)
      <4>2. CASE ~line.confirms
        BY <2>1, <3>1, <3>4, <4>2, UnconfirmedReaches, ZenonT(60)
      <4>. QED BY <4>1, <4>2
    <3>6. \E id \in DOMAIN sent : g = sent[id]
      BY <1>0, <3>2, <3>4, <3>5, ReachesEnd, ZenonT(60)
    <3>7. \A k \in DOMAIN delivered' : (k \in DOMAIN delivered /\ delivered'[k] = delivered[k]) \/ delivered'[k] = g
      <4>1. delivered \in Seq(Seq(Payloads))
        BY <1>0, Zenon
      <4>. QED BY <3>1, <4>1
    <3>. QED BY <2>1, <3>6, <3>7, ZenonT(60) DEF WholeFragments
  <2>. QED BY <2>3, <2>4
<1>3. ASSUME sent' = sent, delivered' = delivered PROVE WholeFragments'
  BY <1>3, Zenon DEF WholeFragments
<1>4. CASE ProbeStep \/ TimeoutStep \/ ReplyStep \/ HearStep
  BY <1>3, <1>4, Zenon DEF ProbeStep, TimeoutStep, ReplyStep, HearStep
<1>5. CASE LoseFrameStep \/ LoseReplyStep \/ RestartStep \/ ReconnectStep
  BY <1>3, <1>5, Zenon DEF LoseFrameStep, LoseReplyStep, RestartStep, ReconnectStep
<1>. QED BY <1>1, <1>2, <1>4, <1>5, Zenon DEF Step
=============================================================================
