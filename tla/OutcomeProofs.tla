--------------------------- MODULE OutcomeProofs ----------------------------
(***************************************************************************)
(* Controls: what a call that succeeds means, and what a challenge is good *)
(* for, for any masters, outputs, commands, limits and disturbances.       *)
(*                                                                         *)
(* Both rest on a request being known by its master and its sequence       *)
(* number, of which there are few.  They hold as long as a master comes    *)
(* round to a number only when nothing is left of the request that had it  *)
(* before (NumbersFree): a fragment delayed for a whole round is taken for *)
(* the answer to a later request, and nothing tells them apart.            *)
(***************************************************************************)
EXTENDS ControlsProofs

(* A leaf that names no prover is given this long.                         *)
USE SMTT(30)

(* Something is left of the request m made under number n: a fragment      *)
(* under way, the challenge to it, or the outstation's memory of it.       *)
Left(m, n) ==
    \/ \E f \in net : f.seq = n /\ (f.to = m \/ (f.to = "outstation" /\ f.from = m))
    \/ out.pending # NoPending /\ out.pending.req.from = m /\ out.pending.req.seq = n
    \/ out.lastReq # None /\ out.lastReq[1] = m /\ out.lastReq[3] = n

NumbersFree ==
    \A m \in Masters : master'[m].id # master[m].id => ~Left(m, master'[m].seq)

(* Request n, with fn and objects, is one that master session u made, and  *)
(* if it is the last one and under way, it is the one u waits for.         *)
Made(u, n, fn, objects) ==
    /\ n <= u.id
    /\ n = u.id /\ u.step \in Fns => fn = u.step /\ objects = u.objects

(* Request q is one its master made, the last one if it has its number.    *)
Known(ms, q) ==
    LET u == ms[q.from]
    IN  /\ q.id[1] = q.from /\ (q.seq = u.seq => q.id[2] = u.id)
        /\ Made(u, q.id[2], q.fn, q.objects)

Requests ==
    /\ \A q \in net : q.to = "outstation" /\ Command(q) => Known(master, q)
    /\ out.pending # NoPending => Known(master, out.pending.req)

Entered ==
    \A k \in DOMAIN out.log :
        LET e == out.log[k]
        IN  e.id[1] = e.from /\ Made(master[e.from], e.id[2], e.fn, e.objects)

(* Request n of m was carried out, and if it is more than a selection,     *)
(* every output it names moved.                                            *)
CarriedOut(e, m, n) == e.id = <<m, n>> /\ (e.fn # "SELECT" => e.moved = Elements(e.objects))
Done(log, m, n) == \E k \in DOMAIN log : CarriedOut(log[k], m, n)

(* An answer that everything worked, for the last request of its master,   *)
(* means it was carried out, and so does the one kept for a request that   *)
(* is repeated.                                                            *)
Responses ==
    \A r \in net :
        /\ r.to \in Masters /\ r.fn # "AUTH_RESPONSE" /\ AllOK(r.statuses)
        /\ r.seq = master[r.to].seq
        => Done(out.log, r.to, master[r.to].id)
Remembered ==
    out.lastReq # None =>
        LET m == out.lastReq[1]
        IN  /\ m \in Masters
            /\ AllOK(out.lastResp) /\ out.lastReq[3] = master[m].seq =>
                 Done(out.log, m, master[m].id)

(* A challenge under way is one that has been made.                        *)
Offered ==
    \A r \in net : r.to \in Masters /\ Offers(r) => r.auth.num \in 1..out.sequence

(* A reply under way is to a challenge that has been made, and if it is to *)
(* the open one, its master has given it for the request challenged.       *)
Fits(q, x) ==
    x # NoPending /\ q.from = x.req.from /\ q.auth.mac[2] = x.num /\ q.auth.mac[3] = Raw(x.req)
Replies ==
    \A q \in net : q.to = "outstation" /\ Reply(q) =>
        /\ q.auth.mac[2] \in 1..out.sequence
        /\ Fits(q, out.pending) =>
             <<out.pending.num, out.pending.req.id>> \in master[q.from].answered

(* No control was carried out for the challenge that is open, or for one   *)
(* to come.                                                                *)
Challenges ==
    secure => \A i \in ControlsMade :
        /\ out.log[i].challenge <= out.sequence
        /\ out.pending # NoPending => out.log[i].challenge # out.pending.num

Inv2 ==
    /\ Inv /\ Requests /\ Entered /\ Responses /\ Remembered /\ Offered /\ Replies
    /\ Challenges /\ SuccessMeansMoved /\ OneControlPerChallenge

(* Inv2 holds at the start.                                                *)
LEMMA Inv2Init == Init => Inv2
<1> SUFFICES ASSUME Init PROVE Inv2
  BY Zenon
<1> DEFINE ms == [m \in Masters |-> NewMaster]
<1>1. /\ out.pending = NoPending /\ out.log = <<>> /\ out.lastReq = None /\ net = {}
      /\ master = ms
  BY DEF Init
<1>2. \A m \in Masters : ms[m] = NewMaster
  BY Zenon
<1> HIDE DEF ms
<1>3. NewMaster.outcomes = <<>>
  BY Zenon DEF NewMaster
<1>5. Requests /\ Responses /\ Remembered /\ Offered /\ Replies
  BY <1>1, Zenon DEF Requests, Responses, Remembered, Offered, Replies
<1>6. DOMAIN out.log = {} /\ ControlsMade = {}
  BY <1>1 DEF ControlsMade
<1>7. Entered /\ Challenges /\ OneControlPerChallenge
  BY <1>6 DEF Entered, Challenges, OneControlPerChallenge
<1>8. \A m \in Masters : DOMAIN master[m].outcomes = {}
  BY <1>1, <1>2, <1>3
<1>9. SuccessMeansMoved
  BY <1>8, Zenon DEF SuccessMeansMoved
<1> QED BY <1>5, <1>7, <1>9, InvInit DEF Inv2

----------------------------------------------------------------------------
(* What a step leaves as it was: a request a master made stays one, the    *)
(* challenges it answered stay answered, the log only grows.               *)
LEMMA MovesMade ==
    ASSUME NEW u, MasterShape(u), NEW v, NEW m, NEW s, Moves(u, v, m, s)
    PROVE  /\ u.answered \subseteq v.answered
           /\ \A n \in Nat : \A fn, c : Made(u, n, fn, c) => Made(v, n, fn, c)
<1>0. u.id \in Nat
  BY DEF MasterShape
<1>1. u.answered \subseteq v.answered
  <2>1. v.answered = u.answered \/ \E x : v.answered = u.answered \cup {x}
    BY Zenon DEF Moves, Rests, Ends, Asked, Changed, Proven, SamePast
  <2> QED BY <2>1
<1>2. \/ v.id = u.id /\ v.objects = u.objects /\ v.step = u.step
      \/ v.id = u.id /\ v.step \notin Fns
      \/ v.id = u.id + 1
  <2>1. Idle \notin Fns /\ "change" \notin Fns /\ "status" \notin Fns
    BY DEF Fns, Idle
  <2>2. CASE Rests(u, v, s) \/ Ends(u, v, m, s) \/ Changed(u, v, m, s) \/ Proven(u, v, m, s)
    BY <2>1, <2>2, Zenon DEF Rests, Ends, Changed, Proven, SameNumber
  <2>3. CASE Asked(u, v, m, s)
    BY <2>1, <2>3, Zenon DEF Asked
  <2> QED BY <2>2, <2>3, Zenon DEF Moves
<1>3. ASSUME NEW n \in Nat, NEW fn, NEW c, Made(u, n, fn, c) PROVE Made(v, n, fn, c)
  BY <1>0, <1>2, <1>3 DEF Made
<1> QED BY <1>1, <1>3

LEMMA MastersKeep ==
    ASSUME TypeOK, [Next]_vars, NEW m \in Masters
    PROVE  /\ master[m].answered \subseteq master'[m].answered
           /\ \A n \in Nat : \A fn, c : Made(master[m], n, fn, c) => Made(master'[m], n, fn, c)
<1>c. OutStep \/ (\E x \in Masters : MasterStep(x)) \/ Reconnect
  BY StepCases
<1>1. CASE OutStep
  BY <1>1 DEF OutStep
<1>2. ASSUME NEW x \in Masters, MasterStep(x)
      PROVE  /\ master[m].answered \subseteq master'[m].answered
             /\ \A n \in Nat : \A fn, c :
                  Made(master[m], n, fn, c) => Made(master'[m], n, fn, c)
  <2>1. CASE m = x
    <3>1. PICK s : Moves(master[m], master'[m], m, s)
      BY <1>2, <2>1 DEF MasterStep
    <3>2. MasterShape(master[m])
      BY DEF TypeOK
    <3> QED BY <3>1, <3>2, MovesMade, ZenonT(60)
  <2>2. CASE m # x
    BY <1>2, <2>2, Zenon DEF MasterStep
  <2> QED BY <2>1, <2>2, Zenon
<1>3. CASE Reconnect
  <2>1. /\ SameNumber(master[m], master'[m]) /\ master'[m].answered = master[m].answered
        /\ master'[m].step = Idle
    BY <1>3, ReconnectMaster, Zenon
  <2> QED BY <2>1, Zenon DEF SameNumber, Made, Fns, Idle
<1> QED BY <1>c, <1>1, <1>2, <1>3, ZenonT(60)

(* The log of the next state: as it was, or with one entry more, which is  *)
(* that of a command carried out.                                          *)
LogStep(a, q, c, e) ==
    /\ Ran(out, out', a, q, c) /\ out'.log = Append(out.log, e) /\ Enters(e, out, out', q, c)

LEMMA LogSteps ==
    ASSUME TypeOK, [Next]_vars
    PROVE  \/ out'.log = out.log
           \/ OutStep /\ \E e \in Entries : \E a, q, c : LogStep(a, q, c, e)
<1>c. OutStep \/ (\E x \in Masters : MasterStep(x)) \/ Reconnect
  BY StepCases
<1>1. CASE OutStep
  <2>1. PICK a : \/ Quiet(out, out', a)
                 \/ \E q : Told(out, out', a, q) \/ \E c : Ran(out, out', a, q, c)
    BY <1>1, Zenon DEF OutStep
  <2>2. CASE Quiet(out, out', a)
    BY <2>2, Zenon DEF Quiet
  <2>3. ASSUME NEW q, Told(out, out', a, q) PROVE out'.log = out.log
    BY <2>3, Zenon DEF Told
  <2>4. ASSUME NEW q, NEW c, Ran(out, out', a, q, c)
        PROVE  out'.log = out.log \/ \E e \in Entries : LogStep(a, q, c, e)
    BY <2>4, Zenon DEF LogStep, Ran, Carried
  <2> QED BY <1>1, <2>1, <2>2, <2>3, <2>4, Zenon
<1>2. CASE \E x \in Masters : MasterStep(x)
  BY <1>2, Zenon DEF MasterStep
<1>3. CASE Reconnect
  BY <1>3, ReconnectOut, Zenon
<1> QED BY <1>c, <1>1, <1>2, <1>3, Zenon

LEMMA DoneStays ==
    ASSUME TypeOK, [Next]_vars, NEW m, NEW n, Done(out.log, m, n)
    PROVE  Done(out'.log, m, n)
<1>1. CASE out'.log = out.log
  BY <1>1
<1>2. ASSUME NEW e \in Entries, out'.log = Append(out.log, e) PROVE Done(out'.log, m, n)
  <2>1. /\ Len(out.log) \in Nat /\ DOMAIN out.log = 1..Len(out.log)
        /\ DOMAIN out'.log = 1..(Len(out.log) + 1)
        /\ \A i \in 1..Len(out.log) : out'.log[i] = out.log[i]
    BY <1>2, EntryAdded DEF TypeOK, OutShape
  <2> QED BY <2>1 DEF Done
<1> QED BY <1>1, <1>2, LogSteps, ZenonT(60) DEF LogStep

----------------------------------------------------------------------------
(* The number a master is at is the one it was at, or nothing is left of   *)
(* the request that had it before.                                         *)
LEMMA NumberKept ==
    ASSUME TypeOK, NumbersFree, [Next]_vars, NEW m \in Masters
    PROVE  \/ master'[m].seq = master[m].seq /\ master'[m].id = master[m].id
           \/ ~Left(m, master'[m].seq)
<1>c. OutStep \/ (\E x \in Masters : MasterStep(x)) \/ Reconnect
  BY StepCases, Zenon
<1>1. CASE OutStep
  BY <1>1, Zenon DEF OutStep
<1>2. ASSUME NEW x \in Masters, MasterStep(x)
      PROVE  \/ master'[m].seq = master[m].seq /\ master'[m].id = master[m].id
             \/ ~Left(m, master'[m].seq)
  <2>1. CASE m # x
    BY <1>2, <2>1, ZenonT(60) DEF MasterStep
  <2>2. CASE m = x
    <3> DEFINE u == master[m]
               v == master'[m]
    <3>1. PICK s : Moves(u, v, m, s)
      BY <1>2, <2>2, Zenon DEF MasterStep
    <3>2. u.id \in Nat /\ (v.id # u.id => ~Left(m, v.seq))
      BY Zenon DEF TypeOK, MasterShape, NumbersFree
    <3> HIDE DEF u, v
    <3>3. (v.seq = u.seq /\ v.id = u.id) \/ v.id = u.id + 1
      BY <3>1, Zenon DEF Moves, Rests, Ends, Asked, Changed, Proven, SameNumber
    <3>4. v.id = u.id + 1 => v.id # u.id
      BY <3>2
    <3> QED BY <3>2, <3>3, <3>4, ZenonT(60) DEF u, v
  <2> QED BY <2>1, <2>2, Zenon
<1>3. CASE Reconnect
  BY <1>3, ReconnectMaster, Zenon DEF SameNumber
<1> QED BY <1>c, <1>1, <1>2, <1>3, ZenonT(60)

LEMMA KnownStays ==
    ASSUME TypeOK, NumbersFree, [Next]_vars, NEW q, Command(q), Known(master, q),
           \/ q \in net /\ q.to = "outstation"
           \/ out.pending # NoPending /\ q = out.pending.req
    PROVE  Known(master', q)
<1>1. q.from \in Masters /\ q.id[2] \in Nat
  BY DEF Command
<1>2. Made(master'[q.from], q.id[2], q.fn, q.objects)
  BY <1>1, MastersKeep, Zenon DEF Known
<1>3. Left(q.from, q.seq)
  BY Zenon DEF Left
<1>4. q.seq = master'[q.from].seq => q.id[2] = master'[q.from].id
  BY <1>1, <1>3, NumberKept, ZenonT(60) DEF Known
<1> QED BY <1>2, <1>4, ZenonT(60) DEF Known

(* The commands a master sends carry the number it is at.                  *)
LEMMA CommandSent ==
    ASSUME NEW m \in Masters, NEW u, NEW v, NEW s, Moves(u, v, m, s), NEW q \in s, Command(q)
    PROVE  /\ q.from = m /\ q.seq = v.seq /\ q.id = <<m, v.id>> /\ q.objects = v.objects
           /\ v.step \in {q.fn, Idle}
<1>1. q.fn # "AUTH_REQUEST"
  BY Zenon DEF Command, Fns
<1>2. CASE Rests(u, v, s) \/ Ends(u, v, m, s)
  BY <1>2, Zenon DEF Rests, Ends
<1>3. CASE Asked(u, v, m, s)
  <2>1. CASE s = {AuthRequest(m, u.seq, [v |-> 4])}
    BY <1>1, <2>1, AuthRequestFields
  <2>2. ASSUME NEW fn \in Fns, s = {Request(m, fn, v.seq, v.objects, <<m, v.id>>)},
               v.step \in {fn, Idle}
        PROVE  /\ q.from = m /\ q.seq = v.seq /\ q.id = <<m, v.id>> /\ q.objects = v.objects
               /\ v.step \in {q.fn, Idle}
    BY <2>2, RequestFields
  <2> QED BY <1>3, <2>1, <2>2, ZenonT(60) DEF Asked
<1>4. CASE Changed(u, v, m, s)
  <2>1. PICK auth : q = AuthRequest(m, u.seq, auth)
    BY <1>4, ZenonT(60) DEF Changed
  <2> QED BY <1>1, <2>1, AuthRequestFields
<1>5. CASE Proven(u, v, m, s)
  <2>1. PICK auth : q = AuthRequest(m, u.seq, auth)
    BY <1>5 DEF Proven
  <2> QED BY <1>1, <2>1, AuthRequestFields
<1> QED BY <1>2, <1>3, <1>4, <1>5, ZenonT(60) DEF Moves

LEMMA RequestsStep ==
    ASSUME TypeOK, NumbersFree, Requests, [Next]_vars
    PROVE  Requests'
<1>c. OutStep \/ (\E x \in Masters : MasterStep(x)) \/ Reconnect
  BY StepCases, Zenon
<1>p. out.pending # NoPending => Command(out.pending.req)
  BY Zenon DEF TypeOK, PendingTyped
<1>1. CASE OutStep
  <2>1. \A q \in net' : q.to = "outstation" /\ Command(q) => Known(master', q)
    BY <1>1, OutSends, KnownStays, ZenonT(60) DEF Requests
  <2>2. PICK a : \/ Quiet(out, out', a)
                 \/ \E q : Told(out, out', a, q) \/ \E c : Ran(out, out', a, q, c)
    BY <1>1, Zenon DEF OutStep
  <2>3. out'.pending \in {NoPending, out.pending} \/ Challenged(out, out')
    BY <2>2, Zenon DEF Quiet, Told, Ran
  <2>4. CASE out'.pending \in {NoPending, out.pending}
    <3>1. ASSUME out'.pending # NoPending PROVE Known(master', out'.pending.req)
      <4>1. PICK q : q = out.pending.req
        OBVIOUS
      <4>2. Command(q) /\ Known(master, q)
        BY <1>p, <2>4, <3>1, <4>1, ZenonT(60) DEF Requests
      <4>3. Known(master', q) /\ out'.pending.req = q
        BY <2>4, <3>1, <4>1, <4>2, KnownStays, ZenonT(60)
      <4> QED BY <4>3, Zenon
    <3> QED BY <2>1, <3>1, Zenon DEF Requests
  <2>5. CASE Challenged(out, out')
    <3>1. PICK q \in net : /\ q.to = "outstation" /\ Command(q)
                           /\ out'.pending = [req |-> q, num |-> out'.sequence]
      BY <2>5, Zenon DEF Challenged
    <3>2. Known(master', q)
      BY <3>1, KnownStays, ZenonT(60) DEF Requests
    <3>3. out'.pending.req = q
      BY <3>1
    <3> QED BY <2>1, <3>2, <3>3, ZenonT(60) DEF Requests
  <2> QED BY <2>3, <2>4, <2>5, ZenonT(60)
<1>2. ASSUME NEW x \in Masters, MasterStep(x) PROVE Requests'
  <2>1. PICK s : net' \subseteq net \cup s /\ Moves(master[x], master'[x], x, s)
    BY <1>2, Zenon DEF MasterStep
  <2>2. ASSUME NEW q \in net', q.to = "outstation", Command(q) PROVE Known(master', q)
    <3>1. CASE q \in net
      BY <2>2, <3>1, KnownStays, ZenonT(60) DEF Requests
    <3>2. CASE q \in s
      <4> DEFINE v == master'[x]
      <4>1. /\ q.from = x /\ q.seq = v.seq /\ q.id = <<x, v.id>> /\ q.objects = v.objects
            /\ v.step \in {q.fn, Idle}
        BY <2>1, <2>2, <3>2, CommandSent
      <4>2. q.id[1] = x /\ q.id[2] = v.id /\ Idle \notin Fns /\ q.id[2] \in Nat
        BY <2>2, <4>1 DEF Fns, Idle, Command
      <4>3. Made(v, q.id[2], q.fn, q.objects)
        BY <4>1, <4>2 DEF Made
      <4> QED BY <4>1, <4>2, <4>3, ZenonT(60) DEF Known
    <3> QED BY <2>1, <2>2, <3>1, <3>2, ZenonT(60)
  <2>3. ASSUME out'.pending # NoPending PROVE Known(master', out'.pending.req)
    <3>1. PICK q : q = out.pending.req
      OBVIOUS
    <3>2. out' = out
      BY <1>2, Zenon DEF MasterStep
    <3>3. Command(q) /\ Known(master, q)
      BY <1>p, <2>3, <3>1, <3>2, ZenonT(60) DEF Requests
    <3>4. Known(master', q) /\ out'.pending.req = q
      BY <2>3, <3>1, <3>2, <3>3, KnownStays, ZenonT(60)
    <3> QED BY <3>4, Zenon
  <2> QED BY <2>2, <2>3, Zenon DEF Requests
<1>3. CASE Reconnect
  <2>1. net' = {} /\ out'.pending = NoPending
    BY <1>3, ReconnectOut, Zenon
  <2> QED BY <2>1, Zenon DEF Requests
<1> QED BY <1>c, <1>1, <1>2, <1>3, Zenon

(* The request carried out is known.                                       *)
LEMMA RanKnown ==
    ASSUME TypeOK, Requests, NEW a, NEW q, NEW c, Ran(out, out', a, q, c)
    PROVE  Command(q) /\ Known(master, q)
BY Zenon DEF Ran, Requests

LEMMA EnteredStep ==
    ASSUME TypeOK, Requests, Entered, [Next]_vars
    PROVE  Entered'
<1> DEFINE L == Len(out.log)
           Good(e) == e.id[1] = e.from /\ Made(master'[e.from], e.id[2], e.fn, e.objects)
<1>0. out.log \in Seq(Entries) /\ L \in Nat /\ DOMAIN out.log = 1..L
  BY DEF TypeOK, OutShape
<1>1. ASSUME NEW i \in 1..L PROVE Good(out.log[i])
  <2>1. PICK e : e = out.log[i]
    BY Zenon
  <2>e. e \in Entries
    BY <1>0, <2>1
  <2>2. e.from \in Masters /\ e.id[2] \in Nat
    BY <2>e, Zenon DEF Entries
  <2>3. e.id[1] = e.from /\ Made(master[e.from], e.id[2], e.fn, e.objects)
    BY <1>0, <2>1, Zenon DEF Entered
  <2>4. Made(master'[e.from], e.id[2], e.fn, e.objects)
    BY <2>2, <2>3, MastersKeep, Zenon
  <2> QED BY <2>1, <2>3, <2>4, ZenonT(60)
<1>2. CASE out'.log = out.log
  BY <1>0, <1>1, <1>2, Zenon DEF Entered
<1>3. ASSUME NEW e \in Entries, NEW a, NEW q, NEW c, LogStep(a, q, c, e) PROVE Entered'
  <2>1. /\ DOMAIN out'.log = 1..(L + 1) /\ out'.log[L + 1] = e
        /\ \A i \in 1..L : out'.log[i] = out.log[i]
    BY <1>0, <1>3, EntryAdded DEF LogStep
  <2>2. Command(q) /\ Known(master, q) /\ Enters(e, out, out', q, c)
    BY <1>3, RanKnown, Zenon DEF LogStep
  <2>3. /\ e.id = q.id /\ q.id[1] = q.from
        /\ e.from = q.from /\ e.fn = q.fn /\ e.objects = q.objects
    BY <2>2, Zenon DEF Enters, Known
  <2>n. q.from \in Masters /\ q.id[2] \in Nat
    BY <2>2 DEF Command
  <2>4. Made(master'[q.from], q.id[2], q.fn, q.objects)
    BY <2>2, <2>n, MastersKeep, ZenonT(60) DEF Known
  <2>5. Good(e)
    BY <2>3, <2>4, Zenon
  <2> HIDE DEF Good
  <2>6. \A i \in DOMAIN out'.log : Good(out'.log[i])
    BY <1>0, <1>1, <2>1, <2>5
  <2> QED BY <2>6, Zenon DEF Entered, Good
<1> QED BY <1>2, <1>3, LogSteps, ZenonT(60)

----------------------------------------------------------------------------
(* What is answered as carried out was carried out, now or the first time. *)
LEMMA RanDone ==
    ASSUME TypeOK, Requests, Remembered, NEW a, NEW q, NEW c, Ran(out, out', a, q, c),
           AllOK(out'.lastResp), q.seq = master[q.from].seq
    PROVE  Done(out'.log, q.from, master[q.from].id)
<1>1. Command(q) /\ Known(master, q)
  BY RanKnown, Zenon
<1>2. Carried(out, out', q, c)
  BY Zenon DEF Ran
<1>3. CASE out'.log = out.log /\ out.lastReq = Raw(q) /\ out'.lastResp = out.lastResp
  <2>1. out.lastReq # None /\ out.lastReq[1] = q.from /\ out.lastReq[3] = q.seq
    BY <1>3 DEF Raw, None
  <2> QED BY <1>3, <2>1, ZenonT(60) DEF Remembered
<1>4. ASSUME NEW e \in Entries, out'.log = Append(out.log, e), Enters(e, out, out', q, c)
      PROVE  Done(out'.log, q.from, master[q.from].id)
  <2>1. q.id[1] = q.from /\ q.id[2] = master[q.from].id /\ q.id \in Masters \X Nat
    BY <1>1, Zenon DEF Known, Command
  <2>2. q.id = <<q.from, master[q.from].id>>
    BY <2>1
  <2>3. CarriedOut(e, q.from, master[q.from].id)
    BY <1>4, <2>2, ZenonT(60) DEF Enters, CarriedOut
  <2>4. out.log \in Seq(Entries)
    BY Zenon DEF TypeOK, OutShape
  <2>5. Len(out.log) + 1 \in DOMAIN out'.log /\ out'.log[Len(out.log) + 1] = e
    BY <1>4, <2>4, EntryAdded
  <2> QED BY <2>3, <2>5, ZenonT(60) DEF Done
<1> QED BY <1>2, <1>3, <1>4, ZenonT(60) DEF Carried

LEMMA ResponsesStep ==
    ASSUME TypeOK, NumbersFree, Requests, Responses, Remembered, [Next]_vars
    PROVE  Responses'
<1>c. OutStep \/ (\E x \in Masters : MasterStep(x)) \/ Reconnect
  BY StepCases
<1> DEFINE Good(r) == r.to \in Masters /\ r.fn # "AUTH_RESPONSE" /\ AllOK(r.statuses)
                      /\ r.seq = master'[r.to].seq
           Goal(r) == Done(out'.log, r.to, master'[r.to].id)
<1>k. ASSUME NEW r \in net, Good(r) PROVE Goal(r)
  <2>1. Left(r.to, master'[r.to].seq)
    BY <1>k, Zenon DEF Left
  <2>2. master'[r.to].seq = master[r.to].seq /\ master'[r.to].id = master[r.to].id
    BY <1>k, <2>1, NumberKept, ZenonT(60)
  <2>3. Done(out.log, r.to, master[r.to].id)
    BY <1>k, <2>2, ZenonT(60) DEF Responses
  <2> QED BY <2>2, <2>3, DoneStays, ZenonT(60)
<1>1. ASSUME OutStep, NEW r \in net', Good(r) PROVE Goal(r)
  <2>1. PICK a : /\ net' \subseteq net \cup a /\ master' = master
                 /\ \/ Quiet(out, out', a)
                    \/ \E q : Told(out, out', a, q) \/ \E c : Ran(out, out', a, q, c)
    BY <1>1, Zenon DEF OutStep
  <2>2. CASE r \in net
    BY <1>1, <1>k, <2>2, ZenonT(60)
  <2>3. CASE r \in a
    <3>1. ~Quiet(out, out', a)
      BY <1>1, <2>3, ZenonT(60) DEF Quiet
    <3>2. ASSUME NEW q PROVE ~Told(out, out', a, q)
      BY <1>1, <2>3, ZenonT(60) DEF Told, StatusOf
    <3>3. PICK q, c : Ran(out, out', a, q, c)
      BY <2>1, <3>1, <3>2, ZenonT(60)
    <3>4. r = Response(q, out'.lastResp)
      BY <2>3, <3>3, ZenonT(60) DEF Ran
    <3>5. r.to = q.from /\ r.seq = q.seq /\ r.statuses = out'.lastResp
      BY <3>4, ResponseFields
    <3>6. Done(out'.log, q.from, master[q.from].id)
      BY <1>1, <2>1, <3>3, <3>5, RanDone, ZenonT(60)
    <3> QED BY <2>1, <3>5, <3>6, ZenonT(60)
  <2> QED BY <1>1, <2>1, <2>2, <2>3, ZenonT(60)
<1>2. ASSUME NEW x \in Masters, MasterStep(x), NEW r \in net', Good(r) PROVE Goal(r)
  <2>1. r.to # "outstation"
    BY <1>2, Outside, Zenon
  <2>2. r \in net
    BY <1>2, <2>1, MasterSends, ZenonT(60)
  <2> QED BY <1>2, <1>k, <2>2, ZenonT(60)
<1>3. CASE Reconnect
  BY <1>3, ReconnectOut, Zenon DEF Responses
<1> QED BY <1>c, <1>1, <1>2, <1>3, ZenonT(60) DEF Responses

LEMMA RememberedStep ==
    ASSUME TypeOK, NumbersFree, Requests, Remembered, [Next]_vars
    PROVE  Remembered'
<1>c. OutStep \/ (\E x \in Masters : MasterStep(x)) \/ Reconnect
  BY StepCases, Zenon
<1>n. ~AllOK(None)
  BY DEF AllOK, None
<1>k. ASSUME out'.lastReq = out.lastReq,
             AllOK(out'.lastResp) => out'.lastResp = out.lastResp
      PROVE  Remembered'
  <2> SUFFICES ASSUME out.lastReq # None, NEW m, m = out.lastReq[1]
               PROVE  /\ m \in Masters
                      /\ AllOK(out'.lastResp) /\ out.lastReq[3] = master'[m].seq =>
                           Done(out'.log, m, master'[m].id)
    BY <1>k, Zenon DEF Remembered
  <2>1. /\ m \in Masters
        /\ AllOK(out.lastResp) /\ out.lastReq[3] = master[m].seq =>
             Done(out.log, m, master[m].id)
    BY Zenon DEF Remembered
  <2>2. ASSUME AllOK(out'.lastResp), out.lastReq[3] = master'[m].seq
        PROVE  Done(out'.log, m, master'[m].id)
    <3>1. Left(m, master'[m].seq)
      BY <2>2, Zenon DEF Left
    <3>2. master'[m].seq = master[m].seq /\ master'[m].id = master[m].id
      BY <2>1, <3>1, NumberKept, ZenonT(60)
    <3>3. Done(out.log, m, master[m].id)
      BY <1>k, <2>1, <2>2, <3>2, ZenonT(60)
    <3> QED BY <3>2, <3>3, DoneStays, ZenonT(60)
  <2> QED BY <2>1, <2>2, Zenon
<1>1. CASE OutStep
  <2>1. PICK a : \/ Quiet(out, out', a)
                 \/ \E q : Told(out, out', a, q) \/ \E c : Ran(out, out', a, q, c)
    BY <1>1, Zenon DEF OutStep
  <2>2. CASE Quiet(out, out', a)
    <3>1. out'.lastReq = out.lastReq /\ (out'.lastResp = out.lastResp \/ out'.lastResp = None)
      BY <2>2, ZenonT(60) DEF Quiet
    <3> QED BY <1>k, <1>n, <3>1, ZenonT(60)
  <2>3. ASSUME NEW q, Told(out, out', a, q) PROVE Remembered'
    BY <1>k, <2>3, ZenonT(60) DEF Told
  <2>4. ASSUME NEW q, NEW c, Ran(out, out', a, q, c) PROVE Remembered'
    <3>1. out'.lastReq = Raw(q) /\ q.from \in Masters /\ master' = master
      BY <1>1, <2>4, ZenonT(60) DEF Ran, Carried, Command, OutStep
    <3>2. out'.lastReq[1] = q.from /\ out'.lastReq[3] = q.seq
      BY <3>1 DEF Raw
    <3>3. AllOK(out'.lastResp) /\ q.seq = master[q.from].seq =>
            Done(out'.log, q.from, master[q.from].id)
      BY <2>4, RanDone, Zenon
    <3> QED BY <3>1, <3>2, <3>3, ZenonT(60) DEF Remembered
  <2> QED BY <2>1, <2>2, <2>3, <2>4, ZenonT(60)
<1>2. CASE \E x \in Masters : MasterStep(x)
  BY <1>2, <1>k, Zenon DEF MasterStep
<1>3. CASE Reconnect
  BY <1>3, ReconnectOut, ZenonT(60) DEF Remembered
<1> QED BY <1>c, <1>1, <1>2, <1>3, ZenonT(60)

----------------------------------------------------------------------------
(* The replies a master sends are to a challenge it was offered, for the   *)
(* request it is at, and it has given them.                                *)
LEMMA ReplySent ==
    ASSUME NEW m \in Masters, NEW u, NEW v, NEW s, Moves(u, v, m, s), NEW q \in s, Reply(q)
    PROVE  /\ q.from = m /\ q.auth.mac[3][3] = u.seq
           /\ v.seq = u.seq /\ v.id = u.id
           /\ <<q.auth.mac[2], <<m, u.id>>>> \in v.answered
           /\ \E r \in net : r.to = m /\ Offers(r) /\ q.auth.mac[2] = r.auth.num
<1>1. q.fn = "AUTH_REQUEST" /\ q.auth.v = 2
  BY Zenon DEF Reply, Asks
<1>2. ~Rests(u, v, s) /\ ~Ends(u, v, m, s)
  BY ZenonT(60) DEF Rests, Ends
<1>3. ~Asked(u, v, m, s)
  <2>1. s # {AuthRequest(m, u.seq, [v |-> 4])}
    BY <1>1, AuthRequestFields
  <2>2. ASSUME NEW fn \in Fns PROVE s # {Request(m, fn, v.seq, v.objects, <<m, v.id>>)}
    <3>1. fn # "AUTH_REQUEST"
      BY Zenon DEF Fns
    <3> QED BY <1>1, <3>1, RequestFields
  <2> QED BY <2>1, <2>2 DEF Asked
<1>4. ~Changed(u, v, m, s)
  <2>1. ASSUME NEW n, NEW k PROVE s # {AuthRequest(m, u.seq, [v |-> 6, num |-> n, key |-> k])}
    BY <1>1, AuthRequestFields
  <2> QED BY <2>1, Zenon DEF Changed
<1>5. PICK r, num :
        /\ r \in net /\ r.to = m /\ Offers(r) /\ num = r.auth.num
        /\ s = {AuthRequest(m, u.seq,
                    [v |-> 2, num |-> num,
                     mac |-> MAC(u.key, num, Raw(Request(m, u.step, u.seq, u.objects, None)))])}
        /\ v.answered = u.answered \cup {<<num, <<m, u.id>>>>}
  BY <1>2, <1>3, <1>4, ZenonT(60) DEF Moves, Proven
<1>n. v.seq = u.seq /\ v.id = u.id
  BY <1>2, <1>3, <1>4, ZenonT(60) DEF Moves, Proven, SameNumber
<1>6. PICK t : t = Raw(Request(m, u.step, u.seq, u.objects, None))
  BY ZenonT(60)
<1>7. t[3] = u.seq
  BY <1>6, RequestFields DEF Raw
<1>8. q.from = m /\ q.auth.mac = MAC(u.key, num, t)
  BY <1>5, <1>6, AuthRequestFields
<1>9. q.auth.mac[2] = num /\ q.auth.mac[3] = t
  BY <1>8 DEF MAC
<1> QED BY <1>5, <1>7, <1>8, <1>9, <1>n, ZenonT(60)

(* What the outstation challenges, it numbers anew; the challenges under   *)
(* way have been made.                                                     *)
LEMMA OfferedStep ==
    ASSUME TypeOK, Offered, [Next]_vars
    PROVE  Offered' /\ out'.sequence \in Nat /\ 1..out.sequence \subseteq 1..out'.sequence
<1>c. OutStep \/ (\E x \in Masters : MasterStep(x)) \/ Reconnect
  BY StepCases
<1>0. out.sequence \in Nat
  BY Zenon DEF TypeOK, OutShape
<1>1. CASE OutStep
  <2>1. PICK a : /\ net' \subseteq net \cup a
                 /\ \/ Quiet(out, out', a)
                    \/ \E q : Told(out, out', a, q) \/ \E c : Ran(out, out', a, q, c)
    BY <1>1, Zenon DEF OutStep
  <2>2. out'.sequence \in {out.sequence, out.sequence + 1}
    BY <2>1, Zenon DEF Quiet, Challenged, Told, Ran, Carried
  <2>3. out'.sequence \in Nat /\ 1..out.sequence \subseteq 1..out'.sequence
    BY <1>0, <2>2
  <2>4. ASSUME NEW r \in a, r.to \in Masters, Offers(r) PROVE r.auth.num \in 1..out'.sequence
    <3>1. ASSUME NEW q PROVE ~Told(out, out', a, q)
      BY <2>4 DEF Told, StatusOf, Offers
    <3>2. ASSUME NEW q, NEW c PROVE ~Ran(out, out', a, q, c)
      <4>1. r # Response(q, out'.lastResp)
        BY <2>4, ResponseFields DEF Offers
      <4> QED BY <2>4, <4>1, ZenonT(60) DEF Ran
    <3>3. Quiet(out, out', a)
      BY <2>1, <3>1, <3>2, ZenonT(60)
    <3>4. r.auth.num = out'.sequence /\ out'.sequence = out.sequence + 1
      BY <2>4, <3>3, ZenonT(60) DEF Quiet, Challenged
    <3> QED BY <1>0, <3>4
  <2> QED BY <2>1, <2>3, <2>4, ZenonT(60) DEF Offered
<1>2. ASSUME NEW x \in Masters, MasterStep(x)
      PROVE  Offered' /\ out'.sequence \in Nat /\ 1..out.sequence \subseteq 1..out'.sequence
  <2>1. out' = out
    BY <1>2, Zenon DEF MasterStep
  <2>2. \A r \in net' : r.to \in Masters => r \in net
    BY <1>2, MasterSends, Outside, ZenonT(60)
  <2> QED BY <1>0, <2>1, <2>2, ZenonT(60) DEF Offered
<1>3. CASE Reconnect
  <2>1. net' = {} /\ out'.sequence = out.sequence
    BY <1>3, ReconnectOut, ZenonT(60)
  <2> QED BY <1>0, <2>1, ZenonT(60) DEF Offered
<1> QED BY <1>c, <1>1, <1>2, <1>3, ZenonT(60)

LEMMA RepliesStep ==
    ASSUME TypeOK, Requests, Offered, Replies, [Next]_vars
    PROVE  Replies'
<1>c. OutStep \/ (\E x \in Masters : MasterStep(x)) \/ Reconnect
  BY StepCases, Zenon
<1>0. out.sequence \in Nat /\ out'.sequence \in Nat /\ 1..out.sequence \subseteq 1..out'.sequence
  BY OfferedStep, Zenon DEF TypeOK, OutShape
<1> DEFINE Given1(q, ms, x) == Fits(q, x) => <<x.num, x.req.id>> \in ms[q.from].answered
<1>k. ASSUME NEW q \in net, q.to = "outstation", Reply(q)
      PROVE  q.auth.mac[2] \in 1..out'.sequence /\ Given1(q, master', out.pending)
  <2>1. q.from \in Masters
    BY <1>k, Zenon DEF Reply, Asks
  <2> QED BY <1>0, <1>k, <2>1, MastersKeep, ZenonT(60) DEF Replies
<1>1. ASSUME OutStep, NEW q \in net', q.to = "outstation", Reply(q)
      PROVE  q.auth.mac[2] \in 1..out'.sequence /\ Given1(q, master', out'.pending)
  <2>1. q \in net
    BY <1>1, OutSends, Zenon
  <2>2. PICK a : \/ Quiet(out, out', a)
                 \/ \E p : Told(out, out', a, p) \/ \E c : Ran(out, out', a, p, c)
    BY <1>1, ZenonT(60) DEF OutStep
  <2>3. out'.pending \in {NoPending, out.pending} \/ Challenged(out, out')
    BY <2>2, Zenon DEF Quiet, Told, Ran
  <2>4. CASE out'.pending \in {NoPending, out.pending}
    BY <1>1, <1>k, <2>1, <2>4, ZenonT(60) DEF Fits
  <2>5. CASE Challenged(out, out')
    <3>1. q.auth.mac[2] \in 1..out.sequence
      BY <1>1, <2>1, ZenonT(60) DEF Replies
    <3>2. out'.pending.num = out.sequence + 1
      BY <2>5 DEF Challenged
    <3>3. q.auth.mac[2] # out'.pending.num
      BY <1>0, <3>1, <3>2
    <3> QED BY <1>1, <1>k, <2>1, <3>3, ZenonT(60) DEF Fits
  <2> QED BY <2>3, <2>4, <2>5, ZenonT(60)
<1>2. ASSUME NEW x \in Masters, MasterStep(x), NEW q \in net', q.to = "outstation", Reply(q)
      PROVE  q.auth.mac[2] \in 1..out'.sequence /\ Given1(q, master', out'.pending)
  <2>1. PICK s : /\ net' \subseteq net \cup s /\ out' = out
                 /\ Moves(master[x], master'[x], x, s)
    BY <1>2, ZenonT(60) DEF MasterStep
  <2>2. CASE q \in s
    <3>1. /\ q.from = x /\ q.auth.mac[3][3] = master[x].seq
          /\ <<q.auth.mac[2], <<x, master[x].id>>>> \in master'[x].answered
          /\ \E r \in net : r.to = x /\ Offers(r) /\ q.auth.mac[2] = r.auth.num
      BY <1>2, <2>1, <2>2, ReplySent
    <3>2. q.auth.mac[2] \in 1..out.sequence
      BY <3>1, Zenon DEF Offered
    <3>3. ASSUME Fits(q, out.pending)
          PROVE  <<out.pending.num, out.pending.req.id>> \in master'[x].answered
      <4>1. PICK b : b = out.pending.req
        OBVIOUS
      <4>2. /\ b.from = x /\ q.auth.mac[2] = out.pending.num /\ q.auth.mac[3] = Raw(b)
            /\ Command(b) /\ Known(master, b)
        BY <3>1, <3>3, <4>1, ZenonT(60) DEF Fits, Requests, TypeOK, PendingTyped
      <4>3. b.seq = master[x].seq
        BY <3>1, <4>2 DEF Raw
      <4>4. b.id[1] = x /\ b.id[2] = master[x].id /\ b.id \in Masters \X Nat
        BY <4>2, <4>3, ZenonT(60) DEF Known, Command
      <4>5. b.id = <<x, master[x].id>>
        BY <4>4
      <4> QED BY <3>1, <4>1, <4>2, <4>5, ZenonT(60)
    <3> QED BY <2>1, <3>1, <3>2, <3>3, ZenonT(60)
  <2> QED BY <1>2, <1>k, <2>1, <2>2, ZenonT(60)
<1>3. CASE Reconnect
  BY <1>3, ReconnectOut, ZenonT(60) DEF Replies
<1> QED BY <1>c, <1>1, <1>2, <1>3, ZenonT(60) DEF Replies

----------------------------------------------------------------------------
(* A control carried out in a session that authenticates was answered for, *)
(* and uses its challenge up.                                              *)
LEMMA RanAnswered ==
    ASSUME TypeOK, Requests, Replies, Challenges, secure,
           NEW a, NEW q, NEW c, NEW e, LogStep(a, q, c, e), e.fn # "SELECT"
    PROVE  /\ <<e.challenge, e.id>> \in master[e.from].answered
           /\ e.challenge <= out'.sequence /\ e.challenge \in Nat
           /\ out'.pending = NoPending
           /\ \A i \in ControlsMade : out.log[i].challenge # e.challenge
<1>1. Ran(out, out', a, q, c) /\ Enters(e, out, out', q, c)
  BY Zenon DEF LogStep
<1>2. Command(q) /\ Known(master, q) /\ out'.sequence = out.sequence
  BY <1>1, RanKnown, Zenon DEF Ran, Carried
<1>3. e.id = q.id /\ e.from = q.from /\ e.challenge = c
  BY <1>1, Zenon DEF Enters
<1>4. /\ out.pending # NoPending /\ out'.pending = NoPending
      /\ q = out.pending.req /\ c = out.pending.num
      /\ \E b \in net : b.to = "outstation" /\ AnswersFor(b, out.users[q.from].key, q, c)
  BY <1>1, Zenon DEF Ran
<1>5. PICK b \in net : b.to = "outstation" /\ AnswersFor(b, out.users[q.from].key, q, c)
  BY <1>4, Zenon
<1>6. Reply(b) /\ b.from = q.from
  BY <1>5, ZenonT(60) DEF AnswersFor
<1>7. b.auth.mac[2] = c /\ b.auth.mac[3] = Raw(q)
  BY <1>5 DEF AnswersFor, MAC
<1>8. Fits(b, out.pending)
  BY <1>4, <1>6, <1>7, ZenonT(60) DEF Fits
<1>9. <<c, q.id>> \in master[q.from].answered
  BY <1>4, <1>5, <1>6, <1>8, ZenonT(60) DEF Replies
<1>10. c \in 1..out.sequence /\ out.sequence \in Nat
  BY <1>4, Zenon DEF TypeOK, PendingTyped, OutShape
<1>11. \A i \in ControlsMade : out.log[i].challenge # c
  BY <1>4, Zenon DEF Challenges
<1> QED BY <1>2, <1>3, <1>4, <1>9, <1>10, <1>11

(* The controls carried out, after a step.                                 *)
LEMMA ControlsStep ==
    ASSUME TypeOK, [Next]_vars
    PROVE  \/ ControlsMade' = ControlsMade /\ out'.log = out.log
           \/ \E e \in Entries : \E a, q, c :
                LET n == Len(out.log) + 1
                IN  /\ LogStep(a, q, c, e) /\ out'.log[n] = e /\ n \notin ControlsMade
                    /\ \A i \in ControlsMade : out'.log[i] = out.log[i]
                    /\ ControlsMade' = IF e.fn = "SELECT" THEN ControlsMade
                                       ELSE ControlsMade \cup {n}
<1>1. CASE out'.log = out.log
  BY <1>1, ZenonT(60) DEF ControlsMade
<1>2. ASSUME NEW e \in Entries, NEW a, NEW q, NEW c, LogStep(a, q, c, e)
      PROVE  LET n == Len(out.log) + 1
             IN  /\ LogStep(a, q, c, e) /\ out'.log[n] = e /\ n \notin ControlsMade
                 /\ \A i \in ControlsMade : out'.log[i] = out.log[i]
                 /\ ControlsMade' = IF e.fn = "SELECT" THEN ControlsMade
                                    ELSE ControlsMade \cup {n}
  <2>1. out'.log = Append(out.log, e) /\ out.log \in Seq(Entries)
    BY <1>2, Zenon DEF LogStep, TypeOK, OutShape
  <2>2. /\ Len(out.log) \in Nat /\ DOMAIN out.log = 1..Len(out.log)
        /\ DOMAIN out'.log = 1..(Len(out.log) + 1)
        /\ \A i \in 1..Len(out.log) : out'.log[i] = out.log[i]
        /\ out'.log[Len(out.log) + 1] = e
    BY <2>1, EntryAdded
  <2> QED BY <1>2, <2>2 DEF ControlsMade
<1> QED BY <1>1, <1>2, LogSteps, ZenonT(60)

(* The entries of the controls carried out are whose they say.             *)
LEMMA ControlFrom ==
    ASSUME TypeOK, NEW i \in ControlsMade
    PROVE  out.log[i].from \in Masters /\ out.log[i].challenge \in Nat
<1>1. out.log \in Seq(Entries) /\ i \in DOMAIN out.log
  BY Zenon DEF TypeOK, OutShape, ControlsMade
<1>2. out.log[i] \in Entries
  BY <1>1
<1> QED BY <1>2, Zenon DEF Entries

LEMMA ChallengesStep ==
    ASSUME TypeOK, Requests, Replies, Challenges, [Next]_vars
    PROVE  Challenges'
<1>s. secure' = secure
  BY StepCases
<1> SUFFICES ASSUME secure PROVE \A i \in ControlsMade' :
                 /\ out'.log[i].challenge <= out'.sequence
                 /\ out'.pending # NoPending => out'.log[i].challenge # out'.pending.num
  BY <1>s, Zenon DEF Challenges
<1>q. out.sequence \in Nat
  BY Zenon DEF TypeOK, OutShape
<1>1. ASSUME ControlsMade' = ControlsMade, out'.log = out.log,
             \/ out'.sequence = out.sequence /\ out'.pending \in {NoPending, out.pending}
             \/ Challenged(out, out'),
             NEW i \in ControlsMade
      PROVE  /\ out'.log[i].challenge <= out'.sequence
             /\ out'.pending # NoPending => out'.log[i].challenge # out'.pending.num
  <2>1. out.log[i].challenge \in Nat
    BY ControlFrom, Zenon
  <2>2. /\ out.log[i].challenge <= out.sequence
        /\ out.pending # NoPending => out.log[i].challenge # out.pending.num
    BY Zenon DEF Challenges
  <2>3. CASE out'.sequence = out.sequence /\ out'.pending \in {NoPending, out.pending}
    BY <1>1, <2>2, <2>3, ZenonT(60)
  <2>4. CASE Challenged(out, out')
    <3>1. out'.sequence = out.sequence + 1 /\ out'.pending.num = out'.sequence
      BY <2>4 DEF Challenged
    <3> QED BY <1>q, <1>1, <2>1, <2>2, <3>1
  <2> QED BY <1>1, <2>3, <2>4, ZenonT(60)
<1>2. ASSUME OutStep, ControlsMade' = ControlsMade, out'.log = out.log
      PROVE  \/ out'.sequence = out.sequence /\ out'.pending \in {NoPending, out.pending}
             \/ Challenged(out, out')
  <2>1. PICK a : \/ Quiet(out, out', a)
                 \/ \E q : Told(out, out', a, q) \/ \E c : Ran(out, out', a, q, c)
    BY <1>2, Zenon DEF OutStep
  <2>2. CASE Quiet(out, out', a)
    BY <2>2, Zenon DEF Quiet
  <2>3. ASSUME NEW q, Told(out, out', a, q)
        PROVE  out'.sequence = out.sequence /\ out'.pending \in {NoPending, out.pending}
    BY <2>3, Zenon DEF Told
  <2>4. ASSUME NEW q, NEW c, Ran(out, out', a, q, c)
        PROVE  out'.sequence = out.sequence /\ out'.pending \in {NoPending, out.pending}
    BY <2>4, Zenon DEF Ran, Carried
  <2> QED BY <2>1, <2>2, <2>3, <2>4, ZenonT(60)
<1>3. ASSUME ControlsMade' = ControlsMade, out'.log = out.log
      PROVE  \/ out'.sequence = out.sequence /\ out'.pending \in {NoPending, out.pending}
             \/ Challenged(out, out')
  <2>1. CASE \E x \in Masters : MasterStep(x)
    BY <2>1, Zenon DEF MasterStep
  <2>2. CASE Reconnect
    BY <2>2, ReconnectOut, Zenon
  <2> QED BY <1>2, <1>3, <2>1, <2>2, StepCases, ZenonT(60)
<1>4. ASSUME NEW e \in Entries, NEW a, NEW q, NEW c, NEW n,
             LogStep(a, q, c, e), out'.log[n] = e,
             \A i \in ControlsMade : out'.log[i] = out.log[i],
             ControlsMade' = IF e.fn = "SELECT" THEN ControlsMade ELSE ControlsMade \cup {n},
             NEW i \in ControlsMade'
      PROVE  /\ out'.log[i].challenge <= out'.sequence
             /\ out'.pending # NoPending => out'.log[i].challenge # out'.pending.num
  <2>1. out'.sequence = out.sequence /\ out'.pending = NoPending
    BY <1>4, Zenon DEF LogStep, Ran, Carried
  <2>2. CASE i \in ControlsMade
    BY <1>4, <2>1, <2>2, ZenonT(60) DEF Challenges
  <2>3. CASE i = n /\ e.fn # "SELECT"
    BY <1>4, <2>1, <2>3, RanAnswered, ZenonT(60)
  <2> QED BY <1>4, <2>2, <2>3, ZenonT(60)
<1> QED BY <1>1, <1>3, <1>4, ControlsStep, ZenonT(60)

LEMMA OneControlStep ==
    ASSUME TypeOK, Requests, Replies, Challenges, OneControlPerChallenge, [Next]_vars
    PROVE  OneControlPerChallenge'
<1>s. secure' = secure
  BY StepCases
<1> SUFFICES ASSUME secure, NEW i \in ControlsMade'
             PROVE  /\ <<out'.log[i].challenge, out'.log[i].id>>
                          \in master'[out'.log[i].from].answered
                    /\ \A k \in ControlsMade' \ {i} : out'.log[i].challenge # out'.log[k].challenge
  BY <1>s, Zenon DEF OneControlPerChallenge
<1>k. ASSUME NEW j \in ControlsMade
      PROVE  /\ <<out.log[j].challenge, out.log[j].id>> \in master'[out.log[j].from].answered
             /\ \A k \in ControlsMade \ {j} : out.log[j].challenge # out.log[k].challenge
  BY ControlFrom, MastersKeep, Zenon DEF OneControlPerChallenge
<1>1. CASE ControlsMade' = ControlsMade /\ out'.log = out.log
  BY <1>1, <1>k, Zenon
<1>2. ASSUME NEW e \in Entries, NEW a, NEW q, NEW c, NEW n,
             LogStep(a, q, c, e), out'.log[n] = e, n \notin ControlsMade,
             \A j \in ControlsMade : out'.log[j] = out.log[j],
             ControlsMade' = IF e.fn = "SELECT" THEN ControlsMade ELSE ControlsMade \cup {n}
      PROVE  /\ <<out'.log[i].challenge, out'.log[i].id>>
                   \in master'[out'.log[i].from].answered
             /\ \A k \in ControlsMade' \ {i} : out'.log[i].challenge # out'.log[k].challenge
  <2>1. CASE e.fn = "SELECT"
    BY <1>2, <1>k, <2>1
  <2>2. CASE e.fn # "SELECT"
    <3>1. /\ <<e.challenge, e.id>> \in master[e.from].answered
          /\ \A j \in ControlsMade : out.log[j].challenge # e.challenge
      <4>1. LogStep(a, q, c, e)
        BY <1>2, Zenon
      <4> QED BY <2>2, <4>1, RanAnswered, ZenonT(60)
    <3>2. e.from \in Masters
      BY Zenon DEF Entries
    <3>3. <<e.challenge, e.id>> \in master'[e.from].answered
      BY <3>1, <3>2, MastersKeep, Zenon
    <3>4. CASE i = n
      BY <1>2, <2>2, <3>1, <3>3, <3>4, ZenonT(60)
    <3>5. CASE i \in ControlsMade
      BY <1>2, <1>k, <2>2, <3>1, <3>5
    <3> QED BY <1>2, <2>2, <3>4, <3>5, ZenonT(60)
  <2> QED BY <2>1, <2>2, ZenonT(60)
<1> QED BY <1>1, <1>2, ControlsStep, ZenonT(60)

----------------------------------------------------------------------------
(* The control a call reports is the one carried out for it.               *)
Moved(log, c) == \E k \in DOMAIN log : log[k].id = c.id /\ log[k].moved = Elements(c.objects)

LEMMA MovedIs ==
    SuccessMeansMoved <=>
        \A m \in Masters : \A i \in DOMAIN master[m].outcomes :
            master[m].outcomes[i].ok => Moved(out.log, master[m].outcomes[i])
BY Zenon DEF SuccessMeansMoved, Moved, Elements

LEMMA MovedStays ==
    ASSUME TypeOK, [Next]_vars, NEW c, Moved(out.log, c)
    PROVE  Moved(out'.log, c)
<1>1. CASE out'.log = out.log
  BY <1>1, ZenonT(60)
<1>2. ASSUME NEW e \in Entries, out'.log = Append(out.log, e) PROVE Moved(out'.log, c)
  <2>1. out.log \in Seq(Entries)
    BY ZenonT(60) DEF TypeOK, OutShape
  <2>2. /\ Len(out.log) \in Nat /\ DOMAIN out.log = 1..Len(out.log)
        /\ DOMAIN out'.log = 1..(Len(out.log) + 1)
        /\ \A i \in 1..Len(out.log) : out'.log[i] = out.log[i]
    BY <1>2, <2>1, EntryAdded
  <2> QED BY <2>2 DEF Moved
<1> QED BY <1>1, <1>2, LogSteps, ZenonT(60) DEF LogStep

LEMMA AnswerMoved ==
    ASSUME TypeOK, Entered, Responses, NEW m \in Masters,
           master[m].step \in Fns \ {"SELECT"}, GoodAnswer(master[m], m),
           NEW c, c.id = <<m, master[m].id>>, c.objects = master[m].objects
    PROVE  Moved(out.log, c)
<1>1. PICK r \in net : r.to = m /\ r.fn # "AUTH_RESPONSE" /\ r.seq = master[m].seq
                       /\ AllOK(r.statuses)
  BY Zenon DEF GoodAnswer
<1>2. Done(out.log, m, master[m].id)
  BY <1>1, ZenonT(60) DEF Responses
<1>3. PICK k \in DOMAIN out.log : CarriedOut(out.log[k], m, master[m].id)
  BY <1>2, ZenonT(60) DEF Done
<1>4. PICK e : e = out.log[k]
  OBVIOUS
<1>5. e.id = <<m, master[m].id>> /\ (e.fn # "SELECT" => e.moved = Elements(e.objects))
  BY <1>3, <1>4, ZenonT(60) DEF CarriedOut
<1>6. e.id[1] = e.from /\ Made(master[e.from], e.id[2], e.fn, e.objects)
  BY <1>3, <1>4, ZenonT(60) DEF Entered
<1>7. e.from = m /\ e.id[2] = master[m].id
  BY <1>5, <1>6
<1>8. e.fn = master[m].step /\ e.objects = master[m].objects
  BY <1>6, <1>7, ZenonT(60) DEF Made
<1> QED BY <1>3, <1>4, <1>5, <1>8, ZenonT(60) DEF Moved

LEMMA SuccessStep ==
    ASSUME TypeOK, Entered, Responses, SuccessMeansMoved, [Next]_vars
    PROVE  SuccessMeansMoved'
<1>c. OutStep \/ (\E x \in Masters : MasterStep(x)) \/ Reconnect
  BY StepCases
<1> SUFFICES ASSUME NEW m \in Masters, NEW i \in DOMAIN master'[m].outcomes,
                    master'[m].outcomes[i].ok
             PROVE  Moved(out'.log, master'[m].outcomes[i])
  BY Zenon DEF SuccessMeansMoved, Moved, Elements
<1>k. ASSUME master'[m].outcomes = master[m].outcomes
      PROVE  Moved(out'.log, master'[m].outcomes[i])
  BY <1>k, MovedIs, MovedStays, ZenonT(60)
<1>a. ASSUME NEW e \in Results, master'[m].outcomes = Append(master[m].outcomes, e),
             e.ok => Moved(out.log, e)
      PROVE  Moved(out'.log, master'[m].outcomes[i])
  <2> DEFINE L == Len(master[m].outcomes)
  <2>1. master[m].outcomes \in Seq(Results)
    BY ZenonT(60) DEF TypeOK, MasterShape
  <2>2. /\ L \in Nat /\ DOMAIN master[m].outcomes = 1..L
        /\ DOMAIN master'[m].outcomes = 1..(L + 1) /\ master'[m].outcomes[L + 1] = e
        /\ \A j \in 1..L : master'[m].outcomes[j] = master[m].outcomes[j]
    BY <1>a, <2>1
  <2> HIDE DEF L
  <2>3. CASE i \in 1..L
    BY <2>2, <2>3, MovedIs, MovedStays, ZenonT(60)
  <2>4. CASE i = L + 1
    BY <1>a, <2>2, <2>4, MovedStays, ZenonT(60)
  <2> QED BY <2>2, <2>3, <2>4
<1>1. CASE OutStep
  BY <1>1, <1>k, ZenonT(60) DEF OutStep
<1>2. ASSUME NEW x \in Masters, MasterStep(x)
      PROVE  Moved(out'.log, master'[m].outcomes[i])
  <2>1. CASE m # x
    BY <1>2, <1>k, <2>1, ZenonT(60) DEF MasterStep
  <2>2. CASE m = x
    <3>1. PICK s : Moves(master[m], master'[m], m, s)
      BY <1>2, <2>2, ZenonT(60) DEF MasterStep
    <3>2. CASE ~Ends(master[m], master'[m], m, s)
      <4>1. master'[m].outcomes = master[m].outcomes
        BY <3>1, <3>2, ZenonT(60) DEF Moves, Rests, Asked, Changed, Proven, SamePast
      <4> QED BY <1>k, <4>1, ZenonT(60)
    <3>3. CASE Ends(master[m], master'[m], m, s)
      <4>1. PICK e \in Results :
              /\ master'[m].outcomes = Append(master[m].outcomes, e)
              /\ e.id = <<m, master[m].id>> /\ e.objects = master[m].objects
              /\ e.ok => master[m].step \in Fns \ {"SELECT"} /\ GoodAnswer(master[m], m)
        BY <3>3, Zenon DEF Ends
      <4>2. e.ok => Moved(out.log, e)
        BY <4>1, AnswerMoved, ZenonT(60)
      <4> QED BY <1>a, <4>1, <4>2, ZenonT(60)
    <3> QED BY <3>2, <3>3, ZenonT(60)
  <2> QED BY <2>1, <2>2, ZenonT(60)
<1>3. CASE Reconnect
  BY <1>3, <1>a, <1>k, ReconnectMaster, ZenonT(60)
<1> QED BY <1>c, <1>1, <1>2, <1>3, ZenonT(60)

----------------------------------------------------------------------------
LEMMA Inv2Next == Inv2 /\ [NumbersFree]_vars /\ [Next]_vars => Inv2'
<1> SUFFICES ASSUME Inv2, [NumbersFree]_vars, [Next]_vars PROVE Inv2'
  OBVIOUS
<1>1. /\ Inv /\ TypeOK /\ Requests /\ Entered /\ Responses /\ Remembered /\ Offered /\ Replies
      /\ Challenges /\ SuccessMeansMoved /\ OneControlPerChallenge
  BY DEF Inv2, Inv
<1>2. NumbersFree
  BY Zenon DEF NumbersFree, vars
<1>3. Inv'
  BY <1>1, InvNext, Zenon
<1>4. Requests' /\ Entered'
  BY <1>1, <1>2, RequestsStep, EnteredStep, ZenonT(60)
<1>5. Responses' /\ Remembered'
  BY <1>1, <1>2, ResponsesStep, RememberedStep, ZenonT(60)
<1>6. Offered' /\ Replies' /\ Challenges'
  BY <1>1, OfferedStep, RepliesStep, ChallengesStep, ZenonT(60)
<1>7. SuccessMeansMoved' /\ OneControlPerChallenge'
  BY <1>1, SuccessStep, OneControlStep, ZenonT(60)
<1> QED BY <1>3, <1>4, <1>5, <1>6, <1>7, ZenonT(60) DEF Inv2

(* A call that returns success means that the outputs it named moved, as   *)
(* long as no number is taken again while something is left of the request *)
(* that had it: the answer that let it return is for this request,         *)
(* whatever was lost, repeated or late (command.go, finish).               *)
THEOREM SuccessIsMovement == Spec /\ [][NumbersFree]_vars => []SuccessMeansMoved
<1>1. Inv2 => SuccessMeansMoved
  BY DEF Inv2
<1> QED BY <1>1, Inv2Init, Inv2Next, PTL DEF Spec

(* In a session that authenticates, a control was answered for by its      *)
(* master and no challenge is used twice, as long as no number is taken    *)
(* again while something is left of the request that had it (security.go,  *)
(* onAuthentication).                                                      *)
THEOREM ChallengesUsedOnce == Spec /\ [][NumbersFree]_vars => []OneControlPerChallenge
<1>1. Inv2 => OneControlPerChallenge
  BY Zenon DEF Inv2
<1> QED BY <1>1, Inv2Init, Inv2Next, PTL DEF Spec
=============================================================================
