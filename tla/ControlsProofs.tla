-------------------------- MODULE ControlsProofs ----------------------------
(***************************************************************************)
(* Controls, for any masters, outputs, commands, limits and disturbances:  *)
(* a selection is operated at most once and as it was selected, and the    *)
(* session keys of the two sides agree, whatever is lost, repeated,        *)
(* delayed and reordered.                                                  *)
(*                                                                         *)
(* The handlers are records updated in several places; what the invariants *)
(* here and in OutcomeProofs tell apart of them is stated first, as a      *)
(* relation between the session before and after and what was sent (Quiet, *)
(* Told, Ran for the outstation, Moves for a master).  StepCases is the    *)
(* result: every step is one of these.                                     *)
(***************************************************************************)
EXTENDS Controls, TLAPS

(* A leaf that names no prover is given this long.                         *)
USE SMTT(30)

Fns == {"SELECT", "OPERATE", "DIRECT_OPERATE", "DIRECT_OPERATE_NR"}
Steps == Fns \cup {Idle, "status", "change"}

OutFields == {"sel", "lastReq", "lastResp", "pending", "sequence", "keySequence", "users",
              "reply", "log"}
UserFields == {"key", "messages", "change", "status"}
MasterFields == {"step", "next", "objects", "seq", "id", "key", "messages", "keys", "change",
                 "sent", "answered", "outcomes"}

Elements(c) == {c[i] : i \in DOMAIN c}
Entries == [id : Masters \X Nat, from : Masters, fn : Fns, objects : Commands,
            moved : SUBSET UNION {Elements(c) : c \in Commands}, challenge : Nat]
Results == [id : Masters \X Nat, fn : Steps, objects : Commands, ok : BOOLEAN]

----------------------------------------------------------------------------
(* Types: what the records of the two sessions hold.                       *)
OutShape(o) ==
    /\ DOMAIN o = OutFields
    /\ DOMAIN o.sel = {"active", "objects", "seq", "live"}
    /\ o.sel.active \in BOOLEAN /\ o.sel.live \in BOOLEAN
    /\ DOMAIN o.users = Masters
    /\ \A m \in Masters : DOMAIN o.users[m] = UserFields
    /\ o.sequence \in Nat /\ o.keySequence \in Nat
    /\ o.log \in Seq(Entries)

MasterShape(u) ==
    /\ DOMAIN u = MasterFields
    /\ u.step \in Steps
    /\ u.step \in {"status", "change"} => u.next \in Fns
    /\ u.step # Idle => u.objects \in Commands
    /\ u.seq \in Nat /\ u.id \in Nat /\ u.keys \in Nat
    /\ u.outcomes \in Seq(Results)

(* A request under way is a command or a step of the authentication, and   *)
(* the one that waits for its challenge is a command.                      *)
Command(q) ==
    /\ q.from \in Masters /\ q.fn \in Fns /\ q.seq \in Nat /\ q.objects \in Commands
    /\ q.auth = NoAuth /\ q.id \in Masters \X Nat
Asks(q) == q.to = "outstation" /\ q.fn = "AUTH_REQUEST" /\ q.from \in Masters
KeyChange(q) ==
    /\ Asks(q) /\ q.auth.v = 6
    /\ q.auth.num \in Nat \ {0} /\ q.auth.key \in Masters \X Nat
Reply(q) == Asks(q) /\ q.auth.v = 2
StatusOf(r, m) == r.to = m /\ r.fn = "AUTH_RESPONSE" /\ r.auth.v = 5

Fragment(q) == Command(q) \/ KeyChange(q) \/ Reply(q) \/ (Asks(q) /\ q.auth.v = 4)
PendingTyped(o) ==
    o.pending # NoPending => Command(o.pending.req) /\ o.pending.num \in 1..o.sequence

TypeOK ==
    /\ secure \in BOOLEAN
    /\ OutShape(out) /\ out.reply = {}
    /\ PendingTyped(out)
    /\ DOMAIN master = Masters
    /\ \A m \in Masters : MasterShape(master[m]) /\ master[m].sent = {}
    /\ \A q \in net : q.to = "outstation" => Fragment(q)

(* The session key that a key change carries.                              *)
KeyOf(raw) == raw[5].key

----------------------------------------------------------------------------
(* What the handlers do, as far as the invariants tell it apart.  Carried  *)
(* is what the outstation's session p is after it has carried out q, or    *)
(* answered it again, in o; Enters is the entry this leaves in the log.    *)
Enters(e, o, p, q, c) ==
    /\ e.id = q.id /\ e.from = q.from /\ e.fn = q.fn /\ e.objects = q.objects
    /\ e.fn # "SELECT" => e.challenge = c
    /\ e.fn # "SELECT" /\ AllOK(p.lastResp) => e.moved = Elements(e.objects)
    /\ e.fn = "SELECT" => p.sel.active /\ p.sel.objects = e.objects
    /\ e.fn = "OPERATE" => o.sel.active /\ o.sel.objects = e.objects /\ p.sel = NoSelection
    /\ e.fn \notin {"SELECT", "OPERATE"} => p.sel = o.sel

Carried(o, p, q, c) ==
    /\ p.sequence = o.sequence /\ p.keySequence = o.keySequence
    /\ p.lastReq = Raw(q)
    /\ \/ /\ p.log = o.log /\ (p.sel = o.sel \/ p.sel = NoSelection)
          /\ AllOK(p.lastResp) => o.lastReq = Raw(q) /\ p.lastResp = o.lastResp
       \/ \E e \in Entries : p.log = Append(o.log, e) /\ Enters(e, o, p, q, c)

Replied(o, p, q) ==
    /\ p.users = o.users /\ p.pending = o.pending
    /\ p.reply = o.reply \/ p.reply = {Response(q, p.lastResp)}

LEMMA EntryAdded ==
    ASSUME NEW s \in Seq(Entries), NEW e \in Entries
    PROVE  /\ Append(s, e) \in Seq(Entries)
           /\ Len(s) \in Nat /\ Len(Append(s, e)) = Len(s) + 1
           /\ DOMAIN s = 1..Len(s) /\ DOMAIN Append(s, e) = 1..(Len(s) + 1)
           /\ Append(s, e)[Len(s) + 1] = e
           /\ \A i \in 1..Len(s) : Append(s, e)[i] = s[i]
OBVIOUS

(* Select (command.go, onSelect).                                          *)
LEMMA SelectCarried ==
    ASSUME NEW o, OutShape(o), NEW q, Command(q), q.fn = "SELECT", NEW c \in Nat,
           o.lastReq = Raw(q), o.lastResp = None
    PROVE  /\ OutShape(onSelect(o, q))
           /\ Carried(o, onSelect(o, q), q, c) /\ Replied(o, onSelect(o, q), q)
<1> DEFINE statuses == executeCommands(q, "SUCCESS")
           e == [id |-> q.id, from |-> q.from, fn |-> q.fn, objects |-> q.objects,
                 moved |-> {}, challenge |-> 0]
           p == onSelect(o, q)
<1>1. e \in Entries
  BY Zenon DEF Command, Entries, Fns
<1>2. CASE \A i \in DOMAIN statuses : statuses[i] = "SUCCESS"
  <2>1. /\ DOMAIN p = OutFields /\ p.pending = o.pending /\ p.sequence = o.sequence
        /\ p.keySequence = o.keySequence /\ p.users = o.users /\ p.lastReq = o.lastReq
        /\ p.log = Append(o.log, e) /\ p.reply = {Response(q, statuses)} /\ p.lastResp = statuses
        /\ p.sel = [active |-> TRUE, objects |-> q.objects, seq |-> q.seq, live |-> TRUE]
    BY <1>2, Zenon DEF onSelect, Respond, OutShape, OutFields
  <2> HIDE DEF p, statuses
  <2>2. p.log \in Seq(Entries)
    BY <1>1, <2>1, EntryAdded DEF OutShape
  <2>3. OutShape(p)
    BY <2>1, <2>2 DEF OutShape
  <2>4. Enters(e, o, p, q, c)
    BY <2>1 DEF Enters
  <2> HIDE DEF e
  <2>5. Carried(o, p, q, c) /\ Replied(o, p, q)
    BY <1>1, <2>1, <2>4, Zenon DEF Carried, Replied
  <2> QED BY <2>3, <2>5, Zenon DEF p
<1>3. CASE ~\A i \in DOMAIN statuses : statuses[i] = "SUCCESS"
  <2>1. /\ DOMAIN p = OutFields /\ p.pending = o.pending /\ p.sequence = o.sequence
        /\ p.keySequence = o.keySequence /\ p.users = o.users /\ p.lastReq = o.lastReq
        /\ p.log = o.log /\ p.reply = {Response(q, statuses)} /\ p.lastResp = statuses
        /\ p.sel = NoSelection
    BY <1>3, Zenon DEF onSelect, Respond, OutShape, OutFields
  <2> HIDE DEF p
  <2>2. OutShape(p)
    BY <2>1 DEF OutShape, NoSelection
  <2>3. ~AllOK(p.lastResp)
    BY <1>3, <2>1, Zenon DEF AllOK
  <2> HIDE DEF statuses
  <2>4. Carried(o, p, q, c) /\ Replied(o, p, q)
    BY <2>1, <2>3, Zenon DEF Carried, Replied
  <2> QED BY <2>2, <2>4, Zenon DEF p
<1> QED BY <1>2, <1>3, Zenon

(* The other commands (command.go, onCommand).                             *)
LEMMA OperateCarried ==
    ASSUME NEW o, OutShape(o), NEW q, Command(q), q.fn # "SELECT", NEW c \in Nat,
           o.lastReq = Raw(q), o.lastResp = None
    PROVE  /\ OutShape(onCommand(o, q, c))
           /\ Carried(o, onCommand(o, q, c), q, c) /\ Replied(o, onCommand(o, q, c), q)
<1> DEFINE status == IF q.fn = "OPERATE" THEN matches(o.sel, q) ELSE "SUCCESS"
           statuses == executeCommands(q, status)
           reached == {i \in DOMAIN statuses : statuses[i] \in {"SUCCESS", "BLOCKED"}}
           sel == IF q.fn = "OPERATE" THEN NoSelection ELSE o.sel
           e == [id |-> q.id, from |-> q.from, fn |-> q.fn, objects |-> q.objects,
                 moved |-> {q.objects[i] : i \in {j \in reached : statuses[j] = "SUCCESS"}},
                 challenge |-> c]
           log == IF reached = {} THEN o.log ELSE Append(o.log, e)
           p == onCommand(o, q, c)
<1>1. /\ DOMAIN p = OutFields /\ p.pending = o.pending /\ p.sequence = o.sequence
      /\ p.keySequence = o.keySequence /\ p.users = o.users /\ p.lastReq = o.lastReq
      /\ p.log = log /\ p.sel = sel
      /\ \/ p.reply = o.reply /\ p.lastResp = None
         \/ p.reply = {Response(q, statuses)} /\ p.lastResp = statuses
  BY DEF onCommand, Respond, recordCommandEvent, OutShape, OutFields
<1>2. e \in Entries
  <2>1. reached \subseteq DOMAIN q.objects
    BY Zenon DEF executeCommands
  <2>2. e.moved \subseteq Elements(q.objects)
    BY <2>1, Zenon DEF Elements
  <2>3. e.moved \in SUBSET UNION {Elements(d) : d \in Commands}
    BY <2>2, Zenon DEF Command
  <2> QED BY <2>3, Zenon DEF Command, Entries
<1>3. ASSUME reached # {} PROVE status = "SUCCESS"
  BY <1>3, Zenon DEF executeCommands, matches, controlExists
<1>4. ASSUME AllOK(p.lastResp) PROVE reached # {} /\ e.moved = Elements(q.objects)
  <2>1. p.lastResp = statuses /\ DOMAIN statuses = DOMAIN q.objects
    BY <1>1, <1>4 DEF AllOK, None, executeCommands
  <2>2. reached = DOMAIN statuses /\ \A j \in reached : statuses[j] = "SUCCESS"
    BY <1>4, <2>1, Zenon DEF AllOK
  <2> QED BY <1>4, <2>1, <2>2, ZenonT(60) DEF AllOK, Elements
<1>5. q.fn = "OPERATE" /\ status = "SUCCESS" => o.sel.active /\ o.sel.objects = q.objects
  BY Zenon DEF matches
<1> HIDE DEF p, statuses, reached, status
<1>6. OutShape(p)
  <2>1. p.log \in Seq(Entries)
    BY <1>1, <1>2, EntryAdded DEF OutShape
  <2>2. DOMAIN sel = {"active", "objects", "seq", "live"} /\ sel.active \in BOOLEAN
        /\ sel.live \in BOOLEAN
    BY Zenon DEF OutShape, NoSelection
  <2> HIDE DEF sel, log
  <2> QED BY <1>1, <2>1, <2>2, Zenon DEF OutShape
<1>7. ASSUME reached # {} PROVE Enters(e, o, p, q, c)
  BY <1>1, <1>3, <1>4, <1>5, <1>7, Zenon DEF Enters
<1>8. reached # {} => \E d \in Entries : p.log = Append(o.log, d) /\ Enters(d, o, p, q, c)
  <2> HIDE DEF e
  <2> QED BY <1>1, <1>2, <1>7, Zenon
<1>9. reached = {} => p.log = o.log /\ ~AllOK(p.lastResp)
  BY <1>1, <1>4, Zenon
<1>10. p.reply = o.reply \/ p.reply = {Response(q, p.lastResp)}
  BY <1>1, Zenon
<1> HIDE DEF e
<1>11. Carried(o, p, q, c) /\ Replied(o, p, q)
  BY <1>1, <1>8, <1>9, <1>10, Zenon DEF Carried, Replied
<1> QED BY <1>6, <1>11, Zenon DEF p

(* A request carried out or, when it is the last one again, answered again *)
(* (session.go, handle; what Execute says of it).                          *)
LEMMA ExecuteCarried ==
    ASSUME NEW o, OutShape(o), NEW q, Command(q), NEW c \in Nat
    PROVE  /\ OutShape(Execute(o, q, c))
           /\ Carried(o, Execute(o, q, c), q, c) /\ Replied(o, Execute(o, q, c), q)
<1>1. CASE isRepeatRequest(o, q)
  <2> DEFINE p == replayResponse(o, q)
  <2>1. /\ DOMAIN p = OutFields /\ p.pending = o.pending /\ p.sequence = o.sequence
        /\ p.keySequence = o.keySequence /\ p.users = o.users /\ p.lastReq = o.lastReq
        /\ p.log = o.log /\ p.sel = o.sel /\ p.lastResp = o.lastResp
        /\ p.reply = o.reply \/ p.reply = {Response(q, p.lastResp)}
    BY Zenon DEF replayResponse, Respond, OutShape, OutFields
  <2> HIDE DEF p
  <2>2. OutShape(p) /\ Carried(o, p, q, c) /\ Replied(o, p, q)
    BY <1>1, <2>1, Zenon DEF OutShape, Carried, Replied, isRepeatRequest
  <2> QED BY <1>1, <2>2, Zenon DEF Execute, p
<1>2. CASE ~isRepeatRequest(o, q)
  <2> DEFINE b == rememberRequest(o, q)
             p == onCommand(b, q, c)
  <2>1. /\ DOMAIN b = OutFields /\ b.pending = o.pending /\ b.sequence = o.sequence
        /\ b.keySequence = o.keySequence /\ b.users = o.users /\ b.lastReq = Raw(q)
        /\ b.log = o.log /\ b.sel = o.sel /\ b.lastResp = None /\ b.reply = o.reply
    BY Zenon DEF rememberRequest, OutShape, OutFields
  <2> HIDE DEF b
  <2>2. OutShape(b)
    BY <2>1, Zenon DEF OutShape
  <2>3. OutShape(p) /\ Carried(b, p, q, c) /\ Replied(b, p, q)
    <3>1. CASE q.fn = "SELECT"
      BY <3>1, <2>1, <2>2, SelectCarried, Zenon DEF onCommand
    <3>2. CASE q.fn # "SELECT"
      BY <3>2, <2>1, <2>2, OperateCarried, Zenon
    <3> QED BY <3>1, <3>2, Zenon
  <2> HIDE DEF p
  <2>4. AllOK(p.lastResp) => p.lastResp # None
    BY DEF AllOK, None
  <2>5. Carried(o, p, q, c) /\ Replied(o, p, q)
    BY <2>1, <2>3, <2>4 DEF Carried, Replied, Enters
  <2> QED BY <1>2, <2>3, <2>5, Zenon DEF Execute, p, b
<1> QED BY <1>1, <1>2, Zenon

----------------------------------------------------------------------------
(* What a step makes of the outstation's session o, with a the fragments   *)
(* it sends.  Ran: the command q is carried out, at once or once its       *)
(* challenge c is answered.  Told: a key status is sent to the sender of   *)
(* q, a key change taken first perhaps.  Quiet: anything else.             *)
UserKept(w, v) ==
    v.change = w.change /\ v.status \in {0, w.status} /\ v.key \in {None, w.key}

AnswersFor(b, key, q, c) ==
    Reply(b) /\ b.from = q.from /\ b.auth.mac = MAC(key, c, Raw(q))

Ran(o, p, a, q, c) ==
    /\ Command(q) /\ c \in Nat /\ Carried(o, p, q, c)
    /\ \A m \in Masters : UserKept(o.users[m], p.users[m])
    /\ a = {} \/ a = {Response(q, p.lastResp)}
    /\ \/ ~secure /\ q \in net /\ q.to = "outstation" /\ p.pending = o.pending
       \/ /\ secure /\ o.pending # NoPending /\ p.pending = NoPending
          /\ q = o.pending.req /\ c = o.pending.num
          /\ o.users[q.from].key # None
          /\ \E b \in net : b.to = "outstation" /\ AnswersFor(b, o.users[q.from].key, q, c)

Challenged(o, p) ==
    /\ p.sequence = o.sequence + 1
    /\ \E q \in net : /\ q.to = "outstation" /\ Command(q)
                      /\ p.pending = [req |-> q, num |-> p.sequence]

Offers(r) == r.fn = "AUTH_RESPONSE" /\ r.auth.v = 1

Quiet(o, p, a) ==
    /\ p.log = o.log /\ p.sel.active = o.sel.active /\ p.sel.objects = o.sel.objects
    /\ p.lastReq = o.lastReq /\ p.lastResp \in {o.lastResp, None}
    /\ p.keySequence = o.keySequence
    /\ \A m \in Masters : UserKept(o.users[m], p.users[m])
    /\ (p.sequence = o.sequence /\ p.pending \in {NoPending, o.pending}) \/ Challenged(o, p)
    /\ \A r \in a : /\ r.to \in Masters
                    /\ r.fn # "AUTH_RESPONSE" => ~AllOK(r.statuses)
                    /\ r.fn = "AUTH_RESPONSE" => r.auth.v # 5
                    /\ Offers(r) => Challenged(o, p) /\ r.auth.num = p.sequence

Told(o, p, a, q) ==
    /\ p.log = o.log /\ p.sel = o.sel /\ p.lastReq = o.lastReq /\ p.lastResp = o.lastResp
    /\ p.sequence = o.sequence /\ p.pending \in {NoPending, o.pending}
    /\ p.keySequence = o.keySequence + 1
    /\ q \in net /\ q.to = "outstation" /\ q.from \in Masters
    /\ \A m \in Masters \ {q.from} : UserKept(o.users[m], p.users[m])
    /\ p.users[q.from].status = p.keySequence
    /\ LET w == o.users[q.from]
           v == p.users[q.from]
       IN  \/ v.change = w.change /\ v.key \in {None, w.key}
           \/ /\ KeyChange(q) /\ q.auth.num = w.status
              /\ v.change = Raw(q) /\ v.key = q.auth.key
    /\ \A r \in a : StatusOf(r, q.from) /\ r.auth.num = p.keySequence
                    /\ r.auth.mac = p.users[q.from].change

(* A step taken from b is one from o, if b is o but for what lapsed.       *)
Lapsed(o, b) ==
    /\ b.sel = o.sel /\ b.lastReq = o.lastReq /\ b.lastResp = o.lastResp
    /\ b.sequence = o.sequence /\ b.keySequence = o.keySequence /\ b.log = o.log
    /\ \A m \in Masters : UserKept(o.users[m], b.users[m])

LEMMA KeptTwice ==
    ASSUME NEW u, NEW w, UserKept(u, w), NEW v, UserKept(w, v)
    PROVE  UserKept(u, v)
BY Zenon DEF UserKept

LEMMA CarriedFrom ==
    ASSUME NEW o, NEW b, Lapsed(o, b), NEW p, NEW q, NEW c, Carried(b, p, q, c)
    PROVE  Carried(o, p, q, c)
<1>1. \A e : Enters(e, b, p, q, c) => Enters(e, o, p, q, c)
  BY DEF Enters, Lapsed
<1> QED BY <1>1, Zenon DEF Carried, Lapsed

LEMMA QuietFrom ==
    ASSUME NEW o, NEW b, Lapsed(o, b), b.pending \in {NoPending, o.pending},
           NEW p, NEW a, Quiet(b, p, a)
    PROVE  Quiet(o, p, a)
<1>1. \A m \in Masters : UserKept(o.users[m], p.users[m])
  BY KeptTwice DEF Lapsed, Quiet
<1>2. Challenged(b, p) => Challenged(o, p)
  BY Zenon DEF Challenged, Lapsed
<1>3. (p.sequence = o.sequence /\ p.pending \in {NoPending, o.pending}) \/ Challenged(o, p)
  BY <1>2, Zenon DEF Quiet, Lapsed
<1> QED BY <1>1, <1>2, <1>3, Zenon DEF Quiet, Lapsed

LEMMA ToldFrom ==
    ASSUME NEW o, NEW b, Lapsed(o, b), b.pending = o.pending, NEW p, NEW a, NEW q,
           Told(b, p, a, q)
    PROVE  Told(o, p, a, q)
<1>1. q.from \in Masters /\ \A m \in Masters \ {q.from} : UserKept(o.users[m], p.users[m])
  BY KeptTwice, Zenon DEF Lapsed, Told
<1>2. UserKept(o.users[q.from], b.users[q.from])
  BY <1>1, Zenon DEF Lapsed
<1>3. KeyChange(q) /\ q.auth.num = b.users[q.from].status => q.auth.num = o.users[q.from].status
  BY <1>2, Zenon DEF UserKept, KeyChange
<1>4. /\ b.users[q.from].change = o.users[q.from].change
      /\ b.users[q.from].key \in {None, o.users[q.from].key}
  BY <1>2, Zenon DEF UserKept
<1> QED BY <1>1, <1>3, <1>4, Zenon DEF Told, Lapsed

LEMMA RanFrom ==
    ASSUME NEW o, NEW b, Lapsed(o, b), b.pending = o.pending, NEW p, NEW a, NEW q, NEW c,
           Ran(b, p, a, q, c)
    PROVE  Ran(o, p, a, q, c)
<1>1. Carried(o, p, q, c) /\ Command(q)
  BY CarriedFrom, Zenon DEF Ran
<1>2. \A m \in Masters : UserKept(o.users[m], p.users[m])
  BY KeptTwice DEF Lapsed, Ran
<1>3. b.users[q.from].key # None => b.users[q.from].key = o.users[q.from].key
  BY <1>1, Zenon DEF Command, Lapsed, UserKept
<1> QED BY <1>1, <1>2, <1>3, Zenon DEF Ran

(* A key that has been used up is dropped (security.go, expireSecurity).   *)
LEMMA Expires ==
    ASSUME NEW o, OutShape(o), NEW p, p = expireSecurity(o)
    PROVE  /\ OutShape(p)
           /\ \A m \in Masters : UserKept(o.users[m], p.users[m])
           /\ p.sel = o.sel /\ p.lastReq = o.lastReq /\ p.lastResp = o.lastResp
           /\ p.pending = o.pending /\ p.sequence = o.sequence
           /\ p.keySequence = o.keySequence /\ p.reply = o.reply /\ p.log = o.log
<1> DEFINE w(m) == IF o.users[m].messages >= MaxMessages
                   THEN [o.users[m] EXCEPT !.key = None] ELSE o.users[m]
           us == [m \in Masters |-> w(m)]
<1>1. /\ DOMAIN p = OutFields /\ p.users = us
      /\ p.sel = o.sel /\ p.lastReq = o.lastReq /\ p.lastResp = o.lastResp
      /\ p.pending = o.pending /\ p.sequence = o.sequence
      /\ p.keySequence = o.keySequence /\ p.reply = o.reply /\ p.log = o.log
  BY Zenon DEF expireSecurity, OutShape, OutFields
<1>2. ASSUME NEW m \in Masters
      PROVE DOMAIN us[m] = UserFields /\ UserKept(o.users[m], us[m])
  <2>1. us[m] = o.users[m] \/ us[m] = [o.users[m] EXCEPT !.key = None]
    BY Zenon
  <2> HIDE DEF us
  <2> QED BY <2>1, Zenon DEF UserKept, OutShape, UserFields
<1>3. DOMAIN us = Masters
  BY Zenon
<1> HIDE DEF us
<1> QED BY <1>1, <1>2, <1>3, Zenon DEF OutShape

(* Only the reply changes (security.go, sendAuthentication).               *)
LEMMA Sends ==
    ASSUME NEW o, OutShape(o), NEW q, NEW auth, NEW p, p = sendAuthentication(o, q, auth)
    PROVE  /\ OutShape(p) /\ p.reply = {AuthResponse(q, auth)}
           /\ p.sel = o.sel /\ p.lastReq = o.lastReq /\ p.lastResp = o.lastResp
           /\ p.pending = o.pending /\ p.sequence = o.sequence
           /\ p.keySequence = o.keySequence /\ p.users = o.users /\ p.log = o.log
<1>1. /\ DOMAIN p = OutFields /\ p.reply = {AuthResponse(q, auth)}
      /\ p.sel = o.sel /\ p.lastReq = o.lastReq /\ p.lastResp = o.lastResp
      /\ p.pending = o.pending /\ p.sequence = o.sequence
      /\ p.keySequence = o.keySequence /\ p.users = o.users /\ p.log = o.log
  BY Zenon DEF sendAuthentication, OutShape, OutFields
<1> QED BY <1>1, Zenon DEF OutShape

LEMMA AuthFields ==
    ASSUME NEW q, NEW auth, NEW r, r = AuthResponse(q, auth)
    PROVE  r.to = q.from /\ r.fn = "AUTH_RESPONSE" /\ r.auth = auth
BY Zenon DEF AuthResponse, Response

LEMMA KeyRequested ==
    ASSUME NEW m, NEW seq, NEW num, NEW key, NEW q,
           q = AuthRequest(m, seq, [v |-> 6, num |-> num, key |-> key])
    PROVE  q.auth.key = key
BY Zenon DEF AuthRequest, Request

LEMMA LaterKey ==
    ASSUME NEW k \in Nat, NEW m, NEW x, x = <<m, k + 1>>
    PROVE  ~(x[2] <= k)
OBVIOUS

(* A request is refused (security.go, authenticationError).                *)
LEMMA Refused ==
    ASSUME NEW o, OutShape(o), PendingTyped(o), NEW q, q.from \in Masters,
           NEW p, p = authenticationError(o, q)
    PROVE  OutShape(p) /\ PendingTyped(p) /\ Quiet(o, p, p.reply)
<1>1. /\ OutShape(p) /\ p.reply = {AuthResponse(q, AuthError)}
      /\ p.sel = o.sel /\ p.lastReq = o.lastReq /\ p.lastResp = o.lastResp
      /\ p.pending = o.pending /\ p.sequence = o.sequence
      /\ p.keySequence = o.keySequence /\ p.users = o.users /\ p.log = o.log
  BY Sends DEF authenticationError
<1>2. \A r \in p.reply : r.to = q.from /\ r.fn = "AUTH_RESPONSE" /\ r.auth = AuthError
  BY <1>1, AuthFields
<1>3. \A m \in Masters : UserKept(o.users[m], p.users[m])
  BY <1>1, Zenon DEF UserKept
<1>4. AuthError.v # 5 /\ AuthError.v # 1
  BY DEF AuthError
<1> QED BY <1>1, <1>2, <1>3, <1>4, Zenon DEF Quiet, PendingTyped, Offers

(* A command is challenged (security.go, challengeRequest).                *)
LEMMA ChallengeStep ==
    ASSUME NEW o, OutShape(o), PendingTyped(o), NEW q \in net, q.to = "outstation", Command(q),
           NEW p, p = challengeRequest(o, q)
    PROVE  OutShape(p) /\ PendingTyped(p) /\ Quiet(o, p, p.reply)
<1>0. q.from \in Masters
  BY Zenon DEF Command
<1>1. CASE ~securityKeyValid(o.users[q.from])
  BY <1>0, <1>1, Refused DEF challengeRequest
<1>2. CASE securityKeyValid(o.users[q.from])
  <2> DEFINE num == o.sequence + 1
             b == sendAuthentication(o, q, Challenge(num))
             pend == [req |-> q, num |-> num]
  <2>1. p = [b EXCEPT !.sequence = num, !.pending = pend]
    BY <1>2, Zenon DEF challengeRequest
  <2>2. /\ OutShape(b) /\ b.reply = {AuthResponse(q, Challenge(num))}
        /\ b.sel = o.sel /\ b.lastReq = o.lastReq /\ b.lastResp = o.lastResp
        /\ b.pending = o.pending /\ b.sequence = o.sequence
        /\ b.keySequence = o.keySequence /\ b.users = o.users /\ b.log = o.log
    BY Sends
  <2> HIDE DEF b
  <2>3. /\ DOMAIN p = OutFields /\ p.reply = b.reply
        /\ p.sel = o.sel /\ p.lastReq = o.lastReq /\ p.lastResp = o.lastResp
        /\ p.pending = pend /\ p.sequence = num
        /\ p.keySequence = o.keySequence /\ p.users = o.users /\ p.log = o.log
    BY <2>1, <2>2 DEF OutShape, OutFields
  <2>4. num \in Nat /\ num \in 1..num
    BY DEF OutShape
  <2>5. OutShape(p)
    BY <2>3, <2>4, Zenon DEF OutShape
  <2>6. pend.req = q /\ pend.num = num
    BY Zenon
  <2>7. PendingTyped(p)
    BY <2>3, <2>4, <2>6 DEF PendingTyped
  <2>8. Challenged(o, p)
    BY <2>3, Zenon DEF Challenged
  <2>9. \A r \in p.reply : r.to = q.from /\ r.fn = "AUTH_RESPONSE" /\ r.auth = Challenge(num)
    BY <2>2, <2>3, AuthFields
  <2>10. Challenge(num).v # 5 /\ Challenge(num).num = num
    BY DEF Challenge
  <2>11. \A m \in Masters : UserKept(o.users[m], p.users[m])
    BY <2>3, Zenon DEF UserKept
  <2> QED BY <1>0, <2>3, <2>5, <2>7, <2>8, <2>9, <2>10, <2>11, Zenon DEF Quiet
<1> QED BY <1>1, <1>2

(* A key status takes the next number (security.go, sendKeyStatus).        *)
LEMMA StatusSent ==
    ASSUME NEW o, OutShape(o), NEW q, q.from \in Masters, NEW p, p = sendKeyStatus(o, q)
    PROVE  /\ OutShape(p) /\ p.keySequence = o.keySequence + 1
           /\ p.sel = o.sel /\ p.lastReq = o.lastReq /\ p.lastResp = o.lastResp
           /\ p.pending = o.pending /\ p.sequence = o.sequence /\ p.log = o.log
           /\ p.users[q.from].status = p.keySequence
           /\ p.users[q.from].change = o.users[q.from].change
           /\ p.users[q.from].key = o.users[q.from].key
           /\ \A m \in Masters \ {q.from} : p.users[m] = o.users[m]
           /\ \A r \in p.reply : StatusOf(r, q.from) /\ r.auth.num = p.keySequence
                                 /\ r.auth.mac = p.users[q.from].change
<1> DEFINE num == o.keySequence + 1
           auth == KeyStatus(num, securityKeyValid(o.users[q.from]), o.users[q.from].change)
           b == sendAuthentication(o, q, auth)
           w == [o.users[q.from] EXCEPT !.status = num]
           us == [o.users EXCEPT ![q.from] = w]
<1>1. p = [b EXCEPT !.keySequence = num, !.users[q.from].status = num]
  BY Zenon DEF sendKeyStatus
<1>2. auth.v = 5 /\ auth.num = num /\ auth.mac = o.users[q.from].change
  BY Zenon DEF KeyStatus
<1> HIDE DEF auth
<1>3. /\ OutShape(b) /\ b.reply = {AuthResponse(q, auth)}
      /\ b.sel = o.sel /\ b.lastReq = o.lastReq /\ b.lastResp = o.lastResp
      /\ b.pending = o.pending /\ b.sequence = o.sequence
      /\ b.keySequence = o.keySequence /\ b.users = o.users /\ b.log = o.log
  BY Sends
<1> HIDE DEF b
<1>4. /\ DOMAIN p = OutFields /\ p.reply = b.reply
      /\ p.sel = o.sel /\ p.lastReq = o.lastReq /\ p.lastResp = o.lastResp
      /\ p.pending = o.pending /\ p.sequence = o.sequence
      /\ p.keySequence = num /\ p.users = us /\ p.log = o.log
  BY <1>1, <1>3 DEF OutShape, OutFields
<1>5. /\ DOMAIN w = UserFields /\ w.status = num
      /\ w.change = o.users[q.from].change /\ w.key = o.users[q.from].key
  BY DEF OutShape, UserFields
<1> HIDE DEF w
<1>6. DOMAIN us = Masters /\ us[q.from] = w /\ \A m \in Masters \ {q.from} : us[m] = o.users[m]
  BY Zenon DEF OutShape
<1> HIDE DEF us
<1>7. OutShape(p)
  BY <1>4, <1>5, <1>6 DEF OutShape
<1>8. \A r \in p.reply : r.to = q.from /\ r.fn = "AUTH_RESPONSE" /\ r.auth = auth
  BY <1>3, <1>4, AuthFields
<1> QED BY <1>2, <1>4, <1>5, <1>6, <1>7, <1>8, Zenon DEF StatusOf

LEMMA StatusTold ==
    ASSUME NEW o, OutShape(o), NEW q \in net, q.to = "outstation", q.from \in Masters,
           NEW p, p = sendKeyStatus(o, q)
    PROVE  OutShape(p) /\ Told(o, p, p.reply, q) /\ p.pending = o.pending /\ p.sequence = o.sequence
<1>1. /\ OutShape(p) /\ p.keySequence = o.keySequence + 1
      /\ p.sel = o.sel /\ p.lastReq = o.lastReq /\ p.lastResp = o.lastResp
      /\ p.pending = o.pending /\ p.sequence = o.sequence /\ p.log = o.log
      /\ p.users[q.from].status = p.keySequence
      /\ p.users[q.from].change = o.users[q.from].change
      /\ p.users[q.from].key = o.users[q.from].key
      /\ \A m \in Masters \ {q.from} : p.users[m] = o.users[m]
      /\ \A r \in p.reply : StatusOf(r, q.from) /\ r.auth.num = p.keySequence
                            /\ r.auth.mac = p.users[q.from].change
  BY StatusSent
<1>2. \A m \in Masters \ {q.from} : UserKept(o.users[m], p.users[m])
  BY <1>1, Zenon DEF UserKept
<1> QED BY <1>1, <1>2, Zenon DEF Told

(* A key change is taken if it answers the last status, which no other     *)
(* will (security.go, onKeyChange).                                        *)
LEMMA KeyChangeStep ==
    ASSUME NEW o, OutShape(o), PendingTyped(o), NEW q \in net, q.to = "outstation", KeyChange(q),
           NEW p, p = onKeyChange(o, q)
    PROVE  OutShape(p) /\ PendingTyped(p) /\ (Quiet(o, p, p.reply) \/ Told(o, p, p.reply, q))
<1> DEFINE w == [o.users[q.from] EXCEPT !.status = 0]
           us == [o.users EXCEPT ![q.from] = w]
           b == [o EXCEPT !.users[q.from].status = 0]
<1>0. q.from \in Masters
  BY Zenon DEF KeyChange, Asks
<1>1. /\ DOMAIN b = OutFields /\ b.reply = o.reply
      /\ b.sel = o.sel /\ b.lastReq = o.lastReq /\ b.lastResp = o.lastResp
      /\ b.pending = o.pending /\ b.sequence = o.sequence
      /\ b.keySequence = o.keySequence /\ b.users = us /\ b.log = o.log
  BY Zenon DEF OutShape, OutFields
<1>2. /\ DOMAIN w = UserFields /\ w.status = 0
      /\ w.change = o.users[q.from].change /\ w.key = o.users[q.from].key
  BY <1>0 DEF OutShape, UserFields
<1>3. DOMAIN us = Masters /\ us[q.from] = w /\ \A m \in Masters \ {q.from} : us[m] = o.users[m]
  <2> HIDE DEF w
  <2> QED BY <1>0, Zenon DEF OutShape
<1> HIDE DEF w, us
<1>4. CASE o.users[q.from].status # q.auth.num
  <2> HIDE DEF b
  <2>1. OutShape(b) /\ PendingTyped(b)
    BY <1>1, <1>2, <1>3 DEF OutShape, PendingTyped
  <2>2. p = authenticationError(b, q)
    BY <1>4, Zenon DEF onKeyChange, b
  <2>3. OutShape(p) /\ PendingTyped(p) /\ Quiet(b, p, p.reply)
    BY <1>0, <2>1, <2>2, Refused, ZenonT(60)
  <2>4. \A m \in Masters : UserKept(o.users[m], b.users[m])
    BY <1>1, <1>2, <1>3 DEF UserKept
  <2>5. Lapsed(o, b)
    BY <1>1, <2>4, Zenon DEF Lapsed
  <2>6. Quiet(o, p, p.reply)
    BY <1>1, <2>3, <2>5, QuietFrom
  <2> QED BY <2>3, <2>6
<1>5. CASE o.users[q.from].status = q.auth.num
  <2> DEFINE k == [key |-> q.auth.key, messages |-> 0, change |-> Raw(q), status |-> 0]
             ks == [us EXCEPT ![q.from] = k]
             c == [b EXCEPT !.pending = NoPending, !.users[q.from] = k]
  <2>1. p = sendKeyStatus(c, q)
    BY <1>5 DEF onKeyChange
  <2> HIDE DEF b
  <2>2. /\ DOMAIN c = OutFields /\ c.sel = o.sel /\ c.lastReq = o.lastReq
        /\ c.lastResp = o.lastResp /\ c.pending = NoPending /\ c.sequence = o.sequence
        /\ c.keySequence = o.keySequence /\ c.users = ks /\ c.log = o.log
    BY <1>1 DEF OutFields
  <2>3. DOMAIN k = UserFields /\ k.key = q.auth.key /\ k.change = Raw(q)
    BY Zenon DEF UserFields
  <2> HIDE DEF k
  <2>4. /\ DOMAIN ks = Masters /\ ks[q.from] = k
        /\ \A m \in Masters \ {q.from} : ks[m] = o.users[m]
    BY <1>0, <1>3, Zenon
  <2> HIDE DEF ks, c
  <2>5. OutShape(c)
    BY <2>2, <2>3, <2>4 DEF OutShape
  <2>6. /\ OutShape(p) /\ p.keySequence = c.keySequence + 1
        /\ p.sel = c.sel /\ p.lastReq = c.lastReq /\ p.lastResp = c.lastResp
        /\ p.pending = c.pending /\ p.sequence = c.sequence /\ p.log = c.log
        /\ p.users[q.from].status = p.keySequence
        /\ p.users[q.from].change = c.users[q.from].change
        /\ p.users[q.from].key = c.users[q.from].key
        /\ \A m \in Masters \ {q.from} : p.users[m] = c.users[m]
        /\ \A r \in p.reply : StatusOf(r, q.from) /\ r.auth.num = p.keySequence
                              /\ r.auth.mac = p.users[q.from].change
    BY <1>0, <2>1, <2>5, StatusSent
  <2>7. \A m \in Masters \ {q.from} : UserKept(o.users[m], p.users[m])
    BY <2>2, <2>4, <2>6 DEF UserKept
  <2>8. Told(o, p, p.reply, q)
    BY <1>0, <1>5, <2>2, <2>3, <2>4, <2>6, <2>7, Zenon DEF Told
  <2> QED BY <2>2, <2>6, <2>8, Zenon DEF PendingTyped
<1> QED BY <1>4, <1>5, Zenon

(* A reply that answers the challenge to the pending command has it        *)
(* carried out; any reply uses the challenge up (security.go, onReply).    *)
LEMMA ReplyStep ==
    ASSUME secure, NEW o, OutShape(o), PendingTyped(o), o.reply = {}, NEW q \in net,
           q.to = "outstation", Reply(q), NEW refused, NEW p, p = onReply(o, q, refused)
    PROVE  /\ OutShape(p) /\ PendingTyped(p)
           /\ \/ Quiet(o, p, p.reply)
              \/ Ran(o, p, p.reply, o.pending.req, o.pending.num)
<1> DEFINE b == [o EXCEPT !.pending = NoPending]
           x == o.pending
           u == o.users[q.from]
<1>0. q.from \in Masters
  BY Zenon DEF Reply, Asks
<1>1. /\ DOMAIN b = OutFields /\ b.reply = {} /\ b.pending = NoPending
      /\ b.sel = o.sel /\ b.lastReq = o.lastReq /\ b.lastResp = o.lastResp
      /\ b.sequence = o.sequence /\ b.keySequence = o.keySequence
      /\ b.users = o.users /\ b.log = o.log
  BY Zenon DEF OutShape, OutFields
<1>2. OutShape(b) /\ PendingTyped(b)
  <2> HIDE DEF b
  <2> QED BY <1>1, Zenon DEF OutShape, PendingTyped
<1>3. CASE x = NoPending
  BY <1>0, <1>3, Refused DEF onReply
<1>4. CASE /\ x # NoPending
           /\ \/ q.auth.num # x.num \/ q.from # x.req.from \/ ~securityKeyValid(u)
              \/ q.auth.mac # MAC(u.key, x.num, Raw(x.req)) \/ refused
  <2>1. p = authenticationError(b, q)
    BY <1>4, Zenon DEF onReply
  <2> HIDE DEF b
  <2>2. OutShape(p) /\ PendingTyped(p) /\ Quiet(b, p, p.reply)
    BY <1>0, <1>2, <2>1, Refused, Zenon
  <2>3. Lapsed(o, b)
    BY <1>1, Zenon DEF Lapsed, UserKept
  <2>4. Quiet(o, p, p.reply)
    BY <1>1, <2>2, <2>3, QuietFrom, Zenon
  <2> QED BY <2>2, <2>4, Zenon
<1>5. CASE /\ x # NoPending
           /\ ~(\/ q.auth.num # x.num \/ q.from # x.req.from \/ ~securityKeyValid(u)
                \/ q.auth.mac # MAC(u.key, x.num, Raw(x.req)) \/ refused)
  <2> DEFINE w == [u EXCEPT !.messages = @ + 1]
             us == [o.users EXCEPT ![q.from] = w]
             c == [b EXCEPT !.users[q.from].messages = @ + 1]
  <2>1. p = Execute(c, x.req, x.num)
    BY <1>5, Zenon DEF onReply
  <2> HIDE DEF b
  <2>2. /\ DOMAIN c = OutFields /\ c.reply = {} /\ c.pending = NoPending
        /\ c.sel = o.sel /\ c.lastReq = o.lastReq /\ c.lastResp = o.lastResp
        /\ c.sequence = o.sequence /\ c.keySequence = o.keySequence
        /\ c.users = us /\ c.log = o.log
    BY <1>1 DEF OutFields
  <2>3. DOMAIN w = UserFields /\ UserKept(u, w)
    BY <1>0 DEF OutShape, UserFields, UserKept
  <2> HIDE DEF w
  <2>4. /\ DOMAIN us = Masters /\ us[q.from] = w
        /\ \A m \in Masters \ {q.from} : us[m] = o.users[m]
    BY <1>0, Zenon DEF OutShape
  <2> HIDE DEF us, c
  <2>5. OutShape(c)
    <3>1. \A m \in Masters : DOMAIN c.users[m] = UserFields
      BY <1>0, <2>2, <2>3, <2>4, Zenon DEF OutShape
    <3> QED BY <1>0, <2>2, <2>4, <3>1, Zenon DEF OutShape
  <2>6. Command(x.req) /\ x.num \in Nat
    BY <1>5 DEF PendingTyped, OutShape
  <2>7. OutShape(p) /\ Carried(c, p, x.req, x.num) /\ Replied(c, p, x.req)
    BY <2>1, <2>5, <2>6, ExecuteCarried, ZenonT(60)
  <2>k. \A m \in Masters : UserKept(o.users[m], c.users[m])
    BY <2>2, <2>3, <2>4 DEF UserKept
  <2>8. Carried(o, p, x.req, x.num)
    <3>1. Lapsed(o, c)
      BY <2>2, <2>k, Zenon DEF Lapsed
    <3> QED BY <2>7, <3>1, CarriedFrom, Zenon
  <2>9. \A m \in Masters : UserKept(o.users[m], p.users[m])
    BY <2>7, <2>k, Zenon DEF Replied
  <2>10. p.pending = NoPending /\ (p.reply = {} \/ p.reply = {Response(x.req, p.lastResp)})
    BY <2>2, <2>7, Zenon DEF Replied
  <2>11. o.users[x.req.from].key # None /\ AnswersFor(q, o.users[x.req.from].key, x.req, x.num)
    BY <1>5, Zenon DEF AnswersFor, securityKeyValid
  <2>12. Ran(o, p, p.reply, x.req, x.num)
    BY <1>5, <2>6, <2>8, <2>9, <2>10, <2>11, Zenon DEF Ran
  <2> QED BY <2>7, <2>10, <2>12, Zenon DEF PendingTyped
<1> QED BY <1>3, <1>4, <1>5, Zenon

(* What a session that authenticates does with a fragment, once what is    *)
(* used up has been dropped.                                               *)
LEMMA SecureStep ==
    ASSUME secure, NEW o, NEW b, OutShape(b), PendingTyped(b), b.reply = {}, Lapsed(o, b),
           b.pending = o.pending, NEW q \in net, q.to = "outstation", Fragment(q),
           NEW refused, NEW p, p = IF q.fn = "AUTH_REQUEST" THEN onAuthentication(b, q, refused)
                                                            ELSE challengeRequest(b, q)
    PROVE  /\ OutShape(p) /\ PendingTyped(p)
           /\ \/ Quiet(o, p, p.reply) \/ Told(o, p, p.reply, q)
              \/ Ran(o, p, p.reply, o.pending.req, o.pending.num)
<1>0. q.from \in Masters /\ (Command(q) => q.fn # "AUTH_REQUEST")
  BY Zenon DEF Fragment, Command, Fns, KeyChange, Reply, Asks
<1>4. Quiet(b, p, p.reply) => Quiet(o, p, p.reply)
  BY QuietFrom, Zenon
<1>5. CASE Command(q)
  BY <1>0, <1>4, <1>5, ChallengeStep, Zenon
<1>6. CASE Asks(q) /\ q.auth.v = 4
  <2>1. p = sendKeyStatus(b, q)
    BY <1>6 DEF onAuthentication, Asks
  <2>2. OutShape(p) /\ Told(b, p, p.reply, q) /\ p.pending = b.pending /\ p.sequence = b.sequence
    BY <1>0, <2>1, StatusTold, Zenon
  <2>3. PendingTyped(p)
    BY <2>2, Zenon DEF PendingTyped
  <2> QED BY <2>2, <2>3, ToldFrom, Zenon
<1>7. CASE KeyChange(q)
  <2>1. p = onKeyChange(b, q)
    BY <1>7 DEF onAuthentication, KeyChange, Asks
  <2>2. OutShape(p) /\ PendingTyped(p) /\ (Quiet(b, p, p.reply) \/ Told(b, p, p.reply, q))
    BY <1>7, <2>1, KeyChangeStep, Zenon
  <2> QED BY <1>4, <2>2, ToldFrom, Zenon
<1>8. CASE Reply(q)
  <2>1. p = onReply(b, q, refused)
    BY <1>8 DEF onAuthentication, Reply, Asks
  <2>2. /\ OutShape(p) /\ PendingTyped(p)
        /\ \/ Quiet(b, p, p.reply)
           \/ Ran(b, p, p.reply, o.pending.req, o.pending.num)
    BY <1>8, <2>1, ReplyStep, Zenon
  <2> QED BY <1>4, <2>2, RanFrom, Zenon
<1> QED BY <1>5, <1>6, <1>7, <1>8, Zenon DEF Fragment

(* Whatever arrives, the session takes one of three steps (session.go,     *)
(* handle).                                                                *)
LEMMA HandleStep ==
    ASSUME secure \in BOOLEAN, NEW o, OutShape(o), PendingTyped(o), o.reply = {}, NEW q \in net,
           q.to = "outstation", Fragment(q), NEW refused, NEW p, p = handle(o, q, refused)
    PROVE  /\ OutShape(p) /\ PendingTyped(p)
           /\ \/ Quiet(o, p, p.reply) \/ Told(o, p, p.reply, q) \/ Ran(o, p, p.reply, q, 0)
              \/ Ran(o, p, p.reply, o.pending.req, o.pending.num)
<1>0. q.from \in Masters /\ (Command(q) => q.fn # "AUTH_REQUEST")
  BY Zenon DEF Fragment, Command, Fns, KeyChange, Reply, Asks
<1>1. CASE ~secure /\ q.fn = "AUTH_REQUEST"
  <2>1. p = Respond(o, q, <<>>)
    BY <1>1, Zenon DEF handle, onAuthentication
  <2>2. /\ DOMAIN p = OutFields /\ p.pending = o.pending /\ p.sequence = o.sequence
        /\ p.keySequence = o.keySequence /\ p.users = o.users /\ p.lastReq = o.lastReq
        /\ p.log = o.log /\ p.sel = o.sel /\ p.lastResp = None
        /\ p.reply = {Response(q, <<>>)}
    BY <2>1 DEF Respond, OutShape, OutFields, None
  <2>3. Response(q, <<>>).to = q.from /\ ~AllOK(Response(q, <<>>).statuses)
        /\ Response(q, <<>>).fn = "RESPONSE"
    BY DEF Response, AllOK
  <2>4. \A m \in Masters : UserKept(o.users[m], p.users[m])
    BY <2>2, Zenon DEF UserKept
  <2>5. \A r \in p.reply : r.to \in Masters /\ ~AllOK(r.statuses) /\ r.fn # "AUTH_RESPONSE"
    BY <1>0, <2>2, <2>3, Zenon
  <2> QED BY <2>2, <2>4, <2>5, Zenon DEF Quiet, Offers, OutShape, PendingTyped
<1>2. CASE ~secure /\ q.fn # "AUTH_REQUEST"
  <2>1. p = Execute(o, q, 0) /\ Command(q)
    BY <1>2, Zenon DEF handle, Fragment, KeyChange, Reply, Asks
  <2>2. OutShape(p) /\ Carried(o, p, q, 0) /\ Replied(o, p, q)
    BY <2>1, ExecuteCarried, Zenon
  <2>3. \A m \in Masters : UserKept(o.users[m], p.users[m])
    BY <2>2, Zenon DEF UserKept, Replied
  <2>4. PendingTyped(p)
    BY <2>2, Zenon DEF PendingTyped, Replied, Carried
  <2> QED BY <1>2, <2>1, <2>2, <2>3, <2>4, Zenon DEF Ran, Replied
<1>3. CASE secure
  <2> DEFINE b == expireSecurity(o)
  <2>1. p = IF q.fn = "AUTH_REQUEST" THEN onAuthentication(b, q, refused) ELSE challengeRequest(b, q)
    BY <1>3, ZenonT(60) DEF handle
  <2>2. OutShape(b) /\ b.pending = o.pending /\ b.reply = {} /\ Lapsed(o, b)
    BY Expires DEF Lapsed
  <2> HIDE DEF b
  <2>3. PendingTyped(b)
    BY <2>2, Zenon DEF PendingTyped, Lapsed
  <2> QED BY <1>3, <2>1, <2>2, <2>3, SecureStep, Zenon
<1> QED BY <1>1, <1>2, <1>3, Zenon

----------------------------------------------------------------------------
(* What a step makes of the session u of master m, with s the fragments it *)
(* sends.  Rests: nothing, or its key expires.  Ends: the call returns.    *)
(* Asked: the request goes out, or first the question for the keys; the    *)
(* keys in use may be new.  Changed: a key change goes out.  Proven: a     *)
(* challenge is answered.                                                  *)
SameKeys(u, v) == v.key = u.key /\ v.messages = u.messages
SameChange(u, v) == v.keys = u.keys /\ v.change = u.change
SameNumber(u, v) == v.seq = u.seq /\ v.id = u.id /\ v.objects = u.objects
SamePast(u, v) == v.answered = u.answered /\ v.outcomes = u.outcomes

Rests(u, v, s) ==
    /\ s = {} /\ v.step = u.step /\ v.next = u.next /\ v.key \in {None, u.key}
    /\ v.messages = u.messages /\ SameChange(u, v) /\ SameNumber(u, v) /\ SamePast(u, v)

GoodAnswer(u, m) ==
    \E r \in net : r.to = m /\ r.fn # "AUTH_RESPONSE" /\ r.seq = u.seq /\ AllOK(r.statuses)

Ends(u, v, m, s) ==
    /\ s = {} /\ u.step # Idle /\ v.step = Idle
    /\ v.key \in {None, u.key} /\ (v.key # None => v.messages = u.messages)
    /\ SameChange(u, v) /\ SameNumber(u, v) /\ v.answered = u.answered
    /\ \E e \in Results :
         /\ v.outcomes = Append(u.outcomes, e)
         /\ e.id = <<m, u.id>> /\ e.objects = u.objects
         /\ e.ok => u.step \in Fns \ {"SELECT"} /\ GoodAnswer(u, m)

Asked(u, v, m, s) ==
    /\ SameChange(u, v) /\ SamePast(u, v) /\ v.objects \in Commands
    /\ \/ u.step \in {Idle, "SELECT"} /\ SameKeys(u, v)
       \/ /\ u.step = "change" /\ v.key = KeyOf(u.change)
          /\ \E r \in net : StatusOf(r, m) /\ r.auth.mac = u.change
    /\ \/ /\ secure /\ ~securityReady(v) /\ v.step = "status"
          /\ v.seq = u.seq /\ v.id = u.id /\ s = {AuthRequest(m, u.seq, [v |-> 4])}
       \/ /\ secure => securityReady(v)
          /\ v.seq = nextSeq(u.seq) /\ v.id = u.id + 1
          /\ \E fn \in Fns : /\ s = {Request(m, fn, v.seq, v.objects, <<m, v.id>>)}
                             /\ v.step \in {fn, Idle}

Changed(u, v, m, s) ==
    /\ u.step = "status" /\ v.step = "change"
    /\ SameKeys(u, v) /\ SameNumber(u, v) /\ SamePast(u, v) /\ v.keys = u.keys + 1
    /\ \E r \in net : \E q :
         /\ StatusOf(r, m)
         /\ q = AuthRequest(m, u.seq, [v |-> 6, num |-> r.auth.num, key |-> <<m, u.keys + 1>>])
         /\ s = {q} /\ v.change = Raw(q)

Proven(u, v, m, s) ==
    /\ u.step \in Fns /\ v.step \in {u.step, Idle} /\ securityReady(u)
    /\ v.key = u.key /\ SameChange(u, v) /\ SameNumber(u, v) /\ v.outcomes = u.outcomes
    /\ \E r \in net : \E num :
         /\ r.to = m /\ Offers(r) /\ num = r.auth.num
         /\ s = {AuthRequest(m, u.seq,
                     [v |-> 2, num |-> num,
                      mac |-> MAC(u.key, num, Raw(Request(m, u.step, u.seq, u.objects, None)))])}
         /\ v.answered = u.answered \cup {<<num, <<m, u.id>>>>}

Moves(u, v, m, s) ==
    Rests(u, v, s) \/ Ends(u, v, m, s) \/ Asked(u, v, m, s) \/ Changed(u, v, m, s)
        \/ Proven(u, v, m, s)

(* The call returns (command.go, finish).                                  *)
LEMMA FinishStep ==
    ASSUME NEW u, MasterShape(u), u.step # Idle, NEW m \in Masters, NEW ok \in BOOLEAN,
           ok => u.step \in Fns \ {"SELECT"} /\ GoodAnswer(u, m),
           u.sent = {}, NEW v, v = finish(u, m, ok)
    PROVE  MasterShape(v) /\ v.sent = {} /\ Ends(u, v, m, {})
<1> DEFINE e == [id |-> <<m, u.id>>, fn |-> u.step, objects |-> u.objects, ok |-> ok]
<1>1. /\ DOMAIN v = MasterFields /\ v.step = Idle /\ SameKeys(u, v) /\ SameChange(u, v)
      /\ SameNumber(u, v) /\ v.answered = u.answered /\ v.sent = {}
      /\ v.outcomes = Append(u.outcomes, e)
  BY DEF finish, MasterShape, MasterFields, SameKeys, SameChange, SameNumber
<1>2. e \in Results
  BY Zenon DEF Results, MasterShape
<1>3. e.id = <<m, u.id>> /\ e.objects = u.objects /\ e.ok = ok
  OBVIOUS
<1> HIDE DEF e
<1>4. v.outcomes \in Seq(Results)
  BY <1>1, <1>2 DEF MasterShape
<1>5. MasterShape(v)
  BY <1>1, <1>4, Zenon DEF MasterShape, SameChange, SameNumber, Idle, Steps
<1>6. Ends(u, v, m, {})
  BY <1>1, <1>2, <1>3, Zenon DEF Ends, SameKeys
<1> QED BY <1>1, <1>5, <1>6, Zenon

LEMMA FailStep ==
    ASSUME NEW u, MasterShape(u), u.step # Idle, NEW m \in Masters, u.sent = {},
           NEW v, v = finish(u, m, FALSE)
    PROVE  MasterShape(v) /\ Moves(u, v, m, v.sent)
<1>1. MasterShape(v) /\ v.sent = {} /\ Ends(u, v, m, {})
  BY FinishStep, ZenonT(30)
<1> QED BY <1>1, Zenon DEF Moves

(* The request goes out, or the question for the keys (task.go, sendTask). *)
LEMMA TaskSent ==
    ASSUME secure \in BOOLEAN, NEW u, MasterShape(u), u.objects \in Commands,
           NEW m \in Masters, NEW fn \in Fns, NEW v, v = sendTask(u, m, fn)
    PROVE  /\ MasterShape(v)
           /\ SameKeys(u, v) /\ SameChange(u, v) /\ SamePast(u, v) /\ v.objects = u.objects
           /\ \/ /\ secure /\ ~securityReady(v) /\ v.step = "status"
                 /\ v.seq = u.seq /\ v.id = u.id /\ v.sent = {AuthRequest(m, u.seq, [v |-> 4])}
              \/ /\ secure => securityReady(v)
                 /\ v.seq = nextSeq(u.seq) /\ v.id = u.id + 1
                 /\ v.sent = {Request(m, fn, v.seq, v.objects, <<m, v.id>>)}
                 /\ v.step \in {fn, Idle}
<1>0. nextSeq(u.seq) \in Nat /\ u.id + 1 \in Nat
  BY ControlsAssumption DEF nextSeq, MasterShape
<1>1. CASE secure /\ ~securityReady(u)
  <2>1. /\ DOMAIN v = MasterFields /\ v.step = "status" /\ v.next = fn /\ SameKeys(u, v)
        /\ SameChange(u, v) /\ SamePast(u, v) /\ v.seq = u.seq /\ v.id = u.id
        /\ v.objects = u.objects /\ v.sent = {AuthRequest(m, u.seq, [v |-> 4])}
    BY <1>1 DEF sendTask, MasterShape, MasterFields, SameKeys, SameChange, SamePast
  <2>2. ~securityReady(v)
    BY <1>1, <2>1, Zenon DEF securityReady, SameKeys
  <2>3. MasterShape(v)
    BY <2>1, Zenon DEF MasterShape, SameChange, SamePast, Steps, Idle
  <2> QED BY <1>1, <2>1, <2>2, <2>3, Zenon
<1>2. CASE ~(secure /\ ~securityReady(u))
  <2> DEFINE seq == nextSeq(u.seq)
             q == Request(m, fn, seq, u.objects, <<m, u.id + 1>>)
  <2>1. /\ DOMAIN v = MasterFields /\ v.step \in {fn, Idle} /\ v.next = u.next /\ SameKeys(u, v)
        /\ SameChange(u, v) /\ SamePast(u, v) /\ v.seq = seq /\ v.id = u.id + 1
        /\ v.objects = u.objects /\ v.sent = {q}
    BY <1>2 DEF sendTask, MasterShape, MasterFields, SameKeys, SameChange, SamePast
  <2>2. secure => securityReady(v)
    BY <1>2, <2>1, Zenon DEF securityReady, SameKeys
  <2> HIDE DEF seq, q
  <2>3. MasterShape(v)
    BY <1>0, <2>1, Zenon DEF MasterShape, SameChange, SamePast, Steps, Fns, Idle, seq
  <2> QED BY <2>1, <2>2, <2>3, Zenon DEF q, seq
<1> QED BY <1>1, <1>2, Zenon

LEMMA TaskAsked ==
    ASSUME secure \in BOOLEAN, NEW u, MasterShape(u), u.objects \in Commands,
           u.step \in {Idle, "SELECT"}, NEW m \in Masters, NEW fn \in Fns, NEW v,
           v = sendTask(u, m, fn)
    PROVE  MasterShape(v) /\ Asked(u, v, m, v.sent)
<1>1. /\ MasterShape(v)
      /\ SameKeys(u, v) /\ SameChange(u, v) /\ SamePast(u, v) /\ v.objects = u.objects
      /\ \/ /\ secure /\ ~securityReady(v) /\ v.step = "status"
            /\ v.seq = u.seq /\ v.id = u.id /\ v.sent = {AuthRequest(m, u.seq, [v |-> 4])}
         \/ /\ secure => securityReady(v)
            /\ v.seq = nextSeq(u.seq) /\ v.id = u.id + 1
            /\ v.sent = {Request(m, fn, v.seq, v.objects, <<m, v.id>>)}
            /\ v.step \in {fn, Idle}
  BY TaskSent
<1>2. v.objects \in Commands
  BY <1>1, Zenon
<1> QED BY <1>1, <1>2, ZenonT(60) DEF Asked

(* A key status takes the key exchange a step further (security.go,        *)
(* onKeyStatus).                                                           *)
LEMMA KeyStatusStep ==
    ASSUME secure \in BOOLEAN, NEW u, MasterShape(u), u.sent = {},
           u.step \in {"status", "change"}, NEW m \in Masters, NEW r \in net, r.to = m,
           NEW v, v = onKeyStatus(u, m, r)
    PROVE  MasterShape(v) /\ Moves(u, v, m, v.sent)
<1>0. u.step # Idle /\ u.next \in Fns /\ u.objects \in Commands
  BY Zenon DEF MasterShape, Idle
<1>1. CASE v = finish(u, m, FALSE)
  BY <1>0, <1>1, FailStep, Zenon
<1>2. CASE ~(r.fn # "AUTH_RESPONSE" \/ r.auth.v # 5) /\ u.step = "status"
  <2> DEFINE auth == [v |-> 6, num |-> r.auth.num, key |-> <<m, u.keys + 1>>]
             q == AuthRequest(m, u.seq, auth)
  <2>1. v = [u EXCEPT !.step = "change", !.keys = @ + 1, !.change = Raw(q), !.sent = {q}]
    BY <1>2 DEF onKeyStatus
  <2> HIDE DEF q
  <2>2. /\ DOMAIN v = MasterFields /\ v.step = "change" /\ v.next = u.next /\ SameKeys(u, v)
        /\ SameNumber(u, v) /\ SamePast(u, v) /\ v.keys = u.keys + 1
        /\ v.change = Raw(q) /\ v.sent = {q}
    BY <2>1 DEF MasterShape, MasterFields, SameKeys, SameNumber, SamePast
  <2>3. MasterShape(v)
    BY <1>0, <2>2 DEF MasterShape, SameNumber, SamePast, Steps
  <2>4. StatusOf(r, m)
    BY <1>2, Zenon DEF StatusOf
  <2>5. Changed(u, v, m, v.sent)
    BY <1>2, <2>2, <2>4, ZenonT(30) DEF Changed, q
  <2> QED BY <2>3, <2>5, Zenon DEF Moves
<1>3. CASE /\ ~(r.fn # "AUTH_RESPONSE" \/ r.auth.v # 5) /\ u.step # "status"
           /\ ~(~r.auth.valid \/ r.auth.mac # u.change)
  <2> DEFINE b == [u EXCEPT !.key = u.change[5].key, !.messages = 0]
  <2>1. v = sendTask(b, m, u.next)
    BY <1>3, Zenon DEF onKeyStatus
  <2>2. /\ DOMAIN b = MasterFields /\ b.step = u.step /\ b.next = u.next
        /\ b.key = KeyOf(u.change) /\ SameChange(u, b) /\ SameNumber(u, b) /\ SamePast(u, b)
    BY DEF MasterShape, MasterFields, SameChange, SameNumber, SamePast, KeyOf
  <2> HIDE DEF b
  <2>3. MasterShape(b) /\ b.objects \in Commands
    BY <1>0, <2>2, ZenonT(60) DEF MasterShape, SameChange, SameNumber, SamePast
  <2>4. /\ MasterShape(v)
        /\ SameKeys(b, v) /\ SameChange(b, v) /\ SamePast(b, v) /\ v.objects = b.objects
        /\ \/ /\ secure /\ ~securityReady(v) /\ v.step = "status"
              /\ v.seq = b.seq /\ v.id = b.id /\ v.sent = {AuthRequest(m, b.seq, [v |-> 4])}
           \/ /\ secure => securityReady(v)
              /\ v.seq = nextSeq(b.seq) /\ v.id = b.id + 1
              /\ v.sent = {Request(m, u.next, v.seq, v.objects, <<m, v.id>>)}
              /\ v.step \in {u.next, Idle}
    BY <1>0, <2>1, <2>3, TaskSent
  <2>5. StatusOf(r, m) /\ r.auth.mac = u.change /\ u.step = "change"
    BY <1>3, Zenon DEF StatusOf
  <2>6. SameChange(u, v) /\ SamePast(u, v) /\ v.objects \in Commands /\ v.key = KeyOf(u.change)
    BY <2>2, <2>3, <2>4, Zenon DEF SameChange, SamePast, SameKeys
  <2>7. Asked(u, v, m, v.sent)
    BY <1>0, <2>2, <2>4, <2>5, <2>6, Zenon DEF Asked, SameNumber
  <2> QED BY <2>4, <2>7, Zenon DEF Moves
<1> QED BY <1>1, <1>2, <1>3, Zenon DEF onKeyStatus

(* Whatever a master receives moves its session so (session.go,            *)
(* onFragment).                                                            *)
LEMMA FragmentStep ==
    ASSUME secure \in BOOLEAN, NEW u, MasterShape(u), u.sent = {}, NEW m \in Masters,
           NEW r \in net, r.to = m, NEW v, v = onFragment(u, m, r)
    PROVE  MasterShape(v) /\ Moves(u, v, m, v.sent)
<1>1. CASE ~Answers(u, r)
  <2>1. v = u
    BY <1>1, Zenon DEF onFragment
  <2>2. Rests(u, v, v.sent)
    BY <2>1, Zenon DEF Rests, SameChange, SameNumber, SamePast
  <2> QED BY <2>1, <2>2, Zenon DEF Moves
<1>2. CASE Answers(u, r) /\ u.step \in {"status", "change"}
  <2>1. v = onKeyStatus(u, m, r)
    BY <1>2, Zenon DEF onFragment, onAuthenticationResponse, onSolicited
  <2> QED BY <1>2, <2>1, KeyStatusStep, Zenon
<1>3. CASE Answers(u, r) /\ u.step \notin {"status", "change"}
  <2>0. u.step \in Fns /\ u.objects \in Commands /\ r.seq = u.seq /\ u.step # Idle
    BY <1>3, Zenon DEF MasterShape, Steps, Answers
  <2>1. CASE v = finish(u, m, FALSE)
    BY <2>0, <2>1, FailStep, Zenon
  <2>2. CASE r.fn = "AUTH_RESPONSE" /\ ~(r.auth.v # 1 \/ ~securityReady(u))
    <3> DEFINE mac == MAC(u.key, r.auth.num, Raw(Request(m, u.step, u.seq, u.objects, None)))
               q == AuthRequest(m, u.seq, [v |-> 2, num |-> r.auth.num, mac |-> mac])
               b == [u EXCEPT !.sent = {q}, !.messages = @ + 1,
                              !.answered = @ \cup {<<r.auth.num, <<m, u.id>>>>}]
    <3>1. v = IF u.step = "DIRECT_OPERATE_NR" THEN [b EXCEPT !.step = Idle] ELSE b
      BY <1>3, <2>2, Zenon DEF onFragment, onAuthenticationResponse
    <3> HIDE DEF q
    <3>2. /\ DOMAIN v = MasterFields /\ v.step \in {u.step, Idle} /\ v.next = u.next
          /\ v.key = u.key /\ SameChange(u, v) /\ SameNumber(u, v) /\ v.outcomes = u.outcomes
          /\ v.answered = u.answered \cup {<<r.auth.num, <<m, u.id>>>>} /\ v.sent = {q}
      BY <3>1 DEF MasterShape, MasterFields, SameChange, SameNumber
    <3>3. MasterShape(v)
      BY <2>0, <3>2, Zenon DEF MasterShape, SameChange, SameNumber, Steps, Fns, Idle
    <3>4. Proven(u, v, m, v.sent)
      BY <2>0, <2>2, <3>2, ZenonT(30) DEF Proven, Offers, q
    <3> QED BY <3>3, <3>4, Zenon DEF Moves
  <2>3. CASE r.fn # "AUTH_RESPONSE" /\ u.step = "SELECT" /\ OK(r.statuses)
    <3>1. v = sendTask(u, m, "OPERATE") /\ "OPERATE" \in Fns
      BY <1>3, <2>3, Zenon DEF onFragment, onSolicited, Fns
    <3>2. MasterShape(v) /\ Asked(u, v, m, v.sent)
      BY <2>0, <2>3, <3>1, TaskAsked, ZenonT(60)
    <3> QED BY <3>2, Zenon DEF Moves
  <2>4. CASE r.fn # "AUTH_RESPONSE" /\ ~(u.step = "SELECT" /\ OK(r.statuses))
    <3>1. v = finish(u, m, OK(r.statuses)) /\ OK(r.statuses) \in BOOLEAN
      BY <1>3, <2>4, Zenon DEF onFragment, onSolicited, OK, AllOK
    <3>2. OK(r.statuses) => u.step \in Fns \ {"SELECT"} /\ GoodAnswer(u, m)
      BY <2>0, <2>4, Zenon DEF OK, GoodAnswer
    <3> QED BY <2>0, <3>1, <3>2, FinishStep, ZenonT(60) DEF Moves
  <2> QED BY <1>3, <2>1, <2>2, <2>3, <2>4, Zenon DEF onFragment, onAuthenticationResponse
<1> QED BY <1>1, <1>2, <1>3, Zenon

----------------------------------------------------------------------------
(* Every step is one of the outstation's, one of a master's, or the        *)
(* connection's end.                                                       *)
OutStep ==
    /\ master' = master /\ OutShape(out') /\ PendingTyped(out') /\ out'.reply = {}
    /\ \E a : /\ net' \subseteq net \cup a
              /\ \/ Quiet(out, out', a)
                 \/ \E q : Told(out, out', a, q) \/ \E c : Ran(out, out', a, q, c)

MasterStep(m) ==
    /\ out' = out /\ DOMAIN master' = Masters
    /\ MasterShape(master'[m]) /\ master'[m].sent = {}
    /\ \A n \in Masters \ {m} : master'[n] = master[n]
    /\ \E s : net' \subseteq net \cup s /\ Moves(master[m], master'[m], m, s)

(* What has been sent is no longer part of the session.                    *)
LEMMA Cleared ==
    ASSUME NEW m \in Masters, NEW u, NEW b, MasterShape(b), NEW s, Moves(u, b, m, s),
           NEW v, v = [b EXCEPT !.sent = {}]
    PROVE  MasterShape(v) /\ v.sent = {} /\ Moves(u, v, m, s)
<1>1. /\ DOMAIN v = MasterFields /\ v.step = b.step /\ v.next = b.next /\ v.objects = b.objects
      /\ v.seq = b.seq /\ v.id = b.id /\ v.key = b.key /\ v.messages = b.messages
      /\ v.keys = b.keys /\ v.change = b.change /\ v.sent = {}
      /\ v.answered = b.answered /\ v.outcomes = b.outcomes
  BY DEF MasterShape, MasterFields
<1>2. MasterShape(v)
  BY <1>1 DEF MasterShape
<1>3. CASE Rests(u, b, s)
  BY <1>1, <1>2, <1>3 DEF Moves, Rests, SameChange, SameNumber, SamePast
<1>4. CASE Ends(u, b, m, s)
  BY <1>1, <1>2, <1>4 DEF Moves, Ends, SameChange, SameNumber
<1>5. CASE Asked(u, b, m, s)
  <2>1. securityReady(v) = securityReady(b)
    BY <1>1 DEF securityReady
  <2>2. Asked(u, v, m, s)
    BY <1>1, <1>5, <2>1 DEF Asked, SameChange, SamePast, SameKeys
  <2> QED BY <1>1, <1>2, <2>2, Zenon DEF Moves
<1>6. CASE Changed(u, b, m, s)
  BY <1>1, <1>2, <1>6, ZenonT(60) DEF Moves, Changed, SameKeys, SameNumber, SamePast
<1>7. CASE Proven(u, b, m, s)
  BY <1>1, <1>2, <1>7 DEF Moves, Proven, SameChange, SameNumber
<1> QED BY <1>3, <1>4, <1>5, <1>6, <1>7 DEF Moves

LEMMA Put ==
    ASSUME TypeOK, out' = out, NEW m \in Masters, NEW b, MasterShape(b), NEW s,
           Moves(master[m], b, m, s), net' \subseteq net \cup s, Puts(m, b)
    PROVE  MasterStep(m)
<1> DEFINE v == [b EXCEPT !.sent = {}]
<1>1. MasterShape(v) /\ v.sent = {} /\ Moves(master[m], v, m, s)
  BY Cleared
<1>2. DOMAIN master' = Masters /\ master'[m] = v
      /\ \A n \in Masters \ {m} : master'[n] = master[n]
  BY DEF Puts, TypeOK
<1> HIDE DEF v
<1> QED BY <1>1, <1>2, Zenon DEF MasterStep

LEMMA CarriedSame ==
    ASSUME NEW o, NEW b, NEW q, NEW c, Carried(o, b, q, c), NEW p,
           p.sel = b.sel, p.lastReq = b.lastReq, p.lastResp = b.lastResp,
           p.sequence = b.sequence, p.keySequence = b.keySequence, p.log = b.log
    PROVE  Carried(o, p, q, c)
<1>1. \A e : Enters(e, o, b, q, c) => Enters(e, o, p, q, c)
  BY Zenon DEF Enters
<1> QED BY <1>1, Zenon DEF Carried

LEMMA Given ==
    ASSUME TypeOK, master' = master, NEW b, OutShape(b), PendingTyped(b), NEW a,
           net' \subseteq net \cup a, out' = [b EXCEPT !.reply = {}],
           \/ Quiet(out, b, a)
           \/ \E q : Told(out, b, a, q) \/ \E c : Ran(out, b, a, q, c)
    PROVE  OutStep
<1> DEFINE p == out'
<1>1. /\ DOMAIN p = OutFields /\ p.reply = {} /\ p.pending = b.pending
      /\ p.sel = b.sel /\ p.lastReq = b.lastReq /\ p.lastResp = b.lastResp
      /\ p.sequence = b.sequence /\ p.keySequence = b.keySequence
      /\ p.users = b.users /\ p.log = b.log
  BY DEF OutShape, OutFields
<1> HIDE DEF p
<1>2. OutShape(p) /\ PendingTyped(p)
  BY <1>1 DEF OutShape, PendingTyped
<1>3. ASSUME Quiet(out, b, a) PROVE Quiet(out, p, a)
  BY <1>1, <1>3, Zenon DEF Quiet, Challenged
<1>4. ASSUME NEW q, Told(out, b, a, q) PROVE Told(out, p, a, q)
  BY <1>1, <1>4, Zenon DEF Told
<1>5. ASSUME NEW q, NEW c, Ran(out, b, a, q, c) PROVE Ran(out, p, a, q, c)
  <2>1. Carried(out, p, q, c)
    BY <1>1, <1>5, CarriedSame, Zenon DEF Ran
  <2> QED BY <1>1, <1>5, <2>1, Zenon DEF Ran
<1> QED BY <1>1, <1>2, <1>3, <1>4, <1>5, Zenon DEF OutStep, p

(* Time passes at the outstation.                                          *)
LEMMA ExpireStep ==
    ASSUME TypeOK, NEW what, Expire(what)
    PROVE  OutStep
<1>0. OutShape(out) /\ PendingTyped(out) /\ out.reply = {} /\ net' \subseteq net
      /\ master' = master
  BY DEF TypeOK, Expire
<1>1. CASE what = "selection" /\ out.sel.active /\ out' = [out EXCEPT !.sel.live = FALSE]
  <2> DEFINE z == [out.sel EXCEPT !.live = FALSE]
  <2>1. /\ DOMAIN out' = OutFields /\ out'.reply = {} /\ out'.pending = out.pending
        /\ out'.sel = z /\ out'.lastReq = out.lastReq /\ out'.lastResp = out.lastResp
        /\ out'.sequence = out.sequence /\ out'.keySequence = out.keySequence
        /\ out'.users = out.users /\ out'.log = out.log
    BY <1>0, <1>1 DEF OutShape, OutFields
  <2>2. /\ DOMAIN z = {"active", "objects", "seq", "live"} /\ z.active = out.sel.active
        /\ z.objects = out.sel.objects /\ z.live = FALSE
    BY <1>0 DEF OutShape
  <2> HIDE DEF z
  <2>3. OutShape(out') /\ PendingTyped(out')
    BY <1>0, <2>1, <2>2, Zenon DEF OutShape, PendingTyped
  <2>4. \A m \in Masters : UserKept(out.users[m], out'.users[m])
    BY <2>1, Zenon DEF UserKept
  <2>5. Quiet(out, out', {})
    BY <2>1, <2>2, <2>4, Zenon DEF Quiet
  <2> QED BY <1>0, <2>1, <2>3, <2>5, Zenon DEF OutStep
<1>2. CASE out' = [out EXCEPT !.pending = NoPending]
  <2>1. /\ DOMAIN out' = OutFields /\ out'.reply = {} /\ out'.pending = NoPending
        /\ out'.sel = out.sel /\ out'.lastReq = out.lastReq /\ out'.lastResp = out.lastResp
        /\ out'.sequence = out.sequence /\ out'.keySequence = out.keySequence
        /\ out'.users = out.users /\ out'.log = out.log
    BY <1>0, <1>2 DEF OutShape, OutFields
  <2>2. OutShape(out') /\ PendingTyped(out')
    BY <1>0, <2>1, Zenon DEF OutShape, PendingTyped
  <2>3. \A m \in Masters : UserKept(out.users[m], out'.users[m])
    BY <2>1, Zenon DEF UserKept
  <2>4. Quiet(out, out', {})
    BY <2>1, <2>3, Zenon DEF Quiet
  <2> QED BY <1>0, <2>1, <2>2, <2>4, Zenon DEF OutStep
<1>3. CASE /\ what \in Masters
           /\ out' = [out EXCEPT !.users[what].status = 0, !.users[what].key = None]
  <2> DEFINE w == [out.users[what] EXCEPT !.status = 0, !.key = None]
             us == [out.users EXCEPT ![what] = w]
  <2>0. [[out.users EXCEPT ![what].status = 0] EXCEPT ![what].key = None] = us
    BY <1>0, <1>3, Zenon DEF OutShape
  <2>1. /\ DOMAIN out' = OutFields /\ out'.reply = {} /\ out'.pending = out.pending
        /\ out'.sel = out.sel /\ out'.lastReq = out.lastReq /\ out'.lastResp = out.lastResp
        /\ out'.sequence = out.sequence /\ out'.keySequence = out.keySequence
        /\ out'.users = [[out.users EXCEPT ![what].status = 0] EXCEPT ![what].key = None]
        /\ out'.log = out.log
    BY <1>0, <1>3 DEF OutShape, OutFields
  <2>2. DOMAIN w = UserFields /\ UserKept(out.users[what], w)
    BY <1>0, <1>3 DEF OutShape, UserFields, UserKept
  <2> HIDE DEF w
  <2>3. DOMAIN us = Masters /\ us[what] = w /\ \A m \in Masters \ {what} : us[m] = out.users[m]
    BY <1>0, <1>3 DEF OutShape
  <2> HIDE DEF us
  <2>4. OutShape(out') /\ PendingTyped(out')
    BY <1>0, <2>0, <2>1, <2>2, <2>3, ZenonT(60) DEF OutShape, PendingTyped
  <2>5. \A m \in Masters : UserKept(out.users[m], out'.users[m])
    BY <2>0, <2>1, <2>2, <2>3 DEF UserKept
  <2>6. Quiet(out, out', {})
    BY <2>1, <2>5, Zenon DEF Quiet
  <2> QED BY <1>0, <2>1, <2>4, <2>6 DEF OutStep
<1> QED BY <1>1, <1>2, <1>3 DEF Expire

LEMMA StepCases ==
    ASSUME TypeOK, [Next]_vars
    PROVE  /\ secure' = secure
           /\ OutStep \/ (\E m \in Masters : MasterStep(m)) \/ Reconnect
<1>t. /\ secure \in BOOLEAN /\ OutShape(out) /\ PendingTyped(out) /\ out.reply = {}
      /\ \A m \in Masters : MasterShape(master[m]) /\ master[m].sent = {}
      /\ \A q \in net : q.to = "outstation" => Fragment(q)
  BY Zenon DEF TypeOK
<1>q. ASSUME out' = out, master' = master, net' \subseteq net PROVE OutStep
  <2>1. \A m \in Masters : UserKept(out.users[m], out.users[m])
    BY Zenon DEF UserKept
  <2>2. Quiet(out, out, {})
    BY <2>1, Zenon DEF Quiet
  <2> QED BY <1>q, <1>t, <2>2, Zenon DEF OutStep
<1>1. ASSUME NEW m \in Masters, checkTimeout(m) PROVE secure' = secure /\ MasterStep(m)
  <2> DEFINE b == finish(master[m], m, FALSE)
  <2>1. MasterShape(b) /\ Moves(master[m], b, m, b.sent)
    BY <1>1, <1>t, FailStep, Zenon DEF checkTimeout
  <2>2. Puts(m, b) /\ net' \subseteq net \cup b.sent /\ out' = out /\ secure' = secure
    BY <1>1, Zenon DEF checkTimeout
  <2> HIDE DEF b
  <2> QED BY <2>1, <2>2, Put, Zenon
<1>2. ASSUME NEW m \in Masters, MasterKeyExpires(m) PROVE secure' = secure /\ MasterStep(m)
  <2> DEFINE v == [master[m] EXCEPT !.key = None]
  <2>1. DOMAIN master' = Masters /\ master'[m] = v
        /\ \A n \in Masters \ {m} : master'[n] = master[n]
    BY <1>2 DEF MasterKeyExpires, TypeOK
  <2>2. /\ DOMAIN v = MasterFields /\ v.step = master[m].step /\ v.next = master[m].next
        /\ v.key = None /\ v.messages = master[m].messages /\ v.sent = {}
        /\ SameChange(master[m], v) /\ SameNumber(master[m], v) /\ SamePast(master[m], v)
    BY <1>t DEF MasterShape, MasterFields, SameChange, SameNumber, SamePast
  <2> HIDE DEF v
  <2>3. MasterShape(v)
    BY <1>t, <2>2, Zenon DEF MasterShape, SameChange, SameNumber, SamePast
  <2>4. Moves(master[m], v, m, {})
    BY <2>2, Zenon DEF Moves, Rests
  <2>5. out' = out /\ secure' = secure /\ net' \subseteq net \cup {}
    BY <1>2 DEF MasterKeyExpires
  <2> QED BY <2>1, <2>2, <2>3, <2>4, <2>5, Zenon DEF MasterStep
<1>3. ASSUME NEW m \in Masters, NEW fn \in Methods, NEW objects \in Commands,
             Call(m, fn, objects)
      PROVE  secure' = secure /\ MasterStep(m)
  <2> DEFINE u == master[m]
             b == [u EXCEPT !.objects = objects]
             v == sendTask(b, m, fn)
  <2>1. Puts(m, v) /\ net' \subseteq net \cup v.sent /\ out' = out /\ secure' = secure
        /\ u.step = Idle
    BY <1>3 DEF Call
  <2>2. /\ DOMAIN b = MasterFields /\ b.step = u.step /\ b.next = u.next /\ b.objects = objects
        /\ b.seq = u.seq /\ b.id = u.id /\ SameKeys(u, b) /\ SameChange(u, b) /\ SamePast(u, b)
    BY <1>t DEF MasterShape, MasterFields, SameKeys, SameChange, SamePast
  <2> HIDE DEF b
  <2>3. MasterShape(b) /\ fn \in Fns
    BY <1>t, <2>2, ControlsAssumption, Zenon DEF MasterShape, SameChange, SamePast, Fns
  <2>4. /\ MasterShape(v)
        /\ SameKeys(b, v) /\ SameChange(b, v) /\ SamePast(b, v) /\ v.objects = b.objects
        /\ \/ /\ secure /\ ~securityReady(v) /\ v.step = "status"
              /\ v.seq = b.seq /\ v.id = b.id /\ v.sent = {AuthRequest(m, b.seq, [v |-> 4])}
           \/ /\ secure => securityReady(v)
              /\ v.seq = nextSeq(b.seq) /\ v.id = b.id + 1
              /\ v.sent = {Request(m, fn, v.seq, v.objects, <<m, v.id>>)}
              /\ v.step \in {fn, Idle}
    BY <1>t, <2>2, <2>3, TaskSent, ZenonT(30)
  <2> HIDE DEF v
  <2>5. SameKeys(u, v) /\ SameChange(u, v) /\ SamePast(u, v) /\ v.objects \in Commands
    BY <2>2, <2>4, Zenon DEF SameKeys, SameChange, SamePast
  <2>6. Asked(u, v, m, v.sent)
    BY <2>1, <2>2, <2>3, <2>4, <2>5, Zenon DEF Asked
  <2>7. Moves(u, v, m, v.sent)
    BY <2>6, Zenon DEF Moves
  <2> QED BY <2>1, <2>4, <2>7, Put, Zenon
<1>4. ASSUME NEW q \in net, Handle(q) PROVE secure' = secure /\ OutStep
  <2>0. PICK refused \in BOOLEAN :
          LET o == handle(out, q, refused)
          IN  out' = [o EXCEPT !.reply = {}] /\ net' \subseteq net \cup o.reply
    BY <1>4, Zenon DEF Handle
  <2> DEFINE b == handle(out, q, refused)
  <2>1. /\ q.to = "outstation" /\ out' = [b EXCEPT !.reply = {}]
        /\ net' \subseteq net \cup b.reply /\ master' = master /\ secure' = secure
    BY <1>4, <2>0, Zenon DEF Handle
  <2>2. Fragment(q)
    BY <1>t, <2>1, Zenon
  <2>3. /\ OutShape(b) /\ PendingTyped(b)
        /\ \/ Quiet(out, b, b.reply) \/ Told(out, b, b.reply, q) \/ Ran(out, b, b.reply, q, 0)
           \/ Ran(out, b, b.reply, out.pending.req, out.pending.num)
    BY <1>t, <2>1, <2>2, HandleStep, Zenon
  <2> HIDE DEF b
  <2> QED BY <2>1, <2>3, Given, Zenon
<1>5. ASSUME NEW r \in net, Receive(r)
      PROVE  secure' = secure /\ \E m \in Masters : MasterStep(m)
  <2> DEFINE m == r.to
             b == onFragment(master[m], m, r)
  <2>1. /\ m \in Masters /\ Puts(m, b) /\ net' \subseteq net \cup b.sent
        /\ out' = out /\ secure' = secure
    BY <1>5, Zenon DEF Receive
  <2>2. MasterShape(b) /\ Moves(master[m], b, m, b.sent)
    BY <1>t, <2>1, FragmentStep, Zenon
  <2> HIDE DEF b
  <2>3. MasterStep(m)
    BY <2>1, <2>2, Put, Zenon
  <2> QED BY <2>1, <2>3, Zenon
<1>6. ASSUME NEW msg \in net, Lose(msg) PROVE secure' = secure /\ OutStep
  BY <1>6, <1>q, Zenon DEF Lose
<1>7. ASSUME NEW what, Expire(what) PROVE secure' = secure /\ OutStep
  BY <1>7, ExpireStep, Zenon DEF Expire
<1>8. ASSUME UNCHANGED vars PROVE secure' = secure /\ OutStep
  BY <1>8, <1>q, Zenon DEF vars
<1>9. ASSUME Reconnect PROVE secure' = secure
  BY <1>9, Zenon DEF Reconnect
<1> QED BY <1>1, <1>2, <1>3, <1>4, <1>5, <1>6, <1>7, <1>8, <1>9, ZenonT(60) DEF Next

(* The connection ends: nothing is under way any more, and no side has     *)
(* keys.                                                                   *)
LEMMA ReconnectOut ==
    ASSUME TypeOK, Reconnect
    PROVE  /\ net' = {} /\ OutShape(out') /\ out'.reply = {} /\ out'.pending = NoPending
           /\ out'.sel = out.sel /\ out'.log = out.log /\ out'.lastReq = None
           /\ out'.sequence = out.sequence /\ out'.keySequence = out.keySequence
           /\ \A m \in Masters : out'.users[m] = NoUser
<1> DEFINE us == [m \in Masters |-> NoUser]
<1>1. /\ DOMAIN out' = OutFields /\ out'.users = us /\ out'.reply = out.reply
      /\ out'.sel = out.sel /\ out'.lastReq = None /\ out'.pending = NoPending
      /\ out'.sequence = out.sequence /\ out'.keySequence = out.keySequence
      /\ out'.log = out.log
  BY Zenon DEF Reconnect, resetSecurity, OutShape, OutFields, TypeOK
<1>2. DOMAIN us = Masters /\ \A m \in Masters : us[m] = NoUser
  BY Zenon
<1>3. DOMAIN NoUser = UserFields
  BY Zenon DEF NoUser, UserFields
<1> HIDE DEF us
<1>4. OutShape(out')
  BY <1>1, <1>2, <1>3, Zenon DEF OutShape, TypeOK
<1> QED BY <1>1, <1>2, <1>4, ZenonT(30) DEF Reconnect, TypeOK

LEMMA ReconnectMaster ==
    ASSUME TypeOK, Reconnect
    PROVE  /\ DOMAIN master' = Masters
           /\ \A m \in Masters :
                /\ MasterShape(master'[m]) /\ master'[m].sent = {} /\ master'[m].key = None
                /\ master'[m].step = Idle /\ SameChange(master[m], master'[m])
                /\ SameNumber(master[m], master'[m])
                /\ master'[m].answered = master[m].answered
                /\ \/ master'[m].outcomes = master[m].outcomes
                   \/ \E e \in Results : /\ master'[m].outcomes = Append(master[m].outcomes, e)
                                         /\ ~e.ok
<1> DEFINE u(m) == [master[m] EXCEPT !.key = None, !.messages = 0]
           v(m) == IF u(m).step = Idle THEN u(m) ELSE finish(u(m), m, FALSE)
<1>1. master' = [m \in Masters |-> v(m)]
  BY Zenon DEF Reconnect
<1>2. ASSUME NEW m \in Masters
      PROVE  /\ MasterShape(v(m)) /\ v(m).sent = {} /\ v(m).key = None
             /\ v(m).step = Idle /\ SameChange(master[m], v(m)) /\ SameNumber(master[m], v(m))
             /\ v(m).answered = master[m].answered
             /\ \/ v(m).outcomes = master[m].outcomes
                \/ \E e \in Results : v(m).outcomes = Append(master[m].outcomes, e) /\ ~e.ok
  <2>0. MasterShape(master[m]) /\ master[m].sent = {}
    BY Zenon DEF TypeOK
  <2> DEFINE w == master[m]
             b == u(m)
  <2>1. /\ DOMAIN b = MasterFields /\ b.step = w.step /\ b.next = w.next /\ b.sent = {}
        /\ b.key = None /\ SameChange(w, b) /\ SameNumber(w, b) /\ SamePast(w, b)
    BY <2>0, Zenon DEF MasterShape, MasterFields, SameChange, SameNumber, SamePast
  <2>2. v(m) = IF b.step = Idle THEN b ELSE finish(b, m, FALSE)
    BY Zenon
  <2> HIDE DEF u
  <2>3. MasterShape(b)
    BY <2>0, <2>1, Zenon DEF MasterShape, SameChange, SameNumber, SamePast
  <2>4. CASE b.step = Idle
    BY <2>1, <2>2, <2>3, <2>4, Zenon DEF SamePast
  <2>5. CASE b.step # Idle
    <3> DEFINE x == finish(b, m, FALSE)
               e == [id |-> <<m, b.id>>, fn |-> b.step, objects |-> b.objects, ok |-> FALSE]
    <3>1. MasterShape(x) /\ x.sent = {}
      BY <2>1, <2>3, <2>5, FinishStep, Zenon
    <3>2. /\ x.step = Idle /\ SameKeys(b, x) /\ SameChange(b, x) /\ SameNumber(b, x)
          /\ x.answered = b.answered /\ x.outcomes = Append(b.outcomes, e)
      BY <2>3, Zenon DEF finish, MasterShape, MasterFields, SameKeys, SameChange, SameNumber
    <3>3. e \in Results /\ ~e.ok
      BY <2>3, <2>5, Zenon DEF Results, MasterShape
    <3> HIDE DEF x, e
    <3>4. /\ x.key = None /\ SameChange(w, x) /\ SameNumber(w, x) /\ x.answered = w.answered
          /\ x.outcomes = Append(w.outcomes, e)
      BY <2>1, <3>2, Zenon DEF SameKeys, SameChange, SameNumber, SamePast
    <3>5. v(m) = x
      BY <2>2, <2>5, Zenon DEF x
    <3> QED BY <3>1, <3>2, <3>3, <3>4, <3>5, ZenonT(60)
  <2> QED BY <2>4, <2>5, ZenonT(60)
<1> HIDE DEF v
<1> QED BY <1>1, <1>2, Zenon

----------------------------------------------------------------------------
(* While a selection is active, the last SELECT or OPERATE carried out is  *)
(* the SELECT that made it.                                                *)
Selected ==
    out.sel.active =>
        \E k \in DOMAIN out.log : SelectedAt(k, out.sel.objects, Len(out.log))

----------------------------------------------------------------------------
(* The keys.  A key change carries the number of the status it answers and *)
(* a key of its own; the status that follows it is newer than every key    *)
(* change then under way, so none of them is taken any more.               *)
Changes(m) == {q \in net : q.to = "outstation" /\ KeyChange(q) /\ q.from = m}

Numbered ==
    /\ \A m \in Masters : \A q \in Changes(m) :
         /\ q.auth.num <= out.keySequence
         /\ q.auth.key[1] = m /\ q.auth.key[2] <= master[m].keys
    /\ \A m \in Masters : \A r \in net : StatusOf(r, m) =>
         /\ r.auth.num \in 1..out.keySequence
         /\ r.auth.mac # None =>
              KeyOf(r.auth.mac) \in Masters \X Nat /\ KeyOf(r.auth.mac)[2] <= master[m].keys

(* What the outstation holds for a master.                                 *)
UserKeys ==
    \A m \in Masters :
        LET w == out.users[m]
        IN  /\ w.status \in 0..out.keySequence
            /\ w.key # None => w.change # None /\ w.key = KeyOf(w.change)
            /\ w.change # None =>
                 /\ KeyOf(w.change) \in Masters \X Nat /\ KeyOf(w.change)[2] <= master[m].keys
                 /\ \A q \in Changes(m) : q.auth.key[2] <= KeyOf(w.change)[2] =>
                      w.status = 0 \/ q.auth.num < w.status

(* What the master holds.                                                  *)
MasterKeys ==
    \A m \in Masters :
        LET u == master[m]
        IN  /\ u.change # None => KeyOf(u.change) = <<m, u.keys>>
            /\ u.step = "change" => u.change # None
            /\ u.step \in {"status", "change"} => ~securityReady(u)
            /\ securityReady(u) => /\ u.change # None /\ u.key = KeyOf(u.change)
                                   /\ out.users[m].change = u.change
            /\ \A r \in net : StatusOf(r, m) /\ u.change # None /\ r.auth.mac = u.change =>
                 out.users[m].change = u.change

Inv == TypeOK /\ Selected /\ OperatedAsSelected /\ Numbered /\ UserKeys /\ MasterKeys

(* Inv holds at the start.                                                 *)
LEMMA InvInit == Init => Inv
<1> SUFFICES ASSUME Init PROVE Inv
  BY Zenon
<1> DEFINE us == [m \in Masters |-> NoUser]
           ms == [m \in Masters |-> NewMaster]
<1>1. /\ DOMAIN out = OutFields /\ out.users = us /\ out.reply = {} /\ out.pending = NoPending
      /\ out.sel = NoSelection /\ out.sequence = 0 /\ out.keySequence = 0 /\ out.log = <<>>
      /\ master = ms /\ net = {} /\ secure \in BOOLEAN
  BY ControlsAssumption, Zenon DEF Init, OutFields
<1>2. DOMAIN us = Masters /\ \A m \in Masters : us[m] = NoUser
  BY Zenon
<1>3. DOMAIN ms = Masters /\ \A m \in Masters : ms[m] = NewMaster
  BY Zenon
<1> HIDE DEF us, ms
<1>4. DOMAIN NoUser = UserFields /\ NoUser.key = None /\ NoUser.change = None /\ NoUser.status = 0
  BY Zenon DEF NoUser, UserFields
<1>5. DOMAIN NoSelection = {"active", "objects", "seq", "live"}
      /\ NoSelection.active = FALSE /\ NoSelection.live = FALSE
  BY Zenon DEF NoSelection
<1>6. /\ DOMAIN NewMaster = MasterFields /\ NewMaster.step = Idle /\ NewMaster.sent = {}
      /\ NewMaster.seq = 0 /\ NewMaster.id = 0 /\ NewMaster.keys = 0 /\ NewMaster.key = None
      /\ NewMaster.change = None /\ NewMaster.outcomes = <<>>
  BY Zenon DEF NewMaster, MasterFields
<1>7. OutShape(out)
  <2>1. out.sequence \in Nat /\ out.keySequence \in Nat /\ out.log \in Seq(Entries)
    BY <1>1
  <2> QED BY <1>1, <1>2, <1>4, <1>5, <2>1, ZenonT(60) DEF OutShape
<1>8. MasterShape(NewMaster)
  BY <1>6 DEF MasterShape, Steps, Idle
<1>9. TypeOK
  BY <1>1, <1>3, <1>6, <1>7, <1>8, Zenon DEF TypeOK, PendingTyped
<1>10. Selected /\ OperatedAsSelected
  BY <1>1, <1>5 DEF Selected, OperatedAsSelected
<1>11. Numbered
  BY <1>1, Zenon DEF Numbered, Changes
<1>12. UserKeys
  BY <1>1, <1>2, <1>4 DEF UserKeys
<1>13. MasterKeys
  BY <1>1, <1>3, <1>6, Zenon DEF MasterKeys, securityReady, Idle
<1> QED BY <1>9, <1>10, <1>11, <1>12, <1>13, Zenon DEF Inv

----------------------------------------------------------------------------
LEMMA Outside == "outstation" \notin Masters
BY ControlsAssumption, Zenon

LEMMA ResponseFields ==
    \A q, t : /\ Response(q, t).to = q.from /\ Response(q, t).fn = "RESPONSE"
              /\ Response(q, t).seq = q.seq /\ Response(q, t).statuses = t
BY Zenon DEF Response

LEMMA RequestFields ==
    \A m, fn, n, c, d : LET q == Request(m, fn, n, c, d)
                        IN  /\ q.to = "outstation" /\ q.from = m /\ q.fn = fn /\ q.seq = n
                            /\ q.objects = c /\ q.auth = NoAuth /\ q.id = d
BY DEF Request

LEMMA AuthRequestFields ==
    \A m, n, t : LET q == AuthRequest(m, n, t)
                 IN  /\ q.to = "outstation" /\ q.from = m /\ q.fn = "AUTH_REQUEST"
                     /\ q.auth = t /\ q.seq = n
BY DEF AuthRequest, Request

(* The types are kept.                                                     *)
LEMMA TypeStep == Inv /\ [Next]_vars => TypeOK'
<1> SUFFICES ASSUME Inv, [Next]_vars PROVE TypeOK'
  BY Zenon
<1>t. TypeOK /\ Numbered
  BY Zenon DEF Inv
<1>c. secure' = secure /\ (OutStep \/ (\E m \in Masters : MasterStep(m)) \/ Reconnect)
  BY <1>t, StepCases, Zenon
<1>1. CASE OutStep
  <2>1. PICK a : /\ net' \subseteq net \cup a
                 /\ \/ Quiet(out, out', a)
                    \/ \E q : Told(out, out', a, q) \/ \E c : Ran(out, out', a, q, c)
    BY <1>1, Zenon DEF OutStep
  <2>2. \A r \in a : r.to \in Masters
    <3>1. CASE Quiet(out, out', a)
      BY <3>1, Zenon DEF Quiet
    <3>2. ASSUME NEW q, Told(out, out', a, q) PROVE \A r \in a : r.to \in Masters
      BY <3>2, ZenonT(60) DEF Told, StatusOf
    <3>3. ASSUME NEW q, NEW c, Ran(out, out', a, q, c) PROVE \A r \in a : r.to \in Masters
      BY <3>3, ResponseFields DEF Ran, Command
    <3> QED BY <2>1, <3>1, <3>2, <3>3, Zenon
  <2>3. \A q \in net' : q.to = "outstation" => Fragment(q)
    BY <1>t, <2>1, <2>2, Outside, Zenon DEF TypeOK
  <2> QED BY <1>c, <1>t, <1>1, <2>3, Zenon DEF TypeOK, OutStep
<1>2. ASSUME NEW m \in Masters, MasterStep(m) PROVE TypeOK'
  <2> DEFINE u == master[m]
             v == master'[m]
  <2>1. PICK s : net' \subseteq net \cup s /\ Moves(u, v, m, s)
    BY <1>2, Zenon DEF MasterStep
  <2>2. MasterShape(u) /\ MasterShape(v)
    BY <1>2, <1>t, Zenon DEF TypeOK, MasterStep
  <2> HIDE DEF u, v
  <2>3. \A q \in s : Fragment(q)
    <3>1. CASE Rests(u, v, s) \/ Ends(u, v, m, s)
      BY <3>1, Zenon DEF Rests, Ends
    <3>2. CASE Asked(u, v, m, s)
      <4>1. CASE s = {AuthRequest(m, u.seq, [v |-> 4])}
        <5>1. [v |-> 4].v = 4
          BY Zenon
        <5> QED BY <4>1, <5>1, AuthRequestFields DEF Fragment, Asks
      <4>2. ASSUME NEW fn \in Fns, s = {Request(m, fn, v.seq, v.objects, <<m, v.id>>)}
            PROVE  \A q \in s : Fragment(q)
        <5>1. v.seq \in Nat /\ v.objects \in Commands /\ <<m, v.id>> \in Masters \X Nat
          BY <2>2, <3>2, ZenonT(60) DEF MasterShape, Asked
        <5> QED BY <4>2, <5>1, RequestFields DEF Fragment, Command
      <4> QED BY <3>2, <4>1, <4>2, ZenonT(60) DEF Asked
    <3>3. CASE Changed(u, v, m, s)
      <4>1. PICK r, q :
               /\ r \in net /\ StatusOf(r, m)
               /\ q = AuthRequest(m, u.seq, [v |-> 6, num |-> r.auth.num,
                                             key |-> <<m, u.keys + 1>>])
               /\ s = {q}
        BY <3>3, ZenonT(60) DEF Changed
      <4>2. r.auth.num \in Nat \ {0}
        BY <1>t, <4>1 DEF Numbered, TypeOK, OutShape
      <4>3. q.auth.v = 6 /\ q.auth.num = r.auth.num /\ q.auth.key = <<m, u.keys + 1>>
        BY <4>1, AuthRequestFields
      <4>4. <<m, u.keys + 1>> \in Masters \X Nat
        BY <2>2 DEF MasterShape
      <4> QED BY <4>1, <4>2, <4>3, <4>4, AuthRequestFields DEF Fragment, KeyChange, Asks
    <3>4. CASE Proven(u, v, m, s)
      <4>1. PICK num, mac : s = {AuthRequest(m, u.seq, [v |-> 2, num |-> num, mac |-> mac])}
        BY <3>4, Zenon DEF Proven
      <4>2. [v |-> 2, num |-> num, mac |-> mac].v = 2
        BY Zenon
      <4> QED BY <4>1, <4>2, AuthRequestFields DEF Fragment, Reply, Asks
    <3> QED BY <2>1, <3>1, <3>2, <3>3, <3>4, Zenon DEF Moves
  <2>4. \A q \in net' : q.to = "outstation" => Fragment(q)
    BY <1>t, <2>1, <2>3, Zenon DEF TypeOK
  <2>5. \A n \in Masters : MasterShape(master'[n]) /\ master'[n].sent = {}
    BY <1>2, <1>t DEF MasterStep, TypeOK
  <2> QED BY <1>c, <1>t, <1>2, <2>4, <2>5, ZenonT(60) DEF TypeOK, MasterStep
<1>3. CASE Reconnect
  BY <1>3, <1>t, <1>c, ReconnectOut, ReconnectMaster, Zenon DEF TypeOK, PendingTyped
<1> QED BY <1>c, <1>1, <1>2, <1>3, Zenon

(* Selections and operates in a log: an entry more leaves what was said of *)
(* the others.                                                             *)
SelectedIn(log, k, c, n) ==
    /\ log[k].fn = "SELECT" /\ log[k].objects = c
    /\ \A j \in (k + 1)..n : log[j].fn \notin {"SELECT", "OPERATE"}
LastSelect(log, c) == \E k \in DOMAIN log : SelectedIn(log, k, c, Len(log))
Operated(log) ==
    \A i \in DOMAIN log :
        log[i].fn = "OPERATE" => \E k \in 1..(i - 1) : SelectedIn(log, k, log[i].objects, i - 1)

LEMMA SelectEntered ==
    ASSUME NEW log \in Seq(Entries), NEW e \in Entries, NEW new, new = Append(log, e),
           NEW o, NEW p, NEW q, NEW c, Enters(e, o, p, q, c),
           Operated(log), o.sel.active => LastSelect(log, o.sel.objects)
    PROVE  Operated(new) /\ (p.sel.active => LastSelect(new, p.sel.objects))
<1> DEFINE L == Len(log)
<1>1. /\ L \in Nat /\ DOMAIN log = 1..L /\ DOMAIN new = 1..(L + 1) /\ new[L + 1] = e
      /\ Len(new) = L + 1 /\ \A i \in 1..L : new[i] = log[i]
  BY EntryAdded
<1> HIDE DEF L
<1>2. ASSUME NEW k \in 1..L, NEW d, NEW n \in 0..L, SelectedIn(log, k, d, n)
      PROVE  SelectedIn(new, k, d, n)
  BY <1>1, <1>2 DEF SelectedIn
<1>3. ASSUME NEW i \in DOMAIN new, new[i].fn = "OPERATE"
      PROVE  \E k \in 1..(i - 1) : SelectedIn(new, k, new[i].objects, i - 1)
  <2>1. CASE i \in 1..L
    <3>1. new[i] = log[i] /\ i - 1 \in 0..L /\ \A k \in 1..(i - 1) : k \in 1..L
      BY <1>1, <2>1
    <3>2. PICK k \in 1..(i - 1) : SelectedIn(log, k, log[i].objects, i - 1)
      BY <1>1, <1>3, <2>1, <3>1, Zenon DEF Operated
    <3> QED BY <1>2, <3>1, <3>2, ZenonT(60)
  <2>2. CASE i = L + 1
    <3>1. o.sel.active /\ o.sel.objects = e.objects /\ i - 1 = L /\ L \in 0..L /\ new[i] = e
      BY <1>1, <1>3, <2>2 DEF Enters
    <3>2. PICK k \in 1..L : SelectedIn(log, k, e.objects, L)
      BY <1>1, <3>1, Zenon DEF LastSelect, L
    <3> QED BY <1>2, <3>1, <3>2, ZenonT(60)
  <2> QED BY <1>1, <1>3, <2>1, <2>2
<1>4. ASSUME p.sel.active PROVE LastSelect(new, p.sel.objects)
  <2>1. CASE e.fn = "SELECT"
    <3>1. p.sel.objects = e.objects /\ L + 1 \in DOMAIN new
      BY <1>1, <2>1 DEF Enters
    <3>2. SelectedIn(new, L + 1, e.objects, L + 1)
      BY <1>1, <2>1 DEF SelectedIn
    <3> QED BY <1>1, <3>1, <3>2, ZenonT(60) DEF LastSelect
  <2>2. CASE e.fn = "OPERATE"
    BY <1>4, <2>2 DEF Enters, NoSelection
  <2>3. CASE e.fn \notin {"SELECT", "OPERATE"}
    <3>1. p.sel = o.sel
      BY <2>3, Zenon DEF Enters
    <3>2. PICK k \in 1..L : SelectedIn(log, k, p.sel.objects, L)
      BY <1>1, <1>4, <3>1, ZenonT(60) DEF LastSelect, L
    <3>3. SelectedIn(new, k, p.sel.objects, L) /\ k \in DOMAIN new
      BY <1>1, <1>2, <3>2
    <3>4. SelectedIn(new, k, p.sel.objects, L + 1)
      BY <1>1, <2>3, <3>3 DEF SelectedIn
    <3> QED BY <1>1, <3>3, <3>4, Zenon DEF LastSelect
  <2> QED BY <2>1, <2>2, <2>3, Zenon
<1> QED BY <1>3, <1>4, ZenonT(60) DEF Operated

(* A selection is what the last SELECT made, and an OPERATE uses it up.    *)
LEMMA SelectStep == Inv /\ [Next]_vars => Selected' /\ OperatedAsSelected'
<1> SUFFICES ASSUME Inv, [Next]_vars PROVE Selected' /\ OperatedAsSelected'
  BY Zenon
<1>t. TypeOK /\ Selected /\ OperatedAsSelected
  BY Zenon DEF Inv
<1>c. OutStep \/ (\E m \in Masters : MasterStep(m)) \/ Reconnect
  BY <1>t, StepCases, Zenon
<1>l. out.log \in Seq(Entries)
  BY <1>t, Zenon DEF TypeOK, OutShape
<1>s. Operated(out.log) /\ (out.sel.active => LastSelect(out.log, out.sel.objects))
  BY <1>t, Zenon DEF Operated, LastSelect, SelectedIn, Selected, OperatedAsSelected, SelectedAt
<1>g. ASSUME Operated(out'.log), out'.sel.active => LastSelect(out'.log, out'.sel.objects)
      PROVE  Selected' /\ OperatedAsSelected'
  BY <1>g, Zenon DEF Operated, LastSelect, SelectedIn, Selected, OperatedAsSelected, SelectedAt
<1>1. ASSUME out'.log = out.log,
             out'.sel.active => out.sel.active /\ out'.sel.objects = out.sel.objects
      PROVE  Selected' /\ OperatedAsSelected'
  BY <1>g, <1>s, <1>1
<1>3. CASE OutStep
  <2>1. PICK a : \/ Quiet(out, out', a)
                 \/ \E q : Told(out, out', a, q) \/ \E c : Ran(out, out', a, q, c)
    BY <1>3, Zenon DEF OutStep
  <2>2. CASE Quiet(out, out', a)
    BY <1>1, <2>2, Zenon DEF Quiet
  <2>3. ASSUME NEW q, Told(out, out', a, q) PROVE Selected' /\ OperatedAsSelected'
    BY <1>1, <2>3, Zenon DEF Told
  <2>4. ASSUME NEW q, NEW c, Ran(out, out', a, q, c) PROVE Selected' /\ OperatedAsSelected'
    <3>1. Carried(out, out', q, c)
      BY <2>4, Zenon DEF Ran
    <3>2. CASE out'.log = out.log /\ (out'.sel = out.sel \/ out'.sel = NoSelection)
      BY <1>1, <3>2 DEF NoSelection
    <3>3. ASSUME NEW e \in Entries, out'.log = Append(out.log, e), Enters(e, out, out', q, c)
          PROVE  Selected' /\ OperatedAsSelected'
      BY <1>g, <1>l, <1>s, <3>3, SelectEntered, Zenon
    <3> QED BY <3>1, <3>2, <3>3, Zenon DEF Carried
  <2> QED BY <2>1, <2>2, <2>3, <2>4
<1>4. CASE \E m \in Masters : MasterStep(m)
  BY <1>1, <1>4, Zenon DEF MasterStep
<1>5. CASE Reconnect
  BY <1>1, <1>t, <1>5, ReconnectOut
<1> QED BY <1>c, <1>3, <1>4, <1>5, Zenon

----------------------------------------------------------------------------
(* What a step does to the keys.                                           *)
Taken(w, v, m, n) ==
    /\ v.status = n
    /\ \E q \in Changes(m) : /\ q.auth.num = w.status
                             /\ v.change = Raw(q) /\ v.key = q.auth.key

UserMoves(w, v, m) ==
    \/ UserKept(w, v) /\ out'.keySequence >= out.keySequence
    \/ /\ master' = master /\ out'.keySequence = out.keySequence + 1
       /\ v.status = out'.keySequence /\ v.change = w.change /\ v.key \in {None, w.key}
    \/ /\ master' = master /\ out'.keySequence = out.keySequence + 1
       /\ Taken(w, v, m, out'.keySequence)

LEMMA UserStep ==
    ASSUME TypeOK, OutStep, NEW m \in Masters
    PROVE  UserMoves(out.users[m], out'.users[m], m)
<1>0. out.keySequence \in Nat
  BY Zenon DEF TypeOK, OutShape
<1>1. PICK a : \/ Quiet(out, out', a)
               \/ \E q : Told(out, out', a, q) \/ \E c : Ran(out, out', a, q, c)
  BY ZenonT(60) DEF OutStep
<1>2. CASE Quiet(out, out', a)
  BY <1>0, <1>2 DEF Quiet, UserMoves
<1>3. ASSUME NEW q, Told(out, out', a, q) PROVE UserMoves(out.users[m], out'.users[m], m)
  <2>1. out'.keySequence = out.keySequence + 1 /\ master' = master
    BY <1>3, ZenonT(60) DEF Told, OutStep
  <2>2. CASE m # q.from
    <3>1. UserKept(out.users[m], out'.users[m])
      BY <1>3, <2>2, Zenon DEF Told
    <3> QED BY <1>0, <2>1, <3>1 DEF UserMoves
  <2>3. CASE m = q.from
    <3> DEFINE w == out.users[m]
               v == out'.users[m]
    <3>1. /\ v.status = out'.keySequence
          /\ \/ v.change = w.change /\ v.key \in {None, w.key}
             \/ /\ KeyChange(q) /\ q.auth.num = w.status
                /\ v.change = Raw(q) /\ v.key = q.auth.key
          /\ q \in net /\ q.to = "outstation"
      BY <1>3, <2>3, Zenon DEF Told
    <3> HIDE DEF w, v
    <3>2. UserMoves(w, v, m)
      BY <2>1, <2>3, <3>1, ZenonT(60) DEF UserMoves, Taken, Changes
    <3> QED BY <3>2, Zenon DEF w, v
  <2> QED BY <2>2, <2>3, Zenon
<1>4. ASSUME NEW q, NEW c, Ran(out, out', a, q, c)
      PROVE  UserMoves(out.users[m], out'.users[m], m)
  <2>1. UserKept(out.users[m], out'.users[m]) /\ out'.keySequence = out.keySequence
    BY <1>4, ZenonT(60) DEF Ran, Carried
  <2> QED BY <1>0, <2>1 DEF UserMoves
<1> QED BY <1>1, <1>2, <1>3, <1>4, Zenon

(* The outstation sends no key change.                                     *)
LEMMA OutSends ==
    ASSUME TypeOK, OutStep
    PROVE  /\ \A q \in net' : q.to = "outstation" => q \in net
           /\ \A m \in Masters : \A r \in net' : StatusOf(r, m) /\ r \notin net =>
                r.auth.num = out'.keySequence /\ out'.keySequence = out.keySequence + 1
                /\ r.auth.mac = out'.users[m].change
<1>1. PICK a : /\ net' \subseteq net \cup a
               /\ \/ Quiet(out, out', a)
                  \/ \E q : Told(out, out', a, q) \/ \E c : Ran(out, out', a, q, c)
  BY Zenon DEF OutStep
<1> DEFINE Goal == /\ \A r \in a : r.to \in Masters
                   /\ \A m \in Masters : \A r \in a : StatusOf(r, m) =>
                        r.auth.num = out'.keySequence /\ out'.keySequence = out.keySequence + 1
                        /\ r.auth.mac = out'.users[m].change
<1>2. ASSUME Quiet(out, out', a) PROVE Goal
  BY <1>2, ZenonT(30) DEF Quiet, StatusOf
<1>3. ASSUME NEW q, Told(out, out', a, q) PROVE Goal
  BY <1>3, ZenonT(60) DEF Told, StatusOf
<1>4. ASSUME NEW q, NEW c, Ran(out, out', a, q, c) PROVE Goal
  <2>1. q.from \in Masters /\ (a = {} \/ a = {Response(q, out'.lastResp)})
    BY <1>4, Zenon DEF Ran, Command
  <2> QED BY <2>1, ResponseFields DEF StatusOf
<1>5. Goal
  BY <1>1, <1>2, <1>3, <1>4, Zenon
<1> QED BY <1>1, <1>5, Outside, Zenon

(* A master sends a key change as it makes the key.                        *)
NewChange(u, v, m, q) ==
    /\ q.from = m /\ v.change = Raw(q) /\ q.auth.key = <<m, u.keys + 1>>
    /\ \E r \in net : StatusOf(r, m) /\ q.auth.num = r.auth.num

LEMMA MasterSends ==
    ASSUME TypeOK, NEW m \in Masters, MasterStep(m)
    PROVE  /\ \A q \in net' : q.to # "outstation" => q \in net
           /\ \A q \in net' : KeyChange(q) /\ q \notin net =>
                /\ Changed(master[m], master'[m], m, {q})
                /\ NewChange(master[m], master'[m], m, q)
<1> DEFINE u == master[m]
           v == master'[m]
<1>1. PICK s : net' \subseteq net \cup s /\ Moves(u, v, m, s)
  BY Zenon DEF MasterStep
<1> HIDE DEF u, v
<1> DEFINE Goal == \A q \in s : /\ q.to = "outstation"
                                /\ KeyChange(q) => Changed(u, v, m, {q}) /\ NewChange(u, v, m, q)
<1>2. ASSUME Rests(u, v, s) \/ Ends(u, v, m, s) PROVE Goal
  BY <1>2, Zenon DEF Rests, Ends
<1>3. ASSUME Asked(u, v, m, s) PROVE Goal
  <2>1. CASE s = {AuthRequest(m, u.seq, [v |-> 4])}
    <3>1. [v |-> 4].v # 6
      OBVIOUS
    <3> QED BY <2>1, <3>1, AuthRequestFields DEF KeyChange
  <2>2. ASSUME NEW fn \in Fns, s = {Request(m, fn, v.seq, v.objects, <<m, v.id>>)} PROVE Goal
    <3>1. fn # "AUTH_REQUEST"
      BY Zenon DEF Fns
    <3> QED BY <2>2, <3>1, RequestFields DEF KeyChange, Asks
  <2> QED BY <1>3, <2>1, <2>2, ZenonT(60) DEF Asked
<1>4. ASSUME Changed(u, v, m, s) PROVE Goal
  <2>1. PICK r, q :
           /\ r \in net /\ StatusOf(r, m)
           /\ q = AuthRequest(m, u.seq, [v |-> 6, num |-> r.auth.num, key |-> <<m, u.keys + 1>>])
           /\ s = {q} /\ v.change = Raw(q)
    BY <1>4, ZenonT(30) DEF Changed
  <2>a. PICK t : t = [v |-> 6, num |-> r.auth.num, key |-> <<m, u.keys + 1>>]
    BY Zenon
  <2>b. t.num = r.auth.num /\ t.key = <<m, u.keys + 1>> /\ q = AuthRequest(m, u.seq, t)
    BY <2>1, <2>a, ZenonT(60)
  <2>2. q.to = "outstation" /\ q.from = m /\ q.auth.num = r.auth.num
        /\ q.auth.key = <<m, u.keys + 1>>
    BY <2>b, AuthRequestFields
  <2> QED BY <1>4, <2>1, <2>2, ZenonT(60) DEF NewChange
<1>5. ASSUME Proven(u, v, m, s) PROVE Goal
  <2>1. PICK num, mac : s = {AuthRequest(m, u.seq, [v |-> 2, num |-> num, mac |-> mac])}
    BY <1>5, Zenon DEF Proven
  <2>2. [v |-> 2, num |-> num, mac |-> mac].v # 6
    OBVIOUS
  <2> QED BY <2>1, <2>2, AuthRequestFields DEF KeyChange
<1>6. Goal
  BY <1>1, <1>2, <1>3, <1>4, <1>5, ZenonT(60) DEF Moves
<1> QED BY <1>1, <1>6, Zenon DEF u, v

(* The counters only grow.                                                 *)
LEMMA Grows ==
    ASSUME TypeOK, NEW m \in Masters, MasterStep(m)
    PROVE  \A n \in Masters : master[n].keys \in Nat /\ master'[n].keys >= master[n].keys
<1>1. \A n \in Masters : master[n].keys \in Nat
  BY Zenon DEF TypeOK, MasterShape
<1>2. PICK s : Moves(master[m], master'[m], m, s)
  BY Zenon DEF MasterStep
<1>3. master'[m].keys = master[m].keys \/ master'[m].keys = master[m].keys + 1
  BY <1>2, Zenon DEF Moves, Rests, Ends, Asked, Changed, Proven, SameChange
<1>4. \A n \in Masters \ {m} : master'[n] = master[n]
  BY Zenon DEF MasterStep
<1> QED BY <1>1, <1>3, <1>4

(* A raw key change holds its key.                                         *)
LEMMA KeyOfRaw ==
    ASSUME NEW q
    PROVE  KeyOf(Raw(q)) = q.auth.key /\ Raw(q) # None
BY Zenon DEF KeyOf, Raw, None

(* The parts of Numbered and UserKeys, for one fragment.                   *)
ChangeNumbered(q, m, n, keys) ==
    q.auth.num <= n /\ q.auth.key[1] = m /\ q.auth.key[2] <= keys
StatusNumbered(r, n, keys) ==
    /\ r.auth.num \in 1..n
    /\ r.auth.mac # None =>
         KeyOf(r.auth.mac) \in Masters \X Nat /\ KeyOf(r.auth.mac)[2] <= keys

LEMMA NumberedStep == Inv /\ [Next]_vars => Numbered'
<1> SUFFICES ASSUME Inv, [Next]_vars PROVE Numbered'
  BY Zenon
<1>t. TypeOK /\ Numbered /\ UserKeys
  BY Zenon DEF Inv
<1>c. OutStep \/ (\E m \in Masters : MasterStep(m)) \/ Reconnect
  BY <1>t, StepCases, Zenon
<1>n. out.keySequence \in Nat /\ \A m \in Masters : master[m].keys \in Nat
  BY <1>t, Zenon DEF TypeOK, OutShape, MasterShape
<1>q. \A m \in Masters : \A q \in Changes(m) :
        ChangeNumbered(q, m, out.keySequence, master[m].keys) /\ q.auth.num \in Nat
        /\ q.auth.key \in Masters \X Nat
  BY <1>t, Zenon DEF Numbered, ChangeNumbered, Changes, KeyChange
<1>r. \A m \in Masters : \A r \in net :
        StatusOf(r, m) => StatusNumbered(r, out.keySequence, master[m].keys)
  BY <1>t, Zenon DEF Numbered, StatusNumbered
<1>1. CASE OutStep
  <2>1. out'.keySequence \in Nat /\ out'.keySequence >= out.keySequence /\ master' = master
    <3>1. PICK a : \/ Quiet(out, out', a)
                   \/ \E q : Told(out, out', a, q) \/ \E c : Ran(out, out', a, q, c)
      BY <1>1, Zenon DEF OutStep
    <3>2. out'.keySequence = out.keySequence \/ out'.keySequence = out.keySequence + 1
      BY <3>1, ZenonT(60) DEF Quiet, Told, Ran, Carried
    <3> QED BY <1>1, <1>n, <3>2 DEF OutStep
  <2>2. ASSUME NEW m \in Masters, NEW q \in Changes(m)'
        PROVE  ChangeNumbered(q, m, out'.keySequence, master'[m].keys)
    <3>1. q \in Changes(m)
      BY <1>1, <1>t, OutSends, ZenonT(60) DEF Changes
    <3> QED BY <1>n, <1>q, <2>1, <3>1 DEF ChangeNumbered
  <2>3. ASSUME NEW m \in Masters, NEW r \in net', StatusOf(r, m)
        PROVE  StatusNumbered(r, out'.keySequence, master'[m].keys)
    <3>1. CASE r \in net
      <4>1. StatusNumbered(r, out.keySequence, master[m].keys)
        BY <1>r, <2>3, <3>1, Zenon
      <4> QED BY <1>n, <2>1, <4>1 DEF StatusNumbered
    <3>2. CASE r \notin net
      <4>1. /\ r.auth.num = out'.keySequence /\ out'.keySequence = out.keySequence + 1
            /\ r.auth.mac = out'.users[m].change
        BY <1>1, <1>t, <2>3, <3>2, OutSends, ZenonT(60)
      <4>2. UserMoves(out.users[m], out'.users[m], m)
        BY <1>1, <1>t, UserStep, Zenon
      <4>3. \/ r.auth.mac = out.users[m].change
            \/ \E q \in Changes(m) : r.auth.mac = Raw(q)
        BY <4>1, <4>2, Zenon DEF UserMoves, UserKept, Taken
      <4>4. r.auth.mac # None =>
              KeyOf(r.auth.mac) \in Masters \X Nat /\ KeyOf(r.auth.mac)[2] <= master[m].keys
        <5>1. CASE r.auth.mac = out.users[m].change
          BY <1>t, <5>1, ZenonT(60) DEF UserKeys
        <5>2. ASSUME NEW q \in Changes(m), r.auth.mac = Raw(q)
              PROVE  KeyOf(r.auth.mac) \in Masters \X Nat
                     /\ KeyOf(r.auth.mac)[2] <= master[m].keys
          BY <1>q, <5>2, KeyOfRaw DEF ChangeNumbered
        <5> QED BY <4>3, <5>1, <5>2, Zenon
      <4> QED BY <1>n, <2>1, <4>1, <4>4 DEF StatusNumbered
    <3> QED BY <3>1, <3>2, Zenon
  <2> QED BY <2>2, <2>3, ZenonT(60) DEF Numbered, ChangeNumbered, StatusNumbered
<1>2. ASSUME NEW x \in Masters, MasterStep(x) PROVE Numbered'
  <2>1. out' = out /\ \A n \in Masters : master'[n].keys \in Nat
        /\ master'[n].keys >= master[n].keys
    BY <1>2, <1>t, <1>n, Grows, ZenonT(60) DEF MasterStep, MasterShape
  <2>2. ASSUME NEW m \in Masters, NEW q \in Changes(m)'
        PROVE  ChangeNumbered(q, m, out'.keySequence, master'[m].keys)
    <3>1. CASE q \in Changes(m)
      BY <1>n, <1>q, <2>1, <3>1 DEF ChangeNumbered
    <3>2. CASE q \notin Changes(m)
      <4>1. q \in net' /\ q \notin net /\ KeyChange(q) /\ q.from = m
        BY <2>2, <3>2, Zenon DEF Changes
      <4>2. /\ Changed(master[x], master'[x], x, {q})
            /\ NewChange(master[x], master'[x], x, q)
        BY <1>2, <1>t, <4>1, MasterSends, Zenon
      <4>3. x = m /\ q.auth.key = <<m, master[m].keys + 1>>
            /\ master'[m].keys = master[m].keys + 1
        BY <4>1, <4>2, Zenon DEF Changed, NewChange
      <4>4. PICK r \in net : StatusOf(r, m) /\ q.auth.num = r.auth.num
        BY <4>2, <4>3, ZenonT(60) DEF NewChange
      <4>5. q.auth.num <= out.keySequence
        BY <1>n, <1>r, <4>4 DEF StatusNumbered
      <4> QED BY <1>n, <2>1, <4>3, <4>5 DEF ChangeNumbered
    <3> QED BY <3>1, <3>2, Zenon
  <2>3. ASSUME NEW m \in Masters, NEW r \in net', StatusOf(r, m)
        PROVE  StatusNumbered(r, out'.keySequence, master'[m].keys)
    <3>1. r \in net
      BY <1>2, <1>t, <2>3, MasterSends, Outside, ZenonT(60) DEF StatusOf
    <3>2. StatusNumbered(r, out.keySequence, master[m].keys)
      BY <1>r, <2>3, <3>1, Zenon
    <3> QED BY <1>n, <2>1, <3>2 DEF StatusNumbered
  <2> QED BY <2>2, <2>3, Zenon DEF Numbered, ChangeNumbered, StatusNumbered
<1>3. CASE Reconnect
  <2>1. net' = {}
    BY <1>3, <1>t, ReconnectOut, Zenon
  <2> QED BY <2>1, Zenon DEF Numbered, Changes
<1> QED BY <1>c, <1>1, <1>2, <1>3, Zenon

(* The key the outstation holds is that of the last change it took, and    *)
(* its last status is newer than every change of that key or an older one. *)
UserKey(w, m, C, n, keys) ==
    /\ w.status \in 0..n
    /\ w.key # None => w.change # None /\ w.key = KeyOf(w.change)
    /\ w.change # None =>
         /\ KeyOf(w.change) \in Masters \X Nat /\ KeyOf(w.change)[2] <= keys
         /\ \A q \in C : q.auth.key[2] <= KeyOf(w.change)[2] =>
              w.status = 0 \/ q.auth.num < w.status

LEMMA UserKeysStep == Inv /\ [Next]_vars => UserKeys'
<1> SUFFICES ASSUME Inv, [Next]_vars PROVE UserKeys'
  BY Zenon
<1>t. TypeOK /\ Numbered /\ UserKeys
  BY Zenon DEF Inv
<1>c. OutStep \/ (\E m \in Masters : MasterStep(m)) \/ Reconnect
  BY <1>t, StepCases, Zenon
<1>n. out.keySequence \in Nat /\ \A m \in Masters : master[m].keys \in Nat
  BY <1>t, Zenon DEF TypeOK, OutShape, MasterShape
<1>q. \A m \in Masters : \A q \in Changes(m) :
        /\ q.auth.num \in Nat \ {0} /\ q.auth.num <= out.keySequence
        /\ q.auth.key \in Masters \X Nat /\ q.auth.key[2] <= master[m].keys
  BY <1>t, Zenon DEF Numbered, Changes, KeyChange
<1>u. \A m \in Masters : UserKey(out.users[m], m, Changes(m), out.keySequence, master[m].keys)
  BY <1>t, Zenon DEF UserKeys, UserKey
<1>1. ASSUME OutStep, NEW m \in Masters
      PROVE  UserKey(out'.users[m], m, Changes(m)', out'.keySequence, master'[m].keys)
  <2> DEFINE w == out.users[m]
             v == out'.users[m]
             n == out.keySequence
             k == master[m].keys
  <2>1. UserMoves(w, v, m)
    BY <1>1, <1>t, UserStep, Zenon
  <2>2. Changes(m)' \subseteq Changes(m) /\ master' = master
    BY <1>1, <1>t, OutSends, ZenonT(30) DEF Changes, OutStep
  <2>3. UserKey(w, m, Changes(m), n, k) /\ n \in Nat /\ k \in Nat
    BY <1>n, <1>u, Zenon
  <2>4. \A q \in Changes(m) : /\ q.auth.num \in Nat /\ q.auth.num <= n
                              /\ q.auth.key \in Masters \X Nat /\ q.auth.key[2] <= k
    BY <1>q, Zenon
  <2>5. CASE UserKept(w, v) /\ out'.keySequence >= out.keySequence
    <3>1. out'.keySequence \in Nat
      BY <1>1, ZenonT(60) DEF OutStep, OutShape
    <3> HIDE DEF w, v, n, k
    <3>2. UserKey(v, m, Changes(m)', out'.keySequence, k)
      BY <2>2, <2>3, <2>5, <3>1 DEF UserKey, UserKept, n
    <3> QED BY <2>2, <3>2, Zenon DEF v, k
  <2>6. CASE /\ out'.keySequence = n + 1 /\ v.status = out'.keySequence
             /\ v.change = w.change /\ v.key \in {None, w.key}
    <3> HIDE DEF w, v, n, k
    <3>1. \A q \in Changes(m)' : q.auth.num < v.status
      BY <2>2, <2>3, <2>4, <2>6
    <3>2. UserKey(v, m, Changes(m)', out'.keySequence, k)
      BY <2>3, <2>6, <3>1 DEF UserKey
    <3> QED BY <2>2, <3>2, Zenon DEF v, k
  <2>7. CASE out'.keySequence = n + 1 /\ Taken(w, v, m, out'.keySequence)
    <3> HIDE DEF w, v, n, k
    <3>1. PICK q \in Changes(m) : v.change = Raw(q) /\ v.key = q.auth.key
      BY <2>7, Zenon DEF Taken
    <3>2. KeyOf(v.change) = q.auth.key /\ v.change # None
      BY <3>1, KeyOfRaw, ZenonT(60)
    <3>3. v.status = n + 1 /\ \A d \in Changes(m)' : d.auth.num < v.status
      BY <2>2, <2>3, <2>4, <2>7 DEF Taken
    <3>4. UserKey(v, m, Changes(m)', out'.keySequence, k)
      BY <2>3, <2>4, <2>7, <3>1, <3>2, <3>3 DEF UserKey
    <3> QED BY <2>2, <3>4, Zenon DEF v, k
  <2> QED BY <2>1, <2>5, <2>6, <2>7, Zenon DEF UserMoves
<1>2. ASSUME NEW x \in Masters, MasterStep(x), NEW m \in Masters
      PROVE  UserKey(out'.users[m], m, Changes(m)', out'.keySequence, master'[m].keys)
  <2> DEFINE w == out.users[m]
  <2>1. out' = out /\ master'[m].keys \in Nat /\ master'[m].keys >= master[m].keys
    BY <1>2, <1>t, <1>n, Grows, ZenonT(60) DEF MasterStep, MasterShape
  <2>2. UserKey(w, m, Changes(m), out.keySequence, master[m].keys)
    BY <1>u, ZenonT(60)
  <2>3. ASSUME NEW q \in Changes(m)', q \notin Changes(m), w.change # None
        PROVE  ~(q.auth.key[2] <= KeyOf(w.change)[2])
    <3>1. q \in net' /\ q \notin net /\ KeyChange(q) /\ q.from = m
      BY <2>3, Zenon DEF Changes
    <3>2. /\ Changed(master[x], master'[x], x, {q})
          /\ NewChange(master[x], master'[x], x, q)
      BY <1>2, <1>t, <3>1, MasterSends, ZenonT(60)
    <3>3. q.auth.key = <<m, master[m].keys + 1>>
      BY <3>1, <3>2, Zenon DEF NewChange
    <3>4. KeyOf(w.change)[2] \in Nat /\ KeyOf(w.change)[2] <= master[m].keys
      BY <2>2, <2>3, ZenonT(60) DEF UserKey
    <3> QED BY <1>n, <3>3, <3>4
  <2>4. UserKey(w, m, Changes(m)', out.keySequence, master'[m].keys)
    <3> HIDE DEF w
    <3> QED BY <1>n, <2>1, <2>2, <2>3 DEF UserKey
  <2> QED BY <2>1, <2>4, Zenon
<1>3. ASSUME Reconnect, NEW m \in Masters
      PROVE  UserKey(out'.users[m], m, Changes(m)', out'.keySequence, master'[m].keys)
  <2>1. out'.users[m] = NoUser /\ out'.keySequence = out.keySequence
    BY <1>3, <1>t, ReconnectOut, Zenon
  <2>2. NoUser.key = None /\ NoUser.change = None /\ NoUser.status = 0
    BY Zenon DEF NoUser
  <2> QED BY <1>n, <2>1, <2>2 DEF UserKey
<1>4. \A m \in Masters :
        UserKey(out'.users[m], m, Changes(m)', out'.keySequence, master'[m].keys)
  BY <1>c, <1>1, <1>2, <1>3, ZenonT(60)
<1> QED BY <1>4, ZenonT(60) DEF UserKeys, UserKey

(* What the master holds agrees with it.                                   *)
MasterKey(u, m) ==
    /\ u.change # None => KeyOf(u.change) = <<m, u.keys>>
    /\ u.step = "change" => u.change # None
    /\ u.step \in {"status", "change"} => ~securityReady(u)
    /\ securityReady(u) => u.change # None /\ u.key = KeyOf(u.change)

Agrees(u, m) ==
    /\ MasterKey(u, m)
    /\ securityReady(u) => out.users[m].change = u.change
    /\ \A r \in net : StatusOf(r, m) /\ u.change # None /\ r.auth.mac = u.change =>
         out.users[m].change = u.change

LEMMA AgreesKept ==
    ASSUME NEW m, NEW u, Agrees(u, m), NEW v, SameChange(u, v), v.step \in {u.step, Idle},
           securityReady(v) => securityReady(u), v.key \in {None, u.key}
    PROVE  Agrees(v, m)
<1>1. securityReady(v) => v.key = u.key
  BY Zenon DEF securityReady
<1>2. v.change = u.change /\ v.keys = u.keys
  BY Zenon DEF SameChange
<1>3. MasterKey(u, m)
  BY Zenon DEF Agrees
<1>4. MasterKey(v, m)
  BY <1>1, <1>2, <1>3, Zenon DEF MasterKey, Idle
<1>5. securityReady(v) => out.users[m].change = v.change
  BY <1>2, Zenon DEF Agrees
<1>6. \A r \in net : StatusOf(r, m) /\ v.change # None /\ r.auth.mac = v.change =>
        out.users[m].change = v.change
  BY <1>2, Zenon DEF Agrees
<1> QED BY <1>4, <1>5, <1>6, Zenon DEF Agrees

LEMMA AgreesAsked ==
    ASSUME NEW m, NEW u, Agrees(u, m), NEW v, NEW s, Asked(u, v, m, s)
    PROVE  Agrees(v, m)
<1>0. MasterKey(u, m)
  BY Zenon DEF Agrees
<1>1. v.change = u.change /\ v.keys = u.keys
  BY Zenon DEF Asked, SameChange
<1>2. v.step \in Fns \cup {Idle} \/ (v.step = "status" /\ ~securityReady(v))
  BY Zenon DEF Asked
<1>3. securityReady(v) => u.change # None /\ v.key = KeyOf(u.change) /\ out.users[m].change = u.change
  <2>1. CASE SameKeys(u, v)
    <3>1. securityReady(v) = securityReady(u) /\ v.key = u.key
      BY <2>1, Zenon DEF SameKeys, securityReady
    <3> QED BY <1>0, <3>1, Zenon DEF MasterKey, Agrees
  <2>2. CASE /\ u.step = "change" /\ v.key = KeyOf(u.change)
             /\ \E r \in net : StatusOf(r, m) /\ r.auth.mac = u.change
    BY <1>0, <2>2, Zenon DEF MasterKey, Agrees
  <2> QED BY <2>1, <2>2, Zenon DEF Asked
<1>4. MasterKey(v, m)
  BY <1>0, <1>1, <1>2, <1>3, Zenon DEF MasterKey, Fns, Idle
<1>5. \A r \in net : StatusOf(r, m) /\ v.change # None /\ r.auth.mac = v.change =>
        out.users[m].change = v.change
  BY <1>1, Zenon DEF Agrees
<1> QED BY <1>1, <1>3, <1>4, <1>5, Zenon DEF Agrees

LEMMA AgreesChanged ==
    ASSUME NEW m, NEW u, u.keys \in Nat, Agrees(u, m), NEW v, NEW s, Changed(u, v, m, s),
           \A r \in net : StatusOf(r, m) /\ r.auth.mac # None => KeyOf(r.auth.mac)[2] <= u.keys
    PROVE  Agrees(v, m)
<1>1. PICK q : /\ v.change = Raw(q)
               /\ \E num : q = AuthRequest(m, u.seq, [v |-> 6, num |-> num,
                                                      key |-> <<m, u.keys + 1>>])
  BY Zenon DEF Changed
<1>2. KeyOf(v.change) = <<m, u.keys + 1>> /\ v.change # None
  <2>1. PICK num : q = AuthRequest(m, u.seq, [v |-> 6, num |-> num, key |-> <<m, u.keys + 1>>])
    BY <1>1, ZenonT(60)
  <2>3. q.auth.key = <<m, u.keys + 1>>
    BY <2>1, KeyRequested
  <2> QED BY <1>1, <2>3, KeyOfRaw, Zenon
<1>3. v.keys = u.keys + 1 /\ v.step = "change" /\ ~securityReady(v)
  BY Zenon DEF Changed, SameKeys, securityReady, MasterKey, Agrees
<1>4. MasterKey(v, m)
  BY <1>2, <1>3, Zenon DEF MasterKey
<1>5. ASSUME NEW r \in net, StatusOf(r, m) PROVE r.auth.mac # v.change
  <2>1. ~(KeyOf(v.change)[2] <= u.keys)
    BY <1>2, LaterKey, Zenon
  <2> QED BY <1>2, <1>5, <2>1, ZenonT(60)
<1> QED BY <1>3, <1>4, <1>5, Zenon DEF Agrees

LEMMA AgreesMoves ==
    ASSUME NEW m, NEW u, u.keys \in Nat, Agrees(u, m), NEW v, NEW s, Moves(u, v, m, s),
           \A r \in net : StatusOf(r, m) /\ r.auth.mac # None => KeyOf(r.auth.mac)[2] <= u.keys
    PROVE  Agrees(v, m)
<1>1. CASE Rests(u, v, s)
  BY <1>1, AgreesKept, Zenon DEF Rests, securityReady
<1>2. CASE Ends(u, v, m, s)
  BY <1>2, AgreesKept, Zenon DEF Ends, securityReady
<1>3. CASE Proven(u, v, m, s)
  BY <1>3, AgreesKept, Zenon DEF Proven
<1>4. CASE Asked(u, v, m, s)
  BY <1>4, AgreesAsked, Zenon
<1>5. CASE Changed(u, v, m, s)
  BY <1>5, AgreesChanged, ZenonT(60)
<1> QED BY <1>1, <1>2, <1>3, <1>4, <1>5, Zenon DEF Moves

LEMMA MasterKeysStep == Inv /\ [Next]_vars => MasterKeys'
<1> SUFFICES ASSUME Inv, [Next]_vars PROVE MasterKeys'
  BY Zenon
<1>t. TypeOK /\ Numbered /\ UserKeys /\ MasterKeys
  BY Zenon DEF Inv
<1>c. OutStep \/ (\E m \in Masters : MasterStep(m)) \/ Reconnect
  BY <1>t, StepCases, Zenon
<1>n. \A m \in Masters : master[m].keys \in Nat
  BY <1>t, Zenon DEF TypeOK, MasterShape
<1>k. \A m \in Masters : MasterKey(master[m], m)
  BY <1>t, Zenon DEF MasterKeys, MasterKey
<1>r. \A m \in Masters : securityReady(master[m]) => out.users[m].change = master[m].change
  BY <1>t, Zenon DEF MasterKeys
<1>e. \A m \in Masters : \A r \in net :
        StatusOf(r, m) /\ master[m].change # None /\ r.auth.mac = master[m].change =>
            out.users[m].change = master[m].change
  BY <1>t, Zenon DEF MasterKeys
<1>1. CASE OutStep
  <2>0. master' = master
    BY <1>1, Zenon DEF OutStep
  <2>1. ASSUME NEW m \in Masters, out.users[m].change = master[m].change,
               master[m].change # None
        PROVE  out'.users[m].change = master[m].change
    <3> DEFINE w == out.users[m]
    <3>1. UserMoves(w, out'.users[m], m)
      BY <1>1, <1>t, UserStep, ZenonT(60)
    <3>2. ASSUME NEW q \in Changes(m), q.auth.num = w.status PROVE FALSE
      <4>1. q.auth.num \in Nat \ {0} /\ q.auth.key[2] <= master[m].keys
        BY <1>t, ZenonT(60) DEF Numbered, Changes, KeyChange
      <4>2. KeyOf(w.change)[2] = master[m].keys
        BY <1>k, <2>1 DEF MasterKey
      <4>3. q.auth.key[2] <= KeyOf(w.change)[2] => w.status = 0 \/ q.auth.num < w.status
        BY <1>t, <2>1, Zenon DEF UserKeys
      <4> QED BY <3>2, <4>1, <4>2, <4>3
    <3> QED BY <2>1, <3>1, <3>2, Zenon DEF UserMoves, UserKept, Taken
  <2>2. ASSUME NEW m \in Masters, securityReady(master[m])
        PROVE  out'.users[m].change = master[m].change
    BY <1>k, <1>r, <2>1, <2>2, Zenon DEF MasterKey
  <2>3. ASSUME NEW m \in Masters, NEW r \in net', StatusOf(r, m), master[m].change # None,
               r.auth.mac = master[m].change
        PROVE  out'.users[m].change = master[m].change
    <3>1. CASE r \in net
      BY <1>e, <2>1, <2>3, <3>1, ZenonT(60)
    <3>2. CASE r \notin net
      BY <1>1, <1>t, <2>3, <3>2, OutSends, ZenonT(60)
    <3> QED BY <3>1, <3>2, Zenon
  <2> QED BY <1>k, <2>0, <2>2, <2>3, ZenonT(60) DEF MasterKeys, MasterKey
<1>2. ASSUME NEW x \in Masters, MasterStep(x) PROVE MasterKeys'
  <2>1. PICK s : Moves(master[x], master'[x], x, s)
    BY <1>2, Zenon DEF MasterStep
  <2>2. Agrees(master[x], x)
    BY <1>k, <1>r, <1>e, Zenon DEF Agrees
  <2>3. out' = out /\ \A m \in Masters \ {x} : master'[m] = master[m]
    BY <1>2, Zenon DEF MasterStep
  <2>4. \A m \in Masters : \A r \in net' : StatusOf(r, m) => r \in net
    <3>1. \A m \in Masters : \A r : StatusOf(r, m) => r.to # "outstation"
      BY Outside, Zenon DEF StatusOf
    <3>2. \A r \in net' : r.to # "outstation" => r \in net
      BY <1>2, <1>t, MasterSends, Zenon
    <3> QED BY <3>1, <3>2, Zenon
  <2>5. \A r \in net : StatusOf(r, x) /\ r.auth.mac # None =>
          KeyOf(r.auth.mac)[2] <= master[x].keys
    BY <1>t, Zenon DEF Numbered
  <2>6. Agrees(master'[x], x)
    BY <1>n, <2>1, <2>2, <2>5, AgreesMoves, ZenonT(60)
  <2>7. ASSUME NEW m \in Masters PROVE Agrees(master'[m], m)
    <3>1. CASE m # x
      BY <1>k, <1>r, <1>e, <2>3, <3>1, ZenonT(60) DEF Agrees
    <3> QED BY <2>6, <3>1, Zenon
  <2> QED BY <2>3, <2>4, <2>7, Zenon DEF MasterKeys, MasterKey, Agrees
<1>3. CASE Reconnect
  <2>1. net' = {}
    BY <1>3, <1>t, ReconnectOut, Zenon
  <2>2. ASSUME NEW m \in Masters PROVE MasterKey(master'[m], m) /\ ~securityReady(master'[m])
    <3>1. SameChange(master[m], master'[m]) /\ master'[m].step = Idle /\ master'[m].key = None
      BY <1>3, <1>t, ReconnectMaster, Zenon
    <3> QED BY <1>k, <3>1, Zenon DEF MasterKey, SameChange, Idle, securityReady
  <2> QED BY <2>1, <2>2, Zenon DEF MasterKeys, MasterKey
<1> QED BY <1>c, <1>1, <1>2, <1>3, Zenon

LEMMA InvNext == Inv /\ [Next]_vars => Inv'
BY TypeStep, SelectStep, NumberedStep, UserKeysStep, MasterKeysStep, Zenon DEF Inv

(* A selection is operated at most once, and as it was selected, whatever  *)
(* is lost, repeated, late or sent by another master (command.go, matches  *)
(* and onCommand).                                                         *)
THEOREM SelectionsOperateOnce == Spec => []OperatedAsSelected
<1>1. Inv => OperatedAsSelected
  BY Zenon DEF Inv
<1> QED BY <1>1, InvInit, InvNext, PTL DEF Spec

(* A master that would authenticate with its key has the key the           *)
(* outstation has, if it still has one (security.go, onKeyChange).         *)
THEOREM SessionKeysAgree == Spec => []KeysAgree
<1>1. Inv => KeysAgree
  BY Zenon DEF Inv, UserKeys, MasterKeys, KeysAgree
<1> QED BY <1>1, InvInit, InvNext, PTL DEF Spec
=============================================================================
