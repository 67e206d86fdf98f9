------------------------------ MODULE Controls ------------------------------
(***************************************************************************)
(* Controls, from the master's call to the output that moves: the          *)
(* commands of master/command.go and outstation/command.go, with the       *)
(* session keys and the challenges of master/security.go and               *)
(* outstation/security.go when the session authenticates.                  *)
(*                                                                         *)
(* Several masters command one outstation.  Fragments may be lost, delayed *)
(* past a timeout, delivered twice and out of order, as on a datagram      *)
(* channel.  A handler is one step of its session's goroutine.             *)
(*                                                                         *)
(* A message authentication code is what it covers: the key, the challenge *)
(* and the request.  A nonce is the number of the challenge it is part of. *)
(* How commands and their events are encoded is in Objects.                *)
(***************************************************************************)
EXTENDS Naturals, Sequences, FiniteSets

CONSTANTS
    Masters,        \* the masters, each with an address and a user of its own
    Points,         \* the outputs the device has
    Commands,       \* what a request may command: sequences of outputs
    Refusing,       \* the outputs whose handler refuses
    MaxControls,    \* MaxControlsPerRequest
    Methods,        \* the methods the masters' applications call
    Secure,         \* whether the sessions authenticate: the choices
    SeqModulus,     \* application sequence numbers
    MasterMessages, \* requests a master authenticates under one key
    MaxMessages,    \* requests the outstation accepts under one key
    MaxCalls,       \* bound: calls, over all masters
    Disturbances,   \* what may disturb the ordinary course
    MaxDisturbed    \* bound: how often something does

VARIABLES
    secure,  \* whether the sessions authenticate
    out,     \* the outstation's session
    master,  \* the masters' sessions
    net,     \* the fragments under way
    calls,   \* the number of calls made
    used     \* the number of disturbances so far

vars == <<secure, out, master, net, calls, used>>

(* loses: a fragment is lost; repeats: one is delivered twice; late: a     *)
(* request times out with its answer under way; expires: a selection, a    *)
(* challenge or a key does; refuses: Authorize does; drops: the connection *)
(* ends.                                                                   *)
Kinds == {"loses", "repeats", "late", "expires", "refuses", "drops"}

ASSUME ControlsAssumption ==
    /\ Disturbances \subseteq Kinds
    /\ SeqModulus \in Nat \ {0}
    /\ \A c \in Commands : c # <<>>
    /\ Secure \subseteq BOOLEAN
    /\ Methods \subseteq {"SELECT", "DIRECT_OPERATE", "DIRECT_OPERATE_NR"}
    /\ Masters \cap {"outstation", "selection", "challenge"} = {}

Spend(what) ==
    /\ what \subseteq Disturbances
    /\ used + Cardinality(what) <= MaxDisturbed
    /\ used' = used + Cardinality(what)

None == <<>>
NoAuth == [v |-> 0]
NoPending == [num |-> 0]
Idle == "idle"

----------------------------------------------------------------------------
(* Fragments.  id tells requests apart in the properties; it is not part   *)
(* of what is sent.                                                        *)
Request(m, fn, seq, objects, id) ==
    [to |-> "outstation", from |-> m, fn |-> fn, seq |-> seq, objects |-> objects,
     auth |-> NoAuth, id |-> id]
AuthRequest(m, seq, auth) ==
    [Request(m, "AUTH_REQUEST", seq, <<>>, None) EXCEPT !.auth = auth]
Response(q, statuses) ==
    [to |-> q.from, fn |-> "RESPONSE", seq |-> q.seq, statuses |-> statuses, auth |-> NoAuth]
AuthResponse(q, auth) == [Response(q, <<>>) EXCEPT !.fn = "AUTH_RESPONSE", !.auth = auth]

(* The octets of a request.                                                *)
Raw(q) == <<q.from, q.fn, q.seq, q.objects, q.auth>>

AuthError == [v |-> 7]
KeyStatus(num, valid, mac) == [v |-> 5, num |-> num, valid |-> valid, mac |-> mac]
Challenge(num) == [v |-> 1, num |-> num]
MAC(key, challenge, request) == <<key, challenge, request>>

----------------------------------------------------------------------------
(* The outstation.  Its handlers take the session to the next one; reply   *)
(* holds what is sent.  log records the selections it made and the         *)
(* controls that reached the handler.                                      *)
NoSelection == [active |-> FALSE, objects |-> <<>>, seq |-> 0, live |-> FALSE]
NoUser == [key |-> None, messages |-> 0, change |-> None, status |-> 0]

Respond(o, q, statuses) ==
    [o EXCEPT !.reply = {Response(q, statuses)}, !.lastResp = statuses]

nextSeq(s) == (s + 1) % SeqModulus

matches(sel, q) ==
    IF ~sel.active THEN "NO_SELECT"
    ELSE IF ~sel.live THEN "TIMEOUT"
    ELSE IF q.seq # nextSeq(sel.seq) \/ q.objects # sel.objects THEN "NO_SELECT"
    ELSE "SUCCESS"

controlExists(p) == p \in Points

(* What the application's handler answers.                                 *)
runCommand(p) == IF p \in Refusing THEN "BLOCKED" ELSE "SUCCESS"

(* The status of each command, in the order of the request.                *)
executeCommands(q, selectStatus) ==
    [i \in DOMAIN q.objects |->
        IF ~controlExists(q.objects[i]) THEN "NOT_SUPPORTED"
        ELSE IF i > MaxControls THEN "TOO_MANY_OPS"
        ELSE IF selectStatus # "SUCCESS" THEN selectStatus
        ELSE runCommand(q.objects[i])]

AllOK(statuses) == DOMAIN statuses # {} /\ \A i \in DOMAIN statuses : statuses[i] = "SUCCESS"

(* A control that reached the handler is recorded with its answer.         *)
recordCommandEvent(o, q, statuses, challenge) ==
    LET reached == {i \in DOMAIN statuses : statuses[i] \in {"SUCCESS", "BLOCKED"}}
    IN  IF reached = {} THEN o
        ELSE [o EXCEPT !.log = Append(@,
                 [id |-> q.id, from |-> q.from, fn |-> q.fn, objects |-> q.objects,
                  moved |-> {q.objects[i] : i \in {j \in reached : statuses[j] = "SUCCESS"}},
                  challenge |-> challenge])]

onSelect(o, q) ==
    LET statuses == executeCommands(q, "SUCCESS")
        ok == \A i \in DOMAIN statuses : statuses[i] = "SUCCESS"
        o1 == IF ok
              THEN [o EXCEPT !.sel = [active |-> TRUE, objects |-> q.objects, seq |-> q.seq,
                                      live |-> TRUE],
                             !.log = Append(@, [id |-> q.id, from |-> q.from, fn |-> q.fn,
                                                objects |-> q.objects, moved |-> {},
                                                challenge |-> 0])]
              ELSE [o EXCEPT !.sel = NoSelection]
    IN  Respond(o1, q, statuses)

(* A variant with a defect: an operate leaves the selection.               *)
OnCommandKeepsSelection(o, q, challenge) ==
    IF q.fn = "SELECT" THEN onSelect(o, q)
    ELSE LET statuses == executeCommands(q,
                 IF q.fn = "OPERATE" THEN matches(o.sel, q) ELSE "SUCCESS")
             o1 == recordCommandEvent(o, q, statuses, challenge)
         IN  IF q.fn = "DIRECT_OPERATE_NR" THEN o1 ELSE Respond(o1, q, statuses)

(* An operate uses the selection up, whatever comes of it.                 *)
onCommand(o, q, challenge) ==
    IF q.fn = "SELECT" THEN onSelect(o, q)
    ELSE LET statuses == executeCommands(q,
                 IF q.fn = "OPERATE" THEN matches(o.sel, q) ELSE "SUCCESS")
             o1 == recordCommandEvent(
                       IF q.fn = "OPERATE" THEN [o EXCEPT !.sel = NoSelection] ELSE o,
                       q, statuses, challenge)
         IN  IF q.fn = "DIRECT_OPERATE_NR" THEN o1 ELSE Respond(o1, q, statuses)

isRepeatRequest(o, q) == o.lastReq = Raw(q)

rememberRequest(o, q) == [o EXCEPT !.lastReq = Raw(q), !.lastResp = None]

replayResponse(o, q) == IF DOMAIN o.lastResp = {} THEN o ELSE Respond(o, q, o.lastResp)

(* What handle does with a request that needs no authentication any more.  *)
Execute(o, q, challenge) ==
    IF isRepeatRequest(o, q) THEN replayResponse(o, q)
    ELSE onCommand(rememberRequest(o, q), q, challenge)

----------------------------------------------------------------------------
(* Authentication at the outstation.                                       *)
sendAuthentication(o, q, auth) == [o EXCEPT !.reply = {AuthResponse(q, auth)}]

authenticationError(o, q) == sendAuthentication(o, q, AuthError)

securityKeyValid(u) == u.key # None /\ u.messages < MaxMessages

(* expireSecurity: a key that has been used up is dropped.                 *)
expireSecurity(o) ==
    [o EXCEPT !.users = [m \in Masters |->
        IF @[m].messages >= MaxMessages THEN [@[m] EXCEPT !.key = None] ELSE @[m]]]

challengeRequest(o, q) ==
    IF ~securityKeyValid(o.users[q.from]) THEN authenticationError(o, q)
    ELSE LET num == o.sequence + 1
         IN  [sendAuthentication(o, q, Challenge(num)) EXCEPT
                 !.sequence = num, !.pending = [req |-> q, num |-> num]]

(* The status carries a challenge for one key change, and with keys it     *)
(* proves it has them.                                                     *)
sendKeyStatus(o, q) ==
    LET num == o.keySequence + 1
        u == o.users[q.from]
    IN  [sendAuthentication(o, q, KeyStatus(num, securityKeyValid(u), u.change)) EXCEPT
             !.keySequence = num, !.users[q.from].status = num]

(* A variant with a defect: any key change is taken.                       *)
OnKeyChangeAnyStatus(o, q) ==
    sendKeyStatus([o EXCEPT !.pending = NoPending,
                            !.users[q.from] = [key |-> q.auth.key, messages |-> 0,
                                               change |-> Raw(q), status |-> 0]], q)

(* The status challenge is used up, also by a change that fails.           *)
onKeyChange(o, q) ==
    LET u == o.users[q.from]
        o1 == [o EXCEPT !.users[q.from].status = 0]
    IN  IF u.status # q.auth.num THEN authenticationError(o1, q)
        ELSE sendKeyStatus([o1 EXCEPT !.pending = NoPending,
                                      !.users[q.from] = [key |-> q.auth.key, messages |-> 0,
                                                         change |-> Raw(q), status |-> 0]], q)

(* A variant with a defect: an answer to any challenge will do.            *)
OnReplyAnyChallenge(o, q, refused) ==
    LET o1 == [o EXCEPT !.pending = NoPending]
    IN  IF o.pending = NoPending \/ ~securityKeyValid(o.users[q.from]) \/ refused
        THEN authenticationError(o1, q)
        ELSE Execute([o1 EXCEPT !.users[q.from].messages = @ + 1], o.pending.req, o.pending.num)

(* A reply uses the challenge up; the request it answers for is carried    *)
(* out if it is valid, unless Authorize refuses the user the function.     *)
onReply(o, q, refused) ==
    LET p == o.pending
        u == o.users[q.from]
        o1 == [o EXCEPT !.pending = NoPending]
    IN  IF p = NoPending THEN authenticationError(o, q)
        ELSE IF \/ q.auth.num # p.num \/ q.from # p.req.from \/ ~securityKeyValid(u)
                \/ q.auth.mac # MAC(u.key, p.num, Raw(p.req))
                \/ refused
             THEN authenticationError(o1, q)
             ELSE Execute([o1 EXCEPT !.users[q.from].messages = @ + 1], p.req, p.num)

onAuthentication(o, q, refused) ==
    IF ~secure THEN Respond(o, q, <<>>)
    ELSE CASE q.auth.v = 4 -> sendKeyStatus(o, q)
           [] q.auth.v = 6 -> onKeyChange(o, q)
           [] q.auth.v = 2 -> onReply(o, q, refused)

(* Every command is critical.                                              *)
handle(o, q, refused) ==
    LET o1 == IF secure THEN expireSecurity(o) ELSE o
    IN  IF q.fn = "AUTH_REQUEST" THEN onAuthentication(o1, q, refused)
        ELSE IF secure THEN challengeRequest(o1, q)
        ELSE Execute(o1, q, 0)

resetSecurity(o) == [o EXCEPT !.users = [m \in Masters |-> NoUser], !.pending = NoPending]

----------------------------------------------------------------------------
(* A master.  step is the request in flight, next the one that waits for   *)
(* the keys; outcomes holds what its calls returned, answered the          *)
(* challenges it answered, with the requests.                              *)
NewMaster ==
    [step |-> Idle, next |-> Idle, objects |-> <<>>, seq |-> 0, id |-> 0, key |-> None,
     messages |-> 0, keys |-> 0, change |-> None, sent |-> {}, answered |-> {}, outcomes |-> <<>>]

securityReady(u) == u.key # None /\ u.messages < MasterMessages

(* sendTask: the keys first, if there are none.  They take no number.      *)
sendTask(u, m, fn) ==
    IF secure /\ ~securityReady(u)
    THEN [u EXCEPT !.sent = {AuthRequest(m, u.seq, [v |-> 4])}, !.step = "status", !.next = fn]
    ELSE LET seq == nextSeq(u.seq)
             u1 == [u EXCEPT !.sent = {Request(m, fn, seq, u.objects, <<m, u.id + 1>>)},
                             !.seq = seq, !.id = @ + 1, !.step = fn]
         IN  IF fn = "DIRECT_OPERATE_NR" /\ ~secure THEN [u1 EXCEPT !.step = Idle] ELSE u1

finish(u, m, ok) ==
    [u EXCEPT !.step = Idle,
              !.outcomes = Append(@, [id |-> <<m, u.id>>, fn |-> u.step, objects |-> u.objects,
                                      ok |-> ok])]

(* A variant with a defect: one command that worked is enough.             *)
OKIfAny(statuses) == \E i \in DOMAIN statuses : statuses[i] = "SUCCESS"

(* CommandResult.OK.                                                       *)
OK(statuses) == AllOK(statuses)

Answers(u, r) == u.step # Idle /\ r.seq = u.seq

(* A step of the key exchange takes nothing but a key status.  The change  *)
(* is over when the outstation proves that it has these keys.              *)
onKeyStatus(u, m, r) ==
    IF r.fn # "AUTH_RESPONSE" \/ r.auth.v # 5 THEN finish(u, m, FALSE)
    ELSE IF u.step = "status"
    THEN LET q == AuthRequest(m, u.seq, [v |-> 6, num |-> r.auth.num,
                                         key |-> <<m, u.keys + 1>>])
         IN  [u EXCEPT !.step = "change", !.keys = @ + 1, !.change = Raw(q), !.sent = {q}]
    ELSE IF ~r.auth.valid \/ r.auth.mac # u.change THEN finish(u, m, FALSE)
    ELSE sendTask([u EXCEPT !.key = u.change[5].key, !.messages = 0], m, u.next)

onAuthenticationResponse(u, m, r) ==
    IF u.step \in {"status", "change"} THEN onKeyStatus(u, m, r)
    ELSE IF r.auth.v # 1 \/ ~securityReady(u) THEN finish(u, m, FALSE)
    ELSE LET lastRequest == Raw(Request(m, u.step, u.seq, u.objects, None))
             reply == [v |-> 2, num |-> r.auth.num, mac |-> MAC(u.key, r.auth.num, lastRequest)]
             u1 == [u EXCEPT !.sent = {AuthRequest(m, u.seq, reply)}, !.messages = @ + 1,
                            !.answered = @ \cup {<<r.auth.num, <<m, u.id>>>>}]
         IN  IF u.step = "DIRECT_OPERATE_NR" THEN [u1 EXCEPT !.step = Idle] ELSE u1

(* A select that was accepted is followed by its operate.                  *)
onSolicited(u, m, r) ==
    IF u.step \in {"status", "change"} THEN onKeyStatus(u, m, r)
    ELSE IF u.step = "SELECT" /\ OK(r.statuses) THEN sendTask(u, m, "OPERATE")
    ELSE finish(u, m, OK(r.statuses))

onFragment(u, m, r) ==
    IF ~Answers(u, r) THEN u
    ELSE IF r.fn = "AUTH_RESPONSE" THEN onAuthenticationResponse(u, m, r)
    ELSE onSolicited(u, m, r)

----------------------------------------------------------------------------
Init ==
    /\ secure \in Secure
    /\ out = [sel |-> NoSelection, lastReq |-> None, lastResp |-> None, pending |-> NoPending,
              sequence |-> 0, keySequence |-> 0, users |-> [m \in Masters |-> NoUser],
              reply |-> {}, log |-> <<>>]
    /\ master = [m \in Masters |-> NewMaster]
    /\ net = {}
    /\ calls = 0
    /\ used = 0

Puts(m, u) == master' = [master EXCEPT ![m] = [u EXCEPT !.sent = {}]]

Call(m, fn, objects) ==
    /\ master[m].step = Idle
    /\ calls < MaxCalls
    /\ calls' = calls + 1
    /\ LET u == sendTask([master[m] EXCEPT !.objects = objects], m, fn)
       IN  Puts(m, u) /\ net' = net \cup u.sent
    /\ UNCHANGED <<secure, out, used>>

Handle(q) ==
    /\ q.to = "outstation"
    /\ \E repeat, refused \in BOOLEAN :
         LET o == handle(out, q, refused)
         IN  /\ refused => secure /\ q.fn = "AUTH_REQUEST" /\ q.auth.v = 2
             /\ Spend((IF repeat THEN {"repeats"} ELSE {}) \cup (IF refused THEN {"refuses"} ELSE {}))
             /\ out' = [o EXCEPT !.reply = {}]
             /\ net' = (IF repeat THEN net ELSE net \ {q}) \cup o.reply
    /\ UNCHANGED <<secure, master, calls>>

Receive(r) ==
    /\ r.to \in Masters
    /\ LET u == onFragment(master[r.to], r.to, r)
       IN  /\ Puts(r.to, u)
           /\ \/ UNCHANGED used /\ net' = (net \ {r}) \cup u.sent
              \/ Spend({"repeats"}) /\ net' = net \cup u.sent
    /\ UNCHANGED <<secure, out, calls>>

Lose(msg) ==
    /\ Spend({"loses"})
    /\ net' = net \ {msg}
    /\ UNCHANGED <<secure, out, master, calls>>

(* checkTimeout: nothing is coming any more, or the answer is late.        *)
checkTimeout(m) ==
    /\ master[m].step # Idle
    /\ IF \E msg \in net : m \in {msg.to} \cup (IF msg.to = "outstation" THEN {msg.from} ELSE {})
       THEN Spend({"late"}) ELSE UNCHANGED used
    /\ Puts(m, finish(master[m], m, FALSE))
    /\ UNCHANGED <<secure, out, net, calls>>

(* Time passes: a selection, a challenge, a status challenge or a key is   *)
(* out of date.                                                            *)
Expire(what) ==
    /\ Spend({"expires"})
    /\ \/ what = "selection" /\ out.sel.active /\ out' = [out EXCEPT !.sel.live = FALSE]
       \/ what = "challenge" /\ out.pending # NoPending /\ out' = [out EXCEPT !.pending = NoPending]
       \/ /\ what \in Masters
          /\ out.users[what].status # 0 \/ out.users[what].key # None
          /\ out' = [out EXCEPT !.users[what].status = 0, !.users[what].key = None]
    /\ UNCHANGED <<secure, master, net, calls>>

MasterKeyExpires(m) ==
    /\ master[m].key # None
    /\ Spend({"expires"})
    /\ master' = [master EXCEPT ![m].key = None]
    /\ UNCHANGED <<secure, out, net, calls>>

(* The line goes down and comes up again: both ends forget their keys and  *)
(* the last request, and the outstation keeps its selection.               *)
Reconnect ==
    /\ Spend({"drops"})
    /\ net' = {}
    /\ out' = [resetSecurity(out) EXCEPT !.lastReq = None]
    /\ master' = [m \in Masters |->
           LET u == [master[m] EXCEPT !.key = None, !.messages = 0]
           IN  IF u.step = Idle THEN u ELSE finish(u, m, FALSE)]
    /\ UNCHANGED <<secure, calls>>

Next ==
    \/ \E m \in Masters :
         \/ checkTimeout(m) \/ MasterKeyExpires(m)
         \/ \E fn \in Methods, objects \in Commands : Call(m, fn, objects)
    \/ \E msg \in net : Handle(msg) \/ Receive(msg) \/ Lose(msg)
    \/ \E what \in Masters \cup {"selection", "challenge"} : Expire(what)
    \/ Reconnect

Spec == Init /\ [][Next]_vars

----------------------------------------------------------------------------
(* A selection is operated at most once, and as it was selected: whatever  *)
(* is repeated, late or sent by another master, an OPERATE reaches the     *)
(* handler only when a SELECT of the same objects was accepted before it,  *)
(* with no other SELECT or OPERATE carried out in between (command.go,     *)
(* matches and onCommand).                                                 *)
SelectedAt(k, objects, n) ==
    /\ out.log[k].fn = "SELECT" /\ out.log[k].objects = objects
    /\ \A j \in (k + 1)..n : out.log[j].fn \notin {"SELECT", "OPERATE"}
OperatedAsSelected ==
    \A i \in DOMAIN out.log :
        out.log[i].fn = "OPERATE" => \E k \in 1..(i - 1) : SelectedAt(k, out.log[i].objects, i - 1)

(* A call that returns success means that the outstation carried out the   *)
(* request of this call, and that every output it names moved (master,     *)
(* CommandResult.OK: "treating that as success would tell an operator a    *)
(* breaker operated when it did not").                                     *)
SuccessMeansMoved ==
    \A m \in Masters : \A i \in DOMAIN master[m].outcomes :
        LET c == master[m].outcomes[i]
        IN  c.ok => \E k \in DOMAIN out.log :
                       /\ out.log[k].id = c.id
                       /\ out.log[k].moved = {c.objects[j] : j \in DOMAIN c.objects}

(* In a session that authenticates, what moves an output is a request      *)
(* whose master answered the challenge to it, and a challenge is good for  *)
(* one: no reply, repeated, late or for another request, carries out a     *)
(* second (security.go, onAuthentication).                                 *)
ControlsMade == {i \in DOMAIN out.log : out.log[i].fn # "SELECT"}
OneControlPerChallenge ==
    secure => \A i \in ControlsMade :
        /\ <<out.log[i].challenge, out.log[i].id>> \in master[out.log[i].from].answered
        /\ \A k \in ControlsMade \ {i} : out.log[i].challenge # out.log[k].challenge

(* A master that would authenticate with its session key has the key the   *)
(* outstation has, if it still has one: a key change repeated or late does *)
(* not bring an old key back (security.go: "status challenges are          *)
(* single-use, including failures").                                       *)
KeysAgree ==
    \A m \in Masters :
        securityReady(master[m]) => out.users[m].key \in {None, master[m].key}

(* "The operate must be the request immediately after the select"          *)
(* (outstation/command.go, matches): what is operated was selected by the  *)
(* master that operates it.                                                *)
OperatesOwnSelect ==
    \A i \in DOMAIN out.log :
        out.log[i].fn = "OPERATE" =>
            LET selects == {k \in 1..(i - 1) : out.log[k].fn = "SELECT"}
            IN  out.log[CHOOSE k \in selects : \A j \in selects : j <= k].from = out.log[i].from
=============================================================================
