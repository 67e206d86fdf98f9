----------------------------- MODULE Outstation -----------------------------
(***************************************************************************)
(* The outstation session (outstation/session.go and unsolicited.go):      *)
(* what its goroutine does with a request, a confirmation, a tick of its   *)
(* 50 ms timer, a wake-up, and the start and the end of a connection.      *)
(*                                                                         *)
(* All protocol state is owned by that one goroutine, so each of those is  *)
(* one atomic step; within it the handlers run one after the other.  The   *)
(* session is a record and a handler an operator from the record before    *)
(* the call to the record after it.  Field "out" collects the fragments    *)
(* handed to the link during the step and "failed" that a send returned an *)
(* error, which makes serve return.                                        *)
(*                                                                         *)
(* Abstractions.  A body is the set of seq numbers of the events it        *)
(* carries.  A deadline is an input of the tick: it has passed or it has   *)
(* not.  The request error bits of the IIN are one member "ERR"; NEED_TIME *)
(* and the application's own indications are left out.  The link layer is  *)
(* the single bit linkBusy (stack.Busy), always FALSE without link         *)
(* confirms.                                                               *)
(***************************************************************************)
EXTENDS EventBuffer, Sequences, SequencesExt

CONSTANTS
    SeqModulus,          \* app.SeqModulus, 16 in the code
    MaxRetries           \* UnsolicitedConfig.MaxRetries

ASSUME OutstationAssumption ==
    /\ Class \subseteq 1..3
    /\ SeqModulus \in Nat \ {0, 1}
    /\ MaxRetries \in Nat

(* The rest of the configuration: the events one fragment of MaxTxFragment *)
(* octets holds, UnsolicitedConfig.Enabled and Config.UseLinkConfirms.     *)
Config == [fragmentCap : Nat \ {0}, unsolicited : BOOLEAN, linkConfirms : BOOLEAN]

(* The limit pollUnsolicited passes to Select.                             *)
UnsolLimit == 64

----------------------------------------------------------------------------
(* Requests.  "OTHER" stands for every request that is refused after it    *)
(* has been taken for a new request (an unknown function, missing          *)
(* objects), "NR" for one executed without a reply.  static is the number  *)
(* of fragments the static data of a read needs after its events, bad says *)
(* that it also names an object the device does not have, and malformed    *)
(* that its object section does not parse.                                 *)
Request ==
    [fn : {"READ", "WRITE", "ENABLE", "DISABLE", "COLD", "WARM", "OTHER", "NR"},
     seq : 0..(SeqModulus - 1), classes : SUBSET Class, static : Nat,
     bad : BOOLEAN, malformed : BOOLEAN, bcast : {"no", "optional", "mandatory"}]

ConfirmFragment == [fn : {"CONFIRM"}, seq : 0..(SeqModulus - 1), uns : BOOLEAN]

NoRequest == [fn |-> "NONE"]

ClassBit(c) == <<"CLASS1", "CLASS2", "CLASS3">>[c]

Indication ==
    {"RESTART", "BROADCAST", "ERR", "OVERFLOW"} \cup {ClassBit(c) : c \in Class}

(* A response fragment.  drops, req and left are history: the buffer's     *)
(* drop count when the fragment was built, the request it answers, and     *)
(* whether an error of another request was left to report then.            *)
Response ==
    [uns : BOOLEAN, fir : BOOLEAN, fin : BOOLEAN, con : BOOLEAN,
     seq : 0..(SeqModulus - 1), iin : SUBSET Indication, body : SUBSET Nat,
     drops : Nat, req : Request \cup {NoRequest}, left : BOOLEAN]

unsolReset ==
    [seq |-> 0, nullSent |-> FALSE, nullConfirmed |-> FALSE,
     awaiting |-> FALSE, awaitSeq |-> 0, retries |-> 0,
     lastBody |-> {}, retained |-> FALSE, paused |-> FALSE]

NewSession(cfg) ==
    [cfg |-> cfg, connected |-> FALSE, buf |-> NewEventBuffer, updates |-> <<>>,
     restartPending |-> FALSE, iin |-> {"RESTART"}, bcastConfirm |-> FALSE,
     awaitingConfirm |-> FALSE, confirmSeq |-> 0,
     pendingBodies |-> <<>>, pendingIndex |-> 0, pendingSeq |-> 0,
     pendingHasEvents |-> FALSE, pendingReq |-> NoRequest,
     lastReq |-> NoRequest, lastRespBodies |-> <<>>, lastRespEvents |-> FALSE,
     lastRespErrors |-> {},
     unsol |-> unsolReset, unsolClasses |-> {}, deferredRead |-> NoRequest,
     restartUntil |-> FALSE, linkBusy |-> FALSE, out |-> <<>>, failed |-> FALSE,
     left |-> FALSE]

----------------------------------------------------------------------------
(* Sending.  stack.Send and SendTo refuse a fragment while one is in       *)
(* flight.                                                                 *)
Send(s, m) ==
    IF s.linkBusy
    THEN [s EXCEPT !.failed = TRUE]
    ELSE [s EXCEPT !.out = Append(@, m), !.linkBusy = s.cfg.linkConfirms]

currentIIN(s) ==
    s.iin \cup {ClassBit(c) : c \in Classes(s.buf)}
          \cup (IF s.buf.overflow THEN {"OVERFLOW"} ELSE {})

(* History: s is about to lose, or never has, a response to report its     *)
(* error indications with.                                                 *)
Leave(s) == [s EXCEPT !.left = @ \/ "ERR" \in s.iin]

(* A variant with a defect: the error indications outlive their response.  *)
FinishKeepsErrors(s) ==
    [s EXCEPT !.pendingBodies = <<>>,
              !.pendingIndex = 0,
              !.buf = IF s.pendingHasEvents THEN Confirm(@) ELSE @,
              !.iin = @ \ {"BROADCAST"},
              !.left = FALSE]

finishResponse(s) ==
    [s EXCEPT !.pendingBodies = <<>>,
              !.pendingIndex = 0,
              !.buf = IF s.pendingHasEvents THEN Confirm(@) ELSE @,
              !.iin = @ \ {"BROADCAST", "ERR"},
              !.left = FALSE]

(* Intermediate fragments are confirmed, and the last one when the         *)
(* response carries events or reports a broadcast that asks for it.  The   *)
(* variant with a defect drops the events at transmission.                 *)
NeedConfirmForPacing(s, last) ==
    ~last \/ ("BROADCAST" \in s.iin /\ s.bcastConfirm)

needConfirm(s, last) ==
    ~last \/ s.pendingHasEvents \/ ("BROADCAST" \in s.iin /\ s.bcastConfirm)

(* The next fragment of the response in progress goes out unless a         *)
(* confirmation or the link holds it back.                                 *)
advanceFragment(s) ==
    LET i    == s.pendingIndex
        last == i = Len(s.pendingBodies) - 1
        need == needConfirm(s, last)
        seq  == (s.pendingSeq + i) % SeqModulus
        sent == [Send(s, [uns |-> FALSE, fir |-> i = 0, fin |-> last, con |-> need,
                          seq |-> seq, iin |-> currentIIN(s),
                          body |-> s.pendingBodies[i + 1],
                          drops |-> s.buf.drops, req |-> s.pendingReq,
                          left |-> s.left])
                 EXCEPT !.pendingIndex = i + 1]
    IN  IF need
        THEN [sent EXCEPT !.awaitingConfirm = TRUE, !.confirmSeq = seq]
        ELSE finishResponse(sent)

advanceResponse(s) ==
    CASE s.pendingBodies = <<>>                   -> s
      [] s.awaitingConfirm \/ s.linkBusy          -> s
      [] s.pendingIndex >= Len(s.pendingBodies)   -> finishResponse(s)
      [] OTHER                                    -> advanceFragment(s)

sendFragments(s, r, bodies, hasEvents) ==
    IF r.bcast # "no"
    THEN Leave(s)
    ELSE advanceResponse(
           [s EXCEPT !.pendingBodies = bodies, !.pendingIndex = 0,
                     !.pendingSeq = r.seq, !.pendingHasEvents = hasEvents,
                     !.pendingReq = r,
                     !.lastRespBodies = bodies, !.lastRespEvents = hasEvents,
                     !.lastRespErrors = s.iin \cap {"ERR"}])

respond(s, r) == sendFragments(s, r, <<{}>>, FALSE)

refuse(s, r) == respond([s EXCEPT !.iin = @ \cup {"ERR"}], r)

(* A variant with a defect: the abandoned response's events stay selected. *)
AbandonKeepsSelection(s) ==
    IF s.pendingBodies = <<>>
    THEN s
    ELSE [s EXCEPT !.awaitingConfirm = FALSE, !.pendingBodies = <<>>,
                   !.pendingIndex = 0]

abandonResponse(s) ==
    IF s.pendingBodies = <<>>
    THEN s
    ELSE [Leave(s) EXCEPT !.buf = IF s.pendingHasEvents THEN Unselect(@) ELSE @,
                   !.awaitingConfirm = FALSE,
                   !.pendingBodies = <<>>,
                   !.pendingIndex = 0]

----------------------------------------------------------------------------
(* Repeated requests.  lastReq is the fragment itself, and NoRequest when  *)
(* lastReqValid is false.                                                  *)
(* The variant with a defect runs a repeated request again.                *)
NeverRepeat(s, r) == FALSE

isRepeatRequest(s, r) == s.lastReq = r

rememberRequest(s, r) ==
    [s EXCEPT !.lastReq = r, !.lastRespBodies = <<>>,
              !.lastRespEvents = FALSE, !.lastRespErrors = {}]

replayResponse(s, r) ==
    IF r.bcast # "no" \/ s.lastRespBodies = <<>>
    THEN s
    ELSE sendFragments(
           Leave([s EXCEPT !.awaitingConfirm = FALSE, !.pendingBodies = <<>>,
                           !.pendingIndex = 0, !.iin = @ \cup s.lastRespErrors]),
           r, s.lastRespBodies, s.lastRespEvents)

----------------------------------------------------------------------------
(* Reads.  The events are selected class by class in the order the request *)
(* names the classes, which for every request the master builds is 1, 2,   *)
(* 3; they go first and the static data after them.                        *)
ClassOrder == SetToSortSeq(Class, <)

InOrder(S) == SetToSortSeq(S, <)

selectForRead(b, classes) ==
    FoldLeft(LAMBDA acc, c :
               IF c \notin classes THEN acc
               ELSE [buf |-> Select(acc.buf, {c}, MaxEvents),
                     ids |-> acc.ids \o InOrder(Seqs(Matching(acc.buf, {c})))],
             [buf |-> b, ids |-> <<>>], ClassOrder)

(* responseBuilder: events in order, cap to a fragment.                    *)
Fragments(ids, cap) ==
    [i \in 1..((Len(ids) + cap - 1) \div cap) |->
       {ids[j] : j \in {k \in DOMAIN ids : (k - 1) \div cap = i - 1}}]

Unsendable(b) == Seqs({e \in b.events : ~e.sendable})

onRead(s, r) ==
    LET picked == selectForRead(s.buf, r.classes)
        unsent == ToSet(picked.ids) \cap Unsendable(picked.buf)
        sent   == SelectSeq(picked.ids, LAMBDA id : id \notin unsent)
        bodies == Fragments(sent, s.cfg.fragmentCap) \o [i \in 1..r.static |-> {}]
    IN  sendFragments(
          [s EXCEPT !.buf = Discard(picked.buf, unsent),
                    !.iin = IF r.bad THEN @ \cup {"ERR"} ELSE @],
          r, IF bodies = <<>> THEN <<{}>> ELSE bodies, sent # <<>>)

(* A write of group 80 index 7, which clears the restart indication.       *)
onWrite(s, r) == respond([s EXCEPT !.iin = @ \ {"RESTART"}], r)

onUnsolicitedControl(s, r) ==
    IF ~s.cfg.unsolicited
    THEN refuse(s, r)
    ELSE respond([s EXCEPT !.unsolClasses = IF r.fn = "ENABLE"
                                            THEN @ \cup r.classes
                                            ELSE @ \ r.classes], r)

(* restartUntil says a restart is still under way: the application asks    *)
(* for a delay that outlasts the next requests.                            *)
onRestart(s, r) ==
    IF s.restartUntil
    THEN refuse(s, r)
    ELSE respond([s EXCEPT !.buf = IF r.fn = "COLD" THEN Reset(@) ELSE @,
                           !.iin = @ \cup {"RESTART"},
                           !.restartUntil = TRUE], r)

----------------------------------------------------------------------------
(* Confirmations.                                                          *)
onConfirm(s, r) ==
    LET heard == [s EXCEPT !.awaitingConfirm = FALSE]
    IN  CASE ~s.awaitingConfirm \/ r.seq # s.confirmSeq -> s
          [] s.pendingIndex >= Len(s.pendingBodies)     -> finishResponse(heard)
          [] OTHER                                      -> heard

onUnsolicitedConfirm(s, r) ==
    IF ~s.unsol.awaiting \/ r.seq # s.unsol.awaitSeq
    THEN s
    ELSE [s EXCEPT !.unsol.awaiting = FALSE, !.unsol.retries = 0,
                   !.unsol.retained = FALSE, !.unsol.lastBody = {},
                   !.unsol.nullConfirmed = TRUE,
                   !.buf = IF s.unsol.nullConfirmed THEN Confirm(@) ELSE @]

----------------------------------------------------------------------------
(* Requests, in the order handleAuthenticated looks at them.               *)
(* The variant with a defect answers a read at once.                       *)
NeverDefers(s, r) == FALSE

defersRead(s, r) == s.unsol.awaiting /\ r.fn = "READ" /\ r.bcast = "no"

discardsDeferred(s, r) == s.unsol.awaiting /\ r.bcast = "no"

noteBroadcast(s, r) ==
    IF r.bcast = "no"
    THEN s
    ELSE [s EXCEPT !.iin = @ \cup {"BROADCAST"},
                   !.bcastConfirm = r.bcast = "mandatory"]

dispatch(s, r) ==
    CASE r.fn = "READ"                  -> onRead(s, r)
      [] r.fn = "WRITE"                 -> onWrite(s, r)
      [] r.fn \in {"ENABLE", "DISABLE"} -> onUnsolicitedControl(s, r)
      [] r.fn \in {"COLD", "WARM"}      -> onRestart(s, r)
      [] r.fn = "OTHER"                 -> refuse(s, r)
      [] r.fn = "NR"                    -> s

(* A malformed request is refused without being remembered and without     *)
(* abandoning the response in progress.                                    *)
rejectMalformed(s, r) ==
    LET noted == [s EXCEPT !.iin = @ \cup {"ERR"}]
    IN  IF r.fn = "NR" \/ r.bcast # "no" THEN Leave(noted) ELSE respond(noted, r)

handleRequest(s, r) ==
    CASE r.malformed           -> rejectMalformed(s, r)
      [] isRepeatRequest(s, r) -> replayResponse(s, r)
      [] OTHER ->
           dispatch(noteBroadcast(abandonResponse(rememberRequest(s, r)), r), r)

handle(s, r) ==
    CASE s.failed          -> s
      [] r.fn = "CONFIRM"  -> IF r.uns THEN onUnsolicitedConfirm(s, r)
                                       ELSE onConfirm(s, r)
      [] defersRead(s, r)  -> [s EXCEPT !.deferredRead = r]
      [] OTHER -> handleRequest(
                    IF discardsDeferred(s, r)
                    THEN [s EXCEPT !.deferredRead = NoRequest] ELSE s, r)

resumeDeferredRead(s) ==
    IF s.deferredRead = NoRequest \/ s.unsol.awaiting \/ s.failed
    THEN s
    ELSE advanceResponse(handle([s EXCEPT !.deferredRead = NoRequest],
                                s.deferredRead))

----------------------------------------------------------------------------
(* Unsolicited responses.                                                  *)
unsolicitedFragment(s, body) ==
    [uns |-> TRUE, fir |-> TRUE, fin |-> TRUE, con |-> TRUE,
     seq |-> s.unsol.seq, iin |-> currentIIN(s), body |-> body,
     drops |-> s.buf.drops, req |-> NoRequest, left |-> s.left]

retryUnsolicited(s) ==
    LET sent == Send(s, unsolicitedFragment(s, s.unsol.lastBody))
    IN  IF sent.failed THEN sent
        ELSE [sent EXCEPT !.unsol.awaiting = TRUE,
                          !.unsol.awaitSeq = s.unsol.seq]

(* The longest prefix of the picked events that one fragment holds; an     *)
(* event without an encoding takes no room.                                *)
eventsThatFit(s, picked) ==
    LET room(n) == Cardinality({i \in 1..n : picked[i] \notin Unsendable(s.buf)})
    IN  SubSeq(picked, 1, Max({n \in 0..Len(picked) : room(n) <= s.cfg.fragmentCap}))

(* picked is the sequence of seq numbers Select handed out; those that do  *)
(* not fit are released and those without an encoding discarded.           *)
sendUnsolicited(s, picked, null) ==
    LET fit    == eventsThatFit(s, picked)
        unsent == ToSet(fit) \cap Unsendable(s.buf)
        body   == ToSet(fit) \ unsent
        ready  == [s EXCEPT !.buf = Discard(Release(@, ToSet(picked) \ ToSet(fit)),
                                            unsent),
                            !.unsol.seq = (@ + 1) % SeqModulus]
        sent   == Send(ready, unsolicitedFragment(ready, body))
    IN  IF sent.failed THEN sent
        ELSE [sent EXCEPT !.unsol.awaiting = TRUE,
                          !.unsol.awaitSeq = ready.unsol.seq,
                          !.unsol.nullSent = @ \/ null,
                          !.unsol.lastBody = body,
                          !.unsol.retained = TRUE]

(* A variant with a defect: giving up leaves the events selected.          *)
GiveUpKeepsSelection(s) ==
    [s EXCEPT !.unsol.retries = 0, !.unsol.retained = FALSE,
              !.unsol.lastBody = {}, !.unsol.paused = TRUE]

giveUpUnsolicited(s) ==
    [s EXCEPT !.buf = Unselect(@), !.unsol.retries = 0,
              !.unsol.retained = FALSE, !.unsol.lastBody = {},
              !.unsol.paused = TRUE]

onUnsolicitedTimeout(s) ==
    LET late == [s EXCEPT !.unsol.awaiting = FALSE, !.unsol.retries = @ + 1]
    IN  IF \/ s.deferredRead # NoRequest /\ s.unsol.nullConfirmed
           \/ late.unsol.retries > MaxRetries
        THEN giveUpUnsolicited(late)
        ELSE late

reportEvents(s) ==
    LET picked == InOrder(Seqs(HandedOut(s.buf, s.unsolClasses, UnsolLimit)))
        marked == [s EXCEPT !.buf = Select(@, s.unsolClasses, UnsolLimit)]
    IN  IF picked = <<>> THEN marked ELSE sendUnsolicited(marked, picked, FALSE)

(* now.unsol: the confirmation deadline has passed; now.hold: the hold     *)
(* time keeps events back.  paused is nextAllowed in the future.           *)
pollUnsolicited(s, now) ==
    CASE ~s.cfg.unsolicited \/ ~s.connected        -> s
      [] s.unsol.awaiting ->
           IF now.unsol THEN onUnsolicitedTimeout(s) ELSE s
      [] s.pendingBodies # <<>>                     -> s
      [] s.unsol.retries > 0 /\ s.unsol.retained    -> retryUnsolicited(s)
      [] ~s.unsol.nullConfirmed ->
           IF ~s.unsol.nullSent \/ ~s.unsol.paused
           THEN sendUnsolicited(s, <<>>, TRUE) ELSE s
      [] s.unsolClasses = {} \/ s.unsol.paused      -> s
      [] Count(s.buf, s.unsolClasses) = 0           -> s
      [] now.hold                                   -> s
      [] OTHER                                      -> reportEvents(s)

----------------------------------------------------------------------------
(* Updates and restarts of the application.                                *)
applyRestart(s) ==
    IF ~s.restartPending THEN s
    ELSE [s EXCEPT !.restartPending = FALSE, !.iin = @ \cup {"RESTART"},
                   !.unsol = unsolReset]

applyUpdates(s) ==
    [s EXCEPT !.buf = FoldLeft(LAMBDA b, u : Add(b, u.class, u.sendable), @, s.updates),
              !.updates = <<>>]

drainUpdates(s) == applyRestart(applyUpdates(s))

Update(s, u) ==
    IF s.connected THEN [s EXCEPT !.updates = Append(@, u)]
    ELSE [s EXCEPT !.buf = Add(@, u.class, u.sendable)]

----------------------------------------------------------------------------
(* The arms of serve's select, and its two ends.                           *)
serveStart(s) ==
    LET up == applyRestart([s EXCEPT !.connected = TRUE, !.linkBusy = FALSE,
                                     !.lastReq = NoRequest,
                                     !.deferredRead = NoRequest,
                                     !.unsol = unsolReset])
    IN  [pollUnsolicited(up, [unsol |-> FALSE, hold |-> FALSE])
         EXCEPT !.failed = FALSE]

serveEnd(s) == [applyUpdates(s) EXCEPT !.connected = FALSE, !.failed = FALSE,
                                       !.out = <<>>]

onWake(s) == drainUpdates(s)

(* One read may hold several fragments: all are handled before the         *)
(* response is advanced.                                                   *)
onReceive(s, frags) ==
    resumeDeferredRead(advanceResponse(FoldLeft(handle, drainUpdates(s), frags)))

(* A link acknowledgement carries no fragment, only frees the link.        *)
onLinkAck(s) == onReceive([s EXCEPT !.linkBusy = FALSE], <<>>)

checkLinkTimeout(s, now) == IF now.link THEN [s EXCEPT !.linkBusy = FALSE] ELSE s

checkConfirmTimeout(s, now) ==
    IF ~s.awaitingConfirm \/ ~now.confirm
    THEN s
    ELSE [Leave(s) EXCEPT !.awaitingConfirm = FALSE, !.pendingBodies = <<>>,
                          !.pendingIndex = 0, !.buf = Unselect(@)]

expirePause(s, now) ==
    [s EXCEPT !.unsol.paused = @ /\ ~now.pause,
              !.restartUntil = @ /\ ~now.pause]

onTick(s, now) ==
    resumeDeferredRead(
      pollUnsolicited(
        checkConfirmTimeout(checkLinkTimeout(expirePause(s, now), now), now), now))
=============================================================================
