----------------------------- MODULE Reporting -----------------------------
(***************************************************************************)
(* Event reporting end to end: the outstation session of module            *)
(* Outstation, the master's handling of responses (master/session.go), the *)
(* connection between them and the application that raises events.         *)
(*                                                                         *)
(* toOut and toMst are the fragments in flight, in order.  Losing one      *)
(* stands for a frame the transport drops whole; losing the connection     *)
(* loses both directions.  Which request the master sends next is left     *)
(* open, so every order of polls and commands its scheduler can produce is *)
(* included.                                                               *)
(*                                                                         *)
(* A behaviour is of one setup: the outstation's configuration, the        *)
(* requests the master sends and the events the application raises, and    *)
(* how often each thing may happen, which bounds the state space and       *)
(* nothing else.                                                           *)
(***************************************************************************)
EXTENDS Outstation

CONSTANTS
    Setups,         \* what a behaviour may be of
    MaxChunk,       \* fragments one read of the connection may hold
    MaxInFlight     \* response fragments in flight

ASSUME ReportingAssumption ==
    /\ MaxChunk \in Nat \ {0}
    /\ \A s \in Setups :
          /\ s.cfg \in Config
          /\ \A u \in s.kinds : u.class \in Class /\ u.sendable \in BOOLEAN

VARIABLES
    setup,     \* what this behaviour is of
    os,        \* the outstation session
    ms,        \* the master session
    toOut,     \* fragments on their way to the outstation
    toMst,     \* fragments on their way to the master
    restarter, \* where Session.Restart is: "idle" or "stored"
    delivered, \* history: the events the master's handler has been given
    told,      \* history: the drop count the master has been told of
    used       \* history: how much of each bound is used

vars == <<setup, os, ms, toOut, toMst, restarter, delivered, told, used>>

Idle == [fn |-> "IDLE"]

NewMaster ==
    [seq |-> 0, inflight |-> Idle, started |-> FALSE, respSeq |-> 0,
     unsolSeq |-> 0, hasUnsolSeq |-> FALSE]

Counters == {"requests", "losses", "connects", "restarts", "early"}

Init ==
    /\ setup \in Setups
    /\ os = NewSession(setup.cfg)
    /\ ms = NewMaster
    /\ toOut = <<>> /\ toMst = <<>>
    /\ restarter = "idle"
    /\ delivered = {} /\ told = 0
    /\ used = [c \in Counters |-> 0]

(* setup.requests and so on: how often, at most.                           *)
Use(c) == used[c] < setup[c] /\ used' = [used EXCEPT ![c] = @ + 1]

(* A timeout with nothing in flight is due to strike; one that overtakes   *)
(* an answer is the environment being slow, and is bounded.                *)
Strike ==
    IF toOut = <<>> /\ toMst = <<>> THEN UNCHANGED used ELSE Use("early")

(* The session has finished a step as s: its fragments go on the wire, or  *)
(* serve returns and the connection is closed.                             *)
failInflight(m) == [m EXCEPT !.inflight = Idle]

Close(s) ==
    /\ os' = serveEnd(s)
    /\ ms' = failInflight(ms)
    /\ toOut' = <<>> /\ toMst' = <<>>

Carry(s, consumed) ==
    IF s.failed
    THEN Close(s)
    ELSE /\ Len(toMst) + Len(s.out) <= MaxInFlight
         /\ os' = [s EXCEPT !.out = <<>>]
         /\ toMst' = toMst \o s.out
         /\ toOut' = SubSeq(toOut, consumed + 1, Len(toOut))
         /\ UNCHANGED ms

----------------------------------------------------------------------------
(* The outstation.                                                         *)
OutReceive ==
    /\ os.connected
    /\ \E n \in 1..MaxChunk :
         /\ n <= Len(toOut)
         /\ Carry(onReceive(os, SubSeq(toOut, 1, n)), n)
    /\ UNCHANGED <<restarter, delivered, told, used>>

OutLinkAck ==
    /\ os.connected /\ os.linkBusy /\ toMst = <<>>
    /\ Carry(onLinkAck(os), 0)
    /\ UNCHANGED <<restarter, delivered, told, used>>

OutWake ==
    /\ os.connected /\ (os.updates # <<>> \/ os.restartPending)
    /\ Carry(onWake(os), 0)
    /\ UNCHANGED <<restarter, delivered, told, used>>

Tick(confirm, unsol, link, pause, hold) ==
    [confirm |-> confirm, unsol |-> unsol, link |-> link, pause |-> pause,
     hold |-> hold]

(* A tick on which no deadline has passed, and one on which some have.     *)
OutTick ==
    /\ os.connected
    /\ \E hold \in BOOLEAN :
         Carry(onTick(os, Tick(FALSE, FALSE, FALSE, FALSE, hold)), 0)
    /\ UNCHANGED <<restarter, delivered, told, used>>

OutTimeout ==
    /\ os.connected
    /\ \/ /\ os.awaitingConfirm
          /\ Carry(onTick(os, Tick(TRUE, FALSE, FALSE, FALSE, FALSE)), 0)
       \/ /\ os.unsol.awaiting
          /\ Carry(onTick(os, Tick(FALSE, TRUE, FALSE, FALSE, FALSE)), 0)
       \/ /\ os.awaitingConfirm /\ os.unsol.awaiting
          /\ Carry(onTick(os, Tick(TRUE, TRUE, FALSE, FALSE, FALSE)), 0)
       \/ /\ os.linkBusy
          /\ Carry(onTick(os, Tick(FALSE, FALSE, TRUE, FALSE, FALSE)), 0)
    /\ Strike
    /\ UNCHANGED <<restarter, delivered, told>>

OutPauseOver ==
    /\ os.connected /\ (os.unsol.paused \/ os.restartUntil)
    /\ Carry(onTick(os, Tick(FALSE, FALSE, FALSE, TRUE, FALSE)), 0)
    /\ UNCHANGED <<restarter, delivered, told, used>>

OutConnect ==
    /\ ~os.connected
    /\ Use("connects")
    /\ Carry(serveStart(os), 0)
    /\ UNCHANGED <<restarter, delivered, told>>

Disconnect ==
    /\ os.connected
    /\ used.connects < setup.connects
    /\ Close(os)
    /\ UNCHANGED <<restarter, delivered, told, used>>

----------------------------------------------------------------------------
(* The application: Session.Update, and Session.Restart, which sets its    *)
(* flag and empties the event buffer in two steps of another goroutine.    *)
AppUpdate ==
    /\ os.buf.nextSeq + Len(os.updates) < setup.updates
    /\ \E u \in setup.kinds : os' = Update(os, u)
    /\ UNCHANGED <<ms, toOut, toMst, restarter, delivered, told, used>>

RestartStore ==
    /\ restarter = "idle"
    /\ Use("restarts")
    /\ os' = [os EXCEPT !.restartPending = TRUE]
    /\ restarter' = "stored"
    /\ UNCHANGED <<ms, toOut, toMst, delivered, told>>

RestartReset ==
    /\ restarter = "stored"
    /\ os' = [os EXCEPT !.buf = Reset(@)]
    /\ restarter' = "idle"
    /\ UNCHANGED <<ms, toOut, toMst, delivered, told, used>>

----------------------------------------------------------------------------
(* The master.                                                             *)
Numbered(t, n) ==
    [fn |-> t.fn, seq |-> n, classes |-> t.classes, static |-> t.static,
     bad |-> t.bad, malformed |-> t.malformed, bcast |-> t.bcast]

NoResponse(r) == r.fn = "NR" \/ r.bcast # "no"

sendTask ==
    /\ os.connected /\ ms.inflight = Idle
    /\ Use("requests")
    /\ \E t \in setup.templates :
         LET n == (ms.seq + 1) % SeqModulus
             r == Numbered(t, n)
         IN  /\ toOut' = Append(toOut, r)
             /\ ms' = [ms EXCEPT !.seq = n, !.started = FALSE,
                                 !.inflight = IF NoResponse(r) THEN Idle ELSE r]
    /\ UNCHANGED <<os, toMst, restarter, delivered, told>>

(* Not this repository's master, but any that retries a request as the     *)
(* standard allows: the outstation's repeat detection is for these.        *)
RepeatRequest ==
    /\ setup.repeats /\ ms.inflight # Idle
    /\ Use("requests")
    /\ toOut' = Append(toOut, ms.inflight)
    /\ UNCHANGED <<os, ms, toMst, restarter, delivered, told>>

checkTimeout ==
    /\ ms.inflight # Idle
    /\ Strike
    /\ ms' = failInflight(ms)
    /\ UNCHANGED <<os, toOut, toMst, restarter, delivered, told>>

sendConfirm(m) ==
    IF m.con
    THEN Append(toOut, [fn |-> "CONFIRM", seq |-> m.seq, uns |-> m.uns])
    ELSE toOut

onUnsolicited(m) ==
    /\ ms' = [ms EXCEPT !.unsolSeq = m.seq, !.hasUnsolSeq = TRUE]
    /\ delivered' = IF ms.hasUnsolSeq /\ ms.unsolSeq = m.seq
                    THEN delivered ELSE delivered \cup m.body
    /\ toOut' = sendConfirm(m)

(* Where a solicited fragment stands in the series the master is waiting   *)
(* for.                                                                    *)
Stale(m) ==
    CASE ~ms.started \/ m.fir -> m.seq # ms.inflight.seq
      [] OTHER -> m.seq \notin {ms.respSeq, (ms.respSeq + 1) % SeqModulus}

RepeatFragment(m) ==
    CASE ~ms.started -> ~m.fir
      [] m.fir       -> TRUE
      [] OTHER       -> m.seq = ms.respSeq

onSolicited(m) ==
    CASE ms.inflight = Idle \/ Stale(m) -> UNCHANGED <<ms, delivered, toOut>>
      [] RepeatFragment(m) -> toOut' = sendConfirm(m) /\ UNCHANGED <<ms, delivered>>
      [] OTHER ->
           /\ delivered' = delivered \cup m.body
           /\ toOut' = sendConfirm(m)
           /\ ms' = [ms EXCEPT !.started = TRUE, !.respSeq = m.seq,
                               !.inflight = IF m.fin THEN Idle ELSE @]

onFragment ==
    /\ toMst # <<>>
    /\ LET m == Head(toMst)
       IN  /\ IF m.uns THEN onUnsolicited(m) ELSE onSolicited(m)
           /\ told' = IF "OVERFLOW" \in m.iin THEN m.drops ELSE told
    /\ toMst' = Tail(toMst)
    /\ UNCHANGED <<os, restarter, used>>

----------------------------------------------------------------------------
(* The wire.                                                               *)
LoseRequest ==
    /\ toOut # <<>> /\ Use("losses")
    /\ toOut' = Tail(toOut)
    /\ UNCHANGED <<os, ms, toMst, restarter, delivered, told>>

LoseResponse ==
    /\ toMst # <<>> /\ Use("losses")
    /\ toMst' = Tail(toMst)
    /\ UNCHANGED <<os, ms, toOut, restarter, delivered, told>>

OutNext == \/ OutReceive \/ OutLinkAck \/ OutWake \/ OutTick \/ OutTimeout
           \/ OutPauseOver \/ OutConnect

MasterNext == sendTask \/ RepeatRequest \/ checkTimeout \/ onFragment

EnvNext == \/ AppUpdate \/ RestartStore \/ RestartReset
           \/ Disconnect \/ LoseRequest \/ LoseResponse

Next == (OutNext \/ MasterNext \/ EnvNext) /\ UNCHANGED setup

Spec == Init /\ [][Next]_vars

(* Weak fairness, with the condition under which the action changes the    *)
(* state spelled out.                                                      *)
Quiet == Tick(FALSE, FALSE, FALSE, FALSE, FALSE)

ReceiveDue == os.connected /\ toOut # <<>>
AckDue     == os.connected /\ os.linkBusy /\ toMst = <<>>
WakeDue    == os.connected /\ (os.updates # <<>> \/ os.restartPending)
TickDue    == os.connected /\ onTick(os, Quiet) # os
TimeoutDue == os.connected /\ (os.awaitingConfirm \/ os.unsol.awaiting)
                           /\ toOut = <<>> /\ toMst = <<>>
PauseDue   == os.connected /\ os.unsol.paused

Fairness ==
    /\ []<>~ReceiveDue \/ []<><<OutReceive>>_vars
    /\ []<>~AckDue     \/ []<><<OutLinkAck>>_vars
    /\ []<>~WakeDue    \/ []<><<OutWake>>_vars
    /\ []<>~TickDue    \/ []<><<OutTick>>_vars
    /\ []<>~TimeoutDue \/ []<><<OutTimeout>>_vars
    /\ []<>~PauseDue   \/ []<><<OutPauseOver>>_vars
    /\ []<>(toMst = <<>>) \/ []<><<onFragment>>_vars

FairSpec == Spec /\ Fairness

----------------------------------------------------------------------------
(* NoSilentLoss: an event leaves the buffer through Confirm only when the  *)
(* master's handler has been given it, or an unsolicited response that     *)
(* will be sent again still carries it.  This is the promise of            *)
(* EventBuffer: "only removed when the master confirms that response".     *)
Owed == IF os.unsol.retained THEN os.unsol.lastBody ELSE {}

NoSilentLoss == os.buf.confirmed \subseteq delivered \cup Owed

(* SelectedAreHeld: every selected event belongs to a response that is     *)
(* still being sent, confirmed or retried.  A selected event without one   *)
(* is neither indicated, nor selected again, and the next confirmation of  *)
(* anything removes it.  Restart is excepted between its two steps, and a  *)
(* session without a connection, which a failed send may have ended.       *)
Held ==
    Owed \cup (IF os.pendingHasEvents THEN UNION ToSet(os.pendingBodies) ELSE {})

SelectedAreHeld ==
    restarter = "stored" \/ ~os.connected \/ Seqs(SelectedIn(os.buf.events)) \subseteq Held

(* OneConfirmation: a solicited response with events and an unsolicited    *)
(* response never await their confirmations at the same time, since        *)
(* Confirm cannot tell whose events it releases (deferRead,                *)
(* pollUnsolicited).                                                       *)
OneConfirmation ==
    ~(os.unsol.awaiting /\ os.awaitingConfirm /\ os.pendingHasEvents)

(* ErrorsReported: every fragment that answers a refused request says so,  *)
(* the later ones of several and a repeated answer too ("a master whose    *)
(* refused request's response was lost would read the replay as that       *)
(* request succeeding", replayResponse).  Any other response reports an    *)
(* error only if one is left from a request that was not answered to the   *)
(* end, for which a new request, a timeout or a repeat came first, and it  *)
(* is not left to a second response (finishResponse: "Left set, one        *)
(* refused request ... would make every later response report the          *)
(* refusal").  A restart is refused while another is under way.            *)
Refused(r) ==
    \/ r.bad \/ r.malformed \/ r.fn = "OTHER"
    \/ r.fn \in {"ENABLE", "DISABLE"} /\ ~os.cfg.unsolicited

MayBeRefused(r) == Refused(r) \/ r.fn \in {"COLD", "WARM"}

ErrorsReported ==
    \A i \in DOMAIN toMst : LET m == toMst[i] IN
       ~m.uns => /\ Refused(m.req) => "ERR" \in m.iin
                 /\ "ERR" \in m.iin => MayBeRefused(m.req) \/ m.left

(* ErrorsAnswerTheirRequest: a response carries a request error indication *)
(* only when the request it answers was refused: "they answer one request, *)
(* and a response that carried them has told the master" (finishResponse). *)
ErrorsAnswerTheirRequest ==
    \A i \in DOMAIN toMst :
       ~toMst[i].uns /\ "ERR" \in toMst[i].iin => MayBeRefused(toMst[i].req)

(* ConfirmsOnlyDelivered: whatever the master confirms, delivered now or   *)
(* thrown away as a repeat, its handler has been given (onUnsolicited: "our *)
(* confirm was lost, not the data"; onSolicited).                          *)
ConfirmsOnlyDelivered ==
    [][onFragment /\ toOut' # toOut => Head(toMst).body \subseteq delivered']_vars

(* OverflowIsTold: a confirmation clears the overflow indication only when *)
(* the master has seen it on a fragment built after the last loss.         *)
OverflowIsTold ==
    [][os.buf.overflow /\ ~os'.buf.overflow /\ os'.buf.wiped = os.buf.wiped
        => told >= os.buf.drops]_vars

(* EventuallyReported: an event of a class enabled for unsolicited         *)
(* reporting does not stay in the buffer while the connection stays up     *)
(* (onUnsolicitedTimeout requeues and tries again).                        *)
Reportable == Seqs({e \in os.buf.events : e.class \in os.unsolClasses})

EventuallyReported ==
    \A n \in 1..Max({s.updates : s \in Setups}) :
       [](n \in Reportable => <>(n \notin Reportable \/ ~os.connected))
=============================================================================
