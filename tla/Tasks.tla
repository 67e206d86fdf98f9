------------------------------- MODULE Tasks -------------------------------
(***************************************************************************)
(* The master's requests (master/task.go, session.go, api.go, security.go):*)
(* the callers that hand tasks to the session, the scheduler that orders   *)
(* them, the one task in flight, the chains that keep requests adjacent,   *)
(* the start-up sequence, the periodic scans and the session keys.         *)
(*                                                                         *)
(* The session's goroutine is one event loop: an action here is one case   *)
(* of its select followed by runDueTask, as in serve.  Its handlers are    *)
(* operators from one state of the session to the next.  The callers are   *)
(* goroutines of their own.                                                *)
(*                                                                         *)
(* Response fragments are in Reporting; here a response is one fragment.   *)
(* What a request asks for matters only in its function code, and what the *)
(* outstation does only in whether it answers and whether it refuses.      *)
(***************************************************************************)
EXTENDS Naturals, Sequences, FiniteSets, SequencesExt

CONSTANTS
    Callers,       \* the goroutines that call the session's methods
    Calls,         \* the methods they may call
    Scans,         \* the periodic scans the application adds
    Secure,        \* whether the session authenticates: the choices
    StartupSteps,  \* what the configuration asks of the start-up sequence
    SeqModulus,    \* application sequence numbers
    SubmitCap,     \* room in the channel from the callers to the session
    MaxTime,       \* bound: the clock
    Disturbances,  \* what may disturb the ordinary course
    MaxDisturbed   \* bound: how often something does

VARIABLES
    m,       \* the session
    submit,  \* the channel of tasks handed over
    caller,  \* where each caller is, and the method it calls
    wire,    \* the outstation's responses under way, in order
    dev,     \* the outstation: whether it has a restart to report
    now,     \* the clock
    used     \* the number of disturbances so far

vars == <<m, submit, caller, wire, dev, now, used>>

(* loses: a request or response is lost; late: a timeout with the answer   *)
(* under way; refuses: the outstation refuses; garbles: a response cannot  *)
(* be parsed; sendFails: the stack refuses a fragment; drops: the          *)
(* connection ends; restarts: the outstation restarts; expires: the keys   *)
(* expire; cancels: a caller gives up; stops: the context ends.            *)
Kinds == {"loses", "late", "refuses", "garbles", "sendFails", "drops", "restarts",
          "expires", "cancels", "stops"}
ASSUME TasksAssumption ==
    /\ Disturbances \subseteq Kinds
    /\ SeqModulus \in Nat \ {0}

Spend(what) ==
    /\ what \subseteq Disturbances
    /\ used + Cardinality(what) <= MaxDisturbed
    /\ used' = used + Cardinality(what)

----------------------------------------------------------------------------
(* Tasks.                                                                  *)
priorityStartup == 0
priorityCommand == 1
priorityIntegrity == 2
priorityPoll == 3

Nobody == "nobody"
NoSeq == 99

(* done names the caller that waits; chain holds the tasks that follow;    *)
(* prev is the number of the request this one must follow at once.         *)
task(name, fn, priority) ==
    [name |-> name, fn |-> fn, priority |-> priority, chain |-> <<>>, done |-> Nobody,
     startup |-> FALSE, noResponse |-> FALSE, period |-> 0, due |-> 0, seq |-> NoSeq,
     prev |-> NoSeq]

NoTask == task("none", "NONE", 0)

newClearRestartTask == task("clear-restart", "WRITE", priorityStartup)
newUnsolicitedTask(enable) ==
    task(IF enable THEN "enable-unsolicited" ELSE "disable-unsolicited", "UNSOLICITED",
         priorityStartup)
newScanTask(integrity) ==
    task("scan", "READ", IF integrity THEN priorityIntegrity ELSE priorityPoll)
newWriteTimeTask == task("write-time", "WRITE", priorityStartup)
newDelayMeasureTask == task("delay-measure", "DELAY_MEASURE", priorityStartup)
newCommandTask(fn) == task("command", fn, priorityCommand)
SyncTimeWithDelay == [newDelayMeasureTask EXCEPT !.chain = <<newWriteTimeTask>>]
SelectAndOperate ==
    [newCommandTask("SELECT") EXCEPT !.chain = <<newCommandTask("OPERATE")>>]
DirectOperateNoReply == [newCommandTask("DIRECT_NR") EXCEPT !.noResponse = TRUE]

(* The task each of the session's methods runs.  Reads of a range,         *)
(* restarts, freezes, writes of deadbands and attributes are single        *)
(* requests like ScanClasses or DirectOperate, and SyncTimeRecorded is a   *)
(* chain like SyncTimeWithDelay.                                           *)
CallTask(call) ==
    CASE call = "ScanClasses"          -> newScanTask(FALSE)
      [] call = "IntegrityPoll"        -> newScanTask(TRUE)
      [] call = "WriteTime"            -> newWriteTimeTask
      [] call = "SyncTimeWithDelay"    -> SyncTimeWithDelay
      [] call = "EnableUnsolicited"    -> newUnsolicitedTask(TRUE)
      [] call = "DirectOperate"        -> newCommandTask("DIRECT")
      [] call = "DirectOperateNoReply" -> DirectOperateNoReply
      [] call = "SelectAndOperate"     -> SelectAndOperate

----------------------------------------------------------------------------
(* The scheduler.  The queue keeps the order of the pushes, which breaks   *)
(* ties.                                                                   *)
push(s, t) == [s EXCEPT !.queue = Append(@, t)]

Less(q, i, j) ==
    IF q[i].due # q[j].due THEN q[i].due < q[j].due
    ELSE IF q[i].priority # q[j].priority THEN q[i].priority < q[j].priority
    ELSE i < j

peek(q) == CHOOSE i \in DOMAIN q : \A j \in DOMAIN q \ {i} : Less(q, i, j)

(* The outcome goes to whoever waits, once.                                *)
finish(s, t, err) ==
    IF t.done = Nobody THEN s ELSE [s EXCEPT !.out[t.done] = Append(@, err)]

FinishAll(s, ts, err) == FoldSeq(LAMBDA t, u : finish(u, t, err), s, ts)

Periodic(t) == t.period > 0
OneShot(t) == t.period = 0

(* A variant with a defect: the callers of dropped tasks are not told.     *)
ClearInSilence(s) == [s EXCEPT !.queue = SelectSeq(@, Periodic)]

(* A variant with a defect: the periodic tasks go too.                     *)
ClearAll(s) == [FinishAll(s, SelectSeq(s.queue, OneShot), "failed") EXCEPT !.queue = <<>>]

clear(s) ==
    [FinishAll(s, SelectSeq(s.queue, OneShot), "failed") EXCEPT
        !.queue = SelectSeq(@, Periodic)]

enqueue(s, t) == push(s, [t EXCEPT !.due = now])

(* A variant with a defect: a failed step leaves the flag set.             *)
CompleteLeavesStartup(s, t, err) ==
    LET s1 == IF t.startup /\ t.chain = <<>> THEN [s EXCEPT !.startupActive = FALSE] ELSE s
        s2 == IF Periodic(t) THEN push(s1, [t EXCEPT !.due = now + t.period, !.done = Nobody])
              ELSE s1
    IN  finish(s2, t, err)

completeTask(s, t, err) ==
    LET s1 == IF t.startup /\ (err # "ok" \/ t.chain = <<>>)
              THEN [s EXCEPT !.startupActive = FALSE] ELSE s
        s2 == IF Periodic(t) THEN push(s1, [t EXCEPT !.due = now + t.period, !.done = Nobody])
              ELSE s1
    IN  finish(s2, t, err)

failInflight(s, err) ==
    IF s.inflight = NoTask THEN s
    ELSE completeTask([s EXCEPT !.inflight = NoTask], s.inflight, err)

----------------------------------------------------------------------------
(* Sending.                                                                *)
securityReady(s) == s.keys

(* The key exchange goes ahead of the task, and its first request takes    *)
(* over the caller.                                                        *)
newSessionKeysTask(t) ==
    LET change == [task("auth-key-change", "AUTH", priorityStartup) EXCEPT
                       !.startup = t.startup]
    IN  [task("auth-key-status", "AUTH", priorityStartup) EXCEPT
            !.startup = t.startup, !.done = t.done,
            !.chain = <<change, [t EXCEPT !.done = Nobody]>>]

(* A variant with a defect: every request takes a number.                  *)
AuthTakesNumber(s, t) == (s.seq + 1) % SeqModulus

(* Authentication does not use up the application's numbers.               *)
NextSeq(s, t) == IF t.fn = "AUTH" THEN s.seq ELSE (s.seq + 1) % SeqModulus

Transmit(s, t0) ==
    LET t == [t0 EXCEPT !.seq = NextSeq(s, t0)]
        s1 == [s EXCEPT !.seq = t.seq]
        s2 == [s1 EXCEPT !.sent = Append(@, [fn |-> t.fn, name |-> t.name, seq |-> t.seq,
                                                silent |-> t.noResponse])]
    IN  IF s.sendFails THEN completeTask([s1 EXCEPT !.sendFails = FALSE], t, "send")
        ELSE IF t.noResponse /\ ~s.secure THEN completeTask(s2, t, "ok")
        ELSE [s2 EXCEPT !.inflight = t]

sendTask(s, t) ==
    Transmit(s, IF s.secure /\ t.fn # "AUTH" /\ ~securityReady(s)
                THEN newSessionKeysTask(t) ELSE t)

runDueTask(s) ==
    IF s.inflight # NoTask \/ s.queue = <<>> THEN s
    ELSE LET i == peek(s.queue)
             t == s.queue[i]
         IN  IF t.due > now THEN s
             ELSE sendTask([s EXCEPT !.queue = RemoveAt(@, i)], t)

(* The steps of the start-up sequence, chained so that nothing comes       *)
(* between them.                                                           *)
startupSequence(s) ==
    LET wanted == <<newClearRestartTask>>
                  \o (IF "disable" \in StartupSteps THEN <<newUnsolicitedTask(FALSE)>> ELSE <<>>)
                  \o (IF "integrity" \in StartupSteps THEN <<newScanTask(TRUE)>> ELSE <<>>)
                  \o (IF "enable" \in StartupSteps THEN <<newUnsolicitedTask(TRUE)>> ELSE <<>>)
        steps == [i \in DOMAIN wanted |-> [wanted[i] EXCEPT !.startup = TRUE]]
    IN  enqueue([clear(s) EXCEPT !.startupActive = TRUE],
                [steps[1] EXCEPT !.chain = Tail(steps)])

----------------------------------------------------------------------------
(* Receiving.                                                              *)
observeIIN(s, r) == IF r.restart /\ ~s.startupActive THEN startupSequence(s) ELSE s

(* What the task itself makes of the last fragment: an authentication step *)
(* fails on anything but the object it asked for.                          *)
Fails(t, r) == t.fn = "AUTH" /\ (r.kind # "AUTH" \/ r.refused)

(* A refused select is not followed by its operate.                        *)
Follows(t, r) == t.chain # <<>> /\ ~(t.fn = "SELECT" /\ r.refused)

(* A variant with a defect: the chained task does not take the caller.     *)
FollowWithoutCaller(s, t) ==
    LET nt == Head(t.chain)
    IN  sendTask(completeTask(s, [t EXCEPT !.done = Nobody], "ok"),
                 [nt EXCEPT !.chain = Tail(t.chain) \o @,
                            !.prev = IF t.fn = "AUTH" THEN @ ELSE t.seq])

follow(s, t) ==
    LET nt == Head(t.chain)
    IN  sendTask(completeTask(s, [t EXCEPT !.done = Nobody], "ok"),
                 [nt EXCEPT !.done = t.done, !.chain = Tail(t.chain) \o @,
                            !.prev = IF t.fn = "AUTH" THEN @ ELSE t.seq])

onSolicited(s, r) ==
    LET t == s.inflight
        free == [s EXCEPT !.inflight = NoTask]
    IN  IF t = NoTask \/ r.seq # t.seq THEN s
        ELSE IF Fails(t, r) THEN completeTask(free, t, "auth")
        ELSE LET s1 == IF t.name = "auth-key-change" THEN [free EXCEPT !.keys = TRUE] ELSE free
             IN  IF Follows(t, r) THEN follow(s1, t) ELSE completeTask(s1, t, "ok")

(* AUTH_RESPONSE: the answer to a step of the key exchange, or a challenge *)
(* to the request in flight.                                               *)
onAuthenticationResponse(s, r) ==
    LET t == s.inflight
        free == [s EXCEPT !.inflight = NoTask]
    IN  IF ~s.secure \/ t = NoTask \/ r.seq # t.seq THEN s
        ELSE IF t.fn = "AUTH" THEN onSolicited(s, r)
        ELSE IF r.kind # "CHALLENGE" \/ ~securityReady(s) THEN completeTask(free, t, "auth")
        ELSE IF s.sendFails THEN completeTask([free EXCEPT !.sendFails = FALSE], t, "send")
        ELSE LET s1 == [s EXCEPT !.sent = Append(@, [fn |-> "REPLY", name |-> t.name,
                                                     seq |-> t.seq, silent |-> t.noResponse])]
             IN  IF t.noResponse THEN completeTask([s1 EXCEPT !.inflight = NoTask], t, "ok")
                 ELSE s1

onFragment(s, r) ==
    IF r.garbled
    THEN IF s.inflight # NoTask /\ r.seq = s.inflight.seq
         THEN completeTask([s EXCEPT !.inflight = NoTask], s.inflight, "malformed") ELSE s
    ELSE IF r.kind \in {"AUTH", "CHALLENGE"} THEN onAuthenticationResponse(s, r)
    ELSE IF r.kind = "UNSOLICITED" THEN observeIIN(s, r)
    ELSE onSolicited(observeIIN(s, r), r)

----------------------------------------------------------------------------
(* One turn of the session's loop: the event, then what is due.  A send    *)
(* may fail on the way.                                                    *)
Serve(handle(_), costs) ==
    \E fail \in BOOLEAN :
        LET s == runDueTask(handle([m EXCEPT !.sendFails = fail]))
        IN  /\ ~s.sendFails
            /\ Spend(costs \cup (IF fail THEN {"sendFails"} ELSE {}))
            /\ m' = s

Init ==
    /\ \E secure \in Secure :
         m = [state |-> "down", seq |-> 0, queue |-> <<>>, inflight |-> NoTask,
              startupActive |-> FALSE, secure |-> secure, keys |-> FALSE, sent |-> <<>>,
              sendFails |-> FALSE, out |-> [c \in Callers |-> <<>>]]
    /\ submit = <<>>
    /\ caller = [c \in Callers \cup Scans |-> "idle"]
    /\ wire = <<>>
    /\ dev = [restarted |-> TRUE]
    /\ now = 0
    /\ used = 0

(* Run: a new connection.                                                  *)
Connect ==
    /\ m.state = "down"
    /\ Serve(LAMBDA s : startupSequence([s EXCEPT !.state = "up", !.keys = FALSE]), {})
    /\ UNCHANGED <<submit, caller, wire, dev, now>>

(* serve returns: the connection or the context ended, or a peer did not   *)
(* answer a probe.                                                         *)
Disconnect(state) ==
    /\ m.state = "up"
    /\ m' = [failInflight(m, "no connection") EXCEPT !.state = state, !.sent = <<>>]
    /\ wire' = <<>>
    /\ Spend({IF state = "down" THEN "drops" ELSE "stops"})
    /\ UNCHANGED <<submit, caller, dev, now>>

TakeSubmitted ==
    /\ m.state = "up"
    /\ submit # <<>>
    /\ Serve(LAMBDA s : enqueue(s, Head(submit)), {})
    /\ submit' = Tail(submit)
    /\ UNCHANGED <<caller, wire, dev, now>>

Receive ==
    /\ m.state = "up"
    /\ wire # <<>>
    /\ Serve(LAMBDA s : onFragment(s, Head(wire)), {})
    /\ wire' = Tail(wire)
    /\ UNCHANGED <<submit, caller, dev, now>>

(* The request timed out: its answer was lost, or is late.                 *)
checkTimeout ==
    /\ m.state = "up"
    /\ m.inflight # NoTask
    /\ Serve(LAMBDA s : failInflight(s, "timeout"),
             IF m.sent # <<>> \/ wire # <<>> THEN {"late"} ELSE {})
    /\ UNCHANGED <<submit, caller, wire, dev, now>>

(* The timer fires for a task that is due.                                 *)
Wakeup ==
    /\ m.state = "up"
    /\ m.inflight = NoTask
    /\ \E i \in DOMAIN m.queue : m.queue[i].due <= now
    /\ Serve(LAMBDA s : s, {})
    /\ UNCHANGED <<submit, caller, wire, dev, now>>

KeysExpire ==
    /\ m.keys
    /\ Spend({"expires"})
    /\ m' = [m EXCEPT !.keys = FALSE]
    /\ UNCHANGED <<submit, caller, wire, dev, now>>

----------------------------------------------------------------------------
(* The callers.                                                            *)
run(c, call) ==
    /\ caller[c] = "idle"
    /\ Len(submit) < SubmitCap
    /\ submit' = Append(submit, [CallTask(call) EXCEPT !.done = c])
    /\ caller' = [caller EXCEPT ![c] = "waiting"]
    /\ UNCHANGED <<m, wire, dev, now, used>>

Returns(c) ==
    /\ caller[c] = "waiting"
    /\ m.out[c] # <<>>
    /\ caller' = [caller EXCEPT ![c] = "returned"]
    /\ UNCHANGED <<m, submit, wire, dev, now, used>>

GivesUp(c) ==
    /\ caller[c] = "waiting"
    /\ Spend({"cancels"})
    /\ caller' = [caller EXCEPT ![c] = "gone"]
    /\ UNCHANGED <<m, submit, wire, dev, now>>

AddPeriodicScan(p) ==
    /\ caller[p] = "idle"
    /\ Len(submit) < SubmitCap
    /\ submit' = Append(submit, [newScanTask(FALSE) EXCEPT !.name = p, !.period = 1])
    /\ caller' = [caller EXCEPT ![p] = "returned"]
    /\ UNCHANGED <<m, wire, dev, now, used>>

----------------------------------------------------------------------------
(* The outstation, and the clock.                                          *)
Critical == {"WRITE", "SELECT", "OPERATE", "DIRECT", "DIRECT_NR"}

Reaction(q) ==
    CASE q.fn = "AUTH"                          -> "AUTH"
      [] m.secure /\ q.fn \in Critical          -> "CHALLENGE"
      [] OTHER                                  -> "RESPONSE"

Silent(q) == q.silent /\ Reaction(q) = "RESPONSE"

Answer ==
    /\ m.sent # <<>>
    /\ LET q == Head(m.sent)
           cleared == q.name = "clear-restart" /\ Reaction(q) = "RESPONSE"
           r == [kind |-> Reaction(q), seq |-> q.seq, restart |-> dev.restarted /\ ~cleared,
                 refused |-> FALSE, garbled |-> FALSE]
       IN  /\ dev' = IF cleared THEN [dev EXCEPT !.restarted = FALSE] ELSE dev
           /\ \/ UNCHANGED used /\ wire' = IF Silent(q) THEN wire ELSE Append(wire, r)
              \/ Spend({"loses"}) /\ UNCHANGED wire
              \/ /\ ~Silent(q)
                 /\ \/ Spend({"refuses"}) /\ wire' = Append(wire, [r EXCEPT !.refused = TRUE])
                    \/ Spend({"garbles"}) /\ wire' = Append(wire, [r EXCEPT !.garbled = TRUE])
    /\ m' = [m EXCEPT !.sent = Tail(@)]
    /\ UNCHANGED <<submit, caller, now>>

(* The outstation restarts and says so in an unsolicited response.         *)
Restart ==
    /\ m.state = "up"
    /\ Spend({"restarts"})
    /\ dev' = [restarted |-> TRUE]
    /\ wire' = Append(wire, [kind |-> "UNSOLICITED", seq |-> 0, restart |-> TRUE,
                             refused |-> FALSE, garbled |-> FALSE])
    /\ UNCHANGED <<m, submit, caller, now>>

Tick ==
    /\ now < MaxTime
    /\ now' = now + 1
    /\ UNCHANGED <<m, submit, caller, wire, dev, used>>

Next ==
    \/ Connect \/ TakeSubmitted \/ Receive \/ checkTimeout \/ Wakeup \/ KeysExpire
    \/ \E state \in {"down", "ended"} : Disconnect(state)
    \/ \E c \in Callers : Returns(c) \/ GivesUp(c) \/ \E call \in Calls : run(c, call)
    \/ \E p \in Scans : AddPeriodicScan(p)
    \/ Answer \/ Restart \/ Tick

Spec == Init /\ [][Next]_vars

(* The session's loop runs on, its select takes what is ready, the channel *)
(* connects again, and the outstation answers what reaches it.  Weak       *)
(* fairness, with the guards written out.                                  *)
SomethingDue ==
    \/ m.inflight # NoTask /\ m.sent = <<>> /\ wire = <<>>
    \/ m.inflight = NoTask /\ \E i \in DOMAIN m.queue : m.queue[i].due <= now

FairSpec ==
    /\ Spec
    /\ []<>(m.state # "down") \/ []<><<Connect>>_vars
    /\ []<>(m.state # "up" \/ submit = <<>>) \/ []<><<TakeSubmitted>>_vars
    /\ []<>(m.state # "up" \/ wire = <<>>) \/ []<><<Receive>>_vars
    /\ []<>(m.state # "up" \/ ~SomethingDue) \/ []<><<checkTimeout \/ Wakeup>>_vars
    /\ []<>(m.sent = <<>>) \/ []<><<Answer>>_vars
    /\ \A c \in Callers : WF_vars(Returns(c))

----------------------------------------------------------------------------
Pending == submit \o m.queue \o (IF m.inflight = NoTask THEN <<>> ELSE <<m.inflight>>)

Carries(t, c) == t.done = c \/ \E k \in DOMAIN t.chain : t.chain[k].done = c

(* A caller whose task was taken is in the hands of exactly one task, or   *)
(* has been told exactly once: whatever is dropped, chained, put behind a  *)
(* key exchange, timed out or cut off, no caller is forgotten and none is  *)
(* answered twice (task.go, finish; session.go, onSolicited).              *)
HeldOnce ==
    \A c \in Callers :
        caller[c] # "idle" =>
            Cardinality({i \in DOMAIN Pending : Carries(Pending[i], c)}) + Len(m.out[c]) = 1

(* While startupActive suppresses the reaction to a restart, a step of the *)
(* start-up sequence is queued or in flight: the flag is never left set    *)
(* with nothing to clear it (session.go, completeTask).                    *)
StartupUnderWay ==
    (m.state = "up" /\ m.startupActive) =>
        \E i \in DOMAIN Pending : Pending[i].startup

(* "A periodic task keeps its slot in the schedule whether or not this run *)
(* succeeded" (session.go, completeTask): once added, a scan is queued or  *)
(* in flight, once.                                                        *)
PeriodicKept ==
    \A p \in Scans :
        caller[p] = "returned" =>
            Cardinality({i \in DOMAIN Pending :
                \/ Pending[i].name = p
                \/ \E k \in DOMAIN Pending[i].chain : Pending[i].chain[k].name = p}) = 1

(* The same, for a session that does not authenticate.                     *)
ScansKept == ~m.secure => PeriodicKept

(* The second request of a pair carries the number after the first one's,  *)
(* also when the keys were exchanged in between: "a key refresh between    *)
(* SELECT and OPERATE must preserve the consecutive sequence numbers"      *)
(* (session.go, sendTask).                                                 *)
PairsAdjacent ==
    (m.inflight.fn # "AUTH" /\ m.inflight.prev # NoSeq) =>
        m.inflight.seq = (m.inflight.prev + 1) % SeqModulus

(* Every call comes back, unless its caller gives up or the session ends   *)
(* (api.go, run).                                                          *)
CallsReturn ==
    \A c \in Callers :
        (caller[c] = "waiting") ~> (caller[c] \in {"returned", "gone"} \/ m.state = "ended")
=============================================================================
