----------------------------- MODULE Multidrop -----------------------------
(***************************************************************************)
(* One line shared by several sessions (multidrop): the bus that owns the  *)
(* line, the connection it gives each station, and the arbiter that lets   *)
(* one master talk at a time.                                              *)
(*                                                                         *)
(* What runs concurrently is one goroutine per session, the bus's pump,    *)
(* whoever calls Bus.Close or station.Close, and the arbiter's timer.  An  *)
(* action is what one of them does under one lock.                         *)
(*                                                                         *)
(* A connection is <<station, n>>, the n-th of its station.  A line is     *)
(* numbered too; line 0 is none.  A frame from the line carries the        *)
(* station it addresses, whether its transport header says FIN, and the    *)
(* number of the line it came over.  A session's own processing is left    *)
(* out: it writes and reads when it likes.                                 *)
(***************************************************************************)
EXTENDS Naturals, Sequences

CONSTANTS
    Masters,       \* the stations of master sessions
    Outstations,   \* the stations of outstation sessions
    Absent,        \* the sets of them that may be off the bus from the start
    Queue,         \* frames that may wait for one station
    Replies,       \* the devices' replies: of each frame, whether it says FIN
    MaxWrites,     \* bound: frames the sessions write, and those others write to them
    Disturbances,  \* what may disturb the ordinary course, of the kinds below
    MaxDisturbed   \* bound: how often something does

(* amid: a session writes while its own reply is under way; overtakes: it  *)
(* does after it has read the last frame of it and before the pump gets to *)
(* observe that; unsolicited: a device sends a response nobody asked for;  *)
(* silences: it stops answering; late: a hold lapses while the reply is    *)
(* under way; breaks: the line fails; leaves: a session closes its         *)
(* connection; removals: a station is taken off the bus; closes: Bus.Close.*)
Kinds == {"amid", "overtakes", "unsolicited", "silences", "late", "breaks", "leaves",
          "removals", "closes"}
ASSUME KindsAssumption == Disturbances \subseteq Kinds

Stations == Masters \cup Outstations

VARIABLES
    bus,      \* the bus: its line, whether it is closed, stopped or failed
    cur,      \* each station's live connection, NoConn if none
    removed,  \* stations taken off the bus
    conns,    \* the connections made: the line they write to, what they queue
    torn,     \* the connections whose done channel is closed
    arb,      \* the arbiter: holder, hold lapsed, timer armed, closed
    asleep,   \* the sessions parked in cond.Wait
    ses,      \* the session goroutines
    pump,     \* the pump goroutine
    closer,   \* how far Bus.Close is, and the line it found
    doomed,   \* connections detached from their station, to be torn down
    open,     \* the lines open below the bus
    inbound,  \* frames on the line, towards the bus
    owed,     \* frames each master's device still has to send
    turn,     \* history: the connections whose turn nothing has ended
    used      \* the disturbances so far

vars == <<bus, cur, removed, conns, torn, arb, asleep, ses, pump, closer,
          doomed, open, inbound, owed, turn, used>>

NoConn == <<>>
NoFrame == [to |-> "nobody", fin |-> FALSE, line |-> 0]
AllStations == "all"

ASSUME StationsAssumption ==
    /\ Masters \cap Outstations = {}
    /\ Absent \subseteq SUBSET Stations
    /\ {AllStations, NoFrame.to} \cap Stations = {}
    /\ Replies \subseteq Seq(BOOLEAN)

Use(what) ==
    /\ what \in Disturbances
    /\ used.n < MaxDisturbed
    /\ used' = [used EXCEPT !.n = @ + 1]

Init ==
    /\ bus = [line |-> 0, closed |-> FALSE, stopped |-> FALSE]
    /\ cur = [s \in Stations |-> NoConn]
    /\ removed \in Absent
    /\ conns = [s \in Stations |-> <<>>]
    /\ torn = {}
    /\ arb = [holder |-> NoConn, lapsed |-> FALSE, timer |-> FALSE, closed |-> FALSE]
    /\ asleep = {}
    /\ ses = [s \in Stations |-> [pc |-> IF s \in removed THEN "ended" ELSE "down",
                                  kind |-> "none", failed |-> FALSE]]
    /\ pump = [pc |-> "off", frame |-> NoFrame, targets |-> {}, live |-> {},
               line |-> 0]
    /\ closer = [pc |-> "open", line |-> 0]
    /\ doomed = {}
    /\ open = {}
    /\ inbound = <<>>
    /\ owed = [m \in Masters |-> <<>>]
    /\ turn = {}
    /\ used = [n |-> 0, writes |-> 0]

(* The connection a session runs on.                                       *)
Conn(s) == <<s, Len(conns[s])>>
LineOf(c) == conns[c[1]][c[2]].line

----------------------------------------------------------------------------
(* The arbiter.  Its handlers answer with the arbiter and the sessions     *)
(* still asleep.                                                           *)
still(a) == [arb |-> a, asleep |-> asleep]

(* A variant with a defect: the waiters are not woken.                     *)
ReleaseInSilence(a) == still([a EXCEPT !.holder = NoConn, !.timer = FALSE])

releaseLocked(a) ==
    [arb |-> [a EXCEPT !.holder = NoConn, !.timer = FALSE], asleep |-> {}]

release(a, c) == IF a.holder = c THEN releaseLocked(a) ELSE still(a)

extendLocked(a) == [a EXCEPT !.lapsed = FALSE, !.timer = TRUE]

holdLocked(a, c) == extendLocked([a EXCEPT !.holder = c])

(* A variant with a defect: whoever's reply is complete, the line is free. *)
ObserveAnyone(a, c, complete) ==
    IF complete THEN releaseLocked(a) ELSE still(extendLocked(a))

observe(a, c, complete) ==
    CASE a.holder # c                -> still(a)
      [] a.holder = c /\ complete    -> releaseLocked(a)
      [] a.holder = c /\ ~complete   -> still(extendLocked(a))

arbClose(a) == releaseLocked([a EXCEPT !.closed = TRUE])

MayTransmit(a, c) == a.holder \in {NoConn, c} \/ a.lapsed

Arbiter(r) == arb' = r.arb /\ asleep' = r.asleep

(* The turnaround elapses: nothing has come back, or not yet.  It runs     *)
(* from the grant of the line, so a slow write may use it up.              *)
UnderWay(m) ==
    \/ ses[m].pc = "turn"
    \/ owed[m] # <<>>
    \/ pump.frame.to = m
    \/ \E i \in DOMAIN inbound : inbound[i].to = m

HoldLapses ==
    /\ arb.holder # NoConn
    /\ ~arb.lapsed
    /\ IF UnderWay(arb.holder[1]) THEN Use("late") ELSE UNCHANGED used
    /\ arb' = [arb EXCEPT !.lapsed = TRUE]
    /\ turn' = turn \ {arb.holder}
    /\ UNCHANGED <<bus, cur, removed, conns, torn, asleep, ses, pump, closer,
                   doomed, open, inbound, owed>>

(* wake, called by the timer.                                              *)
wake ==
    /\ arb.timer
    /\ arb.lapsed
    /\ arb' = [arb EXCEPT !.timer = FALSE]
    /\ asleep' = {}
    /\ UNCHANGED <<bus, cur, removed, conns, torn, ses, pump, closer,
                   doomed, open, inbound, owed, turn, used>>

----------------------------------------------------------------------------
(* A session.                                                              *)
At(s, pc) == ses[s].pc = pc
Goto(s, pc) == ses' = [ses EXCEPT ![s].pc = pc]

(* station.Connect, whose first call starts the pump.  It returns when     *)
(* there is a line, and fails for good when there will be none.            *)
Connect(s) ==
    /\ At(s, "down")
    /\ pump.pc # "off"
    /\ ~(bus.closed \/ bus.stopped \/ s \in removed)
    /\ bus.line # 0
    /\ conns' = [conns EXCEPT ![s] = Append(@, [line |-> bus.line, rx |-> <<>>])]
    /\ cur' = [cur EXCEPT ![s] = <<s, Len(conns[s]) + 1>>]
    /\ Goto(s, "up")
    /\ UNCHANGED <<bus, removed, torn, arb, asleep, pump, closer, doomed, open,
                   inbound, owed, turn, used>>

start(s) ==
    /\ At(s, "down")
    /\ pump.pc = "off"
    /\ pump' = [pump EXCEPT !.pc = "connect"]
    /\ UNCHANGED <<bus, cur, removed, conns, torn, arb, asleep, ses, closer,
                   doomed, open, inbound, owed, turn, used>>

ConnectFails(s) ==
    /\ At(s, "down")
    /\ pump.pc # "off"
    /\ bus.closed \/ bus.stopped \/ s \in removed
    /\ Goto(s, "ended")
    /\ UNCHANGED <<bus, cur, removed, conns, torn, arb, asleep, pump, closer,
                   doomed, open, inbound, owed, turn, used>>

(* Write, up to the arbiter.  A request, or a frame nothing comes back     *)
(* for: a confirm, a control that wants no reply, a link acknowledgement.  *)
Overtakes(s) ==
    /\ pump.pc = "observe" /\ pump.frame.fin /\ pump.frame.to = s
    /\ conns[s][Len(conns[s])].rx = <<>>

Amid(s) ==
    \/ owed[s] # <<>>
    \/ \E i \in DOMAIN inbound : inbound[i].to = s
    \/ pump.frame.to = s /\ ~Overtakes(s)

UseWriting(what) ==
    /\ what \in Disturbances
    /\ used.n < MaxDisturbed
    /\ used' = [n |-> used.n + 1, writes |-> used.writes + 1]

Write(s, kind) ==
    /\ At(s, "up")
    /\ Conn(s) \notin torn
    /\ used.writes < MaxWrites
    /\ CASE s \in Masters /\ Amid(s)                  -> UseWriting("amid")
         [] s \in Masters /\ ~Amid(s) /\ Overtakes(s) -> UseWriting("overtakes")
         [] OTHER -> used' = [used EXCEPT !.writes = @ + 1]
    /\ ses' = [ses EXCEPT ![s].pc = IF s \in Masters THEN "acquire" ELSE "turn",
                          ![s].kind = kind]
    /\ UNCHANGED <<bus, cur, removed, conns, torn, arb, asleep, pump, closer,
                   doomed, open, inbound, owed, turn>>

(* acquire: one pass of its loop.                                          *)
acquire(s) ==
    /\ At(s, "acquire")
    /\ s \notin asleep
    /\ CASE arb.closed ->
              /\ ses' = [ses EXCEPT ![s].pc = "up", ![s].kind = "none"]
              /\ UNCHANGED <<arb, asleep, turn>>
         [] ~arb.closed /\ MayTransmit(arb, Conn(s)) ->
              /\ Goto(s, "turn")
              /\ arb' = holdLocked(arb, Conn(s))
              /\ turn' = turn \cup {Conn(s)}
              /\ UNCHANGED asleep
         [] OTHER ->
              asleep' = asleep \cup {s} /\ UNCHANGED <<arb, ses, turn>>
    /\ UNCHANGED <<bus, cur, removed, conns, torn, pump, closer, doomed, open,
                   inbound, owed, used>>

(* Write, under wmu: the frame goes out on the line the connection was     *)
(* made on, if both are still there.  On a line that has failed nobody     *)
(* hears it.                                                               *)
Reachable(s) == Conn(s) \notin torn /\ LineOf(Conn(s)) \in open

Transmit(s) ==
    /\ At(s, "turn")
    /\ ses' = [ses EXCEPT ![s].pc = "wrote", ![s].failed = ~Reachable(s)]
    /\ IF /\ Reachable(s) /\ LineOf(Conn(s)) = bus.line
          /\ s \in Masters /\ ses[s].kind = "request"
       THEN \E reply \in Replies : owed' = [owed EXCEPT ![s] = reply]
       ELSE UNCHANGED owed
    /\ UNCHANGED <<bus, cur, removed, conns, torn, arb, asleep, pump, closer,
                   doomed, open, inbound, turn, used>>

(* Write, after wmu: a master keeps the line when it expects a reply.      *)
(* A variant with a defect: a failed write keeps the line.                 *)
KeepsLineAnyway(s) == ses[s].kind = "request"

expectsReply(s) == ses[s].kind = "request" /\ ~ses[s].failed

WriteReturns(s) ==
    /\ At(s, "wrote")
    /\ ses' = [ses EXCEPT ![s].pc = "up", ![s].kind = "none", ![s].failed = FALSE]
    /\ IF s \in Masters /\ ~expectsReply(s)
       THEN Arbiter(release(arb, Conn(s))) /\ turn' = turn \ {Conn(s)}
       ELSE UNCHANGED <<arb, asleep, turn>>
    /\ UNCHANGED <<bus, cur, removed, conns, torn, pump, closer, doomed, open,
                   inbound, owed, used>>

Read(s) ==
    /\ At(s, "up")
    /\ Len(conns[s]) > 0
    /\ conns[s][Len(conns[s])].rx # <<>>
    /\ conns' = [conns EXCEPT ![s][Len(conns[s])].rx = Tail(@)]
    /\ UNCHANGED <<bus, cur, removed, torn, arb, asleep, ses, pump, closer,
                   doomed, open, inbound, owed, turn, used>>

(* conn.teardown, by whoever detached the connection.                      *)
teardown(c) ==
    /\ torn' = torn \cup {c}
    /\ Arbiter(release(arb, c))
    /\ turn' = turn \ {c}

(* conn.Close, when the session's Read ends, when the session gives its    *)
(* peer up, or when its context is cancelled.                              *)
CloseConn(s, then) ==
    /\ At(s, "up")
    /\ IF Conn(s) \in torn THEN then = "down" /\ UNCHANGED used ELSE Use("leaves")
    /\ cur' = [cur EXCEPT ![s] = IF @ = Conn(s) THEN NoConn ELSE @]
    /\ teardown(Conn(s))
    /\ doomed' = doomed \ {Conn(s)}
    /\ Goto(s, then)
    /\ conns' = [conns EXCEPT ![s][Len(conns[s])].rx = <<>>]
    /\ UNCHANGED <<bus, removed, pump, closer, open, inbound, owed>>

(* station.Close.                                                          *)
Remove(s) ==
    /\ s \notin removed
    /\ Use("removals")
    /\ removed' = removed \cup {s}
    /\ cur' = [cur EXCEPT ![s] = NoConn]
    /\ doomed' = doomed \cup ({cur[s]} \ {NoConn})
    /\ UNCHANGED <<bus, conns, torn, arb, asleep, ses, pump, closer, open,
                   inbound, owed, turn>>

Teardown(c) ==
    /\ c \in doomed
    /\ doomed' = doomed \ {c}
    /\ teardown(c)
    /\ UNCHANGED <<bus, cur, removed, conns, ses, pump, closer, open, inbound,
                   owed, used>>

----------------------------------------------------------------------------
(* The pump.                                                               *)
PumpGoto(pc) == pump' = [pump EXCEPT !.pc = pc]

die == bus' = [bus EXCEPT !.stopped = TRUE]

(* The channel below gives the pump a line, or an error that ends the bus. *)
PumpConnects ==
    /\ pump.pc = "connect"
    /\ pump.line < MaxDisturbed + 2
    /\ closer.pc \in {"open", "locked"}
    /\ open' = open \cup {pump.line + 1}
    /\ pump' = [pump EXCEPT !.pc = "attach", !.line = @ + 1]
    /\ UNCHANGED <<bus, cur, removed, conns, torn, arb, asleep, ses, closer,
                   doomed, inbound, owed, turn, used>>

PumpCannotConnect ==
    /\ pump.pc = "connect"
    /\ die
    /\ PumpGoto("dead")
    /\ UNCHANGED <<cur, removed, conns, torn, arb, asleep, ses, closer, doomed,
                   open, inbound, owed, turn, used>>

(* A variant with a defect: a bus closed meanwhile is not noticed.         *)
AttachAnyway ==
    /\ bus' = [bus EXCEPT !.line = pump.line]
    /\ PumpGoto("read")
    /\ UNCHANGED open

attach ==
    IF bus.closed
    THEN /\ die
         /\ PumpGoto("dead")
         /\ open' = open \ {pump.line}
    ELSE /\ bus' = [bus EXCEPT !.line = pump.line]
         /\ PumpGoto("read")
         /\ UNCHANGED open

PumpAttaches ==
    /\ pump.pc = "attach"
    /\ attach
    /\ UNCHANGED <<cur, removed, conns, torn, arb, asleep, ses, closer, doomed,
                   inbound, owed, turn, used>>

(* route, under the bus's lock: who the frame is for.                      *)
matches(s, f) == f.to = s \/ (f.to = AllStations /\ s \in Outstations)

route ==
    /\ pump.pc = "read"
    /\ inbound # <<>>
    /\ inbound' = Tail(inbound)
    /\ LET f == Head(inbound)
           targets == {cur[s] : s \in {t \in Stations : matches(t, f)}} \ {NoConn}
       IN  pump' = IF targets = {} THEN pump
                   ELSE [pump EXCEPT !.pc = "push", !.frame = f, !.targets = targets]
    /\ UNCHANGED <<bus, cur, removed, conns, torn, arb, asleep, ses, closer,
                   doomed, open, owed, turn, used>>

NextTarget(c) ==
    IF pump.targets = {c} THEN [pump EXCEPT !.pc = "read", !.targets = {}, !.frame = NoFrame]
    ELSE [pump EXCEPT !.pc = "push", !.targets = @ \ {c}]

full(c) == Len(conns[c[1]][c[2]].rx) = Queue

(* push: a full queue drops the frame, and the hold is left to lapse.      *)
push ==
    /\ pump.pc = "push"
    /\ LET c == CHOOSE t \in pump.targets : TRUE
       IN  /\ conns' = IF full(c) THEN conns
                       ELSE [conns EXCEPT ![c[1]][c[2]].rx = Append(@, pump.frame)]
           /\ pump' = IF full(c) THEN NextTarget(c) ELSE [pump EXCEPT !.pc = "observe"]
    /\ UNCHANGED <<bus, cur, removed, torn, arb, asleep, ses, closer, doomed,
                   open, inbound, owed, turn, used>>

Observe ==
    /\ pump.pc = "observe"
    /\ LET c == CHOOSE t \in pump.targets : TRUE
       IN  /\ Arbiter(observe(arb, c, pump.frame.fin))
           /\ turn' = IF pump.frame.fin THEN turn \ {c} ELSE turn
           /\ pump' = NextTarget(c)
    /\ UNCHANGED <<bus, cur, removed, conns, torn, ses, closer, doomed, open,
                   inbound, owed, used>>

(* The line fails under the pump, or Bus.Close has closed it.              *)
(* detach, under the bus's lock.                                           *)
Live == {cur[s] : s \in Stations} \ {NoConn}

(* A variant with a defect: the stations keep their connections.           *)
DetachLineOnly ==
    /\ cur' = cur
    /\ doomed' = doomed
    /\ pump' = [pump EXCEPT !.pc = "connect"]

detachAllLocked ==
    /\ cur' = [s \in Stations |-> NoConn]
    /\ doomed' = doomed \cup Live
    /\ pump' = [pump EXCEPT !.pc = "detach", !.live = Live]

detach ==
    /\ pump.pc = "read"
    /\ IF pump.line \in open THEN Use("breaks") ELSE UNCHANGED used
    /\ bus' = [bus EXCEPT !.line = 0]
    /\ detachAllLocked
    /\ inbound' = <<>>
    /\ owed' = [m \in Masters |-> <<>>]
    /\ UNCHANGED <<removed, conns, torn, arb, asleep, ses, closer, open,
                   turn>>

Detached ==
    /\ pump.pc = "detach"
    /\ pump.live \subseteq torn
    /\ open' = open \ {pump.line}
    /\ pump' = [pump EXCEPT !.pc = "connect", !.live = {}]
    /\ UNCHANGED <<bus, cur, removed, conns, torn, arb, asleep, ses, closer,
                   doomed, inbound, owed, turn, used>>

----------------------------------------------------------------------------
(* Bus.Close: under the bus's lock; die, cancel and the arbiter's close;   *)
(* the teardowns; the line and the channel.                                *)
CloseBus ==
    /\ closer.pc = "open"
    /\ Use("closes")
    /\ closer' = [pc |-> "locked", line |-> bus.line]
    /\ bus' = [bus EXCEPT !.closed = TRUE, !.line = 0]
    /\ cur' = [s \in Stations |-> NoConn]
    /\ doomed' = doomed \cup Live
    /\ UNCHANGED <<removed, conns, torn, arb, asleep, ses, pump, open, inbound,
                   owed, turn>>

CloseArbiter ==
    /\ closer.pc = "locked"
    /\ closer' = [closer EXCEPT !.pc = "cancelled"]
    /\ die
    /\ Arbiter(arbClose(arb))
    /\ turn' = {}
    /\ UNCHANGED <<cur, removed, conns, torn, ses, pump, doomed, open, inbound,
                   owed, used>>

CloseLine ==
    /\ closer.pc = "cancelled"
    /\ doomed = {}
    /\ closer' = [closer EXCEPT !.pc = "closed"]
    /\ open' = open \ {closer.line}
    /\ inbound' = <<>>
    /\ UNCHANGED <<bus, cur, removed, conns, torn, arb, asleep, ses, pump,
                   doomed, owed, turn, used>>

----------------------------------------------------------------------------
(* The devices on the line.  A reply has one fragment or several, each of  *)
(* them of one frame or several, and a link reply has no FIN at all.       *)
Answer(m) ==
    /\ owed[m] # <<>>
    /\ pump.line \in open
    /\ bus.line # 0
    /\ owed' = [owed EXCEPT ![m] = Tail(@)]
    /\ inbound' = Append(inbound, [to |-> m, fin |-> Head(owed[m]), line |-> bus.line])
    /\ UNCHANGED <<bus, cur, removed, conns, torn, arb, asleep, ses, pump,
                   closer, doomed, open, turn, used>>

Silence(m) ==
    /\ owed[m] # <<>>
    /\ Use("silences")
    /\ owed' = [owed EXCEPT ![m] = <<>>]
    /\ UNCHANGED <<bus, cur, removed, conns, torn, arb, asleep, ses, pump,
                   closer, doomed, open, inbound, turn>>

Unsolicited(m) ==
    /\ bus.line # 0
    /\ Use("unsolicited")
    /\ inbound' = Append(inbound, [to |-> m, fin |-> TRUE, line |-> bus.line])
    /\ UNCHANGED <<bus, cur, removed, conns, torn, arb, asleep, ses, pump,
                   closer, doomed, open, owed, turn>>

(* A master elsewhere on the line addresses an outstation of this bus.     *)
Request(to) ==
    /\ bus.line # 0
    /\ used.writes < MaxWrites
    /\ used' = [used EXCEPT !.writes = @ + 1]
    /\ inbound' = Append(inbound, [to |-> to, fin |-> TRUE, line |-> bus.line])
    /\ UNCHANGED <<bus, cur, removed, conns, torn, arb, asleep, ses, pump,
                   closer, doomed, open, owed, turn>>

Next ==
    \/ \E s \in Stations :
         \/ start(s) \/ Connect(s) \/ ConnectFails(s) \/ Read(s)
         \/ \E then \in {"down", "ended"} : CloseConn(s, then)
         \/ acquire(s) \/ Transmit(s) \/ WriteReturns(s) \/ Remove(s)
         \/ \E kind \in {"request", "quiet"} : Write(s, kind)
    \/ \E c \in doomed : Teardown(c)
    \/ HoldLapses \/ wake
    \/ PumpConnects \/ PumpCannotConnect \/ PumpAttaches
    \/ route \/ push \/ Observe \/ detach \/ Detached
    \/ CloseBus \/ CloseArbiter \/ CloseLine
    \/ \E m \in Masters : Answer(m) \/ Silence(m) \/ Unsolicited(m)
    \/ \E to \in Outstations \cup {AllStations} : Request(to)

Spec == Init /\ [][Next]_vars

(* Every goroutine runs on, a session whose Read ends closes and connects  *)
(* again, the turnaround elapses, and a cancelled Connect returns.  A      *)
(* device answers or is silent: a hold does not lapse amid a reply without *)
(* end, because MaxDisturbed bounds how often it does.                     *)
SessionRuns(s) ==
    \/ start(s) \/ Connect(s) \/ ConnectFails(s)
    \/ acquire(s) \/ Transmit(s) \/ WriteReturns(s)
    \/ Conn(s) \in torn /\ CloseConn(s, "down")

PumpRuns ==
    \/ bus.closed /\ PumpCannotConnect
    \/ pump.line \notin open /\ detach
    \/ PumpAttaches \/ route \/ push \/ Observe \/ Detached

(* Weak fairness, with the condition under which each of them can go on    *)
(* spelled out.                                                            *)
SessionDue(s) ==
    \/ ses[s].pc \in {"turn", "wrote"}
    \/ At(s, "acquire") /\ s \notin asleep
    \/ At(s, "up") /\ Conn(s) \in torn
    \/ /\ At(s, "down")
       /\ pump.pc = "off" \/ bus.line # 0 \/ bus.closed \/ bus.stopped \/ s \in removed

PumpDue ==
    \/ pump.pc \in {"attach", "push", "observe"}
    \/ pump.pc = "connect" /\ bus.closed
    \/ pump.pc = "read" /\ (inbound # <<>> \/ pump.line \notin open)
    \/ pump.pc = "detach" /\ pump.live \subseteq torn

CloseDue == closer.pc = "locked" \/ (closer.pc = "cancelled" /\ doomed = {})

TimerDue ==
    \/ arb.timer /\ arb.lapsed
    \/ /\ arb.holder # NoConn /\ ~arb.lapsed
       /\ UnderWay(arb.holder[1]) => "late" \in Disturbances /\ used.n < MaxDisturbed

AnswerDue(m) == owed[m] # <<>> /\ pump.line \in open /\ bus.line # 0

FairSpec ==
    /\ Spec
    /\ \A s \in Stations : []<>~SessionDue(s) \/ []<><<SessionRuns(s)>>_vars
    /\ []<>~PumpDue \/ []<><<PumpRuns>>_vars
    /\ []<>~CloseDue \/ []<><<CloseArbiter \/ CloseLine>>_vars
    /\ []<>(doomed = {}) \/ []<><<\E c \in doomed : Teardown(c)>>_vars
    /\ []<>~TimerDue \/ []<><<HoldLapses \/ wake>>_vars
    /\ \A m \in Masters : []<>~AnswerDue(m) \/ []<><<Answer(m)>>_vars

----------------------------------------------------------------------------
(* The arbiter "gives the line to one master at a time": from the moment a *)
(* master is let transmit until a frame with FIN comes for it, or its      *)
(* turnaround elapses, or it writes a frame nothing comes back for, or its *)
(* connection or the bus is closed, no other is let transmit.  So a reply  *)
(* that comes after its turn has lapsed, an unsolicited response for       *)
(* another station, or the end of an older connection or of an older write *)
(* does not end the turn of the master that has the line by then.          *)
OneTurn == \A c, d \in turn : c = d

(* The bus "keeps one master's exchange from starting while another's is   *)
(* still in flight" (multidrop.go, the package's comment): no two devices  *)
(* have replies to send.                                                   *)
HalfDuplex ==
    \A m, n \in Masters : owed[m] # <<>> /\ owed[n] # <<>> => m = n

(* A connection that was torn down holds the line only while its own       *)
(* session is inside Write, which then gives the line up: a reconnect      *)
(* never leaves a dead connection in the other masters' way (conn.go,      *)
(* teardown and Write).                                                    *)
DeadHolderWrites ==
    (arb.holder # NoConn /\ arb.holder \in torn)
        => LET s == arb.holder[1] IN
           arb.holder = Conn(s) /\ ses[s].pc \in {"turn", "wrote"}

(* A session never reads a frame that came over another line than the one  *)
(* its connection writes to: a reply from before a reconnect is not taken  *)
(* for an answer after it (multidrop.go, detach and route).                *)
OwnLineOnly ==
    \A s \in Stations : \A n \in DOMAIN conns[s] :
        \A i \in DOMAIN conns[s][n].rx : conns[s][n].rx[i].line = conns[s][n].line

(* A master that waits for its turn gets it, or is told that the line is   *)
(* gone: a release, a lapse and a close all wake it (arbiter.go).          *)
TurnComes == \A m \in Masters : At(m, "acquire") ~> ~At(m, "acquire")

(* Once the bus is closed every session comes to its end, also one that    *)
(* waits for a line or for its turn, and no line stays open below the bus, *)
(* not even one the pump was making at the time (multidrop.go, Close, pump *)
(* and attach).                                                            *)
ClosesDown ==
    bus.closed ~> []((\A s \in Stations : At(s, "ended")) /\ open = {})
=============================================================================
