------------------------------ MODULE Station ------------------------------
(***************************************************************************)
(* An outstation's data as its application and its masters use it: the     *)
(* application updates points; a master reads them, moves them between     *)
(* classes, sets deadbands, freezes counters now or at a time, and sets    *)
(* the clock (the handlers of outstation/session.go and freeze.go).  A     *)
(* read ends at the master's handler: the response is built, laid out,     *)
(* parsed and dispatched, and confirmed or not.                            *)
(*                                                                         *)
(* Everything here happens on the session's goroutine, one request, one    *)
(* update or one tick at a time.  What varies is the order: the 50 ms tick *)
(* that runs the scheduled freezes may come late, after requests that      *)
(* arrived meanwhile.                                                      *)
(*                                                                         *)
(* clock.now is the outstation's clock; wall is the time itself, which no  *)
(* code reads.                                                             *)
(***************************************************************************)
EXTENDS Responses

CONSTANTS
    Scenarios,      \* a function: the device, and what is asked of it
    MaxUpdates,     \* how many updates and requests that raise events
    maxFreezeSchedules

VARIABLES scenario, db, clock, freezes, left

vars == <<scenario, db, clock, freezes, left>>

S == Scenarios[scenario]

NewStation(s) ==
    FoldLeft(LAMBDA d, c : Configure(d, c.pt, c.i, c.cfg),
             NewDatabase(Scenarios[s].counts, Scenarios[s].class), Scenarios[s].configs)

Init ==
    /\ scenario \in DOMAIN Scenarios
    /\ db = NewStation(scenario)
    /\ clock = [now |-> 0, wall |-> 0, synchronized |-> FALSE,
                recorded |-> NoTime, recordedWall |-> NoTime]
    /\ freezes = <<>>
    /\ left = MaxUpdates

----------------------------------------------------------------------------
(* The application: Session.Update.                                        *)
Stamp(u) == [value |-> u.value, flags |-> u.flags,
             time |-> IF u.stamped THEN clock.now ELSE NoTime]

Apply(d, u) ==
    CASE u.op = "binary"       -> UpdateBinary(d, u.i, Stamp(u))
      [] u.op = "doubleBit"    -> UpdateDoubleBit(d, u.i, Stamp(u))
      [] u.op = "binaryOut"    -> UpdateBinaryOutputStatus(d, u.i, Stamp(u))
      [] u.op = "counter"      -> UpdateCounter(d, u.i, Stamp(u))
      [] u.op = "frozen"       -> UpdateFrozenCounter(d, u.i, Stamp(u))
      [] u.op = "analog"       -> UpdateAnalog(d, u.i, Stamp(u))
      [] u.op = "frozenAnalog" -> UpdateFrozenAnalog(d, u.i, Stamp(u))
      [] u.op = "analogOut"    -> UpdateAnalogOutputStatus(d, u.i, Stamp(u))
      [] u.op = "octet"        -> UpdateOctetString(d, u.i, u.text)
      [] u.op = "terminal"     -> UpdateVirtualTerminal(d, u.i, u.text)
      [] u.op = "dataset"      -> UpdateDataset(d, 87, 1, u.i, u.text, S.class)
      [] u.op = "interval"     -> UpdateTimeAndInterval(d, u.i, u.value)
      [] u.op = "binaryCommand" ->
            RaiseBinaryCommandEvent(d, u.i, u.value, "success", clock.now)
      [] u.op = "analogCommand" ->
            RaiseAnalogCommandEvent(d, u.i, u.value, 2, "success", clock.now)

Update ==
    /\ left > 0
    /\ \E u \in S.updates : db' = Apply(db, u)
    /\ left' = left - 1
    /\ UNCHANGED <<scenario, clock, freezes>>

----------------------------------------------------------------------------
(* Reads.  The events a header asks for are selected as it is met, and     *)
(* built before anything else.                                             *)
SelectWhere(d, Matches(_), limit) ==
    LET M == {e \in d.events.events : ~e.selected /\ Matches(e)}
        picked == {e.seq : e \in {e \in M : Cardinality({f \in M : f.seq < e.seq}) < limit}}
    IN  [db |-> [d EXCEPT !.events.dropsAtSelect = d.events.drops,
                          !.events.events = Mark(@, picked, TRUE)],
         events |-> SelectSeq(d.payload, LAMBDA e : e.seq \in picked)]

eventReadLimit(h) == IF h.spec = "count" THEN h.stop ELSE 1000

LimitGiven(h) == h.spec \in {"all", "count"}

ClassOf(variation) == {CHOOSE c \in Class : S.variationOf[c] = variation}

EventTypes == DOMAIN eventGroup

eventTypeForGroup(group) == CHOOSE pt \in EventTypes : eventGroup[pt] = group

isEventGroup(group) == \E pt \in EventTypes : eventGroup[pt] = group

eventVariationKnown(pt, variation) ==
    CASE pt = "dataset" -> variation = 1
      [] pt \in {"octet", "terminal"} -> FALSE
      [] OTHER -> Lookup(eventGroup[pt], variation)

pointTypeForGroup(group) ==
    IF group \in {87, 88} THEN {"dataset"}
    ELSE {pt \in PointTypes : group \in {staticGroup[pt], eventGroup[pt]}}

Fault(acc, bit) == [acc EXCEPT !.iin = @ \cup {bit}]

Picked(acc, s) == [acc EXCEPT !.db = s.db, !.selected = @ \o s.events]

ReadClass(acc, h) ==
    IF LimitGiven(h)
    THEN Picked(acc, SelectWhere(acc.db, LAMBDA e : e.class \in ClassOf(h.variation), eventReadLimit(h)))
    ELSE Fault(acc, "parameterError")

ReadEvents(acc, h) ==
    LET pt == eventTypeForGroup(h.group)
        s == SelectWhere(acc.db, LAMBDA e : acc.db.payload[e.seq].type = pt, eventReadLimit(h))
        asked == IF h.variation = 0 \/ pt = "octet" THEN s.events
                 ELSE [k \in DOMAIN s.events |-> [s.events[k] EXCEPT !.variation = h.variation]]
    IN  CASE h.variation # 0 /\ ~eventVariationKnown(pt, h.variation) -> Fault(acc, "objectUnknown")
          [] pt \in Range(staticTypes) /\ Counts(acc.db, pt) = 0 -> Fault(acc, "objectUnknown")
          [] ~LimitGiven(h) -> Fault(acc, "parameterError")
          [] OTHER -> Picked(acc, [s EXCEPT !.events = asked])

Later(acc, h) == [acc EXCEPT !.later = Append(@, h)]

(* checkStaticRead and the checks before it.                               *)
ReadStatic(acc, h) ==
    IF pointTypeForGroup(h.group) = {} THEN Fault(acc, "objectUnknown")
    ELSE LET pt == CHOOSE pt \in pointTypeForGroup(h.group) : TRUE
         IN  IF h.variation # 0 /\ pt # "octet" /\ ~Lookup(staticGroup[pt], h.variation)
             THEN Fault(acc, "objectUnknown")
             ELSE IF Counts(acc.db, pt) = 0 THEN Later(Fault(acc, "objectUnknown"), h)
             ELSE IF namesBeyond(h, Counts(acc.db, pt)) THEN Later(Fault(acc, "parameterError"), h)
             ELSE Later(acc, h)

(* A data set that fits no fragment is an error; the others are told.      *)
TooLarge(d, h) ==
    \E run \in Range(forEachPointRun(h)) : DatasetsOf(d, h, FALSE) \cap run[1]..run[2] # {}

ReadHeader(acc, h) ==
    CASE h.group = 60 /\ h.variation = 1 ->
            Later(IF TooLarge(acc.db, AllObjects(87, 1)) THEN Fault(acc, "parameterError") ELSE acc, h)
      [] h.group = 60 /\ h.variation # 1 -> ReadClass(acc, h)
      [] h.group # 60 /\ isEventGroup(h.group) -> ReadEvents(acc, h)
      [] h.group = 50 /\ h.variation = 3 ->
            IF clock.recorded = NoTime THEN Fault(acc, "parameterError") ELSE Later(acc, h)
      [] h.group = 50 /\ h.variation = 1 -> Later(acc, h)
      [] \/ h.group = 50 /\ h.variation = 4
         \/ h.group = 112
         \/ h.group \in 85..87 /\ datasetVariationKnown(h.group, IF h.variation = 0 THEN 1 ELSE h.variation) ->
            IF ~PointRuns(h) THEN Fault(acc, "parameterError")
            ELSE IF h.group \in 85..87 /\ TooLarge(acc.db, h) THEN Later(Fault(acc, "parameterError"), h)
            ELSE Later(acc, h)
      [] OTHER -> ReadStatic(acc, h)

ClassZero(d, b) ==
    readDatasets(d, FoldLeft(LAMBDA c, pt : buildStaticRange(d, c, pt, 0, 0, MaxIndex), b, staticTypes),
                 AllObjects(87, 1))

BuildLater(d, b, h) ==
    CASE h.group = 60 -> ClassZero(d, b)
      [] h.group = 50 /\ h.variation = 1 -> add(b, TimeHeader(1, clock.now))
      [] h.group = 50 /\ h.variation = 3 -> add(b, TimeHeader(3, clock.recorded))
      [] h.group = 50 /\ h.variation = 4 -> readTimeIntervals(d, b, h)
      [] h.group \in 85..87 -> readDatasets(d, b, h)
      [] h.group = 112 -> readTerminals(d, b, h)
      [] OTHER -> LET pt == CHOOSE pt \in pointTypeForGroup(h.group) : TRUE
                      runs == IF PointRuns(h) THEN forEachPointRun(h) ELSE <<<<0, MaxIndex>>>>
                  IN  FoldLeft(LAMBDA c, run : buildStaticRange(d, c, pt, h.variation, run[1], run[2]),
                               b, runs)

(* The response, from what the headers selected and what they left for     *)
(* later, once the events are in it.                                       *)
Answer(r, e) ==
    [db |-> [r.db EXCEPT !.events = Discard(@, e.unsent)], iin |-> r.iin,
     sent |-> SelectSeq(r.selected, LAMBDA ev : ev.seq \notin e.unsent),
     frags |-> done(FoldLeft(LAMBDA c, h : BuildLater(r.db, c, h), e.b, r.later))]

AnswerSelected(r) ==
    Answer(r, buildEvents(r.db, clock, [b |-> newResponseBuilder, unsent |-> {}], r.selected))

onRead(d, q) ==
    AnswerSelected(FoldLeft(ReadHeader, [db |-> d, iin |-> {}, selected |-> <<>>, later |-> <<>>], q))

(* The response is sent, and confirmed or not.                             *)
Read ==
    /\ \E q \in S.requests :
          LET r == onRead(db, q)
          IN  \E confirmed \in BOOLEAN :
                 db' = [r.db EXCEPT !.events = IF confirmed THEN Confirm(@) ELSE Unselect(@)]
    /\ UNCHANGED <<scenario, clock, freezes, left>>
----------------------------------------------------------------------------
(* Requests that change the data.  ASSIGN_CLASS: a group 60 header sets    *)
(* the class that the headers after it assign.                             *)
ForEachRun(d, h, Step(_, _)) == FoldLeft(Step, d, forEachPointRun(h))

onAssignClass(d, q) ==
    FoldLeft(LAMBDA acc, h :
        CASE h.group = 60 -> [acc EXCEPT !.class = IF h.variation = 1 THEN NoClass
                                                   ELSE CHOOSE c \in ClassOf(h.variation) : TRUE]
          [] h.group # 60 /\ pointTypeForGroup(h.group) = {} -> acc
          [] OTHER -> [acc EXCEPT !.db = ForEachRun(@, h, LAMBDA e, run :
                          assignClassRange(e, CHOOSE pt \in pointTypeForGroup(h.group) : TRUE,
                                           acc.class, run[1], run[2]))],
        [db |-> d, class |-> NoClass], q).db

AssignClass ==
    /\ left > 0
    /\ \E q \in S.assignments : db' = onAssignClass(db, q)
    /\ left' = left - 1
    /\ UNCHANGED <<scenario, clock, freezes>>

(* A group 34 write: the analog keeps the rest of its configuration.       *)
writeDeadbands(d, i, deadband) ==
    IF Has(d, "analog", i)
    THEN Configure(d, "analog", i, [d.points["analog"][i].cfg EXCEPT !.deadband = deadband])
    ELSE d

WriteDeadband ==
    /\ left > 0
    /\ \E w \in S.deadbands : db' = writeDeadbands(db, w[1], w[2])
    /\ left' = left - 1
    /\ UNCHANGED <<scenario, clock, freezes>>

(* A freeze with no objects is of everything.                              *)
AllRuns == <<<<0, MaxIndex>>>>

Ranges(q, group) ==
    IF q = <<>> THEN AllRuns
    ELSE FoldLeft(LAMBDA acc, h : IF h.group = group THEN acc \o forEachPointRun(h) ELSE acc, <<>>, q)

freezeRuns(d, runs, analogRuns, at, clear) ==
    FoldLeft(LAMBDA e, r : freezeAnalogsRange(e, r[1], r[2], at, clear),
             FoldLeft(LAMBDA e, r : freezeRange(e, r[1], r[2], at, clear), d, runs), analogRuns)

onFreeze(d, q, clear) == freezeRuns(d, Ranges(q, 20), Ranges(q, 30), clock.now, clear)

Freeze ==
    /\ left > 0
    /\ \E q \in S.freezes, clear \in BOOLEAN : db' = onFreeze(db, q, clear)
    /\ left' = left - 1
    /\ UNCHANGED <<scenario, clock, freezes>>

----------------------------------------------------------------------------
(* Freezes at a time.  A schedule remembers, as history, the moment its    *)
(* request named and the last moment it froze at.                          *)
Periods(from, to, interval) == (to - from) \div interval + 1

NextMoment(first, interval) ==
    IF first >= clock.now THEN first
    ELSE first + Periods(first, clock.now, interval) * interval

SameFreeze(f, g) ==
    /\ f.next = g.next /\ f.interval = g.interval
    /\ f.ranges = g.ranges /\ f.analogRanges = g.analogRanges

onFreezeAtTime(fs, first, interval, q) ==
    LET f == [next |-> NextMoment(first, interval), interval |-> interval,
              ranges |-> Ranges(q, 20), analogRanges |-> Ranges(q, 30),
              first |-> first, last |-> NoTime]
    IN  IF \/ first < clock.now /\ interval = 0
           \/ \E k \in DOMAIN fs : SameFreeze(fs[k], f)
           \/ Len(fs) >= maxFreezeSchedules
        THEN fs ELSE Append(fs, f)

FreezeAtTime ==
    /\ left > 0
    /\ \E w \in S.schedules : freezes' = onFreezeAtTime(freezes, w.first, w.interval, w.q)
    /\ left' = left - 1
    /\ UNCHANGED <<scenario, db, clock>>

(* The schedules that have come due freeze at the moment they named; one   *)
(* that repeats moves to its next moment after now.                        *)
Due(f) == clock.now >= f.next

(* A variant with a defect: the next moment is counted from the tick.      *)
RescheduleFromNow(f) == [f EXCEPT !.last = f.next, !.next = clock.now + f.interval]

Reschedule(f) ==
    [f EXCEPT !.last = f.next,
              !.next = @ + Periods(f.next, clock.now, f.interval) * f.interval]

(* The 50 ms tick.                                                         *)
runFreezes ==
    /\ \E k \in DOMAIN freezes : Due(freezes[k])
    /\ db' = FoldLeft(LAMBDA d, f : IF Due(f) THEN freezeRuns(d, f.ranges, f.analogRanges, f.next, FALSE)
                                    ELSE d, db, freezes)
    /\ LET kept == SelectSeq(freezes, LAMBDA f : ~Due(f) \/ f.interval > 0)
       IN  freezes' = [k \in DOMAIN kept |-> IF Due(kept[k]) THEN Reschedule(kept[k]) ELSE kept[k]]
    /\ UNCHANGED <<scenario, clock, left>>

----------------------------------------------------------------------------
(* The clock.                                                              *)
Pass ==
    /\ clock.wall < S.horizon
    /\ clock' = [clock EXCEPT !.now = @ + S.step, !.wall = @ + S.step]
    /\ UNCHANGED <<scenario, db, freezes, left>>

clockSet(now) == [clock EXCEPT !.now = now, !.synchronized = TRUE]

(* WRITE of group 50 variation 1.                                          *)
WriteTime ==
    /\ left > 0
    /\ \E t \in S.times : clock' = clockSet(t)
    /\ left' = left - 1
    /\ UNCHANGED <<scenario, db, freezes>>

onRecordCurrentTime ==
    /\ left > 0
    /\ S.times # {}
    /\ clock' = [clock EXCEPT !.recorded = clock.now, !.recordedWall = clock.wall]
    /\ left' = left - 1
    /\ UNCHANGED <<scenario, db, freezes>>

(* WRITE of group 50 variation 3: the master's time when RECORD_CURRENT_   *)
(* TIME arrived, and what has passed since.                                *)
WriteRecordedTime ==
    /\ left > 0
    /\ clock.recorded # NoTime
    /\ \E t \in S.times :
          clock' = [clockSet(t + (clock.now - clock.recorded)) EXCEPT !.recorded = NoTime]
    /\ left' = left - 1
    /\ UNCHANGED <<scenario, db, freezes>>

(* The holdover after SyncInterval has passed too.                         *)
clockDue ==
    /\ clock.synchronized /\ S.holdover
    /\ clock' = [clock EXCEPT !.synchronized = FALSE]
    /\ UNCHANGED <<scenario, db, freezes, left>>

Next ==
    \/ Update \/ Read \/ AssignClass \/ WriteDeadband \/ Freeze
    \/ FreezeAtTime \/ runFreezes
    \/ Pass \/ WriteTime \/ onRecordCurrentTime \/ WriteRecordedTime \/ clockDue

Spec == Init /\ [][Next]_vars

----------------------------------------------------------------------------
(* Properties.                                                             *)
Unmarked(r) == r.group \in DOMAIN descriptors /\ ~descriptors[r.group][r.variation].flags

Counted(r) == r.group \in {20, 21, 22, 23}

(* A report conveys a value when it has it, or says it is out of range, or *)
(* is a counter narrower than its value.  A variation without flags cannot *)
(* say; see ClampedIsMarked.                                               *)
Conveys(r, v) ==
    /\ \/ r.value = v.value
       \/ "overRange" \in r.flags
       \/ Counted(r) /\ r.value = v.value % Octet^2
       \/ r.group \in {30, 31} /\ Unmarked(r)
       \/ r.group = 43
    /\ r.flags \ {"overRange"} = v.flags \ {"overRange"}

Timed(r) == descriptors[r.group][r.variation].time # "none"

TellsEvent(r, e) ==
    /\ r.group = eventGroup[e.type]
    /\ e.type # "dataset" => r.index = e.index
    /\ CASE e.type \in {"terminal", "dataset"} -> r.text = e.was
         [] e.type = "octet" -> r.text = appendOctetString(Text(db, e), e.variation)
         [] OTHER -> /\ Conveys(r, e)
                     /\ Timed(r) /\ e.time # NoTime => r.time = e.time

TellsPoint(r) ==
    \A pt \in Range(staticTypes) :
        r.group = staticGroup[pt] =>
            /\ Has(db, pt, r.index)
            /\ IF pt = "octet"
               THEN r.text = appendOctetString(Text(db, db.points[pt][r.index]), StringLen(db, pt, r.index))
               ELSE Conveys(r, db.points[pt][r.index])

(* The points of a type that a header names.                               *)
Names(h, pt) ==
    CASE h.group = 60 -> IF h.variation = 1 THEN DOMAIN db.points[pt] ELSE {}
      [] h.group = staticGroup[pt] /\ h.spec = "count" -> DOMAIN db.points[pt]
      [] h.group = staticGroup[pt] /\ h.spec # "count" ->
            UNION {run[1]..run[2] : run \in Range(forEachPointRun(h))}
      [] OTHER -> {}

TellsEvents(read) ==
    LET r == Received(read.frags)
    IN  /\ Len(r) >= Len(read.sent)
        /\ \A k \in DOMAIN read.sent : TellsEvent(r[k], read.sent[k])

TellsPoints(q, read) ==
    LET n == Len(read.sent)
        r == Received(read.frags)
    IN  /\ \A k \in (n + 1)..Len(r) : TellsPoint(r[k])
        /\ \A h \in Range(q), pt \in Range(staticTypes) : \A i \in Names(h, pt) :
              \/ \E k \in (n + 1)..Len(r) : r[k].group = staticGroup[pt] /\ r[k].index = i
              \/ ~Has(db, pt, i) /\ (read.iin # {} \/ h.spec = "all")

(* Whichever read is next, it tells the master's handler first the events  *)
(* it takes from the buffer, in the order they were selected, each at its  *)
(* own index and with the value, flags, text and time it was raised with,  *)
(* an octet string with the text its array holds by now (see OctetsKept),  *)
(* whatever fragments, index widths, time bases and variations they travel *)
(* in: two events of a run may be too far apart for one base, or the clock *)
(* set back between them (onRead, buildEvents, the codecs, dispatch).      *)
EventsTold == \A q \in S.requests : TellsEvents(onRead(db, q))

(* Whichever read is next, the points it asks for come after its events    *)
(* and as they are now, so that the present value has the last word: every *)
(* point named is told, with its flags and its value or a mark that the    *)
(* value is out of range, however the points are packed into runs and      *)
(* fragments; and a point the device lacks earns an indication (onRead,    *)
(* buildStaticRange, reportVariation, the codecs, dispatch).               *)
PointsTold == \A q \in S.requests : TellsPoints(q, onRead(db, q))

WithDeadband == {"counter", "analog", "frozenAnalog", "analogOut"}

NewEventOf(pt, i) ==
    \E s \in (Len(db.payload) + 1)..Len(db'.payload) :
        db'.payload[s].type = pt /\ db'.payload[s].index = i

(* A change that is not worth an event leaves the point within its         *)
(* deadband of the value of its last event, with the flags of that event,  *)
(* however many small steps it took to get there and whatever froze or     *)
(* cleared it on the way (shouldReport and its callers).                   *)
DeadbandHolds ==
    [][\A pt \in WithDeadband : \A i \in DOMAIN db.points[pt] :
        LET p == db.points[pt][i]
            q == db'.points[pt][i]
        IN  /\ p.told # <<>> /\ q.cfg.class # NoClass
            /\ <<p.value, p.flags>> # <<q.value, q.flags>>
            /\ ~NewEventOf(pt, i)
            => /\ q.flags = p.told[2]
               /\ IF q.value = NaN \/ p.told[1] = NaN THEN q.value = p.told[1]
                  ELSE Distance(q.value, p.told[1]) <= q.cfg.deadband]_vars

(* A scheduled freeze keeps its schedule however late the tick: a          *)
(* repeating one is always due at its first moment plus a whole number of  *)
(* intervals and never at a moment it has frozen at; a tick leaves nothing *)
(* due; and what it froze is stamped with the moment that was scheduled,   *)
(* not the moment of the tick (onFreezeAtTime, runFreezes).                *)
FreezesOnSchedule ==
    [][freezes' # freezes =>
        /\ \A k \in DOMAIN freezes' :
              LET f == freezes'[k]
              IN  /\ f.interval > 0 => (f.next - f.first) % f.interval = 0
                  /\ f.interval = 0 => f.next = f.first
                  /\ f.next > f.last
        /\ \A i \in DOMAIN db.points["frozen"] :
              LET p == db.points["frozen"][i]
                  q == db'.points["frozen"][i]
              IN  p # q => /\ \E k \in DOMAIN freezes : Due(freezes[k]) /\ q.time = freezes[k].next
                           /\ q.value = db.points["counter"][i].value
                           /\ \A k \in DOMAIN freezes' : freezes'[k].next > clock.now]_vars

(* What the code's comments say and the code does not do.  An octet string *)
(* waiting to be reported keeps the text it was raised with.               *)
OctetsKept ==
    \A e \in db.events.events :
        db.payload[e.seq].type = "octet" => Text(db, db.payload[e.seq]) = db.payload[e.seq].was

(* The same freeze asked for twice is one freeze.                          *)
FreezeOnce ==
    \A j, k \in DOMAIN freezes : j # k =>
        <<freezes[j].first, freezes[j].interval, freezes[j].ranges>>
            # <<freezes[k].first, freezes[k].interval, freezes[k].ranges>>

(* A value its variation cannot hold is marked out of range.               *)
ClampedIsMarked ==
    \A q \in S.requests :
        \A r \in Range(Received(onRead(db, q).frags)) :
            r.group = 30 => r.value = db.points["analog"][r.index].value \/ "overRange" \in r.flags

(* The time taken since RECORD_CURRENT_TIME is the time that has passed.   *)
ElapsedHasPassed ==
    [][clock.recorded # NoTime /\ clock'.recorded = NoTime
         => clock.now - clock.recorded = clock.wall - clock.recordedWall]_vars
=============================================================================
