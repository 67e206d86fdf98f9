----------------------------- MODULE Database ------------------------------
(***************************************************************************)
(* The outstation's measurement database (outstation/database.go,          *)
(* extended_database.go and dataset.go), one operator per method, from a   *)
(* database to the database the method leaves.  Every method holds the     *)
(* database's mutex throughout, and all of them run on the session's       *)
(* goroutine.                                                              *)
(*                                                                         *)
(* points[type][index] is a point: its value, its configuration and the    *)
(* value its deadband is measured from.  payload[seq] is what the event    *)
(* numbered seq carries.  Strings are kept as the program keeps them: a    *)
(* point and an event hold an array and a length, and heap[a] is what the  *)
(* array holds now, its length being the array's capacity.                 *)
(*                                                                         *)
(* told and was are history: the value of the last event a point raised in *)
(* its present class, and the text of an event when it was raised.         *)
(***************************************************************************)
EXTENDS Objects, EventBuffer

CONSTANTS
    MaxOctetStringLen,  \* dnp3.MaxOctetStringLen, the longest string
    Grain               \* the allocator rounds a new array up to this

NoClass == "none"       \* dnp3.ClassNone

PointTypes ==
    {"binary", "doubleBit", "binaryOut", "counter", "frozen", "analog",
     "frozenAnalog", "analogOut", "octet", "terminal"}

defaultStaticVariations ==
    [pt \in PointTypes |->
        CASE pt \in {"binary", "doubleBit", "binaryOut"} -> 2
          [] pt \in {"octet", "terminal"} -> 0
          [] OTHER -> 1]

defaultEventVariations ==
    [pt \in PointTypes |->
        CASE pt \in {"binary", "doubleBit", "binaryOut"} -> 2
          [] pt \in {"counter", "frozen"} -> 5
          [] pt \in {"octet", "terminal"} -> 0
          [] OTHER -> 3]

staticGroup ==
    [binary |-> 1, doubleBit |-> 3, counter |-> 20, frozen |-> 21,
     frozenAnalog |-> 31, terminal |-> 112, analog |-> 30, binaryOut |-> 10,
     analogOut |-> 40, octet |-> 110]

eventGroup ==
    [binary |-> 2, doubleBit |-> 4, binaryOut |-> 11, binaryCommand |-> 13,
     counter |-> 22, frozen |-> 23, frozenAnalog |-> 33, dataset |-> 88,
     terminal |-> 113, analog |-> 32, analogOut |-> 42, analogCommand |-> 43,
     octet |-> 111]

PointConfig(class, deadband, svar, evar, cclass, cvar) ==
    [class |-> class, deadband |-> deadband, svar |-> svar, evar |-> evar,
     cclass |-> cclass, cvar |-> cvar]

makePoints(n, pt, class) ==
    [i \in 0..(n - 1) |->
        [value |-> 0, flags |-> {}, time |-> NoTime, arr |-> 0, len |-> 0,
         cfg |-> PointConfig(class, 0, defaultStaticVariations[pt],
                             defaultEventVariations[pt], NoClass, 0),
         reported |-> 0, hasEvent |-> FALSE, told |-> <<>>]]

NewDatabase(counts, class) ==
    [points |-> [pt \in PointTypes |-> makePoints(counts[pt], pt, class)],
     intervals |-> [i \in 0..(counts["interval"] - 1) |-> 0],
     datasets |-> <<>>, datasetClasses |-> <<>>,
     events |-> NewEventBuffer, payload |-> <<>>, heap |-> <<>>]

Counts(db, pt) == Cardinality(DOMAIN db.points[pt])

Has(db, pt, i) == i \in DOMAIN db.points[pt]

----------------------------------------------------------------------------
(* Configuration.                                                          *)
eventVariationEncodable(pt, v) ==
    v = 0 \/ pt \in {"octet", "terminal"} \/ Lookup(eventGroup[pt], v)

(* Whatever is configured for a point, the value it was last told in is    *)
(* history of the class it was told in.                                    *)
Reclassed(p, cfg) ==
    [p EXCEPT !.cfg = cfg, !.told = IF p.cfg.class = cfg.class THEN @ ELSE <<>>]

setConfig(p, cfg) ==
    Reclassed(p, [cfg EXCEPT !.svar = IF @ = 0 THEN p.cfg.svar ELSE @,
                             !.evar = IF @ = 0 THEN p.cfg.evar ELSE @])

Configure(db, pt, i, cfg) ==
    IF eventVariationEncodable(pt, cfg.evar) /\ Has(db, pt, i)
    THEN [db EXCEPT !.points[pt][i] = setConfig(@, cfg)]
    ELSE db

assignClass(pts, class, start, stop) ==
    [i \in DOMAIN pts |->
        IF i \in start..stop
        THEN Reclassed(pts[i], [pts[i].cfg EXCEPT !.class = class])
        ELSE pts[i]]

assignClassRange(db, pt, class, start, stop) ==
    IF pt = "dataset"
    THEN [db EXCEPT !.datasetClasses =
             [i \in {k[3] : k \in {k \in DOMAIN db.datasets :
                                      k[1] = 87 /\ k[3] \in start..stop}} |-> class] @@ @]
    ELSE [db EXCEPT !.points[pt] = assignClass(@, class, start, stop)]

----------------------------------------------------------------------------
(* Events.                                                                 *)
PointEvent(pt, i, variation, v) ==
    [type |-> pt, index |-> i, variation |-> variation, value |-> v.value,
     flags |-> v.flags, time |-> v.time, arr |-> 0, len |-> 0, seq |-> 0, was |-> <<>>]

TextEvent(pt, i, arr, text) ==
    [type |-> pt, index |-> i, variation |-> Len(text), value |-> 0,
     flags |-> {}, time |-> NoTime, arr |-> arr, len |-> Len(text), seq |-> 0,
     was |-> text]

Queue(db, class, e) ==
    [db EXCEPT !.events  = Add(@, class, e.variation # 0),
               !.payload = Append(@, [e EXCEPT !.seq = db.events.nextSeq + 1])]

raise(db, e) ==
    LET class == db.points[e.type][e.index].cfg.class
    IN  IF class = NoClass THEN db
        ELSE [Queue(db, class, e) EXCEPT
                 !.points[e.type][e.index].told = <<e.value, e.flags>>]

commandVariation(cfg, command) ==
    IF cfg.cvar \in 1..8 THEN cfg.cvar
    ELSE CASE command = 2 -> 4 [] command = 3 -> 7 [] command = 4 -> 8 [] OTHER -> 3

RaiseBinaryCommandEvent(db, i, state, status, at) ==
    IF ~Has(db, "binaryOut", i) \/ db.points["binaryOut"][i].cfg.cclass = NoClass THEN db
    ELSE LET cfg == db.points["binaryOut"][i].cfg
         IN  Queue(db, cfg.cclass,
                   PointEvent("binaryCommand", i, IF cfg.cvar \in {1, 2} THEN cfg.cvar ELSE 2,
                         [value |-> state, flags |-> {status}, time |-> at]))

RaiseAnalogCommandEvent(db, i, value, command, status, at) ==
    IF ~Has(db, "analogOut", i) \/ db.points["analogOut"][i].cfg.cclass = NoClass THEN db
    ELSE LET cfg == db.points["analogOut"][i].cfg
         IN  Queue(db, cfg.cclass,
                   PointEvent("analogCommand", i, commandVariation(cfg, command),
                         [value |-> value, flags |-> {status}, time |-> at]))

----------------------------------------------------------------------------
(* Updates.                                                                *)
With(p, v) == [p EXCEPT !.value = v.value, !.flags = v.flags, !.time = v.time]

(* The points that report any change.  A freeze reports whatever it froze. *)
Change(db, pt, i, v, always) ==
    IF ~Has(db, pt, i) THEN db
    ELSE LET p == db.points[pt][i]
             stored == [db EXCEPT !.points[pt][i] = With(p, v)]
         IN  IF always \/ p.value # v.value \/ p.flags # v.flags
             THEN raise(stored, PointEvent(pt, i, p.cfg.evar, v))
             ELSE stored

UpdateBinary(db, i, v) == Change(db, "binary", i, v, FALSE)
UpdateDoubleBit(db, i, v) == Change(db, "doubleBit", i, v, FALSE)
UpdateBinaryOutputStatus(db, i, v) == Change(db, "binaryOut", i, v, FALSE)
setFrozen(db, i, v, freeze) == Change(db, "frozen", i, v, freeze)
UpdateFrozenCounter(db, i, v) == setFrozen(db, i, v, FALSE)

(* The points with a deadband.  The first update and one that changes the  *)
(* flags report; a move into or out of NaN does; and one further than the  *)
(* deadband from the value last reported.                                  *)
Distance(a, b) == IF a < b THEN b - a ELSE a - b

(* A variant with a defect: the deadband is measured from the value last   *)
(* stored.                                                                 *)
ShouldReportStored(p, v, flagsChanged) ==
    \/ ~p.hasEvent \/ flagsChanged
    \/ IF v = NaN \/ p.value = NaN THEN v # p.value
       ELSE Distance(v, p.value) > p.cfg.deadband

shouldReport(p, v, flagsChanged) ==
    \/ ~p.hasEvent \/ flagsChanged
    \/ IF v = NaN \/ p.reported = NaN THEN v # p.reported
       ELSE Distance(v, p.reported) > p.cfg.deadband

Latch(p, v, reports) ==
    [p EXCEPT !.hasEvent = TRUE, !.reported = IF reports THEN v ELSE @]

(* considered: whether the deadband is asked at all.                       *)
Move(db, pt, i, v, considered, always) ==
    IF ~Has(db, pt, i) THEN db
    ELSE LET p == db.points[pt][i]
             reports == always \/ shouldReport(p, v.value, p.flags # v.flags)
         IN  IF ~considered THEN [db EXCEPT !.points[pt][i] = With(p, v)]
             ELSE LET stored == [db EXCEPT !.points[pt][i] =
                                    With(Latch(p, v.value, reports), v)]
                  IN  IF reports THEN raise(stored, PointEvent(pt, i, p.cfg.evar, v))
                      ELSE stored

setCounter(db, i, v) ==
    Move(db, "counter", i, v,
         Has(db, "counter", i) /\ (\/ db.points["counter"][i].value # v.value
                                   \/ db.points["counter"][i].flags # v.flags),
         FALSE)
UpdateCounter(db, i, v) == setCounter(db, i, v)
UpdateAnalog(db, i, v) == Move(db, "analog", i, v, TRUE, FALSE)
UpdateAnalogOutputStatus(db, i, v) == Move(db, "analogOut", i, v, TRUE, FALSE)
setFrozenAnalog(db, i, v, freeze) == Move(db, "frozenAnalog", i, v, TRUE, freeze)
UpdateFrozenAnalog(db, i, v) == setFrozenAnalog(db, i, v, FALSE)

UpdateTimeAndInterval(db, i, v) ==
    IF i \in DOMAIN db.intervals THEN [db EXCEPT !.intervals[i] = v] ELSE db

----------------------------------------------------------------------------
(* Freezes: each counter copied into its frozen counterpart, and cleared   *)
(* when the request says so.                                               *)
Frozen(p, at) == [value |-> p.value, flags |-> p.flags, time |-> at]

freezeCounter(db, i, at, clear) ==
    LET v == Frozen(db.points["counter"][i], at)
        frozen == setFrozen(db, i, v, TRUE)
    IN  IF clear THEN setCounter(frozen, i, [v EXCEPT !.value = 0]) ELSE frozen

freezeAnalog(db, i, at, clear) ==
    LET v == Frozen(db.points["analog"][i], at)
        frozen == setFrozenAnalog(db, i, v, TRUE)
    IN  IF clear THEN Move(frozen, "analog", i, [v EXCEPT !.value = 0], TRUE, FALSE)
        ELSE frozen

RECURSIVE freezeRange(_, _, _, _, _)
freezeRange(db, start, stop, at, clear) ==
    IF start > stop \/ ~Has(db, "counter", start) \/ ~Has(db, "frozen", start) THEN db
    ELSE freezeRange(freezeCounter(db, start, at, clear), start + 1, stop, at, clear)

RECURSIVE freezeAnalogsRange(_, _, _, _, _)
freezeAnalogsRange(db, start, stop, at, clear) ==
    IF start > stop \/ ~Has(db, "analog", start) \/ ~Has(db, "frozenAnalog", start) THEN db
    ELSE freezeAnalogsRange(freezeAnalog(db, start, at, clear), start + 1, stop, at, clear)

----------------------------------------------------------------------------
(* Strings.  A new array has room for its text and up to Grain - 1 more.   *)
Text(db, holder) == IF holder.len = 0 THEN <<>> ELSE SubSeq(db.heap[holder.arr], 1, holder.len)

Allocate(db, text) ==
    LET size == ((Len(text) + Grain - 1) \div Grain) * Grain
    IN  [db EXCEPT !.heap = Append(@, [k \in 1..size |-> IF k <= Len(text) THEN text[k] ELSE 0])]

Capacity(db, arr) == IF arr = 0 THEN 0 ELSE Len(db.heap[arr])

Overwrite(db, arr, text) ==
    [db EXCEPT !.heap[arr] = [k \in DOMAIN @ |-> IF k <= Len(text) THEN text[k] ELSE @[k]]]

Hold(db, pt, i, arr, text) ==
    [db EXCEPT !.points[pt][i].arr = arr, !.points[pt][i].len = Len(text)]

(* append(p.value[:0], v...): in place while it fits.                      *)
Appended(db, pt, i, text) ==
    LET arr == db.points[pt][i].arr
    IN  IF Len(text) = 0 THEN Hold(db, pt, i, arr, text)
        ELSE IF Len(text) <= Capacity(db, arr)
        THEN Hold(Overwrite(db, arr, text), pt, i, arr, text)
        ELSE Hold(Allocate(db, text), pt, i, Len(db.heap) + 1, text)

Copied(db, pt, i, text) == Hold(Allocate(db, text), pt, i, Len(db.heap) + 1, text)

UpdateOctetString(db, i, v) ==
    IF ~Has(db, "octet", i) THEN db
    ELSE LET text == SubSeq(v, 1, IF Len(v) > MaxOctetStringLen THEN MaxOctetStringLen ELSE Len(v))
             stored == Appended(db, "octet", i, text)
         IN  IF text = Text(db, db.points["octet"][i]) THEN stored
             ELSE raise(stored, TextEvent("octet", i, stored.points["octet"][i].arr, text))

UpdateVirtualTerminal(db, i, v) ==
    IF ~Has(db, "terminal", i) \/ Len(v) = 0 \/ Len(v) > MaxOctetStringLen THEN db
    ELSE LET stored == Copied(db, "terminal", i, v)
         IN  raise(stored, TextEvent("terminal", i, stored.points["terminal"][i].arr, v))

----------------------------------------------------------------------------
(* Data sets: an object per group, variation and index, copied in.         *)
datasetVariationKnown(group, variation) ==
    \/ group \in {85, 87, 88} /\ variation = 1
    \/ group = 86 /\ variation \in 1..3

UpdateDataset(db, group, variation, i, data, class) ==
    IF ~datasetVariationKnown(group, variation) \/ group = 88 \/ Len(data) = 0 THEN db
    ELSE LET arr == Len(db.heap) + 1
             held == [arr |-> arr, len |-> Len(data)]
             stored == [Allocate(db, data) EXCEPT
                           !.datasets = (<<group, variation, i>> :> held) @@ @]
             assigned == IF i \in DOMAIN db.datasetClasses THEN db.datasetClasses[i] ELSE class
         IN  IF group # 87 \/ assigned = NoClass THEN stored
             ELSE Queue(stored, assigned, [TextEvent("dataset", i, arr, data) EXCEPT !.variation = 1])
=============================================================================
