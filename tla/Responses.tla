----------------------------- MODULE Responses -----------------------------
(***************************************************************************)
(* From the database to the master's handler: how a read is answered       *)
(* (outstation/response.go), how object headers are laid out and measured  *)
(* (internal/app), and how the master turns a response back into           *)
(* measurements (master/dispatch.go).                                      *)
(*                                                                         *)
(* An object header keeps its group, its variation, the width of its index *)
(* prefixes, its range and its objects.  Wire is the point at which every  *)
(* number is cut to the octets its field has.  A request's header names    *)
(* points: all of them, a range, a list of indexes, or only a count.       *)
(***************************************************************************)
EXTENDS Database, SequencesExt

CONSTANT MaxTxFragment      \* Config.MaxTxFragment, in octets

MaxIndex == Octet^2 - 1     \* 0xFFFF

RangeOctets ==
    [all |-> 0, range8 |-> 2, range16 |-> 4, count8 |-> 1, count16 |-> 2, free |-> 1]

Header(group, variation, prefix, spec, start, stop, objs) ==
    [group |-> group, variation |-> variation, prefix |-> prefix, spec |-> spec,
     start |-> start, stop |-> stop, count |-> Len(objs), objs |-> objs]

Obj(index, o, text) ==
    [index |-> index, value |-> o.value, flags |-> o.flags, time |-> o.time, text |-> text]

TextObj(index, text) ==
    [index |-> index, value |-> 0, flags |-> {}, time |-> NoTime, text |-> text]

Strings == {110, 111, 112, 113}

(* The octets of a header's objects.                                       *)
objectDataLen(h) ==
    CASE h.spec = "free" -> 2 + Len(h.objs[1].text)
      [] h.group = 86 -> Len(h.objs[1].text)
      [] h.group \in Strings -> h.count * (h.prefix + h.variation)
      [] h.group \in {50, 51} -> h.count * (IF h.group = 50 /\ h.variation = 4 THEN 11 ELSE 6)
      [] OTHER -> LET r == descriptors[h.group][h.variation]
                  IN  IF packedBits(r) > 0 THEN PackedOctets(h.count, packedBits(r))
                      ELSE h.count * (h.prefix + SizeOctets(r))

Size(h) == 3 + RangeOctets[h.spec] + objectDataLen(h)

(* AppendObjectHeader: the range and the prefixes in the octets they have. *)
Narrow(n, octets) == n % Octet^octets

Wire(h) ==
    LET width == RangeOctets[h.spec] \div 2
    IN  [h EXCEPT
           !.start = IF h.spec \in {"range8", "range16"} THEN Narrow(@, width) ELSE @,
           !.stop  = IF h.spec \in {"range8", "range16"} THEN Narrow(@, width) ELSE @,
           !.count = IF h.spec \in {"count8", "count16"} THEN Narrow(@, RangeOctets[h.spec]) ELSE @,
           !.objs  = [k \in DOMAIN @ |->
                        IF h.prefix = 0 THEN @[k] ELSE [@[k] EXCEPT !.index = Narrow(@, h.prefix)]]]

----------------------------------------------------------------------------
(* The response builder: whole headers into fragments.                     *)
newResponseBuilder == [frags |-> <<>>, cur |-> <<>>, used |-> 0]

room(b) == MaxTxFragment - 4 - b.used

flush(b) ==
    IF Len(b.cur) = 0 THEN b
    ELSE [frags |-> Append(b.frags, b.cur), cur |-> <<>>, used |-> 0]

add(b, h) ==
    LET c == IF Size(h) > room(b) THEN flush(b) ELSE b
    IN  [c EXCEPT !.cur = Append(@, Wire(h)), !.used = @ + Size(h)]

done(b) == LET f == flush(b).frags IN IF Len(f) = 0 THEN <<<<>>>> ELSE f

rangeObjectHeader(group, variation, start, objs) ==
    LET stop == start + Len(objs) - 1
    IN  Header(group, variation, 0, IF stop <= Octet - 1 THEN "range8" ELSE "range16",
               start, stop, objs)

(* Room for a header, its widest range and least octets of objects.        *)
MakeRoom(b, least) == IF room(b) - 7 < least THEN flush(b) ELSE b

Least(a, b) == IF a < b THEN a ELSE b

----------------------------------------------------------------------------
(* Which points a request's header names: runs of indexes, cut at the top  *)
(* of the 16-bit point space.                                              *)
AllObjects(group, variation) ==
    [group |-> group, variation |-> variation, spec |-> "all", start |-> 0, stop |-> 0, list |-> <<>>]
ReadRange(group, variation, start, stop) ==
    [group |-> group, variation |-> variation, spec |-> "range", start |-> start, stop |-> stop, list |-> <<>>]
ReadList(group, variation, list) ==
    [group |-> group, variation |-> variation, spec |-> "list", start |-> 0, stop |-> 0, list |-> list]
ReadCount(group, variation, n) ==
    [group |-> group, variation |-> variation, spec |-> "count", start |-> 0, stop |-> n, list |-> <<>>]

PointRuns(h) == h.spec \in {"all", "range", "list"}

(* Consecutive listed indexes are one run.                                 *)
ListRuns(list) ==
    FoldLeft(LAMBDA runs, i :
                IF i > MaxIndex THEN runs
                ELSE IF Len(runs) > 0 /\ runs[Len(runs)][2] + 1 = i
                THEN [runs EXCEPT ![Len(runs)][2] = i]
                ELSE Append(runs, <<i, i>>),
             <<>>, list)

forEachPointRun(h) ==
    CASE h.spec = "all" -> <<<<0, MaxIndex>>>>
      [] h.spec = "range" -> IF h.start > MaxIndex THEN <<>>
                             ELSE <<<<h.start, Least(h.stop, MaxIndex)>>>>
      [] h.spec = "list" -> ListRuns(h.list)
      [] OTHER -> <<>>

namesBeyond(h, n) ==
    \/ h.spec = "range" /\ (h.stop >= n \/ h.start > h.stop)
    \/ h.spec = "list" /\ \E k \in DOMAIN h.list : h.list[k] >= n

----------------------------------------------------------------------------
(* Static data.                                                            *)
staticTypes ==
    <<"binary", "doubleBit", "binaryOut", "counter", "frozen", "analog",
      "frozenAnalog", "analogOut", "octet">>

withFlags ==
    [binary |-> 1 :> 2, doubleBit |-> 1 :> 2, binaryOut |-> 1 :> 2,
     counter |-> 5 :> 1 @@ 6 :> 2, frozen |-> 9 :> 1 @@ 10 :> 2,
     analog |-> 3 :> 1 @@ 4 :> 2, frozenAnalog |-> 5 :> 1 @@ 6 :> 2, analogOut |-> <<>>]

(* A variant with a defect: the variation asked for, whatever the flags.   *)
ReportAsAsked(db, pt, requested, i) ==
    IF requested # 0 THEN requested ELSE db.points[pt][i].cfg.svar

reportVariation(db, pt, requested, i) ==
    LET p == db.points[pt][i]
        v == IF requested # 0 THEN requested ELSE p.cfg.svar
    IN  IF v \in DOMAIN withFlags[pt] /\ p.flags # Online THEN withFlags[pt][v] ELSE v

encodeStatic(db, pt, variation, i) ==
    Obj(i, Write(descriptors[staticGroup[pt]][variation], db.points[pt][i], NoCTO), <<>>)

(* The header of the points from start through last.                       *)
StaticHeader(db, pt, variation, start, last) ==
    rangeObjectHeader(staticGroup[pt], variation, start,
        [k \in 1..(last - start + 1) |-> encodeStatic(db, pt, variation, start + k - 1)])

RECURSIVE buildStaticRun(_, _, _, _, _, _)
buildStaticRun(db, b, pt, variation, start, stop) ==
    LET size == SizeOctets(descriptors[staticGroup[pt]][variation])
        c == MakeRoom(b, size)
        last == Least(start + (room(c) - 7) \div size - 1, stop)
    IN  IF start > stop THEN b
        ELSE IF room(c) - 7 < size THEN c
        ELSE buildStaticRun(db, add(c, StaticHeader(db, pt, variation, start, last)),
                            pt, variation, last + 1, stop)

(* The capacity of a packed run is counted in bits.                        *)
RECURSIVE buildPackedRun(_, _, _, _, _, _)
buildPackedRun(db, b, pt, bits, start, stop) ==
    LET c == MakeRoom(b, 1)
        capacity == ((room(c) - 7) * 8) \div bits
        last == Least(start + capacity - 1, stop)
    IN  IF start > stop THEN b
        ELSE IF capacity < 1 THEN c
        ELSE buildPackedRun(db, add(c, StaticHeader(db, pt, 1, start, last)),
                            pt, bits, last + 1, stop)

(* The end of the run of points from start that the predicate keeps with   *)
(* the first.                                                              *)
RunEnd(start, stop, Same(_)) ==
    CHOOSE e \in start..stop :
        /\ \A k \in start..e : Same(k)
        /\ e = stop \/ ~Same(e + 1)

(* A string's length is its variation, and an empty one is told as one     *)
(* zero octet.                                                             *)
StringLen(db, pt, i) == IF db.points[pt][i].len = 0 THEN 1 ELSE db.points[pt][i].len

RECURSIVE buildOctetStrings(_, _, _, _)
buildOctetStrings(db, b, start, stop) ==
    IF start > stop THEN b
    ELSE LET length == StringLen(db, "octet", start)
             run == RunEnd(start, stop, LAMBDA k : StringLen(db, "octet", k) = length)
             c == MakeRoom(b, length)
             last == Least(start + (room(c) - 7) \div length - 1, run)
             objs == [k \in 1..(last - start + 1) |->
                        TextObj(start + k - 1,
                                appendOctetString(Text(db, db.points["octet"][start + k - 1]), length))]
         IN  IF room(c) - 7 < length THEN c
             ELSE buildOctetStrings(db, add(c, rangeObjectHeader(110, length, start, objs)),
                                    last + 1, stop)

(* Runs of points reported in one variation, each under its own headers.   *)
RECURSIVE StaticRuns(_, _, _, _, _, _)
StaticRuns(db, b, pt, variation, start, stop) ==
    IF start > stop THEN b
    ELSE LET v == reportVariation(db, pt, variation, start)
             last == RunEnd(start, stop,
                            LAMBDA k : reportVariation(db, pt, variation, k) = v)
             bits == packedBits(descriptors[staticGroup[pt]][v])
             c == IF bits > 0 THEN buildPackedRun(db, b, pt, bits, start, last)
                  ELSE buildStaticRun(db, b, pt, v, start, last)
         IN  StaticRuns(db, c, pt, variation, last + 1, stop)

buildStaticRange(db, b, pt, variation, start, stop) ==
    IF Counts(db, pt) = 0 THEN b
    ELSE LET top == Least(stop, Counts(db, pt) - 1)
         IN  IF pt = "octet" THEN buildOctetStrings(db, b, start, top)
             ELSE StaticRuns(db, b, pt, variation, start, top)

----------------------------------------------------------------------------
(* Events.  base is the common time of occurrence of a run of relative     *)
(* ones.                                                                   *)
eventBase(e, now) == IF e.time = NoTime THEN now ELSE e.time

(* A variant with a defect: whatever the window, the run goes on.          *)
EventsAnyTime(events, base) == Len(events)

eventsWithinWindow(events, base) ==
    LET out == {n \in DOMAIN events : /\ events[n].time # NoTime
                                      /\ \/ events[n].time < base
                                         \/ events[n].time - base > Octet^2 - 1}
        first == CHOOSE n \in out : \A m \in out : n <= m
    IN  IF out = {} THEN Len(events) ELSE IF first = 1 THEN 1 ELSE first - 1

ctoHeader(base, synchronized) ==
    Header(51, IF synchronized THEN 1 ELSE 2, 0, "count8", 0, 0,
           <<Obj(0, [value |-> 0, flags |-> {}, time |-> base], <<>>)>>)

EventSize(e) ==
    IF e.type \in {"octet", "terminal"} THEN e.variation
    ELSE IF Lookup(eventGroup[e.type], e.variation)
    THEN SizeOctets(descriptors[eventGroup[e.type]][e.variation])
    ELSE 0

Relative(e) ==
    /\ e.type \notin {"octet", "terminal"}
    /\ descriptors[eventGroup[e.type]][e.variation].time = "relative"

encodeEvent(db, e, ctx) ==
    CASE e.type \in {"octet", "terminal"} ->
            TextObj(e.index, appendOctetString(Text(db, e), e.variation))
      [] e.type \in {"binaryCommand", "analogCommand"} ->
            Obj(e.index, AppendCommandEvent(descriptors[eventGroup[e.type]][e.variation], e), <<>>)
      [] OTHER ->
            Obj(e.index, Write(descriptors[eventGroup[e.type]][e.variation], e, ctx), <<>>)

(* One octet of index prefix while every index of the run fits it.         *)
PrefixOctets(run) == IF \E k \in DOMAIN run : run[k].index > Octet - 1 THEN 2 ELSE 1

FreeFormat(group, text) ==
    Header(group, 1, 0, "free", 0, 0, <<TextObj(0, text)>>)

(* The run at the front of events, as many headers as it takes.  What      *)
(* cannot be encoded at all is returned as unsent.                         *)
RECURSIVE EventRun(_, _, _, _, _)
EventRun(db, st, built, run, prefix) ==
    LET b == built.b
        per == prefix + EventSize(run[1])
        spec == IF prefix = 1 THEN "count8" ELSE "count16"
        cto == IF Relative(run[1]) THEN 3 + 1 + 6 ELSE 0
        overhead == cto + 3 + RangeOctets[spec]
        c == IF room(b) - overhead < per THEN flush(b) ELSE b
        fit == Least(Least((room(c) - overhead) \div per, Len(run)), Octet^prefix - 1)
        base == eventBase(run[1], st.now)
        n == IF Relative(run[1]) THEN Least(fit, eventsWithinWindow(SubSeq(run, 1, fit), base)) ELSE fit
        based == IF Relative(run[1]) THEN add(c, ctoHeader(base, st.synchronized)) ELSE c
        ctx == IF Relative(run[1]) THEN WithCTO(base) ELSE NoCTO
        header == Header(eventGroup[run[1].type], run[1].variation, prefix, spec, 0, 0,
                         [k \in 1..n |-> encodeEvent(db, run[k], ctx)])
    IN  IF Len(run) = 0 THEN built
        ELSE IF room(c) - overhead < per
        THEN [b |-> c, unsent |-> built.unsent \cup {run[k].seq : k \in DOMAIN run}]
        ELSE EventRun(db, st, [built EXCEPT !.b = add(based, header)],
                      SubSeq(run, n + 1, Len(run)), prefix)

SameEncoding(e, f) == eventGroup[e.type] = eventGroup[f.type] /\ e.variation = f.variation

(* One run, or one data set, after what has been built already.            *)
BuildRun(db, st, built, run) ==
    LET e == run[1]
        skipped == [built EXCEPT !.unsent = @ \cup {e.seq}]
    IN  IF e.type = "dataset"
        THEN LET h == FreeFormat(88, Text(db, e))
             IN  IF Size(h) + 4 <= MaxTxFragment THEN [built EXCEPT !.b = add(@, h)] ELSE skipped
        ELSE IF EventSize(e) = 0 THEN skipped
        ELSE EventRun(db, st, built, run, PrefixOctets(run))

(* How many of the events, from the front, make one run.                   *)
RunLength(events) ==
    IF events[1].type = "dataset" \/ EventSize(events[1]) = 0 THEN 1
    ELSE RunEnd(1, Len(events), LAMBDA k : SameEncoding(events[k], events[1]))

RECURSIVE buildEvents(_, _, _, _)
buildEvents(db, st, built, events) ==
    IF Len(events) = 0 THEN built
    ELSE LET n == RunLength(events)
         IN  buildEvents(db, st, BuildRun(db, st, built, SubSeq(events, 1, n)),
                         SubSeq(events, n + 1, Len(events)))

----------------------------------------------------------------------------
(* The other objects a read may name.  A terminal that has nothing and a   *)
(* data set the device does not have are left out; a data set that fits no *)
(* fragment is an error.                                                   *)
ForRuns(h, have, Step(_, _), b) ==
    FoldLeft(LAMBDA c, run : FoldLeft(Step, c, SelectSeq([k \in 1..(run[2] - run[1] + 1) |-> run[1] + k - 1],
                                                         LAMBDA i : i \in have)),
             b, forEachPointRun(h))

readTerminals(db, b, h) ==
    ForRuns(h, {i \in DOMAIN db.points["terminal"] : db.points["terminal"][i].len > 0},
            LAMBDA c, i : add(c, rangeObjectHeader(112, db.points["terminal"][i].len, i,
                                     <<TextObj(i, Text(db, db.points["terminal"][i]))>>)), b)

readTimeIntervals(db, b, h) ==
    ForRuns(h, DOMAIN db.intervals,
            LAMBDA c, i : add(c, rangeObjectHeader(50, 4, i,
                                     <<Obj(i, [value |-> 0, flags |-> {}, time |-> db.intervals[i]], <<>>)>>)), b)

TimeHeader(variation, t) ==
    Header(50, variation, 0, "count8", 0, 0,
           <<Obj(0, [value |-> 0, flags |-> {}, time |-> t], <<>>)>>)

DatasetKey(h, i) == <<h.group, IF h.variation = 0 THEN 1 ELSE h.variation, i>>

DatasetHeader(db, key) ==
    IF key[1] = 86 /\ key[2] = 2
    THEN rangeObjectHeader(86, 2, key[3], <<TextObj(key[3], Text(db, db.datasets[key]))>>)
    ELSE FreeFormat(key[1], Text(db, db.datasets[key]))

(* Those of the header's kind that fit a fragment, or do not.              *)
DatasetsOf(db, h, fit) ==
    {k[3] : k \in {k \in DOMAIN db.datasets :
                     /\ k = DatasetKey(h, k[3])
                     /\ (Size(DatasetHeader(db, k)) + 4 <= MaxTxFragment) = fit}}

readDatasets(db, b, h) ==
    ForRuns(h, DatasetsOf(db, h, TRUE), LAMBDA c, i : add(c, DatasetHeader(db, DatasetKey(h, i))), b)

----------------------------------------------------------------------------
(* The master.  A fragment whose headers do not add up is not a fragment.  *)
HeaderCount(h) ==
    IF h.spec \in {"range8", "range16"} THEN h.stop - h.start + 1 ELSE h.count

ParseFragment(frag) == \A k \in DOMAIN frag : HeaderCount(frag[k]) = Len(frag[k].objs)

IndexOf(h, k) == IF h.prefix > 0 THEN h.objs[k].index ELSE h.start + k - 1

Report(h, k, v, text) ==
    [group |-> h.group, variation |-> h.variation, index |-> IndexOf(h, k),
     value |-> v.value, flags |-> v.flags, time |-> v.time, text |-> text]

decodeRun(h, ctx) ==
    [k \in DOMAIN h.objs |->
        Report(h, k, Parse(descriptors[h.group][h.variation], h.objs[k], ctx), <<>>)]

dispatchPacked(h) ==
    [k \in DOMAIN h.objs |->
        Report(h, k, [value |-> h.objs[k].value, flags |-> Online, time |-> NoTime], <<>>)]

dispatchCommandEvents(h) ==
    [k \in DOMAIN h.objs |->
        Report(h, k, ParseCommandEvent(descriptors[h.group][h.variation], h.objs[k]), <<>>)]

dispatchOctetStrings(h) ==
    IF h.variation = 0 THEN <<>>
    ELSE [k \in DOMAIN h.objs |-> Report(h, k, h.objs[k], h.objs[k].text)]

dispatch(h, ctx) ==
    CASE Len(h.objs) = 0 -> <<>>
      [] h.group \in 85..88 -> <<Report(h, 1, h.objs[1], h.objs[1].text)>>
      [] h.group \in Strings -> dispatchOctetStrings(h)
      [] h.group \in {13, 43} -> dispatchCommandEvents(h)
      [] h.group \notin DOMAIN descriptors -> <<>>
      [] OTHER -> IF packedBits(descriptors[h.group][h.variation]) > 0
                  THEN dispatchPacked(h) ELSE decodeRun(h, ctx)

(* A group 51 object is the base of the relative times after it in the     *)
(* fragment.                                                               *)
deliver(frag) ==
    FoldLeft(LAMBDA acc, h :
                IF h.group = 51 THEN [acc EXCEPT !.ctx = WithCTO(h.objs[1].time)]
                ELSE [acc EXCEPT !.told = @ \o dispatch(h, acc.ctx)],
             [ctx |-> NoCTO, told |-> <<>>], frag).told

(* The fragments of a response, one after the other.                       *)
Received(frags) ==
    FoldLeft(LAMBDA acc, frag : IF ParseFragment(frag) THEN acc \o deliver(frag) ELSE acc,
             <<>>, frags)
=============================================================================
