----------------------------- MODULE MCStation -----------------------------
(***************************************************************************)
(* The devices of the station run.  Each scenario is a device, and what    *)
(* its application and its masters do; a behaviour is of one of them.      *)
(*                                                                         *)
(* An octet has four values here, so index 4 needs a second octet of       *)
(* range or prefix, a 16-bit counter wraps at 16, a 16-bit analog reaches  *)
(* 7, and a relative time reaches 15 from its base.                        *)
(***************************************************************************)
EXTENDS Station

VariationOf == [c1 |-> 2, c2 |-> 3]

NoPoints == [pt \in PointTypes \cup {"interval"} |-> 0]

Up(op, i, value, flags, stamped) ==
    [op |-> op, i |-> i, value |-> value, flags |-> flags, stamped |-> stamped, text |-> <<>>]

Say(op, i, text) ==
    [op |-> op, i |-> i, value |-> 0, flags |-> {}, stamped |-> FALSE, text |-> text]

Idle ==
    [counts |-> NoPoints, class |-> "c1", variationOf |-> VariationOf, configs |-> <<>>,
     updates |-> {}, requests |-> {}, assignments |-> {}, deadbands |-> {},
     freezes |-> {}, schedules |-> {}, times |-> {}, horizon |-> 0, step |-> 1,
     holdover |-> FALSE]

Classes123 == <<AllObjects(60, 2), AllObjects(60, 3), AllObjects(60, 1)>>

At(pt, i, cfg) == [pt |-> pt, i |-> i, cfg |-> cfg]

(* Indexes on both sides of an octet, events with times relative to a      *)
(* base, a clock that goes back, packed points and points with flags.      *)
Status ==
    [Idle EXCEPT
        !.counts = [NoPoints EXCEPT !["binary"] = 5, !["doubleBit"] = 1, !["binaryOut"] = 1],
        !.configs = <<At("binary", 1, PointConfig("c1", 0, 1, 3, NoClass, 0)),
                      At("binary", 4, PointConfig("c1", 0, 1, 3, NoClass, 0)),
                      At("doubleBit", 0, PointConfig("c1", 0, 1, 1, NoClass, 0)),
                      At("binaryOut", 0, PointConfig(NoClass, 0, 1, 0, "c1", 2))>>,
        !.updates = {Up("binary", 1, 1, Online, TRUE), Up("binary", 4, 1, Online, TRUE),
                     Up("binary", 4, 0, {"online", "commLost"}, FALSE),
                     Up("doubleBit", 0, 2, Online, TRUE), Up("binaryOut", 0, 1, Online, TRUE),
                     Up("binaryCommand", 0, 1, {}, TRUE)},
        !.requests = {Classes123, <<ReadRange(1, 1, 3, 9), AllObjects(2, 3)>>,
                      <<ReadList(1, 0, <<3, 4, 1>>), ReadCount(60, 2, 1)>>},
        !.assignments = {<<AllObjects(60, 3), ReadRange(1, 0, 4, 4)>>,
                         <<AllObjects(60, 1), ReadRange(1, 0, 1, 1)>>},
        !.times = {2}, !.horizon = 16, !.step = 16, !.holdover = TRUE]

(* Deadbands, NaN, values too large for the variation.                     *)
Analogs ==
    [Idle EXCEPT
        !.counts = [NoPoints EXCEPT !["analog"] = 1, !["frozenAnalog"] = 1, !["analogOut"] = 1],
        !.configs = <<At("analog", 0, PointConfig("c1", 2, 2, 2, NoClass, 0)),
                      At("frozenAnalog", 0, PointConfig("c1", 0, 2, 4, NoClass, 0)),
                      At("analogOut", 0, PointConfig("c1", 2, 2, 3, "c2", 2))>>,
        !.updates = {Up("analog", 0, v, Online, FALSE) : v \in {0, 2, 4, 9, NaN}}
                        \cup {Up("analog", 0, 2, {"online", "overRange"}, TRUE),
                              Up("analogOut", 0, 9, Online, TRUE),
                              Up("analogCommand", 0, 9, {}, TRUE),
                              Up("frozenAnalog", 0, 3, Online, TRUE)},
        !.requests = {Classes123, <<AllObjects(30, 4)>>, <<AllObjects(30, 1), AllObjects(32, 5)>>},
        !.assignments = {<<AllObjects(60, 1), AllObjects(30, 0)>>, <<AllObjects(60, 3), AllObjects(30, 0)>>},
        !.deadbands = {<<0, 0>>, <<0, 5>>, <<7, 1>>},
        !.freezes = {<<>>, <<AllObjects(30, 0)>>}]

(* Counters that wrap, frozen now, with a clock that is set.               *)
Counters ==
    [Idle EXCEPT
        !.counts = [NoPoints EXCEPT !["counter"] = 2, !["frozen"] = 2],
        !.configs = <<At("counter", 0, PointConfig("c1", 3, 6, 6, NoClass, 0)),
                      At("frozen", 0, PointConfig("c1", 0, 10, 6, NoClass, 0))>>,
        !.updates = {Up("counter", 0, 4, Online, FALSE), Up("counter", 0, 18, Online, FALSE),
                     Up("frozen", 0, 7, {"online", "commLost"}, TRUE)},
        !.requests = {Classes123},
        !.freezes = {<<ReadRange(20, 0, 0, 0)>>},
        !.times = {1}, !.horizon = 1]

(* Freezes at a time, with ticks that come late.                           *)
Scheduled ==
    [Counters EXCEPT
        !.updates = {Up("counter", 0, 18, Online, FALSE)},
        !.freezes = {},
        !.schedules = {[first |-> 1, interval |-> 2, q |-> <<ReadRange(20, 0, 0, 0)>>],
                       [first |-> 2, interval |-> 0, q |-> <<>>]},
        !.horizon = 3]

(* Strings, terminals and data sets, some too long for a fragment.         *)
Strings12 ==
    [Idle EXCEPT
        !.counts = [NoPoints EXCEPT !["octet"] = 3, !["terminal"] = 1, !["interval"] = 1],
        !.updates = {Say("octet", 1, <<1, 2>>), Say("octet", 1, <<3>>), Say("octet", 2, <<3, 1>>),
                     Say("terminal", 0, <<1, 2, 3>>), Say("terminal", 0, <<2, 1>>),
                     Say("dataset", 0, <<1, 1>>), Say("dataset", 0, [k \in 1..40 |-> 1]),
                     Up("interval", 0, 7, {}, FALSE)},
        !.requests = {Classes123, <<AllObjects(112, 0), AllObjects(113, 0), AllObjects(50, 4)>>,
                      <<AllObjects(111, 0), AllObjects(50, 1), AllObjects(50, 3)>>,
                      <<AllObjects(87, 0), ReadRange(110, 0, 1, 5)>>},
        !.assignments = {<<AllObjects(60, 3), AllObjects(87, 1)>>},
        !.times = {1}]

Devices == [status |-> Status, analogs |-> Analogs, counters |-> Counters,
            scheduled |-> Scheduled, strings |-> Strings12]

StatusOnly == [status |-> Status]
StringsOnly == [strings |-> Strings12]
CountersOnly == [counters |-> Counters]
ScheduledOnly == [scheduled |-> Scheduled]
AnalogsOnly == [analogs |-> Analogs]
=============================================================================
