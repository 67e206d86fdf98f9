------------------------------ MODULE Objects ------------------------------
(***************************************************************************)
(* The object library (objects/): which variations each group has, what an *)
(* object of a variation carries on the wire, and what a reader makes of   *)
(* it.  An encoded object is what its octets say: the value cut to the     *)
(* variation's width, the flags if it has them, and the time if it has     *)
(* one.                                                                    *)
(*                                                                         *)
(* Octet is the number of values one octet of an integer, an index or a    *)
(* count holds: 256 in the program, smaller in a model, so that a small    *)
(* instance reaches past every width.  Sizes in octets are the program's.  *)
(* Floating point is exact here: the values of a model need no rounding.   *)
(***************************************************************************)
EXTENDS Integers, Sequences, FiniteSets, TLC

CONSTANT Octet

ASSUME OctetAssumption == Octet \in {2 * n : n \in 1..128}

NaN == 100000      \* stands for math.NaN(), outside every range of the model
NoTime == -1       \* dnp3.NoTime(): a timestamp that is not valid; 0 is 1970
Online == {"online"}

(* One variation: the width of its value, whether a flags octet goes with  *)
(* it, and how it carries a time.  "state" is a value that sits in the     *)
(* flags octet itself; "bit" and "pair" are packed, several to an octet.   *)
Row(width, flags, time) == [width |-> width, flags |-> flags, time |-> time]

BinaryInput == 1 :> Row("bit", FALSE, "none") @@ 2 :> Row("state", TRUE, "none")
BinaryInputEvent ==
    1 :> Row("state", TRUE, "none") @@ 2 :> Row("state", TRUE, "absolute")
      @@ 3 :> Row("state", TRUE, "relative")
DoubleBitInput == 1 :> Row("pair", FALSE, "none") @@ 2 :> Row("state", TRUE, "none")
DoubleBitInputEvent == BinaryInputEvent
BinaryOutputEvent ==
    1 :> Row("state", TRUE, "none") @@ 2 :> Row("state", TRUE, "absolute")
CounterInput ==
    1 :> Row("u32", TRUE, "none") @@ 2 :> Row("u16", TRUE, "none")
      @@ 5 :> Row("u32", FALSE, "none") @@ 6 :> Row("u16", FALSE, "none")
CounterEvent ==
    1 :> Row("u32", TRUE, "none") @@ 2 :> Row("u16", TRUE, "none")
      @@ 5 :> Row("u32", TRUE, "absolute") @@ 6 :> Row("u16", TRUE, "absolute")
FrozenCounter ==
    CounterEvent
      @@ 9 :> Row("u32", FALSE, "none") @@ 10 :> Row("u16", FALSE, "none")
FrozenCounterEvent == CounterEvent
AnalogInput ==
    1 :> Row("i32", TRUE, "none") @@ 2 :> Row("i16", TRUE, "none")
      @@ 3 :> Row("i32", FALSE, "none") @@ 4 :> Row("i16", FALSE, "none")
      @@ 5 :> Row("f32", TRUE, "none") @@ 6 :> Row("f64", TRUE, "none")
FrozenAnalog ==
    1 :> Row("i32", TRUE, "none") @@ 2 :> Row("i16", TRUE, "none")
      @@ 3 :> Row("i32", TRUE, "absolute") @@ 4 :> Row("i16", TRUE, "absolute")
      @@ 5 :> Row("i32", FALSE, "none") @@ 6 :> Row("i16", FALSE, "none")
      @@ 7 :> Row("f32", TRUE, "none") @@ 8 :> Row("f64", TRUE, "none")
AnalogEvent ==
    1 :> Row("i32", TRUE, "none") @@ 2 :> Row("i16", TRUE, "none")
      @@ 3 :> Row("i32", TRUE, "absolute") @@ 4 :> Row("i16", TRUE, "absolute")
      @@ 5 :> Row("f32", TRUE, "none") @@ 6 :> Row("f64", TRUE, "none")
      @@ 7 :> Row("f32", TRUE, "absolute") @@ 8 :> Row("f64", TRUE, "absolute")
FrozenAnalogEvent == AnalogEvent
AnalogOutputStatus ==
    1 :> Row("i32", TRUE, "none") @@ 2 :> Row("i16", TRUE, "none")
      @@ 3 :> Row("f32", TRUE, "none") @@ 4 :> Row("f64", TRUE, "none")
AnalogOutputEvent == AnalogEvent

(* The command events lead with a status octet, which the model keeps in   *)
(* the place of the flags.                                                 *)
BinaryCommandEvent == BinaryOutputEvent
AnalogCommandEvent == AnalogEvent

descriptors ==
    1 :> BinaryInput @@ 2 :> BinaryInputEvent @@ 3 :> DoubleBitInput
      @@ 4 :> DoubleBitInputEvent @@ 10 :> BinaryInput @@ 11 :> BinaryOutputEvent
      @@ 13 :> BinaryCommandEvent @@ 20 :> CounterInput @@ 21 :> FrozenCounter
      @@ 22 :> CounterEvent @@ 23 :> FrozenCounterEvent
      @@ 30 :> AnalogInput @@ 31 :> FrozenAnalog @@ 32 :> AnalogEvent @@ 33 :> FrozenAnalogEvent
      @@ 40 :> AnalogOutputStatus @@ 42 :> AnalogOutputEvent
      @@ 43 :> AnalogCommandEvent

Lookup(group, variation) ==
    group \in DOMAIN descriptors /\ variation \in DOMAIN descriptors[group]

Octets == [state |-> 0, u16 |-> 2, u32 |-> 4, i16 |-> 2, i32 |-> 4, f32 |-> 4, f64 |-> 8]

SizeOctets(r) ==
    Octets[r.width] + (IF r.flags THEN 1 ELSE 0)
        + [none |-> 0, absolute |-> 6, relative |-> 2][r.time]

packedBits(r) == CASE r.width = "bit" -> 1 [] r.width = "pair" -> 2 [] OTHER -> 0

PackedOctets(count, bits) == (count * bits + 7) \div 8

----------------------------------------------------------------------------
(* A value cut to its width.  A counter wraps; an analog saturates, and    *)
(* says so with OVER_RANGE where the variation has flags.  NaN has no      *)
(* integer: it is zero, out of range.                                      *)
Half(width) == (IF width = "i16" THEN Octet^2 ELSE Octet^4) \div 2

OutOfRange(v, width) == v = NaN \/ v > Half(width) - 1 \/ v < -Half(width)

clamp(v, width) ==
    CASE v = NaN -> 0
      [] v # NaN /\ v > Half(width) - 1 -> Half(width) - 1
      [] v # NaN /\ v < -Half(width) -> -Half(width)
      [] OTHER -> v

Cut(v, width) ==
    CASE width = "u16" -> v % Octet^2
      [] width = "u32" -> v % Octet^4
      [] width \in {"i16", "i32"} -> clamp(v, width)
      [] OTHER -> v

(* What a writer needs besides the value: the common time of occurrence of *)
(* the run, when it has one.                                               *)
NoCTO == [has |-> FALSE, at |-> 0]
WithCTO(t) == [has |-> TRUE, at |-> t]

RelativeOffset(ctx, t) ==
    IF ~ctx.has \/ t = NoTime \/ t < ctx.at THEN 0
    ELSE IF t - ctx.at > Octet^2 - 1 THEN Octet^2 - 1 ELSE t - ctx.at

RelativeTime(ctx, offset) == IF ctx.has THEN ctx.at + offset ELSE NoTime

TimeToDNP3(t) == IF t < 0 THEN 0 ELSE t

(* The Write and the Parse of a variation's codec.                         *)
Write(r, v, ctx) ==
    [value |-> Cut(v.value, r.width),
     flags |-> CASE ~r.flags -> {}
                 [] r.flags /\ r.width \in {"i16", "i32"} /\ OutOfRange(v.value, r.width) ->
                        v.flags \cup {"overRange"}
                 [] OTHER -> v.flags,
     time  |-> CASE r.time = "none" -> NoTime
                 [] r.time = "absolute" -> TimeToDNP3(v.time)
                 [] r.time = "relative" -> RelativeOffset(ctx, v.time)]

Parse(r, o, ctx) ==
    [value |-> o.value,
     flags |-> IF r.flags THEN o.flags ELSE Online,
     time  |-> IF r.time = "relative" THEN RelativeTime(ctx, o.time) ELSE o.time]

(* Command events saturate without a mark: the status octet has no room.   *)
AppendCommandEvent(r, e) ==
    [value |-> Cut(e.value, r.width), flags |-> e.flags,
     time  |-> IF r.time = "absolute" THEN TimeToDNP3(e.time) ELSE NoTime]

ParseCommandEvent(r, o) == [value |-> o.value, flags |-> o.flags, time |-> o.time]

(* One string padded with zeros or cut to the length its variation says.   *)
appendOctetString(text, length) ==
    [i \in 1..length |-> IF i <= Len(text) THEN text[i] ELSE 0]
=============================================================================
