---------------------------- MODULE EventBuffer ----------------------------
(***************************************************************************)
(* The outstation's event buffer (outstation/eventbuffer.go): one operator *)
(* per method, from a buffer to the buffer the method leaves.  Every       *)
(* method holds the buffer's mutex from its first statement to its last,   *)
(* so a method is one atomic change of the buffer.                         *)
(*                                                                         *)
(* The Go slice is append-only at its end and every removal keeps the      *)
(* order of the rest, so the slice is always in the order of the unique    *)
(* seq numbers: the buffer is modelled as a set of events and "oldest" is  *)
(* the least seq.  Measurement values are left out; what is kept of them   *)
(* is whether an encoding exists that fits a fragment (sendable).          *)
(*                                                                         *)
(* confirmed, lost and wiped are history: the seq numbers that left the    *)
(* buffer through Confirm, through an overflow or Discard, and through     *)
(* Reset.  No method reads them.                                           *)
(***************************************************************************)
EXTENDS Integers, FiniteSets

CONSTANTS
    Class,      \* the kinds of events: a class (dnp3.Class1, Class2, Class3), or
                \* a class and a point type where reads of one type matter
    MaxEvents   \* EventBufferConfig.MaxEvents, the capacity

ASSUME MaxEventsAssumption == MaxEvents \in Nat \ {0}

Event == [seq : Nat, class : Class, sendable : BOOLEAN, selected : BOOLEAN]

Buffer ==
    [events : SUBSET Event, overflow : BOOLEAN, drops : Nat,
     dropsAtSelect : Nat, nextSeq : Nat,
     confirmed : SUBSET Nat, lost : SUBSET Nat, wiped : SUBSET Nat]

NewEventBuffer ==
    [events |-> {}, overflow |-> FALSE, drops |-> 0, dropsAtSelect |-> 0,
     nextSeq |-> 0, confirmed |-> {}, lost |-> {}, wiped |-> {}]

Seqs(S) == {e.seq : e \in S}

SelectedIn(S) == {e \in S : e.selected}

Oldest(S) == CHOOSE e \in S : \A f \in S : e.seq <= f.seq

----------------------------------------------------------------------------
(* Add: the newest event in, and the oldest out when the buffer is full,   *)
(* selected or not.                                                        *)
Fresh(b, c, ok) ==
    [seq |-> b.nextSeq + 1, class |-> c, sendable |-> ok, selected |-> FALSE]

Full(b) == Cardinality(b.events) >= MaxEvents

Evicted(b) == IF Full(b) THEN {Oldest(b.events)} ELSE {}

Add(b, c, ok) ==
    [b EXCEPT !.events   = (@ \ Evicted(b)) \cup {Fresh(b, c, ok)},
              !.overflow = @ \/ Full(b),
              !.drops    = IF Full(b) THEN @ + 1 ELSE @,
              !.nextSeq  = @ + 1,
              !.lost     = @ \cup Seqs(Evicted(b))]

(* The history-blind reads: Count counts selected events too, Classes does *)
(* not.                                                                    *)
Count(b, mask) == Cardinality({e \in b.events : e.class \in mask})

Classes(b) == {e.class : e \in {f \in b.events : ~f.selected}}

----------------------------------------------------------------------------
(* selectWhere hands out the first limit unselected events that match and  *)
(* marks them.  dropsAtSelect is set first, whatever is selected.  The     *)
(* mask is the set of kinds that match: for Select those of its classes,   *)
(* for SelectType those of its type, in whatever class.                    *)
Matching(b, mask) == {e \in b.events : ~e.selected /\ e.class \in mask}

(* A variant with a defect: the newest events first.                       *)
HandedOutNewest(b, mask, limit) ==
    LET M == Matching(b, mask)
    IN  {e \in M : Cardinality({f \in M : f.seq > e.seq}) < limit}

HandedOut(b, mask, limit) ==
    LET M == Matching(b, mask)
    IN  {e \in M : Cardinality({f \in M : f.seq < e.seq}) < limit}

Mark(S, picked, value) ==
    {IF e.seq \in picked THEN [e EXCEPT !.selected = value] ELSE e : e \in S}

Select(b, mask, limit) ==
    [b EXCEPT !.dropsAtSelect = b.drops,
              !.events = Mark(@, Seqs(HandedOut(b, mask, limit)), TRUE)]

(* A variant with a defect: the overflow indication is cleared whether or  *)
(* not more was lost after the response was built.                         *)
ConfirmForgetsLoss(b) ==
    LET removed == SelectedIn(b.events)
    IN  [b EXCEPT !.events    = @ \ removed,
                  !.overflow  = @ /\ removed = {},
                  !.confirmed = @ \cup Seqs(removed)]

(* A variant with a defect: whatever is in the buffer goes.                *)
ConfirmEverything(b) ==
    [b EXCEPT !.events    = {},
              !.overflow  = @ /\ b.drops # b.dropsAtSelect,
              !.confirmed = @ \cup Seqs(b.events)]

(* Confirm removes every selected event, whoever selected it.              *)
Confirm(b) ==
    LET removed == SelectedIn(b.events)
    IN  [b EXCEPT !.events    = @ \ removed,
                  !.overflow  = @ /\ ~(removed # {} /\ b.drops = b.dropsAtSelect),
                  !.confirmed = @ \cup Seqs(removed)]

Unselect(b) == [b EXCEPT !.events = Mark(@, Seqs(@), FALSE)]

(* Release and Discard take the seq numbers of events Select handed out.   *)
Release(b, seqs) == [b EXCEPT !.events = Mark(@, seqs, FALSE)]

(* A variant with a defect: the discarded events are not counted as lost.  *)
DiscardQuietly(b, seqs) ==
    LET gone == {e \in SelectedIn(b.events) : e.seq \in seqs}
    IN  [b EXCEPT !.events = @ \ gone, !.lost = @ \cup Seqs(gone)]

Discard(b, seqs) ==
    LET gone == {e \in SelectedIn(b.events) : e.seq \in seqs}
    IN  [b EXCEPT !.events   = @ \ gone,
                  !.overflow = @ \/ gone # {},
                  !.drops    = @ + Cardinality(gone),
                  !.lost     = @ \cup Seqs(gone)]

ClearOverflow(b) == [b EXCEPT !.overflow = FALSE]

(* Reset leaves the drop counters as they are, and goes on numbering.  The *)
(* variant with a defect starts again from one.                            *)
ResetNumbers(b) ==
    [b EXCEPT !.events = {}, !.overflow = FALSE, !.nextSeq = 0,
              !.wiped = @ \cup Seqs(b.events)]

Reset(b) ==
    [b EXCEPT !.events = {}, !.overflow = FALSE, !.wiped = @ \cup Seqs(b.events)]
=============================================================================
