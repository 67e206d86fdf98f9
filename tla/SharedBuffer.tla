---------------------------- MODULE SharedBuffer ----------------------------
(***************************************************************************)
(* The event buffer as its goroutines use it.  The session's goroutine     *)
(* selects, confirms, takes back, releases and discards; the application's *)
(* goroutines add, reset and clear the overflow at any moment in between.  *)
(* The mutex makes each call one step, so the calls interleave in every    *)
(* order.                                                                  *)
(*                                                                         *)
(* Release and Discard are called with events an earlier Select handed     *)
(* out, some of which may have left the buffer since: any set of numbers   *)
(* given so far.  MaxAdded bounds the events raised and nothing else.      *)
(***************************************************************************)
EXTENDS EventBuffer

CONSTANTS
    Limits,     \* the limits the callers of Select pass
    MaxAdded

ASSUME SharedBufferAssumption == Limits \subseteq Nat /\ MaxAdded \in Nat

VARIABLE buf

Init == buf = NewEventBuffer

Raised == 1..buf.nextSeq

DoAdd ==
    /\ buf.nextSeq < MaxAdded
    /\ \E c \in Class, ok \in BOOLEAN : buf' = Add(buf, c, ok)

(* Select and SelectType: any set of kinds.                                *)
DoSelect ==
    \E mask \in SUBSET Class, limit \in Limits : buf' = Select(buf, mask, limit)

DoConfirm == buf' = Confirm(buf)

DoUnselect == buf' = Unselect(buf)

DoRelease == \E seqs \in SUBSET Raised : buf' = Release(buf, seqs)

DoDiscard == \E seqs \in SUBSET Raised : buf' = Discard(buf, seqs)

DoClearOverflow == buf' = ClearOverflow(buf)

DoReset == buf' = Reset(buf)

Next == \/ DoAdd \/ DoSelect \/ DoConfirm \/ DoUnselect \/ DoRelease
        \/ DoDiscard \/ DoClearOverflow \/ DoReset

Spec == Init /\ [][Next]_buf

----------------------------------------------------------------------------
(* The buffer has its shape and never holds more than its capacity (Add).  *)
TypeOK ==
    /\ buf \in Buffer
    /\ IsFiniteSet(buf.events)
    /\ Cardinality(buf.events) <= MaxEvents

(* Accounted: every event raised is in the buffer once, or left it once:   *)
(* confirmed, lost to an overflow or Discard, or wiped by Reset.  Discard  *)
(* and Release match by seq and Confirm by mark, while Add may evict what  *)
(* they are about to touch.                                                *)
Accounted ==
    /\ \A e, f \in buf.events : e.seq = f.seq => e = f
    /\ Raised = Seqs(buf.events) \cup buf.confirmed \cup buf.lost \cup buf.wiped
    /\ Seqs(buf.events) \cap (buf.confirmed \cup buf.lost \cup buf.wiped) = {}
    /\ buf.confirmed \cap (buf.lost \cup buf.wiped) = {}
    /\ buf.lost \cap buf.wiped = {}

(* DropsCounted: drops, on which Confirm decides whether the overflow has  *)
(* been reported, counts exactly the events lost.                          *)
DropsCounted == buf.drops = Cardinality(buf.lost)

(* OldestFirst: events of one kind are selected in the order they were     *)
(* raised (selectWhere).                                                   *)
Newly == {e \in buf'.events : e.selected /\ [e EXCEPT !.selected = FALSE] \in buf.events}

OldestFirst ==
    [][\A e \in Newly, f \in buf'.events :
         ~f.selected /\ f.class = e.class => e.seq < f.seq]_buf

(* ImplementsLifecycle: the buffer implements EventLifecycle.  An event is removed as  *)
(* confirmed only from a response it was selected for, and one that left   *)
(* the buffer never returns.                                               *)
Queued(S) == Seqs({e \in S : ~e.selected})

Offered(S) == Seqs(SelectedIn(S))

Lifecycle ==
    INSTANCE EventLifecycle
      WITH Id      <- 1..MaxAdded,
           queued  <- Queued(buf.events),
           offered <- Offered(buf.events),
           acked   <- buf.confirmed,
           gone    <- buf.lost \cup buf.wiped

ImplementsLifecycle == Lifecycle!Spec
=============================================================================
