--------------------------- MODULE EventLifecycle ---------------------------
(***************************************************************************)
(* What the event buffer promises about every event, whatever the order of *)
(* the calls: an event is queued when it is raised; it is acknowledged     *)
(* only from a response it was offered in; one taken back is queued as     *)
(* before; and an event that is acknowledged or gone stays so.             *)
(***************************************************************************)
CONSTANT Id   \* the events there can be

VARIABLES
    queued,   \* waiting to be reported
    offered,  \* in a response whose confirmation is outstanding
    acked,    \* confirmed by the master
    gone      \* given up: overflow, not encodable, or a restart

vars == <<queued, offered, acked, gone>>

Known == queued \cup offered \cup acked \cup gone

Init == queued = {} /\ offered = {} /\ acked = {} /\ gone = {}

(* A new event, at the price of older ones when there is no room.          *)
Raise ==
    \E n \in Id \ Known, out \in SUBSET (queued \cup offered) :
       /\ queued' = (queued \ out) \cup {n}
       /\ offered' = offered \ out
       /\ gone' = gone \cup out
       /\ UNCHANGED acked

Offer ==
    \E S \in SUBSET queued :
       /\ queued' = queued \ S
       /\ offered' = offered \cup S
       /\ UNCHANGED <<acked, gone>>

TakeBack ==
    \E S \in SUBSET offered :
       /\ queued' = queued \cup S
       /\ offered' = offered \ S
       /\ UNCHANGED <<acked, gone>>

Acknowledge ==
    /\ acked' = acked \cup offered
    /\ offered' = {}
    /\ UNCHANGED <<queued, gone>>

GiveUp ==
    \E S \in SUBSET (queued \cup offered) :
       /\ queued' = queued \ S
       /\ offered' = offered \ S
       /\ gone' = gone \cup S
       /\ UNCHANGED acked

Next == Raise \/ Offer \/ TakeBack \/ Acknowledge \/ GiveUp

Spec == Init /\ [][Next]_vars
=============================================================================
