----------------------------- MODULE Transport -----------------------------
(***************************************************************************)
(* The transport function (internal/transport): a fragment is cut into     *)
(* segments numbered by a counter of the link, and put together again.     *)
(*                                                                         *)
(* A fragment is a sequence of payloads, one for each segment it takes.    *)
(* Segment headers keep FIR, FIN and the sequence number; octets, the      *)
(* statistics and a fragment without octets are left out.                  *)
(***************************************************************************)
EXTENDS Integers, Sequences

CONSTANTS
    SegModulus,   \* transport.SeqModulus, 64 in the code
    MaxFragment   \* Reassembler.MaxFragment, counted in segments

ASSUME TransportAssumption ==
    SegModulus \in Nat \ {0} /\ MaxFragment \in Nat \ {0}

NoFragment == <<>>

----------------------------------------------------------------------------
(* Segmenter.  frag is what is left of the fragment, first says that none  *)
(* of it has been sent.  The counter outlives the fragment.                *)
NewSegmenter == [frag |-> <<>>, first |-> FALSE, seq |-> 0]

segReset(g, fragment) == [g EXCEPT !.frag = fragment, !.first = TRUE]

segPending(g) == g.frag # <<>>

segClear(g) == [g EXCEPT !.frag = <<>>, !.first = FALSE]

(* Next: the i-th segment from here, and the segmenter after n of them.    *)
segAt(g, i) ==
    [fir |-> g.first /\ i = 1, fin |-> i = Len(g.frag), seq |-> (g.seq + i - 1) % SegModulus,
     payload |-> g.frag[i]]

segAfter(g, n) ==
    [frag |-> SubSeq(g.frag, n + 1, Len(g.frag)), first |-> FALSE,
     seq |-> (g.seq + n) % SegModulus]

----------------------------------------------------------------------------
(* Reassembler.  Accept answers with the reassembler it leaves and the     *)
(* fragment it completes, or NoFragment.                                   *)
NewReassembler == [buf |-> <<>>, expect |-> 0, assembly |-> FALSE]

reasmReset(r) == [r EXCEPT !.buf = <<>>, !.assembly = FALSE]

append(r, h) ==
    IF Len(r.buf) + 1 > MaxFragment
    THEN [reasm |-> reasmReset(r), fragment |-> NoFragment]
    ELSE LET buf == Append(r.buf, h.payload)
         IN  [reasm    |-> [buf |-> buf, expect |-> (h.seq + 1) % SegModulus,
                            assembly |-> ~h.fin],
              fragment |-> IF h.fin THEN buf ELSE NoFragment]

(* A variant with a defect: a gap in the numbers is not noticed.          *)
AcceptAnyNumber(r, h) ==
    CASE h.fir -> append([buf |-> <<>>, expect |-> h.seq, assembly |-> TRUE], h)
      [] ~h.fir /\ ~r.assembly -> [reasm |-> r, fragment |-> NoFragment]
      [] OTHER -> append(r, h)

Accept(r, h) ==
    CASE h.fir ->
           append([buf |-> <<>>, expect |-> h.seq, assembly |-> TRUE], h)
      [] ~h.fir /\ ~r.assembly ->
           [reasm |-> r, fragment |-> NoFragment]
      [] ~h.fir /\ r.assembly /\ h.seq # r.expect ->
           [reasm |-> reasmReset(r), fragment |-> NoFragment]
      [] OTHER -> append(r, h)
=============================================================================
