--------------------------- MODULE MCLinkTransfer ---------------------------
(* The lines of the link run.                                              *)
EXTENDS LinkTransfer

Line(confirms, losses, early, restarts, reconnects, holds) ==
    [confirms |-> confirms, losses |-> losses, early |-> early,
     restarts |-> restarts, reconnects |-> reconnects, holds |-> holds]

(* Link confirms over a line that loses and is replaced, with a peer that  *)
(* may use flow control; no link confirms; and a receiver that restarts    *)
(* unnoticed.                                                              *)
Confirmed   == Line(TRUE, 2, 0, 0, 1, 1)
Unconfirmed == Line(FALSE, 2, 1, 0, 1, 0)
Restarting  == Line(TRUE, 2, 0, 1, 0, 0)

LinkLines == {Confirmed, Unconfirmed, Restarting}
Holding   == {Line(TRUE, 0, 0, 0, 0, 1)}
=============================================================================
