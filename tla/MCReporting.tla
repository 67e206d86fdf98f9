---------------------------- MODULE MCReporting ----------------------------
(* Instances of Reporting for model checking: which requests the master    *)
(* sends and which events the application raises.                          *)
EXTENDS Reporting

Template(fn, classes, static) ==
    [fn |-> fn, classes |-> classes, static |-> static, bad |-> FALSE,
     malformed |-> FALSE, bcast |-> "no"]

Poll        == Template("READ", {1}, 0)
Integrity   == Template("READ", Class, 1)
Write       == Template("WRITE", {}, 0)
Enable      == Template("ENABLE", {1}, 0)
Disable     == Template("DISABLE", {1}, 0)
Unsupported == Template("OTHER", {}, 0)
Unknown     == [Poll EXCEPT !.static = 1, !.bad = TRUE]

Change(c) == [class |-> c, sendable |-> TRUE]

Base ==
    [cfg |-> [fragmentCap |-> 1, unsolicited |-> TRUE, linkConfirms |-> FALSE],
     templates |-> {}, repeats |-> FALSE, kinds |-> {Change(1)}, updates |-> 3,
     requests |-> 3, losses |-> 1, connects |-> 1, restarts |-> 0, early |-> 0]

(* Class polls and writes, repeated verbatim, over a connection that is    *)
(* also replaced, with early timeouts and a buffer that overflows.         *)
Polling ==
    [Base EXCEPT !.cfg = [fragmentCap |-> 2, unsolicited |-> FALSE, linkConfirms |-> FALSE],
                 !.templates = {Poll, Write, Unsupported}, !.repeats = TRUE,
                 !.connects = 2, !.early = 1]

(* Responses of several fragments, and requests that supersede them.       *)
MultiFragment ==
    [Base EXCEPT !.cfg.unsolicited = FALSE, !.templates = {Poll, Integrity},
                 !.repeats = TRUE, !.kinds = {Change(1), Change(2)}]

(* Refused requests: reads that also name an object the device does not    *)
(* have, answered in several fragments, superseded and repeated.           *)
Refusing ==
    [Base EXCEPT !.cfg.unsolicited = FALSE,
                 !.templates = {Unknown, Write, Enable, Unsupported},
                 !.repeats = TRUE, !.updates = 1]

(* Polls and unsolicited responses at once, some events without an         *)
(* encoding.                                                               *)
Mixed ==
    [Base EXCEPT !.templates = {Enable, Poll, Write},
                 !.kinds = {Change(1), [class |-> 1, sendable |-> FALSE]}]

(* Restarts by request and by the application, over a link with confirms   *)
(* that may be busy when the next fragment is ready.                       *)
Restarting ==
    [Base EXCEPT !.cfg.linkConfirms = TRUE,
                 !.templates = {Enable, Disable, Template("COLD", {}, 0), Template("WARM", {}, 0),
                                Template("NR", {}, 0), [Write EXCEPT !.bcast = "mandatory"]},
                 !.updates = 2, !.requests = 2, !.losses = 0, !.restarts = 1]

(* Unsolicited reporting with lost fragments and confirmations, early      *)
(* timeouts, retries and giving up.                                        *)
Unsolicited ==
    [Base EXCEPT !.templates = {Enable, Write}, !.requests = 2, !.early = 1]

Reconnecting ==
    [Base EXCEPT !.cfg.fragmentCap = 2, !.templates = {Enable}, !.requests = 1,
                 !.losses = 0, !.connects = 2]

Late ==
    [Base EXCEPT !.cfg.unsolicited = FALSE, !.templates = {Poll}, !.requests = 2,
                 !.early = 1]

ReportingSetups == {Polling, MultiFragment, Refusing, Mixed, Restarting, Unsolicited}
OnlyUnsolicited == {Unsolicited}
OnlyRefusing == {Refusing}
OnlyReconnecting == {Reconnecting}
OnlyLate == {Late}
=============================================================================
