------------------------------ MODULE Channels ------------------------------
(***************************************************************************)
(* The channels a session gets its connections from (channel/): servers    *)
(* that accept one (TCPServer, TLSServer), clients that dial               *)
(* (TCPClient, TLSClient), serial ports and datagram sockets.              *)
(*                                                                         *)
(* One goroutine at a time is in Connect.  Its context may be cancelled,   *)
(* and the channel closed, by others at any moment.  An accept that is     *)
(* cancelled is woken by a watchdog, a goroutine of its own, which sets a  *)
(* deadline on the listener.                                               *)
(*                                                                         *)
(* A peer stands for one connection, or for one opening of a serial port,  *)
(* or for one session's view of the datagram socket.  They are numbered as *)
(* they come.                                                              *)
(***************************************************************************)
EXTENDS Naturals

CONSTANTS
    Kinds,      \* the kinds of channel to look at
    MaxPeers    \* a bound on the connections there are

ASSUME MaxPeersAssumption == MaxPeers \in Nat

Peers == 1..MaxPeers
NoPeer == 0

VARIABLES
    kind, retry,            \* the channel's kind, and whether its Retry says to try again
    closed, listener, deadline,
    pc, cancelled, err, conn,   \* the Connect that runs, or has run last
    dog,                    \* its watchdog: "none", "watching" or "gone"
    come, waiting,          \* how many peers there have been; those not accepted yet
    open, owned             \* connections that are open; those handed to the session

state == <<closed, listener, deadline>>
call == <<pc, cancelled, err, conn>>
peers == <<come, waiting, open, owned>>
config == <<kind, retry>>
vars == <<config, state, call, dog, peers>>

Servers == {"tcpServer", "tlsServer"}
Dialers == {"client", "serial"}
AllKinds == Servers \cup Dialers \cup {"udp"}

Init ==
    /\ kind \in Kinds /\ retry \in (IF kind \in Dialers THEN BOOLEAN ELSE {FALSE})
    /\ closed = FALSE /\ listener = "none" /\ deadline = FALSE
    /\ pc = "idle" /\ cancelled = FALSE /\ err = "none" /\ conn = NoPeer
    /\ dog = "none"
    /\ come = 0 /\ waiting = {} /\ open = {} /\ owned = {}

Goto(place) == pc' = place /\ UNCHANGED <<cancelled, err, conn>>

Return(result) ==
    /\ pc' = "idle" /\ err' = result /\ conn' = NoPeer
    /\ UNCHANGED cancelled

HandOver(p) ==
    /\ owned' = {p}
    /\ Return("none")
    /\ UNCHANGED <<come, waiting>>

Drop(p) == open' = open \ {p} /\ UNCHANGED <<come, waiting, owned>>

(* Connect begins, with a context of its own.                              *)
Connect ==
    /\ pc = "idle" /\ owned = {}
    /\ pc' = CASE kind \in Servers -> "listen" [] kind \in Dialers -> "look" [] OTHER -> "socket"
    /\ cancelled' = FALSE /\ err' = "none" /\ conn' = NoPeer
    /\ UNCHANGED <<config, state, dog, peers>>

----------------------------------------------------------------------------
(* Servers.                                                                *)
listen ==
    /\ pc = "listen"
    /\ \/ closed /\ Return("closed") /\ UNCHANGED listener
       \/ ~closed /\ listener' = "open" /\ Goto("once")
       \/ ~closed /\ listener = "none" /\ Return("failed") /\ UNCHANGED listener
    /\ UNCHANGED <<config, closed, deadline, dog, peers>>

(* acceptOnce starts its watchdog, unless it is cancelled already.         *)
acceptOnce ==
    /\ pc = "once"
    /\ IF cancelled THEN Return("cancelled") /\ UNCHANGED dog
                    ELSE Goto("enter") /\ dog' = "watching"
    /\ UNCHANGED <<config, state, peers>>

Fails(error) == pc' = "stop" /\ err' = error /\ UNCHANGED <<cancelled, conn>>

(* Accept looks at the deadline when it is entered and while it waits.  A  *)
(* connection that is there may be returned just as the deadline is set.   *)
Enter ==
    /\ pc = "enter"
    /\ CASE listener = "closed"             -> Fails("closed")
         [] listener = "open" /\ deadline   -> Fails("fault")
         [] OTHER                           -> Goto("accept")
    /\ UNCHANGED <<config, state, dog, peers>>

Accept(p) ==
    /\ pc = "accept" /\ listener = "open"
    /\ p \in waiting /\ \A q \in waiting : p <= q
    /\ waiting' = waiting \ {p} /\ open' = open \cup {p}
    /\ conn' = p /\ pc' = "stop"
    /\ UNCHANGED <<config, state, cancelled, err, dog, come, owned>>

(* The deadline, the listener's end, or trouble that passes.               *)
AcceptFails ==
    /\ pc = "accept"
    /\ IF listener = "closed" THEN Fails("closed") ELSE Fails("fault")
    /\ UNCHANGED <<config, state, dog, peers>>

(* The watchdog's two ends: the context's, or that of the accept.          *)
Watchdog ==
    /\ dog = "watching" /\ cancelled
    /\ dog' = "gone" /\ deadline' = (deadline \/ listener = "open")
    /\ UNCHANGED <<config, closed, listener, call, peers>>

WatchdogDone ==
    /\ dog = "watching" /\ pc \notin {"enter", "accept", "stop"}
    /\ dog' = "gone"
    /\ UNCHANGED <<config, state, call, peers>>

CloseDone ==
    /\ pc = "stop" /\ Goto("exited")
    /\ UNCHANGED <<config, state, dog, peers>>

(* A variant with a defect: the watchdog is told to stop, not waited for.  *)
ExitedUnseen ==
    /\ pc = "exited"
    /\ Goto("clear")
    /\ UNCHANGED <<config, state, dog, peers>>

Exited ==
    /\ pc = "exited" /\ dog = "gone"
    /\ Goto("clear")
    /\ UNCHANGED <<config, state, dog, peers>>

ClearDeadline ==
    /\ pc = "clear" /\ deadline' = FALSE /\ Goto("settle")
    /\ UNCHANGED <<config, closed, listener, dog, peers>>

(* A variant with a defect: a connection nobody waits for any more is      *)
(* left open.                                                              *)
SettleWithoutClose ==
    /\ pc = "settle"
    /\ IF conn = NoPeer
       THEN /\ CASE cancelled                       -> Return("cancelled")
                 [] ~cancelled /\ err = "closed"    -> Return("closed")
                 [] OTHER                           -> Goto("backoff")
            /\ UNCHANGED peers
       ELSE CASE cancelled                          -> Return("cancelled") /\ UNCHANGED peers
              [] ~cancelled /\ kind = "tcpServer"   -> HandOver(conn) /\ UNCHANGED open
              [] OTHER                              -> Goto("handshake") /\ UNCHANGED peers
    /\ UNCHANGED <<config, state, dog>>

(* The end of acceptOnce, and what acceptContext makes of it: trouble that *)
(* passes is waited out.                                                   *)
Settle ==
    /\ pc = "settle"
    /\ IF conn = NoPeer
       THEN /\ CASE cancelled                       -> Return("cancelled")
                 [] ~cancelled /\ err = "closed"    -> Return("closed")
                 [] OTHER                           -> Goto("backoff")
            /\ UNCHANGED peers
       ELSE CASE cancelled                          -> Return("cancelled") /\ Drop(conn)
              [] ~cancelled /\ kind = "tcpServer"   -> HandOver(conn) /\ UNCHANGED open
              [] OTHER                              -> Goto("handshake") /\ UNCHANGED peers
    /\ UNCHANGED <<config, state, dog>>

(* The context or the timer, whichever the select takes.                   *)
Backoff ==
    /\ pc = "backoff"
    /\ (cancelled /\ Return("cancelled")) \/ (pc' = "once" /\ err' = "none" /\ UNCHANGED <<cancelled, conn>>)
    /\ UNCHANGED <<config, state, dog, peers>>

(* A peer whose handshake fails, or takes too long, is dropped.            *)
Handshake ==
    /\ pc = "handshake"
    /\ \/ HandOver(conn) /\ UNCHANGED open
       \/ /\ Drop(conn)
          /\ IF cancelled THEN Return("cancelled")
             ELSE pc' = "once" /\ conn' = NoPeer /\ UNCHANGED <<cancelled, err>>
    /\ UNCHANGED <<config, state, dog>>

----------------------------------------------------------------------------
(* Clients and serial ports.                                               *)
Look ==
    /\ pc = "look"
    /\ CASE closed               -> Return("closed")
         [] ~closed /\ cancelled -> Return("cancelled")
         [] OTHER                -> Goto("dial")
    /\ UNCHANGED <<config, state, dog, peers>>

Dial(p) ==
    /\ pc = "dial" /\ p = come + 1
    /\ come' = p /\ open' = open \cup {p}
    /\ conn' = p /\ pc' = "made"
    /\ UNCHANGED <<config, state, cancelled, err, dog, waiting, owned>>

DialFails ==
    /\ pc = "dial"
    /\ CASE cancelled /\ kind = "client" -> Return("cancelled")
         [] ~retry                       -> Return("failed")
         [] OTHER                        -> Goto("sleep")
    /\ UNCHANGED <<config, state, dog, peers>>

(* closeIfClosed; a serial port is also given its read timeout, in vain    *)
(* where the driver refuses.                                               *)
Made ==
    /\ pc = "made"
    /\ \/ kind = "serial" /\ Drop(conn) /\ Return("failed")
       \/ closed /\ Drop(conn) /\ Return("closed")
       \/ ~closed /\ HandOver(conn) /\ UNCHANGED open
    /\ UNCHANGED <<config, state, dog>>

sleep ==
    /\ pc = "sleep"
    /\ (cancelled /\ Return("cancelled")) \/ Goto("look")
    /\ UNCHANGED <<config, state, dog, peers>>

----------------------------------------------------------------------------
(* A datagram socket is bound once, and every Connect is given a new view  *)
(* of it.                                                                  *)
Socket(p) ==
    /\ pc = "socket"
    /\ \/ closed /\ Return("closed") /\ UNCHANGED <<listener, peers>>
       \/ ~closed /\ cancelled /\ Return("cancelled") /\ UNCHANGED <<listener, peers>>
       \/ ~closed /\ ~cancelled /\ listener = "none" /\ Return("failed") /\ UNCHANGED <<listener, peers>>
       \/ /\ ~closed /\ ~cancelled /\ p = come + 1
          /\ listener' = "open"
          /\ come' = p /\ open' = open \cup {p} /\ owned' = {p}
          /\ Return("none") /\ UNCHANGED waiting
    /\ UNCHANGED <<config, closed, deadline, dog>>

----------------------------------------------------------------------------
(* The others.                                                             *)
Cancel ==
    /\ ~cancelled /\ cancelled' = TRUE
    /\ UNCHANGED <<config, state, pc, err, conn, dog, peers>>

(* A serial port the session holds is closed under it.                     *)
Close ==
    /\ ~closed /\ closed' = TRUE
    /\ listener' = IF listener = "open" THEN "closed" ELSE listener
    /\ waiting' = {}
    /\ open' = IF kind = "serial" THEN open \ owned ELSE open
    /\ UNCHANGED <<config, deadline, call, dog, come, owned>>

PeerComes(p) ==
    /\ kind \in Servers /\ listener = "open" /\ p = come + 1
    /\ come' = p /\ waiting' = waiting \cup {p}
    /\ UNCHANGED <<config, state, call, dog, open, owned>>

(* The session is done with its connection.                                *)
CloseConn ==
    /\ owned # {}
    /\ open' = open \ owned /\ owned' = {}
    /\ UNCHANGED <<config, state, call, dog, come, waiting>>

(* The steps of Connect and of its watchdog.                               *)
ConnectStep ==
    \/ listen \/ acceptOnce \/ Enter \/ AcceptFails
    \/ \E p \in Peers : Accept(p) \/ Dial(p) \/ Socket(p)
    \/ CloseDone \/ Exited \/ ClearDeadline \/ Settle \/ Backoff \/ Handshake
    \/ Look \/ DialFails \/ Made \/ sleep

Next ==
    \/ Connect \/ ConnectStep \/ Watchdog \/ WatchdogDone
    \/ Cancel \/ Close \/ CloseConn \/ \E p \in Peers : PeerComes(p)

Spec == Init /\ [][Next]_vars

----------------------------------------------------------------------------
(* No connection is left open that nobody holds: an open one is the        *)
(* session's or in the hands of the Connect that made it, however a        *)
(* cancellation, a Close and a peer's arrival fall (acceptOnce,            *)
(* closeIfClosed, the TLS handshake).  A closed serial channel leaves no   *)
(* port open.                                                              *)
NoneLeaked ==
    /\ open \subseteq owned \cup {conn}
    /\ pc = "idle" => conn = NoPeer
    /\ (kind = "serial" /\ closed /\ pc = "idle") => open = {}

(* A cancelled accept's deadline does not outlive it: none is set but by   *)
(* the watchdog of the very accept that was cancelled (acceptOnce waits    *)
(* for its watchdog before it clears the deadline).                        *)
FreshDeadline ==
    deadline => cancelled /\ pc \in {"enter", "accept", "stop", "exited", "clear"}
=============================================================================
