--------------------------- MODULE ChannelsProofs ---------------------------
(***************************************************************************)
(* For any number of connections: no Connect leaves one open that nobody   *)
(* holds, and no accept meets the deadline of another.                     *)
(***************************************************************************)
EXTENDS Channels, TLAPS

(* A leaf that names no prover is given this long.                         *)
USE SMTT(30)

AcceptPlaces == {"enter", "accept", "stop", "exited"}
ServerPlaces == AcceptPlaces \cup {"listen", "once", "clear", "settle", "backoff", "handshake"}
HoldingPlaces == {"stop", "exited", "clear", "settle", "handshake", "made"}

TypeOK ==
    /\ open \subseteq Peers /\ waiting \subseteq Peers
    /\ conn \in Peers \cup {NoPeer}
    /\ closed \in BOOLEAN /\ deadline \in BOOLEAN /\ cancelled \in BOOLEAN

(* Who may have a connection where: a Connect holds one only between the   *)
(* step that makes it and the one that hands it over or closes it, and     *)
(* runs only while the session has none.                                   *)
Holding ==
    /\ conn # NoPeer => pc \in HoldingPlaces
    /\ pc # "idle" => owned = {}
    /\ open \subseteq owned \cup {conn}
    /\ pc \in ServerPlaces => kind \in Servers
    /\ pc = "socket" => kind \notin Dialers
    /\ (kind = "serial" /\ closed /\ pc = "idle") => open = {}

(* The watchdog runs only during the accept it belongs to.                 *)
Watching ==
    /\ dog = "watching" => pc \in AcceptPlaces
    /\ deadline => cancelled /\ pc \in AcceptPlaces \cup {"clear"}

(* Every action leaves the sets of peers what they are.                    *)
LEMMA TypePreserved == TypeOK /\ [Next]_vars => TypeOK'
<1> SUFFICES ASSUME TypeOK, [Next]_vars PROVE TypeOK'
  OBVIOUS
<1> USE DEF TypeOK, NoPeer
<1>1. CASE Connect
  BY <1>1, Zenon DEF Connect, state, peers, config
<1>2. CASE listen \/ acceptOnce \/ Enter \/ AcceptFails
  BY <1>2 DEF listen, acceptOnce, Enter, AcceptFails, Fails, Goto, Return, state, peers, config
<1>3. CASE \E p \in Peers : Accept(p) \/ Dial(p)
  BY <1>3 DEF Accept, Dial, state, config
<1>4. CASE \E p \in Peers : Socket(p)
  BY <1>4 DEF Socket, Return, peers, config
<1>5. CASE CloseDone \/ Exited \/ ClearDeadline \/ Backoff
  BY <1>5, Zenon DEF CloseDone, Exited, ClearDeadline, Backoff, Goto, Return, state, peers, config
<1>6. CASE Settle
  BY <1>6, SMTT(60) DEF Settle, Goto, Return, HandOver, Drop, state, peers, config
<1>7. CASE Handshake \/ Made
  BY <1>7 DEF Handshake, Made, Return, HandOver, Drop, state, config
<1>8. CASE Look \/ DialFails \/ sleep
  BY <1>8 DEF Look, DialFails, sleep, Goto, Return, state, peers, config
<1>9. CASE Watchdog \/ WatchdogDone \/ Cancel
  BY <1>9, Zenon DEF Watchdog, WatchdogDone, Cancel, state, call, peers, config
<1>10. CASE Close \/ CloseConn \/ \E p \in Peers : PeerComes(p)
  BY <1>10, Zenon DEF Close, CloseConn, PeerComes, state, call, config
<1>11. CASE UNCHANGED vars
  BY <1>11 DEF vars, state, call, peers
<1>12. QED
  BY <1>1, <1>2, <1>3, <1>4, <1>5, <1>6, <1>7, <1>8, <1>9, <1>10, <1>11 DEF Next, ConnectStep

(* What a Connect makes, it hands over or closes.                          *)
LEMMA HoldingPreserved == TypeOK /\ Holding /\ [Next]_vars => Holding'
<1> SUFFICES ASSUME TypeOK, Holding, [Next]_vars PROVE Holding'
  OBVIOUS
<1>0. NoPeer \notin Peers
  BY DEF NoPeer, Peers
<1> USE <1>0 DEF TypeOK, Holding, AcceptPlaces, ServerPlaces, HoldingPlaces, Servers, Dialers
<1>1. CASE Connect
  BY <1>1 DEF Connect, state, peers, config
<1>2. CASE listen \/ acceptOnce
  BY <1>2 DEF listen, acceptOnce, Goto, Return, state, peers, config
<1>3. CASE Enter \/ AcceptFails
  BY <1>3 DEF Enter, AcceptFails, Fails, Goto, state, peers, config
<1>4. CASE \E p \in Peers : Accept(p) \/ Dial(p)
  BY <1>4 DEF Accept, Dial, state, config
<1>5. CASE \E p \in Peers : Socket(p)
  BY <1>5 DEF Socket, Return, peers, config
<1>6. CASE CloseDone \/ Exited \/ ClearDeadline \/ Backoff
  BY <1>6 DEF CloseDone, Exited, ClearDeadline, Backoff, Goto, Return, state, peers, config
<1>7. CASE Settle
  BY <1>7, SMTT(60) DEF Settle, Goto, Return, HandOver, Drop, state, peers, config
<1>8. CASE Handshake
  BY <1>8 DEF Handshake, Return, HandOver, Drop, state, config
<1>9. CASE Made
  BY <1>9 DEF Made, Return, HandOver, Drop, state, config
<1>10. CASE Look \/ DialFails \/ sleep
  BY <1>10 DEF Look, DialFails, sleep, Goto, Return, state, peers, config
<1>11. CASE Watchdog \/ WatchdogDone \/ Cancel
  BY <1>11 DEF Watchdog, WatchdogDone, Cancel, state, call, peers, config
<1>12. CASE Close \/ CloseConn
  BY <1>12 DEF Close, CloseConn, state, call, config
<1>13. CASE \E p \in Peers : PeerComes(p)
  BY <1>13 DEF PeerComes, state, call, config
<1>14. CASE UNCHANGED vars
  BY <1>14 DEF vars, state, call, peers, config
<1>15. QED
  BY <1>1, <1>2, <1>3, <1>4, <1>5, <1>6, <1>7, <1>8, <1>9, <1>10, <1>11, <1>12, <1>13, <1>14
  DEF Next, ConnectStep

(* The deadline is cleared after the watchdog has gone, so it stays clear. *)
LEMMA WatchingPreserved == TypeOK /\ Watching /\ [Next]_vars => Watching'
<1> SUFFICES ASSUME TypeOK, Watching, [Next]_vars PROVE Watching'
  OBVIOUS
<1> USE DEF TypeOK, Watching, AcceptPlaces
<1>1. CASE Connect
  BY <1>1 DEF Connect, state, peers, config
<1>2. CASE listen \/ acceptOnce \/ Enter \/ AcceptFails
  BY <1>2 DEF listen, acceptOnce, Enter, AcceptFails, Fails, Goto, Return, state, peers, config
<1>3. CASE \E p \in Peers : Accept(p) \/ Dial(p) \/ Socket(p)
  BY <1>3 DEF Accept, Dial, Socket, Return, state, peers, config
<1>4. CASE CloseDone \/ Exited \/ ClearDeadline \/ Backoff
  BY <1>4 DEF CloseDone, Exited, ClearDeadline, Backoff, Goto, Return, state, peers, config
<1>5. CASE Settle
  BY <1>5, SMTT(60) DEF Settle, Goto, Return, HandOver, Drop, state, peers, config
<1>6. CASE Handshake \/ Made
  BY <1>6 DEF Handshake, Made, Return, HandOver, Drop, state, config
<1>7. CASE Look \/ DialFails \/ sleep
  BY <1>7 DEF Look, DialFails, sleep, Goto, Return, state, peers, config
<1>8. CASE Watchdog \/ WatchdogDone \/ Cancel
  BY <1>8 DEF Watchdog, WatchdogDone, Cancel, state, call, peers, config
<1>9. CASE Close \/ CloseConn \/ \E p \in Peers : PeerComes(p)
  BY <1>9 DEF Close, CloseConn, PeerComes, state, call, config
<1>10. CASE UNCHANGED vars
  BY <1>10 DEF vars, state, call, peers
<1>11. QED
  BY <1>1, <1>2, <1>3, <1>4, <1>5, <1>6, <1>7, <1>8, <1>9, <1>10 DEF Next, ConnectStep

LEMMA Initially == Init => TypeOK /\ Holding /\ Watching
BY Zenon DEF Init, TypeOK, Holding, Watching, NoPeer, AcceptPlaces, ServerPlaces, HoldingPlaces

(* No channel leaves a connection open that nobody holds, however many     *)
(* there are and however cancellations, closings and arrivals fall         *)
(* (acceptOnce, closeIfClosed, the handshake, the serial port's Close).    *)
THEOREM ConnectionsHeld == Spec => []NoneLeaked
<1>1. TypeOK /\ Holding => NoneLeaked
  BY DEF TypeOK, Holding, NoneLeaked, HoldingPlaces
<1>2. QED
  BY <1>1, Initially, TypePreserved, HoldingPreserved, PTL DEF Spec

(* No accept meets a deadline set for an earlier one (acceptOnce).         *)
THEOREM DeadlinesFresh == Spec => []FreshDeadline
<1>1. Watching => FreshDeadline
  BY DEF Watching, FreshDeadline, AcceptPlaces
<1>2. QED
  BY <1>1, Initially, TypePreserved, WatchingPreserved, PTL DEF Spec
=============================================================================
