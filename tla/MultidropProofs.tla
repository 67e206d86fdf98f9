-------------------------- MODULE MultidropProofs ---------------------------
(***************************************************************************)
(* Proofs about the shared line for any number of masters, outstations,    *)
(* connections, frames and disturbances, and any replies: what a session   *)
(* reads, who holds the line, and one turn at a time.                      *)
(*                                                                         *)
(* Inv is inductive: a session's newest connection is its only live one;   *)
(* the bus, the pump, the waiting frames and the current connections agree *)
(* on one line; and a hold is one of a master's newest connection.  Turns  *)
(* are not inductive by themselves: that two of them cannot overlap rests  *)
(* on a turn being the holder's, and over once the hold has lapsed         *)
(* (TurnHeld).                                                             *)
(***************************************************************************)
EXTENDS Multidrop, TLAPS

(* A leaf that names no prover is given this long.                         *)
USE SMTT(30)

Ids == Stations \X Nat
Frame == [to : Stations \cup {AllStations, "nobody"}, fin : BOOLEAN, line : Nat]
Busy == {"up", "acquire", "turn", "wrote"}
Reading == {"read", "push", "observe"}

SessionPlaces == {"down", "up", "acquire", "turn", "wrote", "ended"}
PumpPlaces == {"off", "connect", "attach", "read", "push", "observe", "detach", "dead"}
CloserPlaces == {"open", "locked", "cancelled", "closed"}
Written == {"none", "request", "quiet"}

Link == [line : Nat, rx : Seq(Frame)]
Links == Seq(Link)
Sessions == [pc : SessionPlaces, kind : Written, failed : BOOLEAN]
Buses == [line : Nat, closed : BOOLEAN, stopped : BOOLEAN]
Arbiters == [holder : Ids \cup {NoConn}, lapsed : BOOLEAN, timer : BOOLEAN, closed : BOOLEAN]
Pumps == [pc : PumpPlaces, frame : Frame, targets : SUBSET Ids, live : SUBSET Ids, line : Nat]
Closers == [pc : CloserPlaces, line : Nat]
Uses == [n : Nat, writes : Nat]

TypeOK ==
    /\ bus \in Buses /\ arb \in Arbiters /\ pump \in Pumps
    /\ closer \in Closers /\ used \in Uses
    /\ cur \in [Stations -> Ids \cup {NoConn}]
    /\ conns \in [Stations -> Links]
    /\ ses \in [Stations -> Sessions]
    /\ torn \subseteq Ids /\ doomed \subseteq Ids
    /\ inbound \in Seq(Frame)
    /\ owed \in [Masters -> Seq(BOOLEAN)]
    /\ turn \subseteq Ids
    /\ removed \subseteq Stations

(* A session has a connection while it runs on one, and only its newest is *)
(* current or waits to be torn down.                                       *)
Attached ==
    /\ \A s \in Stations : ses[s].pc \in Busy => Len(conns[s]) > 0
    /\ \A s \in Stations : cur[s] # NoConn => cur[s] = Conn(s) /\ ses[s].pc \in Busy
    /\ \A c \in doomed : c = Conn(c[1]) /\ ses[c[1]].pc \in Busy
    /\ \A c \in torn : c[2] <= Len(conns[c[1]])

(* The bus has a line only while the pump reads it.                        *)
BusLine == bus.line # 0 => bus.line = pump.line /\ ~bus.closed /\ pump.pc \in Reading

(* The frames that wait came over that line.                               *)
InboundLine ==
    /\ pump.pc \notin Reading => inbound = <<>>
    /\ \A i \in DOMAIN inbound : inbound[i].line = pump.line

(* A current connection is one of the line the bus has, and a line the     *)
(* pump is about to attach has none yet.                                   *)
ConnLines ==
    /\ \A s \in Stations : cur[s] # NoConn => LineOf(cur[s]) = bus.line
    /\ \A s \in Stations : \A n \in DOMAIN conns[s] :
         /\ conns[s][n].line \in 1..pump.line
         /\ pump.pc = "attach" => conns[s][n].line < pump.line

(* The frame the pump hands out came over the line of those it is for.     *)
PumpFrame ==
    /\ pump.pc \in {"push", "observe"}
         => /\ pump.targets # {}
            /\ pump.frame.line = pump.line
            /\ \A c \in pump.targets : /\ c[2] \in DOMAIN conns[c[1]]
                                       /\ LineOf(c) = pump.line
                                       /\ matches(c[1], pump.frame)
    /\ pump.pc \notin {"push", "observe"} => pump.frame = NoFrame

Lines == BusLine /\ InboundLine /\ ConnLines /\ PumpFrame /\ OwnLineOnly

(* Whose hold it is.                                                       *)
Held ==
    /\ \A s \in Stations : ses[s].pc = "acquire" => s \in Masters
    /\ arb.holder # NoConn =>
         LET s == arb.holder[1] IN
         /\ s \in Masters
         /\ arb.holder = Conn(s)
         /\ ses[s].pc \in Busy
         /\ arb.holder \in torn =>
              ses[s].pc = "turn" \/ (ses[s].pc = "wrote" /\ ses[s].failed)

Inv == TypeOK /\ Attached /\ Lines /\ Held

(* Inv holds at the start.                                                 *)
LEMMA InvInit == Init => Inv
<1> SUFFICES ASSUME Init PROVE Inv
  BY Zenon
<1>1. TypeOK
  <2>1. removed \subseteq Stations
    BY StationsAssumption, Zenon DEF Init
  <2>2. pump \in Pumps
    BY Zenon DEF Init, Pumps, PumpPlaces, NoFrame, Frame
  <2>3. ses \in [Stations -> Sessions]
    BY Zenon DEF Init, Sessions, SessionPlaces, Written
  <2>4. bus \in Buses /\ arb \in Arbiters /\ closer \in Closers /\ used \in Uses
    BY Zenon DEF Init, Buses, Arbiters, Closers, Uses, CloserPlaces
  <2>5. cur \in [Stations -> Ids \cup {NoConn}] /\ conns \in [Stations -> Links]
    BY DEF Init, Links
  <2>6. inbound \in Seq(Frame) /\ owed \in [Masters -> Seq(BOOLEAN)]
    BY DEF Init
  <2> QED BY <2>1, <2>2, <2>3, <2>4, <2>5, <2>6, Zenon DEF Init, TypeOK
<1>2. Attached
  BY Zenon DEF Init, Attached, Busy
<1>3. Lines
  <2>1. BusLine /\ InboundLine
    BY DEF Init, BusLine, InboundLine
  <2>2. ConnLines
    BY DEF Init, ConnLines
  <2>3. PumpFrame
    BY Zenon DEF Init, PumpFrame
  <2>4. OwnLineOnly
    BY DEF Init, OwnLineOnly
  <2> QED BY <2>1, <2>2, <2>3, <2>4, Zenon DEF Lines
<1>4. Held
  BY Zenon DEF Init, Held
<1> QED BY <1>1, <1>2, <1>3, <1>4, Zenon DEF Inv

----------------------------------------------------------------------------
(* Writing the queue of one connection changes nothing else about any.     *)
Relinked(D, s, n, r) ==
    /\ D \in [Stations -> Links]
    /\ \A t \in Stations :
         /\ Len(D[t]) = Len(conns[t])
         /\ \A k \in 1..Len(conns[t]) :
              /\ D[t][k].line = conns[t][k].line
              /\ D[t][k].rx = IF t = s /\ k = n THEN r ELSE conns[t][k].rx

(* What writing one queue leaves of the connections (conn.Read, Close,     *)
(* push).                                                                  *)
LEMMA Relink ==
    ASSUME conns \in [Stations -> Links], NEW s \in Stations,
           NEW n \in 1..Len(conns[s]), NEW r \in Seq(Frame)
    PROVE  Relinked([conns EXCEPT ![s][n].rx = r], s, n, r)
<1> DEFINE q == conns[s]
           l == [q[n] EXCEPT !.rx = r]
           p == [q EXCEPT ![n] = l]
           D == [conns EXCEPT ![s] = p]
<1>1. q \in Seq(Link) /\ q[n] \in Link
  BY DEF Links
<1>2. l \in Link /\ l.line = q[n].line /\ l.rx = r
  BY <1>1, Zenon DEF Link
<1> HIDE DEF l
<1>3. /\ p \in Seq(Link) /\ Len(p) = Len(q) /\ p[n] = l
      /\ \A k \in 1..Len(q) : k # n => p[k] = q[k]
  BY <1>1, <1>2
<1> HIDE DEF p
<1>4. D \in [Stations -> Links] /\ D[s] = p /\ \A t \in Stations : t # s => D[t] = conns[t]
  BY <1>3, Zenon DEF Links
<1>5. Relinked(D, s, n, r)
  BY <1>2, <1>3, <1>4, Zenon DEF Relinked
<1>6. D = [conns EXCEPT ![s][n].rx = r]
  BY Zenon DEF p, l
<1> QED BY <1>5, <1>6, Zenon

(* So does a new connection.                                               *)
Linked(D, s, l) ==
    /\ D \in [Stations -> Links]
    /\ \A t \in Stations :
         /\ Len(D[t]) = IF t = s THEN Len(conns[t]) + 1 ELSE Len(conns[t])
         /\ \A k \in 1..Len(conns[t]) : D[t][k] = conns[t][k]
    /\ D[s][Len(conns[s]) + 1] = l

(* What Connect leaves of them.                                            *)
LEMMA NewLink ==
    ASSUME conns \in [Stations -> Links], NEW s \in Stations, NEW l \in Link
    PROVE  Linked([conns EXCEPT ![s] = Append(@, l)], s, l)
<1> DEFINE p == Append(conns[s], l)
           D == [conns EXCEPT ![s] = p]
<1>1. /\ p \in Links /\ Len(p) = Len(conns[s]) + 1 /\ p[Len(conns[s]) + 1] = l
      /\ \A k \in 1..Len(conns[s]) : p[k] = conns[s][k]
  BY DEF Links
<1> HIDE DEF p
<1>2. D \in [Stations -> Links] /\ D[s] = p /\ \A t \in Stations : t # s => D[t] = conns[t]
  BY <1>1, Zenon
<1>3. Linked(D, s, l)
  BY <1>1, <1>2, Zenon DEF Linked
<1> QED BY <1>3, Zenon DEF p

(* Counting a disturbance, and a write.                                    *)
LEMMA UseStep ==
    ASSUME TypeOK, NEW what, Use(what) \/ UseWriting(what)
    PROVE  used' \in Uses
<1>1. used \in Uses
  BY Zenon DEF TypeOK
<1>2. CASE Use(what)
  <2> DEFINE k == used.n + 1
  <2>1. used' = [used EXCEPT !.n = k]
    BY <1>2, Zenon DEF Use
  <2>2. k \in Nat
    BY <1>1 DEF Uses
  <2> HIDE DEF k
  <2> QED BY ONLY <1>1, <2>1, <2>2, Zenon DEF Uses
<1>3. CASE UseWriting(what)
  <2>1. used' = [n |-> used.n + 1, writes |-> used.writes + 1]
    BY <1>3, Zenon DEF UseWriting
  <2> QED BY ONLY <1>1, <2>1 DEF Uses
<1> QED BY <1>2, <1>3, Zenon

LEMMA CountStep ==
    ASSUME TypeOK, used' = [used EXCEPT !.writes = @ + 1]
    PROVE  used' \in Uses
<1> DEFINE k == used.writes + 1
<1>1. used \in Uses /\ k \in Nat /\ used' = [used EXCEPT !.writes = k]
  BY DEF TypeOK, Uses
<1> HIDE DEF k
<1> QED BY ONLY <1>1, Zenon DEF Uses

(* What the arbiter's handlers may do to it.                               *)
LEMMA ReleaseStep ==
    ASSUME TypeOK, NEW c \in Ids
    PROVE  /\ release(arb, c).arb \in Arbiters
           /\ release(arb, c).arb.closed = arb.closed
           /\ release(arb, c).arb.lapsed = arb.lapsed
           /\ release(arb, c).arb.holder = IF arb.holder = c THEN NoConn ELSE arb.holder
BY Zenon DEF TypeOK, Arbiters, release, releaseLocked, still

(* What the actions do to the connections, in these terms.                 *)
LEMMA ConnectLinks ==
    ASSUME Inv, NEW s \in Stations, Connect(s)
    PROVE  Linked(conns', s, [line |-> bus.line, rx |-> <<>>])
<1>1. [line |-> bus.line, rx |-> <<>>] \in Link
  BY DEF Inv, TypeOK, Buses, Link
<1> QED BY <1>1, NewLink, Zenon DEF Connect, Inv, TypeOK

(* conn.Read takes from the queue of the session's own connection.         *)
LEMMA ReadLinks ==
    ASSUME Inv, NEW s \in Stations, Read(s)
    PROVE  /\ Len(conns[s]) \in 1..Len(conns[s])
           /\ conns[s][Len(conns[s])].rx \in Seq(Frame) /\ conns[s][Len(conns[s])].rx # <<>>
           /\ Relinked(conns', s, Len(conns[s]), Tail(conns[s][Len(conns[s])].rx))
<1> DEFINE n == Len(conns[s])
           r == conns[s][n].rx
<1>1. conns \in [Stations -> Links]
  BY Zenon DEF Inv, TypeOK
<1>2. n \in 1..n /\ r # <<>> /\ conns' = [conns EXCEPT ![s][n].rx = Tail(r)]
  BY <1>1 DEF Read, Links
<1>3. conns[s][n] \in Link
  BY <1>1, <1>2 DEF Links
<1>4. r \in Seq(Frame) /\ Tail(r) \in Seq(Frame)
  BY <1>2, <1>3 DEF Link
<1> QED BY <1>1, <1>2, <1>4, Relink, Zenon

(* conn.Close leaves that queue behind.                                    *)
LEMMA CloseLinks ==
    ASSUME Inv, NEW s \in Stations, NEW then \in {"down", "ended"}, CloseConn(s, then)
    PROVE  /\ Len(conns[s]) \in 1..Len(conns[s])
           /\ Relinked(conns', s, Len(conns[s]), <<>>)
<1>1. conns \in [Stations -> Links]
  BY Zenon DEF Inv, TypeOK
<1>2. Len(conns[s]) \in 1..Len(conns[s]) /\ <<>> \in Seq(Frame)
  BY <1>1 DEF Links, Inv, Attached, CloseConn, At, Busy
<1> QED BY <1>1, <1>2, Relink, Zenon DEF CloseConn

(* push adds to the queue of a connection the frame is for, or drops it.   *)
LEMMA PushLinks ==
    ASSUME Inv, push
    PROVE  \E c \in pump.targets :
             /\ c \in Ids /\ c[2] \in 1..Len(conns[c[1]])
             /\ conns[c[1]][c[2]].rx \in Seq(Frame) /\ pump.frame \in Frame
             /\ \/ conns' = conns /\ pump' = NextTarget(c)
                \/ /\ pump' = [pump EXCEPT !.pc = "observe"]
                   /\ Relinked(conns', c[1], c[2], Append(conns[c[1]][c[2]].rx, pump.frame))
<1> DEFINE c == CHOOSE t \in pump.targets : TRUE
           r == conns[c[1]][c[2]].rx
           q == Append(r, pump.frame)
<1>1. /\ c \in pump.targets
      /\ conns' = IF full(c) THEN conns ELSE [conns EXCEPT ![c[1]][c[2]].rx = q]
      /\ pump' = IF full(c) THEN NextTarget(c) ELSE [pump EXCEPT !.pc = "observe"]
  BY Zenon DEF push, Inv, Lines, PumpFrame
<1> HIDE DEF c
<1>2. conns \in [Stations -> Links] /\ pump.frame \in Frame /\ c \in Ids
  BY <1>1, Zenon DEF Inv, TypeOK, Pumps
<1>3. c[1] \in Stations /\ c[2] \in 1..Len(conns[c[1]])
  <2>1. c[2] \in DOMAIN conns[c[1]]
    BY <1>1, Zenon DEF push, Inv, Lines, PumpFrame
  <2> QED BY <1>2, <2>1 DEF Ids, Links
<1>4. conns[c[1]][c[2]] \in Link
  BY <1>2, <1>3 DEF Links
<1>5. r \in Seq(Frame) /\ q \in Seq(Frame)
  BY <1>2, <1>4 DEF Link
<1> HIDE DEF q
<1>6. Relinked([conns EXCEPT ![c[1]][c[2]].rx = q], c[1], c[2], q)
  BY <1>2, <1>3, <1>5, Relink, Zenon
<1>7. \/ conns' = conns /\ pump' = NextTarget(c)
      \/ pump' = [pump EXCEPT !.pc = "observe"] /\ Relinked(conns', c[1], c[2], q)
  BY <1>1, <1>6, Zenon
<1> QED BY <1>1, <1>2, <1>3, <1>5, <1>7, Zenon DEF q

----------------------------------------------------------------------------
(* Every step keeps the types.                                             *)
LEMMA TypeStep == Inv /\ [Next]_vars => TypeOK'
<1> SUFFICES ASSUME Inv, [Next]_vars PROVE TypeOK'
  BY Zenon
<1>0. TypeOK
  BY Zenon DEF Inv
<1> USE <1>0 DEF TypeOK
<1>1. ASSUME NEW s \in Stations, start(s) PROVE TypeOK'
  BY <1>1, Zenon DEF start, Pumps, PumpPlaces
<1>2. ASSUME NEW s \in Stations, Connect(s) PROVE TypeOK'
  <2>1. conns' \in [Stations -> Links]
    BY <1>2, ConnectLinks, Zenon DEF Linked
  <2>2. cur' \in [Stations -> Ids \cup {NoConn}]
    BY <1>2 DEF Connect, Links, Ids
  <2>3. ses' \in [Stations -> Sessions]
    BY <1>2, Zenon DEF Connect, Goto, Sessions, SessionPlaces
  <2> QED BY <1>2, <2>1, <2>2, <2>3, Zenon DEF Connect
<1>3. ASSUME NEW s \in Stations, ConnectFails(s) PROVE TypeOK'
  BY <1>3, Zenon DEF ConnectFails, Goto, Sessions, SessionPlaces
<1>4. ASSUME NEW s \in Stations, Read(s) PROVE TypeOK'
  <2>1. conns' \in [Stations -> Links]
    BY <1>4, ReadLinks, Zenon DEF Relinked
  <2> QED BY <1>4, <2>1, Zenon DEF Read
<1>5. ASSUME NEW s \in Stations, NEW then \in {"down", "ended"}, CloseConn(s, then) PROVE TypeOK'
  <2>1. Conn(s) \in Ids
    BY DEF Ids, Conn, Links
  <2>2. arb' \in Arbiters
    BY <1>5, <2>1, ReleaseStep, Zenon DEF CloseConn, teardown, Arbiter
  <2>3. used' \in Uses
    BY <1>5, UseStep, Zenon DEF CloseConn
  <2>4. conns' \in [Stations -> Links]
    BY <1>5, CloseLinks, Zenon DEF Relinked
  <2>5. ses' \in [Stations -> Sessions]
    BY <1>5, ZenonT(60) DEF CloseConn, Goto, Sessions, SessionPlaces
  <2> QED BY <1>5, <2>1, <2>2, <2>3, <2>4, <2>5, Zenon DEF CloseConn, teardown
<1>6. ASSUME NEW s \in Stations, acquire(s) PROVE TypeOK'
  <2>1. Conn(s) \in Ids
    BY DEF Ids, Conn, Links
  <2>2. arb' \in Arbiters
    <3>1. holdLocked(arb, Conn(s)) \in Arbiters
      BY <2>1, Zenon DEF holdLocked, extendLocked, Arbiters
    <3> QED BY <1>6, <3>1, Zenon DEF acquire
  <2>3. ses' \in [Stations -> Sessions]
    <3>1. CASE ses' = [ses EXCEPT ![s].pc = "up", ![s].kind = "none"]
      BY <3>1, ZenonT(60) DEF Sessions, SessionPlaces, Written
    <3>2. CASE Goto(s, "turn")
      BY <3>2, Zenon DEF Goto, Sessions, SessionPlaces
    <3> QED BY <1>6, <3>1, <3>2, Zenon DEF acquire
  <2>4. turn' \subseteq Ids
    BY <1>6, <2>1, Zenon DEF acquire
  <2> QED BY <1>6, <2>2, <2>3, <2>4, Zenon DEF acquire
<1>7. ASSUME NEW s \in Stations, Transmit(s) PROVE TypeOK'
  <2>1. ses' \in [Stations -> Sessions]
    <3> DEFINE f == ~Reachable(s)
    <3>1. ses' = [ses EXCEPT ![s].pc = "wrote", ![s].failed = f]
      BY <1>7, Zenon DEF Transmit
    <3>2. f \in BOOLEAN
      BY Zenon
    <3> HIDE DEF f
    <3> QED BY <3>1, <3>2, ZenonT(60) DEF Sessions, SessionPlaces
  <2>2. owed' \in [Masters -> Seq(BOOLEAN)]
    <3>1. CASE s \in Masters /\ \E reply \in Replies : owed' = [owed EXCEPT ![s] = reply]
      BY <3>1, StationsAssumption, Zenon
    <3> QED BY <1>7, <3>1, Zenon DEF Transmit
  <2> QED BY <1>7, <2>1, <2>2, Zenon DEF Transmit
<1>8. ASSUME NEW s \in Stations, WriteReturns(s) PROVE TypeOK'
  <2>1. Conn(s) \in Ids
    BY DEF Ids, Conn, Links
  <2>2. arb' \in Arbiters
    BY <1>8, <2>1, ReleaseStep, Zenon DEF WriteReturns, Arbiter
  <2>3. ses' \in [Stations -> Sessions]
    <3> DEFINE r == [ses[s] EXCEPT !.pc = "up", !.kind = "none", !.failed = FALSE]
    <3>1. r \in Sessions
      BY ZenonT(60) DEF Sessions, SessionPlaces, Written
    <3>2. ses' = [ses EXCEPT ![s] = r]
      BY <1>8, Zenon DEF WriteReturns
    <3> QED BY <3>1, <3>2, Zenon
  <2> QED BY <1>8, <2>2, <2>3, Zenon DEF WriteReturns
<1>9. ASSUME NEW s \in Stations, Remove(s) PROVE TypeOK'
  <2>1. used' \in Uses
    BY <1>9, UseStep, Zenon DEF Remove
  <2> QED BY <1>9, <2>1, Zenon DEF Remove
<1>10. ASSUME NEW s \in Stations, NEW kind \in {"request", "quiet"}, Write(s, kind) PROVE TypeOK'
  <2>1. used' \in Uses
    <3>1. CASE used' = [used EXCEPT !.writes = @ + 1]
      BY <3>1, CountStep, Zenon
    <3> QED BY <1>10, <3>1, UseStep, Zenon DEF Write
  <2>2. ses' \in [Stations -> Sessions]
    <3> DEFINE next == IF s \in Masters THEN "acquire" ELSE "turn"
    <3>1. ses' = [ses EXCEPT ![s].pc = next, ![s].kind = kind] /\ next \in SessionPlaces /\ kind \in Written
      BY <1>10, Zenon DEF Write, SessionPlaces, Written
    <3> HIDE DEF next
    <3> QED BY <3>1, ZenonT(60) DEF Sessions
  <2> QED BY <1>10, <2>1, <2>2, Zenon DEF Write
<1>11. ASSUME NEW c \in doomed, Teardown(c) PROVE TypeOK'
  BY <1>11, Zenon DEF Teardown, teardown, Arbiter, release, releaseLocked, still, Arbiters
<1>12. CASE HoldLapses
  <2>1. used' \in Uses
    BY <1>12, UseStep, Zenon DEF HoldLapses
  <2>2. arb' \in Arbiters
    BY <1>12, Zenon DEF HoldLapses, Arbiters
  <2> QED BY <1>12, <2>1, <2>2, Zenon DEF HoldLapses
<1>13. CASE wake
  BY <1>13, Zenon DEF wake, Arbiters
<1>14. CASE PumpConnects
  <2> DEFINE k == pump.line + 1
  <2>1. k \in Nat /\ pump' = [pump EXCEPT !.pc = "attach", !.line = k]
    BY <1>14 DEF PumpConnects, Pumps
  <2> HIDE DEF k
  <2>2. pump' \in Pumps
    BY <2>1, Zenon DEF Pumps, PumpPlaces
  <2> QED BY <1>14, <2>2, Zenon DEF PumpConnects
<1>15. CASE PumpCannotConnect
  BY <1>15, Zenon DEF PumpCannotConnect, die, PumpGoto, Pumps, PumpPlaces, Buses
<1>16. CASE PumpAttaches
  <2>1. pump' \in Pumps
    <3>1. PICK pc \in {"dead", "read"} : pump' = [pump EXCEPT !.pc = pc]
      BY <1>16, Zenon DEF PumpAttaches, attach, PumpGoto
    <3> QED BY <3>1, Zenon DEF Pumps, PumpPlaces
  <2>2. bus' \in Buses
    BY <1>16, ZenonT(60) DEF PumpAttaches, attach, die, Pumps, Buses
  <2> QED BY <1>16, <2>1, <2>2, Zenon DEF PumpAttaches
<1>17. CASE route
  <2> DEFINE f == Head(inbound)
             T == {cur[s] : s \in {t \in Stations : matches(t, f)}} \ {NoConn}
  <2>1. f \in Frame /\ inbound' \in Seq(Frame)
    BY <1>17 DEF route
  <2>2. T \in SUBSET Ids
    BY Zenon
  <2>3. pump' = IF T = {} THEN pump ELSE [pump EXCEPT !.pc = "push", !.frame = f, !.targets = T]
    BY <1>17, Zenon DEF route
  <2> HIDE DEF f, T
  <2>5. pump' \in Pumps
    BY <2>1, <2>2, <2>3, Zenon DEF Pumps, PumpPlaces
  <2> QED BY <1>17, <2>1, <2>5, Zenon DEF route
<1>18. ASSUME NEW c \in pump.targets PROVE NextTarget(c) \in Pumps
  BY <1>18, Zenon DEF NextTarget, NoFrame, Frame, Pumps, PumpPlaces
<1>19. CASE push
  <2>1. conns' \in [Stations -> Links]
    BY <1>19, PushLinks, Zenon DEF Relinked
  <2>2. pump' \in Pumps
    BY <1>18, <1>19, PushLinks, ZenonT(60) DEF Pumps, PumpPlaces
  <2> QED BY <1>19, <2>1, <2>2, Zenon DEF push
<1>20. CASE Observe
  <2>1. PICK c \in pump.targets : Arbiter(observe(arb, c, pump.frame.fin)) /\ pump' = NextTarget(c)
    BY <1>20, Zenon DEF Observe, Inv, Lines, PumpFrame
  <2>2. arb' \in Arbiters
    BY <2>1, Zenon DEF Arbiter, observe, releaseLocked, extendLocked, still, Arbiters, Pumps, Frame
  <2> QED BY <1>18, <1>20, <2>1, <2>2, Zenon DEF Observe
<1>21. CASE detach
  <2>1. Live \in SUBSET Ids
    BY Zenon DEF Live
  <2>2. used' \in Uses
    BY <1>21, UseStep, Zenon DEF detach
  <2>3. pump' \in Pumps
    BY <1>21, <2>1, Zenon DEF detach, detachAllLocked, Pumps, PumpPlaces
  <2>4. bus' \in Buses
    BY <1>21, Zenon DEF detach, Buses
  <2>5. /\ doomed' \subseteq Ids /\ cur' \in [Stations -> Ids \cup {NoConn}]
        /\ owed' \in [Masters -> Seq(BOOLEAN)] /\ inbound' \in Seq(Frame)
    BY <1>21, <2>1 DEF detach, detachAllLocked
  <2> QED BY <1>21, <2>2, <2>3, <2>4, <2>5, Zenon DEF detach
<1>22. CASE Detached
  BY <1>22, Zenon DEF Detached, Pumps, PumpPlaces
<1>23. CASE CloseBus
  <2>1. Live \in SUBSET Ids
    BY Zenon DEF Live
  <2>2. used' \in Uses
    BY <1>23, UseStep, Zenon DEF CloseBus
  <2>3. bus' \in Buses /\ closer' \in Closers
    BY <1>23, Zenon DEF CloseBus, Buses, Closers, CloserPlaces
  <2> QED BY <1>23, <2>1, <2>2, <2>3 DEF CloseBus
<1>24. CASE CloseArbiter
  <2>1. arb' \in Arbiters
    BY <1>24, Zenon DEF CloseArbiter, Arbiter, arbClose, releaseLocked, Arbiters
  <2>2. bus' \in Buses /\ closer' \in Closers
    BY <1>24, Zenon DEF CloseArbiter, die, Buses, Closers, CloserPlaces
  <2> QED BY <1>24, <2>1, <2>2, Zenon DEF CloseArbiter
<1>25. CASE CloseLine
  <2>1. closer' \in Closers
    BY <1>25, Zenon DEF CloseLine, Closers, CloserPlaces
  <2>2. open' \subseteq open /\ inbound' = <<>>
    BY <1>25, Zenon DEF CloseLine
  <2>3. inbound' \in Seq(Frame)
    BY <2>2
  <2> QED BY <1>25, <2>1, <2>2, <2>3, Zenon DEF CloseLine
<1>26. ASSUME NEW m \in Masters, Answer(m) PROVE TypeOK'
  <2>1. owed[m] \in Seq(BOOLEAN) /\ owed[m] # <<>> /\ bus.line \in Nat
    BY <1>26, Zenon DEF Answer, Buses
  <2>2. Head(owed[m]) \in BOOLEAN /\ Tail(owed[m]) \in Seq(BOOLEAN)
    BY <2>1
  <2>3. [to |-> m, fin |-> Head(owed[m]), line |-> bus.line] \in Frame
    BY <2>1, <2>2, Zenon DEF Frame, Stations
  <2>4. inbound' \in Seq(Frame)
    BY <1>26, <2>3 DEF Answer
  <2>5. owed' \in [Masters -> Seq(BOOLEAN)]
    BY <1>26, <2>2, Zenon DEF Answer
  <2> QED BY <1>26, <2>4, <2>5, Zenon DEF Answer
<1>27. ASSUME NEW m \in Masters, Silence(m) PROVE TypeOK'
  <2>1. used' \in Uses
    BY <1>27, UseStep, Zenon DEF Silence
  <2>2. owed' \in [Masters -> Seq(BOOLEAN)]
    BY <1>27 DEF Silence
  <2> QED BY <1>27, <2>1, <2>2, Zenon DEF Silence
<1>28. ASSUME NEW to \in Outstations \cup {AllStations}, Request(to) PROVE TypeOK'
  <2>1. used' \in Uses
    BY <1>28, CountStep, Zenon DEF Request
  <2>2. inbound' \in Seq(Frame)
    BY <1>28 DEF Request, Frame, Stations, Buses
  <2> QED BY <1>28, <2>1, <2>2, Zenon DEF Request
<1>29. ASSUME NEW m \in Masters, Unsolicited(m) PROVE TypeOK'
  <2>1. used' \in Uses
    BY <1>29, UseStep, Zenon DEF Unsolicited
  <2>2. [to |-> m, fin |-> TRUE, line |-> bus.line] \in Frame
    BY Zenon DEF Frame, Stations, Buses
  <2>3. inbound' \in Seq(Frame)
    BY <1>29, <2>2 DEF Unsolicited
  <2> QED BY <1>29, <2>1, <2>3, Zenon DEF Unsolicited
<1>30. CASE UNCHANGED vars
  BY <1>30, Zenon DEF vars
<1> QED
  BY <1>1, <1>2, <1>3, <1>4, <1>5, <1>6, <1>7, <1>8, <1>9, <1>10, <1>11, <1>12, <1>13,
     <1>14, <1>15, <1>16, <1>17, <1>19, <1>20, <1>21, <1>22, <1>23, <1>24, <1>25, <1>26,
     <1>27, <1>28, <1>29, <1>30, Zenon DEF Next

(* A session keeps to its newest connection, through every step.           *)
LEMMA AttachedStep == Inv /\ [Next]_vars => Attached'
<1> SUFFICES ASSUME Inv, [Next]_vars PROVE Attached'
  BY Zenon
<1>0. TypeOK /\ Attached
  BY Zenon DEF Inv
<1>t. TypeOK'
  BY TypeStep, Zenon
<1>a. CASE UNCHANGED <<conns, cur, doomed, torn, ses>>
  BY <1>0, <1>a, Zenon DEF Attached, Conn
<1>b. ASSUME UNCHANGED <<conns, cur, doomed, torn>>, NEW s \in Stations, ses[s].pc \in Busy,
             \A t \in Stations : t # s => ses'[t] = ses[t], ses'[s].pc \in Busy
      PROVE  Attached'
  <2>1. \A t \in Stations : ses[t].pc \in Busy <=> ses'[t].pc \in Busy
    BY <1>b, Zenon
  <2>2. doomed \subseteq Ids
    BY <1>0, Zenon DEF TypeOK
  <2> QED BY <1>0, <1>b, <2>1, <2>2, Zenon DEF Attached, Conn, Ids
<1>c. ASSUME UNCHANGED <<cur, doomed, torn, ses>>, \A t \in Stations : Len(conns'[t]) = Len(conns[t])
      PROVE  Attached'
  BY <1>0, <1>c, Zenon DEF Attached, Conn, TypeOK, Ids
<1>1. ASSUME NEW s \in Stations, Connect(s) PROVE Attached'
  <2> DEFINE n == Len(conns[s])
  <2>1. /\ n \in Nat /\ Len(conns'[s]) = n + 1
        /\ \A t \in Stations : Len(conns[t]) \in Nat /\ (t # s => Len(conns'[t]) = Len(conns[t]))
    BY <1>0, <1>1, ConnectLinks DEF Linked, TypeOK, Links
  <2>2. /\ ses[s].pc = "down" /\ ses'[s].pc = "up" /\ cur'[s] = <<s, n + 1>>
        /\ \A t \in Stations : t # s => ses'[t] = ses[t] /\ cur'[t] = cur[t]
        /\ doomed' = doomed /\ torn' = torn
    BY <1>0, <1>1, Zenon DEF Connect, TypeOK, At, Goto, Sessions
  <2>3. \A c \in doomed : c[1] \in Stations /\ c[1] # s
    BY <1>0, <2>2, Zenon DEF Attached, TypeOK, Ids, Busy
  <2>4. \A c \in torn : c[1] \in Stations /\ c[2] \in Nat
    BY <1>0, Zenon DEF TypeOK, Ids
  <2>5. /\ \A t \in Stations : ses'[t].pc \in Busy => Len(conns'[t]) > 0
        /\ \A t \in Stations : cur'[t] # NoConn => cur'[t] = Conn(t)' /\ ses'[t].pc \in Busy
    BY <1>0, <2>1, <2>2 DEF Attached, Conn, Busy
  <2>6. \A c \in doomed' : c = Conn(c[1])' /\ ses'[c[1]].pc \in Busy
    BY <1>0, <2>1, <2>2, <2>3, Zenon DEF Attached, Conn
  <2>7. \A c \in torn' : c[2] <= Len(conns'[c[1]])
    BY <1>0, <2>1, <2>2, <2>4 DEF Attached
  <2> QED BY <2>5, <2>6, <2>7, Zenon DEF Attached
<1>2. ASSUME NEW s \in Stations, ConnectFails(s) PROVE Attached'
  BY <1>0, <1>2 DEF ConnectFails, Attached, Conn, TypeOK, At, Goto, Busy, Ids, Sessions
<1>3. ASSUME NEW s \in Stations, Read(s) PROVE Attached'
  BY <1>3, <1>c, ReadLinks, Zenon DEF Read, Relinked
<1>4. ASSUME NEW s \in Stations, NEW then \in {"down", "ended"}, CloseConn(s, then) PROVE Attached'
  <2>1. \A t \in Stations : Len(conns'[t]) = Len(conns[t]) /\ Len(conns[t]) \in Nat
    BY <1>0, <1>4, CloseLinks DEF Relinked, TypeOK, Links
  <2>2. /\ cur'[s] = IF cur[s] = Conn(s) THEN NoConn ELSE cur[s]
        /\ \A t \in Stations : t # s => ses'[t] = ses[t] /\ cur'[t] = cur[t]
        /\ doomed' = doomed \ {Conn(s)} /\ torn' = torn \cup {Conn(s)}
        /\ ses'[s].pc \notin Busy
    BY <1>0, <1>4, Zenon DEF CloseConn, TypeOK, Goto, teardown, Sessions, Busy
  <2>3. cur'[s] = NoConn /\ \A c \in doomed' : c \in doomed /\ c[1] \in Stations /\ c[1] # s
    BY <1>0, <2>2 DEF Attached, TypeOK, Ids
  <2>4. \A c \in torn : c[1] \in Stations
    BY <1>0, Zenon DEF TypeOK, Ids
  <2>5. \A c \in torn' : c[2] <= Len(conns'[c[1]])
    BY <1>0, <2>1, <2>2, <2>4 DEF Attached, Conn
  <2> QED BY <1>0, <2>1, <2>2, <2>3, <2>5, ZenonT(60) DEF Attached, Conn
<1>5. ASSUME NEW s \in Stations, acquire(s) PROVE Attached'
  BY <1>0, <1>5, <1>a, <1>b DEF acquire, TypeOK, At, Goto, Busy, Sessions
<1>6. ASSUME NEW s \in Stations, Transmit(s) PROVE Attached'
  BY <1>0, <1>6, <1>b DEF Transmit, TypeOK, At, Busy, Sessions
<1>7. ASSUME NEW s \in Stations, WriteReturns(s) PROVE Attached'
  BY <1>0, <1>7, <1>b DEF WriteReturns, TypeOK, At, Busy, Sessions
<1>8. ASSUME NEW s \in Stations, NEW kind \in {"request", "quiet"}, Write(s, kind) PROVE Attached'
  <2>1. /\ ses[s].pc \in Busy /\ UNCHANGED <<conns, cur, doomed, torn>>
        /\ ses' = [ses EXCEPT ![s].pc = IF s \in Masters THEN "acquire" ELSE "turn", ![s].kind = kind]
    BY <1>8, Zenon DEF Write, At, Busy
  <2>2. ses'[s].pc \in Busy /\ \A t \in Stations : t # s => ses'[t] = ses[t]
    BY <1>0, <2>1 DEF TypeOK, Busy, Sessions
  <2> QED BY <1>b, <2>1, <2>2, Zenon
<1>9. ASSUME NEW s \in Stations, Remove(s) PROVE Attached'
  <2>1. /\ cur' = [cur EXCEPT ![s] = NoConn] /\ doomed' = doomed \cup ({cur[s]} \ {NoConn})
        /\ UNCHANGED <<conns, torn, ses>>
    BY <1>9, Zenon DEF Remove
  <2>2. cur[s] # NoConn => cur[s] = Conn(s) /\ Conn(s)[1] = s /\ ses[s].pc \in Busy
    BY <1>0, Zenon DEF Attached, Conn
  <2>3. \A c \in doomed' : c = Conn(c[1]) /\ ses[c[1]].pc \in Busy
    BY <1>0, <2>1, <2>2, Zenon DEF Attached
  <2> QED BY <1>0, <2>1, <2>3, Zenon DEF Attached, Conn, TypeOK
<1>10. ASSUME NEW c \in doomed, Teardown(c) PROVE Attached'
  BY <1>0, <1>10 DEF Teardown, teardown, Attached, Conn, TypeOK, Ids, Links
<1>11. CASE push
  BY <1>11, <1>c, PushLinks, Zenon DEF push, Relinked
<1>12. CASE detach
  BY <1>0, <1>12 DEF detach, detachAllLocked, Live, Attached, Conn, TypeOK, Ids
<1>13. CASE CloseBus
  BY <1>0, <1>13 DEF CloseBus, Live, Attached, Conn, TypeOK, Ids
<1>14. ASSUME NEW s \in Stations, start(s) PROVE Attached'
  BY <1>14, <1>a DEF start
<1>15. CASE HoldLapses \/ wake \/ PumpConnects \/ PumpCannotConnect \/ PumpAttaches \/ route
            \/ Observe \/ Detached \/ CloseArbiter \/ CloseLine \/ UNCHANGED vars
  BY <1>15, <1>a, Zenon DEF HoldLapses, wake, PumpConnects, PumpCannotConnect, PumpAttaches, route,
                     Observe, Detached, CloseArbiter, CloseLine, vars
<1>16. CASE (\E m \in Masters : Answer(m) \/ Silence(m) \/ Unsolicited(m))
            \/ \E to \in Outstations \cup {AllStations} : Request(to)
  BY <1>16, <1>a, Zenon DEF Answer, Silence, Unsolicited, Request
<1> QED
  BY <1>1, <1>2, <1>3, <1>4, <1>5, <1>6, <1>7, <1>8, <1>9, <1>10, <1>11, <1>12, <1>13,
     <1>14, <1>15, <1>16, Zenon DEF Next

----------------------------------------------------------------------------
(* The bus has a line only while the pump reads it, and none once closed.  *)
LEMMA BusLineStep == Inv /\ [Next]_vars => BusLine'
<1> SUFFICES ASSUME Inv, [Next]_vars PROVE BusLine'
  BY Zenon
<1>0. TypeOK /\ BusLine
  BY Zenon DEF Inv, Lines
<1> USE <1>0 DEF BusLine, TypeOK, Reading
<1>a. CASE UNCHANGED <<bus, pump>>
  BY <1>a, Zenon
<1>1. ASSUME NEW s \in Stations, start(s) PROVE BusLine'
  BY <1>1 DEF start, Pumps
<1>2. CASE PumpConnects
  BY <1>2 DEF PumpConnects, Pumps
<1>3. CASE PumpCannotConnect
  BY <1>3, Zenon DEF PumpCannotConnect, PumpGoto, die, Pumps, Buses
<1>4. CASE PumpAttaches
  <2>1. CASE bus.closed
    BY <1>4, <2>1, Zenon DEF PumpAttaches, attach, PumpGoto, die, Pumps, Buses
  <2>2. CASE ~bus.closed
    <3>1. bus' = [bus EXCEPT !.line = pump.line] /\ pump' = [pump EXCEPT !.pc = "read"]
      BY <1>4, <2>2, Zenon DEF PumpAttaches, attach, PumpGoto
    <3>2. bus'.line = pump.line /\ ~bus'.closed /\ pump'.line = pump.line /\ pump'.pc = "read"
      BY <2>2, <3>1, Zenon DEF Pumps, Buses
    <3> QED BY <3>2, Zenon
  <2> QED BY <2>1, <2>2, Zenon
<1>5. CASE route
  BY <1>5, Zenon DEF route, Pumps
<1>6. CASE push
  BY <1>6, PushLinks, Zenon DEF push, NextTarget, Pumps
<1>7. CASE Observe
  BY <1>7 DEF Observe, NextTarget, Pumps
<1>8. CASE detach
  BY <1>8, Zenon DEF detach, Buses
<1>9. CASE Detached
  BY <1>9 DEF Detached, Pumps
<1>10. CASE CloseBus
  BY <1>10, Zenon DEF CloseBus, Buses
<1>11. CASE CloseArbiter
  BY <1>11, Zenon DEF CloseArbiter, die, Buses
<1>12. CASE \E s \in Stations :
              \/ Connect(s) \/ ConnectFails(s) \/ Read(s)
              \/ \E then \in {"down", "ended"} : CloseConn(s, then)
              \/ acquire(s) \/ Transmit(s) \/ WriteReturns(s) \/ Remove(s)
              \/ \E kind \in {"request", "quiet"} : Write(s, kind)
  BY <1>12, <1>a, ZenonT(60) DEF Connect, ConnectFails, Read, CloseConn, acquire, Transmit, WriteReturns, Remove, Write
<1>13. CASE (\E c \in doomed : Teardown(c)) \/ HoldLapses \/ wake \/ CloseLine
  BY <1>13, <1>a, Zenon DEF Teardown, HoldLapses, wake, CloseLine
<1>14. CASE (\E m \in Masters : Answer(m) \/ Silence(m) \/ Unsolicited(m))
            \/ \E to \in Outstations \cup {AllStations} : Request(to)
  BY <1>14, <1>a, Zenon DEF Answer, Silence, Unsolicited, Request
<1>15. CASE UNCHANGED vars
  BY <1>15, <1>a, Zenon DEF vars
<1> QED
  BY <1>1, <1>2, <1>3, <1>4, <1>5, <1>6, <1>7, <1>8, <1>9, <1>10, <1>11, <1>12, <1>13,
     <1>14, <1>15, Zenon DEF Next

(* The frames that wait came over the line the pump reads.                 *)
LEMMA InboundLineStep == Inv /\ [Next]_vars => InboundLine'
<1> SUFFICES ASSUME Inv, [Next]_vars PROVE InboundLine'
  BY Zenon
<1>0. TypeOK /\ BusLine /\ InboundLine
  BY Zenon DEF Inv, Lines
<1>a. ASSUME inbound' = inbound, pump'.line = pump.line, pump.pc \in Reading <=> pump'.pc \in Reading
      PROVE  InboundLine'
  BY <1>0, <1>a, Zenon DEF InboundLine
<1>b. CASE inbound' = <<>>
  BY <1>b DEF InboundLine
<1>c. ASSUME NEW to, NEW fin, UNCHANGED pump, bus.line # 0,
             inbound' = Append(inbound, [to |-> to, fin |-> fin, line |-> bus.line])
      PROVE  InboundLine'
  <2> DEFINE f == [to |-> to, fin |-> fin, line |-> bus.line]
  <2>1. f.line = pump.line /\ pump.pc \in Reading /\ inbound' = Append(inbound, f)
    BY <1>0, <1>c, Zenon DEF BusLine
  <2>2. \A i \in DOMAIN inbound' : inbound'[i] = f \/ \E j \in DOMAIN inbound : inbound'[i] = inbound[j]
    BY <1>0, <2>1 DEF TypeOK
  <2> QED BY <1>0, <1>c, <2>1, <2>2, Zenon DEF InboundLine
<1>1. ASSUME NEW s \in Stations, start(s) PROVE InboundLine'
  BY <1>0, <1>1, <1>b, Zenon DEF start, InboundLine, Reading
<1>2. CASE PumpConnects \/ PumpCannotConnect
  BY <1>0, <1>2, <1>b DEF PumpConnects, PumpCannotConnect, InboundLine, Reading
<1>3. CASE PumpAttaches
  BY <1>0, <1>3, <1>b DEF PumpAttaches, InboundLine, Reading
<1>4. CASE route
  <2>1. /\ pump.pc \in Reading /\ inbound # <<>> /\ inbound' = Tail(inbound)
        /\ pump'.line = pump.line /\ pump'.pc \in Reading
    BY <1>0, <1>4, Zenon DEF route, TypeOK, Pumps, Reading
  <2>2. \A i \in DOMAIN inbound' : \E j \in DOMAIN inbound : inbound'[i] = inbound[j]
    BY <1>0, <2>1 DEF TypeOK
  <2> QED BY <1>0, <2>1, <2>2, Zenon DEF InboundLine
<1>5. CASE push
  BY <1>0, <1>5, <1>a, PushLinks, Zenon DEF push, NextTarget, TypeOK, Pumps, Reading
<1>6. CASE Observe
  BY <1>0, <1>6, <1>a DEF Observe, NextTarget, TypeOK, Pumps, Reading
<1>7. CASE detach \/ CloseLine
  BY <1>7, <1>b DEF detach, CloseLine
<1>8. CASE Detached
  BY <1>0, <1>8, <1>b DEF Detached, InboundLine, Reading
<1>9. CASE CloseBus \/ CloseArbiter
  BY <1>9, <1>a DEF CloseBus, CloseArbiter
<1>10. CASE \E s \in Stations :
              \/ Connect(s) \/ ConnectFails(s) \/ Read(s)
              \/ \E then \in {"down", "ended"} : CloseConn(s, then)
              \/ acquire(s) \/ Transmit(s) \/ WriteReturns(s) \/ Remove(s)
              \/ \E kind \in {"request", "quiet"} : Write(s, kind)
  BY <1>10, <1>a, ZenonT(60) DEF Connect, ConnectFails, Read, CloseConn, acquire, Transmit, WriteReturns, Remove, Write
<1>11. CASE (\E c \in doomed : Teardown(c)) \/ HoldLapses \/ wake
  BY <1>11, <1>a DEF Teardown, HoldLapses, wake
<1>12. CASE \E m \in Masters : Answer(m) \/ Unsolicited(m)
  BY <1>12, <1>c, Zenon DEF Answer, Unsolicited
<1>13. CASE \E to \in Outstations \cup {AllStations} : Request(to)
  BY <1>13, <1>c, Zenon DEF Request
<1>14. CASE (\E m \in Masters : Silence(m)) \/ UNCHANGED vars
  BY <1>14, <1>a, Zenon DEF Silence, vars
<1> QED
  BY <1>1, <1>2, <1>3, <1>4, <1>5, <1>6, <1>7, <1>8, <1>9, <1>10, <1>11, <1>12, <1>13,
     <1>14, Zenon DEF Next

(* A current connection has a line, so without one nobody has a current    *)
(* connection.                                                             *)
LEMMA CurrentHasLine ==
    ASSUME Inv, NEW s \in Stations, cur[s] # NoConn
    PROVE  /\ cur[s] = <<s, Len(conns[s])>> /\ Len(conns[s]) \in DOMAIN conns[s]
           /\ bus.line # 0 /\ conns[s][Len(conns[s])].line = pump.line
           /\ bus.line = pump.line /\ pump.pc \in Reading /\ ~bus.closed
<1>1. conns[s] \in Seq(Link) /\ bus.line \in Nat /\ pump.line \in Nat
  <2>1. TypeOK
    BY Zenon DEF Inv
  <2>2. bus.line \in Nat /\ pump.line \in Nat
    BY <2>1, Zenon DEF TypeOK, Buses, Pumps
  <2>3. conns[s] \in Seq(Link)
    BY <2>1, Zenon DEF TypeOK, Links
  <2> QED BY <2>2, <2>3, Zenon
<1>2. cur[s] = <<s, Len(conns[s])>> /\ Len(conns[s]) > 0
  <2>1. Attached
    BY Zenon DEF Inv
  <2> QED BY <2>1, Zenon DEF Attached, Conn
<1>3. Len(conns[s]) \in DOMAIN conns[s]
  BY <1>1, <1>2
<1>4. conns[s][Len(conns[s])].line = bus.line /\ conns[s][Len(conns[s])].line \in 1..pump.line
  <2>1. ConnLines
    BY DEF Inv, Lines
  <2>2. LineOf(cur[s]) = bus.line
    BY <2>1, Zenon DEF ConnLines
  <2>3. LineOf(cur[s]) = conns[s][Len(conns[s])].line
    BY <1>2 DEF LineOf
  <2>4. conns[s][Len(conns[s])].line \in 1..pump.line
    BY <1>3, <2>1, Zenon DEF ConnLines
  <2> QED BY <2>2, <2>3, <2>4, Zenon
<1> QED BY <1>1, <1>2, <1>3, <1>4 DEF Inv, Lines, BusLine

(* The connections of the other stations, and the older ones, are kept.    *)
Kept ==
    \A t \in Stations : /\ Len(conns[t]) \in Nat /\ Len(conns'[t]) \in Nat
                        /\ Len(conns[t]) <= Len(conns'[t])
                        /\ DOMAIN conns[t] = 1..Len(conns[t])
                        /\ DOMAIN conns'[t] = 1..Len(conns'[t])
                        /\ \A n \in 1..Len(conns[t]) : conns'[t][n].line = conns[t][n].line

LEMMA LineKept ==
    ASSUME Kept, NEW c, c[1] \in Stations, c[2] \in DOMAIN conns[c[1]]
    PROVE  c[2] \in DOMAIN conns'[c[1]] /\ LineOf(c)' = LineOf(c)
<1>0. PICK s \in Stations : s = c[1]
  BY Zenon
<1>1. PICK n \in DOMAIN conns[s] : n = c[2]
  BY <1>0, Zenon
<1>2. /\ Len(conns[s]) \in Nat /\ Len(conns'[s]) \in Nat /\ Len(conns[s]) <= Len(conns'[s])
      /\ DOMAIN conns[s] = 1..Len(conns[s]) /\ DOMAIN conns'[s] = 1..Len(conns'[s])
      /\ \A k \in 1..Len(conns[s]) : conns'[s][k].line = conns[s][k].line
  BY Zenon DEF Kept
<1>3. n \in 1..Len(conns'[s])
  BY <1>1, <1>2
<1> QED BY <1>0, <1>1, <1>2, <1>3, Zenon DEF LineOf

(* A connection keeps its line for good, and none is forgotten.            *)
LEMMA ConnsKept == Inv /\ [Next]_vars => Kept
<1> SUFFICES ASSUME Inv, [Next]_vars PROVE Kept
  BY Zenon
<1>0. conns \in [Stations -> Links] /\ conns' \in [Stations -> Links]
  BY TypeStep, Zenon DEF Inv, TypeOK
<1>1. \A t \in Stations : /\ Len(conns[t]) \in Nat /\ DOMAIN conns[t] = 1..Len(conns[t])
                          /\ Len(conns'[t]) \in Nat /\ DOMAIN conns'[t] = 1..Len(conns'[t])
  BY <1>0 DEF Links
<1>2. ASSUME NEW s \in Stations, Connect(s) PROVE Kept
  BY <1>1, <1>2, ConnectLinks DEF Linked, Kept
<1>3. ASSUME NEW s, NEW n, NEW r, Relinked(conns', s, n, r) PROVE Kept
  BY <1>1, <1>3 DEF Relinked, Kept
<1>4. ASSUME NEW s \in Stations, Read(s) PROVE Kept
  BY <1>3, <1>4, ReadLinks, Zenon
<1>5. ASSUME NEW s \in Stations, NEW then \in {"down", "ended"}, CloseConn(s, then) PROVE Kept
  BY <1>3, <1>5, CloseLinks, Zenon
<1>6. CASE conns' = conns
  BY <1>1, <1>6 DEF Kept
<1>7. CASE push
  BY <1>3, <1>6, <1>7, PushLinks
<1>8. CASE \E s \in Stations :
             \/ start(s) \/ ConnectFails(s)
             \/ acquire(s) \/ Transmit(s) \/ WriteReturns(s) \/ Remove(s)
             \/ \E kind \in {"request", "quiet"} : Write(s, kind)
  BY <1>6, <1>8 DEF start, ConnectFails, acquire, Transmit, WriteReturns, Remove, Write
<1>9. CASE (\E c \in doomed : Teardown(c)) \/ HoldLapses \/ wake \/ CloseLine \/ CloseBus \/ CloseArbiter
  BY <1>6, <1>9, Zenon DEF Teardown, HoldLapses, wake, CloseLine, CloseBus, CloseArbiter
<1>10. CASE PumpConnects \/ PumpCannotConnect \/ PumpAttaches \/ route \/ Observe \/ detach \/ Detached
  BY <1>6, <1>10, Zenon DEF PumpConnects, PumpCannotConnect, PumpAttaches, route, Observe, detach, Detached
<1>11. CASE (\E m \in Masters : Answer(m) \/ Silence(m) \/ Unsolicited(m))
            \/ \E to \in Outstations \cup {AllStations} : Request(to)
  BY <1>6, <1>11, Zenon DEF Answer, Silence, Unsolicited, Request
<1>12. CASE UNCHANGED vars
  BY <1>6, <1>12, Zenon DEF vars
<1> QED
  BY <1>2, <1>4, <1>5, <1>7, <1>8, <1>9, <1>10, <1>11, <1>12, Zenon DEF Next

(* A current connection is one of the bus's line.                          *)
LEMMA ConnLinesStep == Inv /\ [Next]_vars => ConnLines'
<1> SUFFICES ASSUME Inv, [Next]_vars PROVE ConnLines'
  BY Zenon
<1>0. TypeOK /\ Kept /\ BusLine /\ ConnLines
  BY ConnsKept DEF Inv, Lines
<1>t. TypeOK'
  BY TypeStep, Zenon
<1>a. ASSUME \A t \in Stations : Len(conns'[t]) = Len(conns[t]),
             bus'.line = bus.line, pump'.line = pump.line,
             pump'.pc = "attach" => pump.pc = "attach",
             \A t \in Stations : cur'[t] = cur[t] \/ cur'[t] = NoConn
      PROVE  ConnLines'
  <2>1. \A t \in Stations : cur'[t] # NoConn => LineOf(cur[t])' = bus'.line
    <3> SUFFICES ASSUME NEW t \in Stations, cur'[t] # NoConn PROVE LineOf(cur[t])' = bus'.line
      BY Zenon
    <3>1. cur'[t] = cur[t] /\ cur[t] # NoConn
      BY <1>a, Zenon
    <3>2. cur[t] = <<t, Len(conns[t])>> /\ Len(conns[t]) \in DOMAIN conns[t]
      BY <3>1, CurrentHasLine, Zenon
    <3>3. LineOf(cur[t]) = bus.line
      BY <1>0, <3>1, Zenon DEF ConnLines
    <3> QED BY <1>0, <1>a, <3>1, <3>2, <3>3 DEF Kept, LineOf
  <2> QED BY <1>0, <1>a, <2>1, Zenon DEF Kept, ConnLines
<1>b. ASSUME cur' = [t \in Stations |-> NoConn], conns' = conns, pump'.line = pump.line, pump'.pc # "attach"
      PROVE  ConnLines'
  BY <1>0, <1>b, Zenon DEF ConnLines
<1>1. ASSUME NEW s \in Stations, Connect(s) PROVE ConnLines'
  <2> DEFINE n == Len(conns[s]) + 1
  <2>1. /\ \A t \in Stations : Len(conns'[t]) = IF t = s THEN n ELSE Len(conns[t])
        /\ conns'[s][n].line = bus.line /\ cur'[s] = <<s, n>>
        /\ \A t \in Stations : t # s => cur'[t] = cur[t]
        /\ UNCHANGED <<bus, pump>> /\ bus.line # 0
    BY <1>0, <1>1, ConnectLinks DEF Linked, Connect, TypeOK
  <2>2. bus.line \in Nat /\ pump.line \in Nat /\ bus.line = pump.line /\ pump.pc # "attach"
    BY <1>0, <2>1, Zenon DEF TypeOK, BusLine, Reading, Buses, Pumps
  <2>3. \A t \in Stations : \A k \in DOMAIN conns'[t] : conns'[t][k].line \in 1..pump'.line
    <3> SUFFICES ASSUME NEW t \in Stations, NEW k \in DOMAIN conns'[t]
                 PROVE  conns'[t][k].line \in 1..pump.line
      BY <2>1, Zenon
    <3>1. CASE k \in DOMAIN conns[t]
      BY <1>0, <3>1, Zenon DEF Kept, ConnLines
    <3>2. CASE k \notin DOMAIN conns[t]
      <4>1. t = s
        BY <1>0, <2>1, <3>2, Zenon DEF Kept
      <4>2. /\ Len(conns[s]) \in Nat /\ Len(conns'[s]) = Len(conns[s]) + 1
            /\ DOMAIN conns[s] = 1..Len(conns[s]) /\ DOMAIN conns'[s] = 1..Len(conns'[s])
        BY <1>0, <2>1, Zenon DEF Kept
      <4>3. k = n
        BY <3>2, <4>1, <4>2
      <4>4. pump.line \in 1..pump.line
        BY <2>1, <2>2
      <4> QED BY <2>1, <2>2, <4>1, <4>3, <4>4, Zenon
    <3> QED BY <3>1, <3>2, Zenon
  <2>4. \A t \in Stations : cur'[t] # NoConn => LineOf(cur[t])' = bus'.line
    <3> SUFFICES ASSUME NEW t \in Stations, t # s, cur[t] # NoConn PROVE LineOf(cur[t])' = bus.line
      <4>1. LineOf(cur[s])' = bus.line
        BY <2>1 DEF LineOf
      <4> QED BY <2>1, <4>1, Zenon
    <3>0. cur'[t] = cur[t]
      BY <2>1, Zenon
    <3>1. cur[t] = <<t, Len(conns[t])>> /\ Len(conns[t]) \in DOMAIN conns[t]
      BY CurrentHasLine, Zenon
    <3>2. LineOf(cur[t]) = bus.line
      BY <1>0, Zenon DEF ConnLines
    <3> QED BY <1>0, <3>0, <3>1, <3>2 DEF Kept, LineOf
  <2> QED BY <2>1, <2>2, <2>3, <2>4, ZenonT(60) DEF ConnLines
<1>2. ASSUME NEW s \in Stations, Read(s) PROVE ConnLines'
  BY <1>2, <1>a, ReadLinks, Zenon DEF Read, Relinked
<1>3. ASSUME NEW s \in Stations, NEW then \in {"down", "ended"}, CloseConn(s, then) PROVE ConnLines'
  BY <1>0, <1>3, <1>a, CloseLinks, Zenon DEF CloseConn, Relinked, TypeOK
<1>4. ASSUME NEW s \in Stations, Remove(s) PROVE ConnLines'
  BY <1>0, <1>4, <1>a, Zenon DEF Remove, TypeOK
<1>5. ASSUME NEW s \in Stations, start(s) PROVE ConnLines'
  BY <1>0, <1>5, <1>a, Zenon DEF start, TypeOK, Pumps
<1>6. CASE \E s \in Stations :
             \/ ConnectFails(s) \/ acquire(s) \/ Transmit(s) \/ WriteReturns(s)
             \/ \E kind \in {"request", "quiet"} : Write(s, kind)
  BY <1>6, <1>a DEF ConnectFails, acquire, Transmit, WriteReturns, Write
<1>7. CASE (\E c \in doomed : Teardown(c)) \/ HoldLapses \/ wake \/ CloseLine
  BY <1>7, <1>a, Zenon DEF Teardown, HoldLapses, wake, CloseLine
<1>8. CASE CloseArbiter
  BY <1>0, <1>8, <1>a, Zenon DEF CloseArbiter, die, TypeOK, Buses
<1>9. CASE PumpConnects
  <2>1. /\ pump.line \in Nat /\ pump'.line = pump.line + 1 /\ UNCHANGED <<conns, cur, bus>>
    BY <1>0, <1>9 DEF PumpConnects, TypeOK, Pumps
  <2> QED BY <1>0, <2>1 DEF ConnLines, LineOf
<1>10. CASE PumpCannotConnect
  BY <1>0, <1>10, <1>a DEF PumpCannotConnect, PumpGoto, die, TypeOK, Buses, Pumps
<1>11. CASE PumpAttaches
  <2>1. \A t \in Stations : cur[t] = NoConn
    BY <1>11, CurrentHasLine, Zenon DEF PumpAttaches, Reading
  <2>2. pump'.line = pump.line /\ pump'.pc # "attach" /\ UNCHANGED <<conns, cur>>
    BY <1>0, <1>11 DEF PumpAttaches, attach, PumpGoto, TypeOK, Pumps
  <2> QED BY <1>0, <2>1, <2>2, Zenon DEF ConnLines
<1>12. CASE route
  BY <1>0, <1>12, <1>a, Zenon DEF route, TypeOK, Pumps
<1>13. CASE push
  BY <1>0, <1>13, <1>a, PushLinks, Zenon DEF push, Relinked, NextTarget, TypeOK, Pumps
<1>14. CASE Observe
  BY <1>0, <1>14, <1>a DEF Observe, NextTarget, TypeOK, Pumps
<1>15. CASE detach
  BY <1>0, <1>15, <1>b DEF detach, detachAllLocked, TypeOK, Pumps
<1>16. CASE Detached
  BY <1>0, <1>16, <1>a DEF Detached, TypeOK, Pumps
<1>17. CASE CloseBus
  <2>1. pump.pc = "attach" => ConnLines'
    BY <1>0, <1>17 DEF CloseBus, ConnLines
  <2> QED BY <1>17, <1>b, <2>1 DEF CloseBus
<1>18. CASE (\E m \in Masters : Answer(m) \/ Silence(m) \/ Unsolicited(m))
            \/ \E to \in Outstations \cup {AllStations} : Request(to)
  BY <1>18, <1>a, Zenon DEF Answer, Silence, Unsolicited, Request
<1>19. CASE UNCHANGED vars
  BY <1>19, <1>a, Zenon DEF vars
<1> QED
  BY <1>1, <1>2, <1>3, <1>4, <1>5, <1>6, <1>7, <1>8, <1>9, <1>10, <1>11, <1>12, <1>13,
     <1>14, <1>15, <1>16, <1>17, <1>18, <1>19, Zenon DEF Next

(* The frame the pump hands out is of the line of those it is for.         *)
LEMMA PumpFrameStep == Inv /\ [Next]_vars => PumpFrame'
<1> SUFFICES ASSUME Inv, [Next]_vars PROVE PumpFrame'
  BY Zenon
<1>0. TypeOK /\ Kept /\ PumpFrame
  BY ConnsKept DEF Inv, Lines
<1>1. \A c \in pump.targets : c[1] \in Stations
  BY <1>0 DEF TypeOK, Pumps, Ids
<1>a. CASE UNCHANGED pump
  <2> SUFFICES ASSUME pump.pc \in {"push", "observe"}, NEW c \in pump.targets
               PROVE  c[2] \in DOMAIN conns'[c[1]] /\ LineOf(c)' = LineOf(c)
    BY <1>0, <1>a, Zenon DEF PumpFrame, matches
  <2>1. c[1] \in Stations /\ c[2] \in DOMAIN conns[c[1]]
    BY <1>0, <1>1, Zenon DEF PumpFrame
  <2> QED BY <1>0, <2>1, LineKept, Zenon
<1>b. ASSUME pump.pc \notin {"push", "observe"}, pump'.pc \notin {"push", "observe"}, pump'.frame = pump.frame
      PROVE  PumpFrame'
  BY <1>0, <1>b, Zenon DEF PumpFrame
<1>c. ASSUME NEW c \in pump.targets, pump' = NextTarget(c), pump.pc \in {"push", "observe"}
      PROVE  PumpFrame'
  <2>1. CASE pump.targets = {c}
    BY <1>0, <1>c, <2>1, Zenon DEF NextTarget, TypeOK, Pumps, PumpFrame
  <2>2. CASE pump.targets # {c}
    <3>1. /\ pump'.targets = pump.targets \ {c} /\ pump'.targets # {}
          /\ pump'.pc = "push" /\ pump'.frame = pump.frame /\ pump'.line = pump.line
      BY <1>0, <1>c, <2>2 DEF NextTarget, TypeOK, Pumps
    <3>2. pump.frame.line = pump.line
      BY <1>0, <1>c, Zenon DEF PumpFrame
    <3>3. \A d \in pump.targets : d[2] \in DOMAIN conns'[d[1]] /\ LineOf(d)' = pump.line /\ matches(d[1], pump.frame)
      <4>1. \A d \in pump.targets : d[2] \in DOMAIN conns[d[1]] /\ LineOf(d) = pump.line /\ matches(d[1], pump.frame)
        BY <1>0, <1>c, Zenon DEF PumpFrame
      <4> QED BY <1>0, <1>1, <4>1, LineKept, Zenon
    <3> QED BY <3>1, <3>2, <3>3, Zenon DEF PumpFrame, matches, LineOf
  <2> QED BY <2>1, <2>2, Zenon
<1>2. CASE route
  <2> DEFINE f == Head(inbound)
             T == {cur[s] : s \in {t \in Stations : matches(t, f)}} \ {NoConn}
  <2>1. /\ pump.pc = "read" /\ UNCHANGED conns
        /\ pump' = IF T = {} THEN pump ELSE [pump EXCEPT !.pc = "push", !.frame = f, !.targets = T]
    BY <1>2, Zenon DEF route
  <2>2. f.line = pump.line
    BY <1>0, <1>2 DEF route, TypeOK, Inv, Lines, InboundLine
  <2>3. ASSUME NEW c \in T
        PROVE  c[2] \in DOMAIN conns[c[1]] /\ LineOf(c) = pump.line /\ matches(c[1], f)
    <3>1. PICK s \in Stations : matches(s, f) /\ c = cur[s] /\ cur[s] # NoConn
      BY Zenon
    <3>2. c = <<s, Len(conns[s])>> /\ Len(conns[s]) \in DOMAIN conns[s]
          /\ conns[s][Len(conns[s])].line = pump.line
      BY <3>1, CurrentHasLine, Zenon
    <3> QED BY <3>1, <3>2 DEF LineOf
  <2> HIDE DEF T, f
  <2>5. CASE T = {}
    BY <1>a, <2>1, <2>5, Zenon
  <2>6. CASE T # {}
    <3>1. pump'.pc = "push" /\ pump'.frame = f /\ pump'.targets = T /\ pump'.line = pump.line
      BY <1>0, <2>1, <2>6 DEF TypeOK, Pumps
    <3> QED BY <2>1, <2>2, <2>3, <2>6, <3>1 DEF PumpFrame, LineOf, matches
  <2> QED BY <2>5, <2>6, Zenon
<1>3. CASE push
  <2>1. PICK c \in pump.targets :
          pump' = NextTarget(c) \/ pump' = [pump EXCEPT !.pc = "observe"]
    BY <1>3, PushLinks
  <2>2. pump.pc = "push"
    BY <1>3, Zenon DEF push
  <2>3. CASE pump' = [pump EXCEPT !.pc = "observe"]
    <3>1. /\ pump'.pc = "observe" /\ pump'.targets = pump.targets
          /\ pump'.frame = pump.frame /\ pump'.line = pump.line
      BY <1>0, <2>3 DEF TypeOK, Pumps
    <3>2. ASSUME NEW d \in pump.targets
          PROVE  d[2] \in DOMAIN conns'[d[1]] /\ LineOf(d)' = pump.line /\ matches(d[1], pump.frame)
      <4>1. d[1] \in Stations /\ d[2] \in DOMAIN conns[d[1]] /\ LineOf(d) = pump.line
            /\ matches(d[1], pump.frame)
        BY <1>0, <1>1, <2>2, Zenon DEF PumpFrame
      <4> DEFINE k == Len(conns[d[1]])
                 l == Len(conns'[d[1]])
      <4>2. /\ k \in Nat /\ l \in Nat /\ k <= l
            /\ d[2] \in 1..k /\ DOMAIN conns'[d[1]] = 1..l
            /\ conns'[d[1]][d[2]].line = conns[d[1]][d[2]].line
        BY <1>0, <4>1, Zenon DEF Kept
      <4> HIDE DEF k, l
      <4>3. d[2] \in 1..l
        BY <4>2
      <4> QED BY <4>1, <4>2, <4>3, Zenon DEF LineOf
    <3>3. pump.targets # {} /\ pump.frame.line = pump.line
      BY <1>0, <2>2, Zenon DEF PumpFrame
    <3> QED BY <3>1, <3>2, <3>3, Zenon DEF PumpFrame, matches
  <2> QED BY <1>c, <2>1, <2>2, <2>3
<1>4. CASE Observe
  <2>1. PICK c \in pump.targets : pump' = NextTarget(c)
    BY <1>0, <1>4, Zenon DEF Observe, PumpFrame
  <2> QED BY <1>4, <1>c, <2>1, Zenon DEF Observe
<1>5. ASSUME NEW s \in Stations, start(s) PROVE PumpFrame'
  BY <1>0, <1>5, <1>b DEF start, TypeOK, Pumps
<1>6. CASE PumpConnects
  BY <1>0, <1>6, <1>b DEF PumpConnects, TypeOK, Pumps
<1>7. CASE PumpCannotConnect
  BY <1>0, <1>7, <1>b DEF PumpCannotConnect, PumpGoto, TypeOK, Pumps
<1>8. CASE PumpAttaches
  BY <1>0, <1>8, <1>b DEF PumpAttaches, attach, PumpGoto, TypeOK, Pumps
<1>9. CASE detach
  BY <1>0, <1>9, <1>b, Zenon DEF detach, detachAllLocked, TypeOK, Pumps
<1>10. CASE Detached
  BY <1>0, <1>10, <1>b DEF Detached, TypeOK, Pumps
<1>11. CASE \E s \in Stations :
              \/ Connect(s) \/ ConnectFails(s) \/ Read(s)
              \/ \E then \in {"down", "ended"} : CloseConn(s, then)
              \/ acquire(s) \/ Transmit(s) \/ WriteReturns(s) \/ Remove(s)
              \/ \E kind \in {"request", "quiet"} : Write(s, kind)
  BY <1>11, <1>a, ZenonT(60) DEF Connect, ConnectFails, Read, CloseConn, acquire, Transmit, WriteReturns, Remove, Write
<1>12. CASE (\E c \in doomed : Teardown(c)) \/ HoldLapses \/ wake \/ CloseLine \/ CloseBus \/ CloseArbiter
  BY <1>12, <1>a, Zenon DEF Teardown, HoldLapses, wake, CloseLine, CloseBus, CloseArbiter
<1>13. CASE (\E m \in Masters : Answer(m) \/ Silence(m) \/ Unsolicited(m))
            \/ \E to \in Outstations \cup {AllStations} : Request(to)
  BY <1>13, <1>a, Zenon DEF Answer, Silence, Unsolicited, Request
<1>14. CASE UNCHANGED vars
  BY <1>14, <1>a, Zenon DEF vars
<1> QED
  BY <1>2, <1>3, <1>4, <1>5, <1>6, <1>7, <1>8, <1>9, <1>10, <1>11, <1>12, <1>13, <1>14, Zenon DEF Next

(* A queue only holds frames of its connection's line.                     *)
LEMMA OwnLineStep == Inv /\ [Next]_vars => OwnLineOnly'
<1> SUFFICES ASSUME Inv, [Next]_vars PROVE OwnLineOnly'
  BY Zenon
<1>0. TypeOK /\ Kept /\ OwnLineOnly
  BY ConnsKept, Zenon DEF Inv, Lines
<1>a. CASE conns' = conns
  BY <1>0, <1>a DEF OwnLineOnly
<1>b. ASSUME NEW s \in Stations, NEW n \in 1..Len(conns[s]), NEW r, Relinked(conns', s, n, r),
             \A i \in DOMAIN r : r[i].line = conns[s][n].line
      PROVE  OwnLineOnly'
  <2> SUFFICES ASSUME NEW t \in Stations, NEW k \in DOMAIN conns'[t], NEW i \in DOMAIN conns'[t][k].rx
               PROVE  conns'[t][k].rx[i].line = conns'[t][k].line
    BY Zenon DEF OwnLineOnly
  <2>1. k \in DOMAIN conns[t] /\ conns'[t][k].line = conns[t][k].line
    BY <1>0, <1>b DEF Relinked, Kept
  <2>2. CASE t = s /\ k = n
    BY <1>0, <1>b, <2>1, <2>2 DEF Relinked, Kept
  <2>3. CASE ~(t = s /\ k = n)
    <3>1. conns'[t][k].rx = conns[t][k].rx
      BY <1>0, <1>b, <2>1, <2>3, Zenon DEF Relinked, Kept
    <3> QED BY <1>0, <2>1, <3>1 DEF OwnLineOnly
  <2> QED BY <2>2, <2>3, Zenon
<1>1. ASSUME NEW s \in Stations, Connect(s) PROVE OwnLineOnly'
  <2>1. Linked(conns', s, [line |-> bus.line, rx |-> <<>>])
    BY <1>1, ConnectLinks, Zenon
  <2> SUFFICES ASSUME NEW t \in Stations, NEW k \in DOMAIN conns'[t], NEW i \in DOMAIN conns'[t][k].rx
               PROVE  conns'[t][k].rx[i].line = conns'[t][k].line
    BY Zenon DEF OwnLineOnly
  <2>2. CASE k \in DOMAIN conns[t]
    <3>1. conns'[t][k] = conns[t][k]
      BY <1>0, <2>1, <2>2, ZenonT(60) DEF Linked, Kept
    <3> QED BY <1>0, <2>2, <3>1 DEF OwnLineOnly
  <2>3. CASE k \notin DOMAIN conns[t]
    <3>1. conns'[t][k].rx = <<>>
      BY <1>0, <2>1, <2>3 DEF Linked, Kept
    <3> QED BY <3>1
  <2> QED BY <2>2, <2>3, Zenon
<1>2. ASSUME NEW s \in Stations, Read(s) PROVE OwnLineOnly'
  <2> DEFINE n == Len(conns[s])
             r == conns[s][n].rx
  <2>1. n \in 1..Len(conns[s]) /\ r \in Seq(Frame) /\ r # <<>> /\ Relinked(conns', s, n, Tail(r))
    BY <1>2, ReadLinks, Zenon
  <2>2. \A i \in DOMAIN r : r[i].line = conns[s][n].line
    BY <1>0, <2>1, Zenon DEF OwnLineOnly, Kept
  <2> HIDE DEF r
  <2>3. \A i \in DOMAIN Tail(r) : i + 1 \in DOMAIN r /\ Tail(r)[i] = r[i + 1]
    BY <2>1
  <2>4. \A i \in DOMAIN Tail(r) : Tail(r)[i].line = conns[s][n].line
    BY <2>2, <2>3, Zenon
  <2> DEFINE q == Tail(r)
  <2>5. Relinked(conns', s, n, q) /\ \A i \in DOMAIN q : q[i].line = conns[s][n].line
    BY <2>1, <2>4, Zenon
  <2> HIDE DEF q
  <2> QED BY <1>b, <2>1, <2>5
<1>3. ASSUME NEW s \in Stations, NEW then \in {"down", "ended"}, CloseConn(s, then) PROVE OwnLineOnly'
  <2>1. \A i \in DOMAIN <<>> : <<>>[i].line = conns[s][Len(conns[s])].line
    OBVIOUS
  <2> QED BY <1>3, <1>b, <2>1, CloseLinks
<1>4. CASE push
  <2>1. PICK c \in pump.targets :
             /\ c \in Ids /\ c[2] \in 1..Len(conns[c[1]])
             /\ conns[c[1]][c[2]].rx \in Seq(Frame) /\ pump.frame \in Frame
             /\ \/ conns' = conns
                \/ Relinked(conns', c[1], c[2], Append(conns[c[1]][c[2]].rx, pump.frame))
    BY <1>4, PushLinks, Zenon
  <2> DEFINE r == conns[c[1]][c[2]].rx
  <2>2. c[1] \in Stations
    BY <2>1, Zenon DEF Ids
  <2>3. pump.frame.line = conns[c[1]][c[2]].line
    BY <1>4, <2>1, ZenonT(60) DEF push, Inv, Lines, PumpFrame, LineOf
  <2>4. \A i \in DOMAIN r : r[i].line = conns[c[1]][c[2]].line
    BY <1>0, <2>1, <2>2 DEF OwnLineOnly, Kept
  <2>5. r \in Seq(Frame)
    BY <2>1, Zenon
  <2> HIDE DEF r
  <2>6. \A i \in DOMAIN Append(r, pump.frame) :
          Append(r, pump.frame)[i] = pump.frame \/ (i \in DOMAIN r /\ Append(r, pump.frame)[i] = r[i])
    BY <2>1, <2>5
  <2>7. \A i \in DOMAIN Append(r, pump.frame) : Append(r, pump.frame)[i].line = conns[c[1]][c[2]].line
    BY <2>3, <2>4, <2>6, ZenonT(60)
  <2>8. conns' = conns \/ Relinked(conns', c[1], c[2], Append(r, pump.frame))
    BY <2>1, Zenon DEF r
  <2> DEFINE q == Append(r, pump.frame)
  <2>9. /\ conns' = conns \/ Relinked(conns', c[1], c[2], q)
        /\ \A i \in DOMAIN q : q[i].line = conns[c[1]][c[2]].line
    BY <2>7, <2>8, Zenon
  <2> HIDE DEF q
  <2>10. CASE Relinked(conns', c[1], c[2], q)
    BY <1>b, <2>1, <2>2, <2>9, <2>10
  <2> QED BY <1>a, <2>9, <2>10, Zenon
<1>5. CASE \E s \in Stations :
             \/ start(s) \/ ConnectFails(s)
             \/ acquire(s) \/ Transmit(s) \/ WriteReturns(s) \/ Remove(s)
             \/ \E kind \in {"request", "quiet"} : Write(s, kind)
  BY <1>5, <1>a DEF start, ConnectFails, acquire, Transmit, WriteReturns, Remove, Write
<1>6. CASE (\E c \in doomed : Teardown(c)) \/ HoldLapses \/ wake \/ CloseLine \/ CloseBus \/ CloseArbiter
  BY <1>6, <1>a, Zenon DEF Teardown, HoldLapses, wake, CloseLine, CloseBus, CloseArbiter
<1>7. CASE PumpConnects \/ PumpCannotConnect \/ PumpAttaches \/ route \/ Observe \/ detach \/ Detached
  BY <1>7, <1>a, Zenon DEF PumpConnects, PumpCannotConnect, PumpAttaches, route, Observe, detach, Detached
<1>8. CASE (\E m \in Masters : Answer(m) \/ Silence(m) \/ Unsolicited(m))
           \/ \E to \in Outstations \cup {AllStations} : Request(to)
  BY <1>8, <1>a, Zenon DEF Answer, Silence, Unsolicited, Request
<1>9. CASE UNCHANGED vars
  BY <1>9, <1>a, Zenon DEF vars
<1> QED
  BY <1>1, <1>2, <1>3, <1>4, <1>5, <1>6, <1>7, <1>8, <1>9, Zenon DEF Next

----------------------------------------------------------------------------
(* A hold is one of a live master's newest connection, or of one whose     *)
(* session is inside Write: teardown gives the line up, and a Write that   *)
(* finds its connection gone gives it up after it.                         *)
LEMMA HeldStep == Inv /\ [Next]_vars => Held'
<1> SUFFICES ASSUME Inv, [Next]_vars PROVE Held'
  BY Zenon
<1>0. TypeOK /\ Kept /\ Held
  BY ConnsKept DEF Inv
<1>t. TypeOK'
  BY TypeStep, Zenon
<1> DEFINE h == arb.holder
           m == h[1]
<1>1. h # NoConn => /\ m \in Masters /\ m \in Stations /\ h = <<m, Len(conns[m])>> /\ ses[m].pc \in Busy
                    /\ h \in torn => ses[m].pc = "turn" \/ (ses[m].pc = "wrote" /\ ses[m].failed)
  BY <1>0, Zenon DEF Held, Conn, TypeOK, Arbiters, Ids
<1>2. \A s \in Stations : ses[s].pc = "acquire" => s \in Masters
  BY <1>0, Zenon DEF Held
<1> HIDE DEF h, m
<1>a. ASSUME arb'.holder = h \/ arb'.holder = NoConn, ses' = ses,
             \A t \in Stations : Len(conns'[t]) = Len(conns[t]),
             arb'.holder # NoConn /\ arb'.holder \in torn' => arb'.holder \in torn
      PROVE  Held'
  BY <1>1, <1>2, <1>a, Zenon DEF Held, Conn, m
<1>b. ASSUME NEW c, teardown(c), c \in Ids,
             \A t \in Stations : Len(conns'[t]) = Len(conns[t])
      PROVE  /\ arb'.holder = h \/ arb'.holder = NoConn
             /\ arb'.holder # c
             /\ arb'.holder # NoConn /\ arb'.holder \in torn' => arb'.holder \in torn
  <2>1. arb'.holder = IF h = c THEN NoConn ELSE h
    BY <1>0, <1>b, ReleaseStep, Zenon DEF teardown, Arbiter, h
  <2>2. c # NoConn /\ torn' = torn \cup {c}
    <3>1. torn' = torn \cup {c}
      BY <1>b, Zenon DEF teardown
    <3>2. PICK s \in Stations, k \in Nat : c = <<s, k>>
      BY <1>b DEF Ids
    <3>3. c # NoConn
      BY <3>2 DEF NoConn
    <3> QED BY <3>1, <3>3, Zenon
  <2> QED BY <2>1, <2>2, Zenon
<1>3. ASSUME NEW s \in Stations, Connect(s) PROVE Held'
  <2>1. /\ ses[s].pc = "down" /\ ses'[s].pc = "up" /\ \A t \in Stations : t # s => ses'[t] = ses[t]
        /\ UNCHANGED <<arb, torn>>
    BY <1>0, <1>3 DEF Connect, TypeOK, At, Goto, Sessions
  <2>2. \A t \in Stations : t # s => Len(conns'[t]) = Len(conns[t])
    BY <1>3, ConnectLinks, Zenon DEF Linked
  <2>3. h # NoConn => m # s
    BY <1>1, <2>1, Zenon DEF Busy
  <2> QED BY <1>1, <1>2, <2>1, <2>2, <2>3, Zenon DEF Held, Conn, h, m
<1>4. ASSUME NEW s \in Stations, ConnectFails(s) PROVE Held'
  <2>1. /\ ses[s].pc = "down" /\ ses'[s].pc = "ended" /\ \A t \in Stations : t # s => ses'[t] = ses[t]
        /\ UNCHANGED <<arb, torn, conns>>
    BY <1>0, <1>4 DEF ConnectFails, TypeOK, At, Goto, Sessions
  <2>2. h # NoConn => m # s
    BY <1>1, <2>1, Zenon DEF Busy
  <2> QED BY <1>1, <1>2, <2>1, <2>2, Zenon DEF Held, Conn, h, m
<1>5. ASSUME NEW s \in Stations, Read(s) PROVE Held'
  BY <1>5, <1>a, ReadLinks, Zenon DEF Read, Relinked, h
<1>6. ASSUME NEW s \in Stations, NEW then \in {"down", "ended"}, CloseConn(s, then) PROVE Held'
  <2>1. \A t \in Stations : Len(conns'[t]) = Len(conns[t])
    BY <1>6, CloseLinks, Zenon DEF Relinked
  <2>2. Conn(s) \in Ids /\ Conn(s) = <<s, Len(conns[s])>>
    BY <1>0, Zenon DEF Ids, Conn, Kept
  <2>3. /\ arb'.holder = h \/ arb'.holder = NoConn
        /\ arb'.holder # Conn(s)
        /\ arb'.holder # NoConn /\ arb'.holder \in torn' => arb'.holder \in torn
    BY <1>6, <1>b, <2>1, <2>2, Zenon DEF CloseConn
  <2>4. arb'.holder # NoConn => m # s
    BY <1>1, <2>2, <2>3, Zenon
  <2>5. ses'[s].pc \in {"down", "ended"} /\ \A t \in Stations : t # s => ses'[t] = ses[t]
    BY <1>0, <1>6 DEF CloseConn, TypeOK, Goto, Sessions
  <2> QED BY <1>1, <1>2, <2>1, <2>3, <2>4, <2>5 DEF Held, Conn, m
<1>7. ASSUME NEW s \in Stations, acquire(s) PROVE Held'
  <2>1. /\ ses[s].pc = "acquire" /\ s \in Masters /\ UNCHANGED <<torn, conns>>
        /\ \A t \in Stations : t # s => ses'[t] = ses[t]
    BY <1>0, <1>2, <1>7 DEF acquire, At, Goto, TypeOK
  <2>2. CASE ses'[s].pc = "up" /\ arb' = arb
    <3>1. ~(h \in torn /\ m = s /\ h # NoConn)
      BY <1>1, <2>1, Zenon
    <3> QED BY <1>1, <1>2, <2>1, <2>2, <3>1, Zenon DEF Held, Conn, h, m, Busy
  <2>3. CASE ses'[s].pc = "turn" /\ arb'.holder = Conn(s)
    BY <1>2, <2>1, <2>3 DEF Held, Conn, Busy
  <2>4. CASE ses' = ses /\ arb' = arb
    BY <1>a, <2>1, <2>4, Zenon DEF h
  <2>5. arb' = holdLocked(arb, Conn(s)) => arb'.holder = Conn(s)
    BY <1>0, Zenon DEF holdLocked, extendLocked, TypeOK, Arbiters
  <2>6. Goto(s, "turn") => ses'[s].pc = "turn"
    BY <1>0 DEF Goto, TypeOK, Sessions
  <2>7. ses' = [ses EXCEPT ![s].pc = "up", ![s].kind = "none"] => ses'[s].pc = "up"
    BY <1>0 DEF TypeOK, Sessions
  <2> QED BY <1>7, <2>2, <2>3, <2>4, <2>5, <2>6, <2>7 DEF acquire
<1>8. ASSUME NEW s \in Stations, Transmit(s) PROVE Held'
  <2>1. /\ ses[s].pc = "turn" /\ UNCHANGED <<torn, conns, arb>>
        /\ ses'[s].pc = "wrote" /\ ses'[s].failed = ~Reachable(s)
        /\ \A t \in Stations : t # s => ses'[t] = ses[t]
    BY <1>0, <1>8 DEF Transmit, At, TypeOK, Sessions
  <2>2. <<s, Len(conns[s])>> \in torn => ses'[s].failed
    BY <2>1, Zenon DEF Reachable, Conn
  <2> QED BY <1>1, <1>2, <2>1, <2>2, Zenon DEF Held, Conn, h, m, Busy
<1>9. ASSUME NEW s \in Stations, WriteReturns(s) PROVE Held'
  <2>1. /\ ses[s].pc = "wrote" /\ UNCHANGED <<torn, conns>> /\ ses'[s].pc = "up"
        /\ \A t \in Stations : t # s => ses'[t] = ses[t]
    BY <1>0, <1>9 DEF WriteReturns, At, TypeOK, Sessions
  <2>2. Conn(s) \in Ids /\ Conn(s) = <<s, Len(conns[s])>>
    BY <1>0, Zenon DEF Ids, Conn, Kept
  <2>3. /\ arb'.holder = h \/ arb'.holder = NoConn
        /\ s \in Masters /\ ~expectsReply(s) => arb'.holder # Conn(s)
    <3>1. CASE s \in Masters /\ ~expectsReply(s)
      <4>1. arb'.holder = IF h = Conn(s) THEN NoConn ELSE h
        BY <1>0, <1>9, <2>2, <3>1, ReleaseStep, Zenon DEF WriteReturns, Arbiter, h
      <4>2. <<s, Len(conns[s])>> # NoConn
        BY DEF NoConn
      <4> QED BY <2>2, <4>1, <4>2, Zenon
    <3> QED BY <1>9, <3>1, Zenon DEF WriteReturns, h
  <2>4. arb'.holder # NoConn /\ m = s => arb'.holder \notin torn
    <3> SUFFICES ASSUME arb'.holder # NoConn, m = s, h \in torn PROVE FALSE
      BY <2>3, Zenon
    <3>1. arb'.holder = h /\ h = Conn(s) /\ s \in Masters /\ ses[s].failed
      BY <1>1, <2>1, <2>2, <2>3, Zenon
    <3> QED BY <2>3, <3>1, Zenon DEF expectsReply
  <2> QED BY <1>1, <1>2, <2>1, <2>3, <2>4, Zenon DEF Held, Conn, m, Busy
<1>10. ASSUME NEW s \in Stations, NEW kind \in {"request", "quiet"}, Write(s, kind) PROVE Held'
  <2>1. /\ ses[s].pc = "up" /\ UNCHANGED <<torn, conns, arb>> /\ Conn(s) \notin torn
        /\ ses' = [ses EXCEPT ![s].pc = IF s \in Masters THEN "acquire" ELSE "turn", ![s].kind = kind]
    BY <1>10 DEF Write, At
  <2>2. /\ \A t \in Stations : t # s => ses'[t] = ses[t]
        /\ ses'[s].pc = IF s \in Masters THEN "acquire" ELSE "turn"
    BY <1>0, <2>1 DEF TypeOK, Sessions
  <2>3. ~(h # NoConn /\ m = s /\ h \in torn)
    BY <1>1, <2>1, Zenon
  <2>4. ses'[s].pc \in Busy /\ (ses'[s].pc = "acquire" => s \in Masters)
    BY <2>2, Zenon DEF Busy
  <2>5. \A t \in Stations : ses'[t].pc = "acquire" => t \in Masters
    BY <1>2, <2>2, <2>4, Zenon
  <2>6. h # NoConn => /\ m \in Masters /\ m \in Stations /\ h = <<m, Len(conns[m])>> /\ ses'[m].pc \in Busy
                      /\ h \in torn => ses'[m].pc = "turn" \/ (ses'[m].pc = "wrote" /\ ses'[m].failed)
    BY <1>1, <2>2, <2>3, <2>4, Zenon
  <2> QED BY <2>1, <2>5, <2>6, Zenon DEF Held, Conn, h, m
<1>11. ASSUME NEW c \in doomed, Teardown(c) PROVE Held'
  <2>1. c \in Ids /\ ses' = ses /\ conns' = conns /\ teardown(c)
    BY <1>0, <1>11, Zenon DEF Teardown, TypeOK
  <2> QED BY <1>a, <1>b, <2>1, Zenon
<1>12. CASE HoldLapses \/ wake
  BY <1>0, <1>12, <1>a DEF HoldLapses, wake, TypeOK, Arbiters, h
<1>13. CASE push
  BY <1>13, <1>a, PushLinks, Zenon DEF push, Relinked, h
<1>14. CASE Observe
  <2>1. PICK c : arb' = observe(arb, c, pump.frame.fin).arb
    BY <1>14, Zenon DEF Observe, Arbiter
  <2>2. pump.frame.fin \in BOOLEAN
    BY <1>0, Zenon DEF TypeOK, Pumps, Frame
  <2>3. arb'.holder = h \/ arb'.holder = NoConn
    BY <1>0, <2>1, <2>2 DEF observe, still, releaseLocked, extendLocked, TypeOK, Arbiters, h
  <2> QED BY <1>14, <1>a, <2>3, Zenon DEF Observe
<1>15. CASE CloseArbiter
  <2>1. arb'.holder = NoConn
    BY <1>0, <1>15, Zenon DEF CloseArbiter, Arbiter, arbClose, releaseLocked, TypeOK, Arbiters
  <2> QED BY <1>15, <1>a, <2>1 DEF CloseArbiter
<1>16. CASE \E s \in Stations : start(s) \/ Remove(s)
  BY <1>16, <1>a DEF start, Remove, h
<1>17. CASE PumpConnects \/ PumpCannotConnect \/ PumpAttaches \/ route \/ detach \/ Detached
            \/ CloseBus \/ CloseLine
  BY <1>17, <1>a, Zenon DEF PumpConnects, PumpCannotConnect, PumpAttaches, route, detach, Detached, CloseBus, CloseLine, h
<1>18. CASE (\E k \in Masters : Answer(k) \/ Silence(k) \/ Unsolicited(k))
            \/ \E to \in Outstations \cup {AllStations} : Request(to)
  BY <1>18, <1>a, Zenon DEF Answer, Silence, Unsolicited, Request, h
<1>19. CASE UNCHANGED vars
  BY <1>19, <1>a, Zenon DEF vars, h
<1> QED
  BY <1>3, <1>4, <1>5, <1>6, <1>7, <1>8, <1>9, <1>10, <1>11, <1>12, <1>13,
     <1>14, <1>15, <1>16, <1>17, <1>18, <1>19, Zenon DEF Next

(* Every step keeps Inv.                                                   *)
LEMMA InvNext == Inv /\ [Next]_vars => Inv'
BY TypeStep, AttachedStep, BusLineStep, InboundLineStep, ConnLinesStep, PumpFrameStep,
   OwnLineStep, HeldStep, Zenon DEF Inv, Lines

(* A session never reads a frame that came over another line than the one  *)
(* its connection writes to (multidrop.go, detach and route), however      *)
(* often the line fails and the sessions reconnect.                        *)
THEOREM FramesOfTheirLine == Spec => []OwnLineOnly
<1>1. Inv => OwnLineOnly
  BY DEF Inv, Lines
<1> QED BY <1>1, InvInit, InvNext, PTL DEF Spec

(* A connection that was torn down holds the line only while its own       *)
(* session is inside Write, which then gives it up (conn.go, teardown and  *)
(* Write).                                                                 *)
THEOREM DeadHoldersWrite == Spec => []DeadHolderWrites
<1>1. Inv => DeadHolderWrites
  BY Zenon DEF Inv, Held, DeadHolderWrites
<1> QED BY <1>1, InvInit, InvNext, PTL DEF Spec

(* Turns.  A turn is the holder's, and over once the hold has lapsed.      *)
TurnHeld ==
    /\ turn \subseteq {arb.holder}
    /\ NoConn \notin turn
    /\ arb.lapsed => turn = {}

(* What acquire, release and observe do to the turns.                      *)
LEMMA TurnStep == Inv /\ TurnHeld /\ [Next]_vars => TurnHeld'
<1> SUFFICES ASSUME Inv, TurnHeld, [Next]_vars PROVE TurnHeld'
  BY Zenon
<1>0. TypeOK /\ arb \in Arbiters /\ turn \subseteq {arb.holder} /\ NoConn \notin turn
      /\ (arb.lapsed => turn = {})
  BY Zenon DEF Inv, TypeOK, TurnHeld
<1>n. ASSUME NEW c \in Ids PROVE c # NoConn
  <2>1. PICK s \in Stations, k \in Nat : c = <<s, k>>
    BY ONLY c \in Ids DEF Ids
  <2> QED BY ONLY <2>1 DEF NoConn
<1>a. CASE UNCHANGED <<arb, turn>>
  BY <1>a, Zenon DEF TurnHeld
<1>b. ASSUME NEW c \in Ids, arb' = release(arb, c).arb, turn' = turn \ {c} PROVE TurnHeld'
  <2>1. /\ arb'.lapsed = arb.lapsed
        /\ arb'.holder = IF arb.holder = c THEN NoConn ELSE arb.holder
    BY <1>0, <1>b, ReleaseStep, Zenon
  <2> QED BY <1>0, <1>b, <2>1, Zenon DEF TurnHeld
<1>1. ASSUME NEW s \in Stations, acquire(s) PROVE TurnHeld'
  <2>1. Conn(s) \in Ids
    BY <1>0 DEF Ids, Conn, TypeOK, Links
  <2>2. CASE /\ MayTransmit(arb, Conn(s)) /\ arb' = holdLocked(arb, Conn(s))
             /\ turn' = turn \cup {Conn(s)}
    <3>1. arb'.holder = Conn(s) /\ arb'.lapsed = FALSE
      BY <1>0, <2>2, Zenon DEF holdLocked, extendLocked, Arbiters
    <3>2. turn \subseteq {Conn(s)}
      BY <1>0, <2>2, Zenon DEF MayTransmit
    <3> QED BY <1>n, <2>1, <2>2, <3>1, <3>2, Zenon DEF TurnHeld
  <2> QED BY <1>1, <1>a, <2>2, Zenon DEF acquire
<1>2. ASSUME NEW s \in Stations, WriteReturns(s) PROVE TurnHeld'
  <2>1. Conn(s) \in Ids
    BY <1>0 DEF Ids, Conn, TypeOK, Links
  <2> QED BY <1>2, <1>a, <1>b, <2>1, Zenon DEF WriteReturns, Arbiter
<1>3. ASSUME NEW s \in Stations, NEW then \in {"down", "ended"}, CloseConn(s, then) PROVE TurnHeld'
  <2>1. Conn(s) \in Ids
    BY <1>0 DEF Ids, Conn, TypeOK, Links
  <2> QED BY <1>3, <1>b, <2>1, Zenon DEF CloseConn, teardown, Arbiter
<1>4. ASSUME NEW c \in doomed, Teardown(c) PROVE TurnHeld'
  <2>1. c \in Ids
    BY <1>0, Zenon DEF TypeOK
  <2> QED BY <1>4, <1>b, <2>1, Zenon DEF Teardown, teardown, Arbiter
<1>5. CASE HoldLapses
  <2>1. turn' = {}
    BY <1>0, <1>5, Zenon DEF HoldLapses
  <2> QED BY <2>1, Zenon DEF TurnHeld
<1>6. CASE wake
  <2>1. arb'.holder = arb.holder /\ arb'.lapsed = arb.lapsed /\ turn' = turn
    BY <1>0, <1>6, Zenon DEF wake, Arbiters
  <2> QED BY <1>0, <2>1, Zenon DEF TurnHeld
<1>7. CASE Observe
  <2>1. PICK c \in pump.targets : /\ arb' = observe(arb, c, pump.frame.fin).arb
                                  /\ turn' = IF pump.frame.fin THEN turn \ {c} ELSE turn
    BY <1>7, Zenon DEF Observe, Arbiter, Inv, Lines, PumpFrame
  <2>2. c \in Ids /\ pump.frame.fin \in BOOLEAN
    BY <1>0, <2>1, Zenon DEF TypeOK, Pumps, Frame
  <2>3. CASE arb.holder # c
    <3>1. arb' = arb /\ turn' \subseteq turn
      BY <2>1, <2>3, Zenon DEF observe, still
    <3> QED BY <1>0, <3>1, Zenon DEF TurnHeld
  <2>4. CASE arb.holder = c /\ pump.frame.fin
    <3>1. turn' = {}
      BY <1>0, <2>1, <2>4, Zenon
    <3> QED BY <3>1, Zenon DEF TurnHeld
  <2>5. CASE arb.holder = c /\ ~pump.frame.fin
    <3>1. arb' = extendLocked(arb) /\ turn' = turn
      BY <2>1, <2>5, Zenon DEF observe, still
    <3>2. arb'.holder = arb.holder /\ arb'.lapsed = FALSE
      BY <1>0, <3>1, Zenon DEF extendLocked, Arbiters
    <3> QED BY <1>0, <3>1, <3>2, Zenon DEF TurnHeld
  <2> QED BY <2>2, <2>3, <2>4, <2>5, Zenon
<1>8. CASE CloseArbiter
  BY <1>8, Zenon DEF CloseArbiter, TurnHeld
<1>9. CASE \E s \in Stations :
             \/ start(s) \/ Connect(s) \/ ConnectFails(s) \/ Read(s) \/ Transmit(s) \/ Remove(s)
             \/ \E kind \in {"request", "quiet"} : Write(s, kind)
  BY <1>9, <1>a, Zenon DEF start, Connect, ConnectFails, Read, Transmit, Remove, Write
<1>10. CASE PumpConnects \/ PumpCannotConnect \/ PumpAttaches \/ route \/ push \/ detach \/ Detached
            \/ CloseBus \/ CloseLine \/ UNCHANGED vars
  BY <1>10, <1>a, Zenon DEF PumpConnects, PumpCannotConnect, PumpAttaches, route, push, detach,
                            Detached, CloseBus, CloseLine, vars
<1>11. CASE (\E m \in Masters : Answer(m) \/ Silence(m) \/ Unsolicited(m))
            \/ \E to \in Outstations \cup {AllStations} : Request(to)
  BY <1>11, <1>a, Zenon DEF Answer, Silence, Unsolicited, Request
<1> QED
  BY <1>1, <1>2, <1>3, <1>4, <1>5, <1>6, <1>7, <1>8, <1>9, <1>10, <1>11, Zenon DEF Next

(* The arbiter gives the line to one master at a time: no other master is  *)
(* let transmit before the turn of the one that was ends (arbiter.go),     *)
(* whatever comes late, unasked for, or for a connection that is gone.     *)
THEOREM TurnsAlternate == Spec => []OneTurn
<1>1. Init => TurnHeld
  BY Zenon DEF Init, TurnHeld
<1>2. TurnHeld => OneTurn
  BY Zenon DEF TurnHeld, OneTurn
<1> QED BY <1>1, <1>2, InvInit, InvNext, TurnStep, PTL DEF Spec
=============================================================================
