------------------------------- MODULE Intake -------------------------------
(***************************************************************************)
(* From a channel to link frames: Run and serve of a session (master/ and  *)
(* outstation/session.go alike), the goroutine readInto that moves octets  *)
(* from the connection to the session, and the parser they are fed to.     *)
(*                                                                         *)
(* Every connection has a reader of its own, which may outlive the serving *)
(* of it: the session starts on the next connection without waiting for    *)
(* the last reader.                                                        *)
(***************************************************************************)
EXTENDS Channels, Framing

CONSTANTS
    Streams,        \* what each peer may send
    Datagrams,      \* what comes to a datagram socket
    Reads,          \* how many octets a Read of a stream may find there
    RxCap           \* chunks the channel rx has room for

ReadChunk == MaxFrameSize

VARIABLES
    serving,            \* the connection serve is running on
    sent,               \* what its peer sends
    pending,            \* p's octets that no Read has returned yet
    air,                \* datagrams that have yet to come
    reader, chunk, rx,  \* the readers: where they are, what they hold, what they have handed over
    parser, received, frames    \* the stack's parser; the octets it was fed, the frames it found

readers == <<pending, air, reader, chunk, rx>>
session == <<serving, sent, parser, received, frames>>
intake == <<readers, session>>

IntakeInit ==
    /\ Init
    /\ serving = NoPeer /\ sent = <<>> /\ air = Datagrams
    /\ pending = [p \in Peers |-> <<>>]
    /\ reader = [p \in Peers |-> "none"]
    /\ chunk = [p \in Peers |-> <<>>]
    /\ rx = [p \in Peers |-> <<>>]
    /\ parser = NewParser /\ received = <<>> /\ frames = <<>>

Serve(p, stream) ==
    /\ owned = {p} /\ serving = NoPeer
    /\ serving' = p
    /\ sent' = (IF kind = "udp" THEN <<>> ELSE stream)
    /\ pending' = [pending EXCEPT ![p] = sent']
    /\ reader' = [reader EXCEPT ![p] = "read"]
    /\ UNCHANGED <<vars, air, chunk, rx, parser, received, frames>>

(* Read waits for a datagram, even after the session has closed its view   *)
(* of the socket.                                                          *)
ReadFromUDP(p) ==
    /\ kind = "udp" /\ listener = "open"
    /\ reader[p] = "read" /\ pending[p] = <<>> /\ air # <<>>
    /\ pending' = [pending EXCEPT ![p] = Head(air)]
    /\ air' = Tail(air)
    /\ UNCHANGED <<vars, reader, chunk, rx, session>>

(* Read returns octets: of a stream as many as there happen to be, of a    *)
(* datagram as many as there is room for.                                  *)
Read(p, size) ==
    /\ reader[p] = "read" /\ pending[p] # <<>>
    /\ IF kind = "udp" THEN size = ReadChunk ELSE p \in open
    /\ LET n == IF size < Len(pending[p]) THEN size ELSE Len(pending[p])
       IN  /\ chunk' = [chunk EXCEPT ![p] = SubSeq(pending[p], 1, n)]
           /\ pending' = [pending EXCEPT ![p] = SubSeq(@, n + 1, Len(@))]
    /\ reader' = [reader EXCEPT ![p] = "hand"]
    /\ UNCHANGED <<vars, air, rx, session>>

(* A reader returns; rx is gone once neither it nor serve refers to it.    *)
ReaderEnds(p) ==
    /\ reader' = [reader EXCEPT ![p] = "over"]
    /\ rx' = (IF serving = p THEN rx ELSE [rx EXCEPT ![p] = <<>>])

(* A connection ends when either side closes it, a datagram socket when    *)
(* the channel is closed.                                                  *)
ReadFails(p) ==
    /\ reader[p] = "read"
    /\ kind = "udp" => listener = "closed" /\ pending[p] = <<>>
    /\ ReaderEnds(p)
    /\ UNCHANGED <<vars, pending, air, chunk, session>>

(* A variant with a defect: the reader is given its caller's context.      *)
CallerDone(p) == cancelled

(* The reader's own context, ended when serve returns for any reason.      *)
readCtxDone(p) == cancelled \/ serving # p

HandOverChunk(p) ==
    /\ reader[p] = "hand"
    /\ \/ /\ Len(rx[p]) < RxCap
          /\ rx' = [rx EXCEPT ![p] = Append(@, chunk[p])]
          /\ reader' = [reader EXCEPT ![p] = "read"]
       \/ readCtxDone(p) /\ ReaderEnds(p)
    /\ chunk' = [chunk EXCEPT ![p] = <<>>]
    /\ UNCHANGED <<vars, pending, air, session>>

(* What is left when serve returns, with the chunks queue still in rx:     *)
(* while its reader runs they stay there, and so does the one it may be    *)
(* holding, but nobody will look at what is in them.  What a stream still  *)
(* holds goes with the connection.  Run resets the stack once it is        *)
(* connected again; nothing looks at it before.                            *)
ServeEnds(p, queue) ==
    /\ CloseConn
    /\ serving' = NoPeer /\ sent' = <<>>
    /\ rx' = [rx EXCEPT ![p] = IF reader[p] = "over" THEN <<>>
                               ELSE [i \in DOMAIN queue |-> <<>>]]
    /\ chunk' = [chunk EXCEPT ![p] = <<>>]
    /\ pending' = (IF kind = "udp" THEN pending ELSE [pending EXCEPT ![p] = <<>>])
    /\ parser' = NewParser /\ received' = <<>> /\ frames' = <<>>

ReceiveChunk(p) ==
    /\ serving = p /\ rx[p] # <<>>
    /\ LET r == Receive(parser, Head(rx[p]), <<>>)
       IN  IF r.failed THEN ServeEnds(p, Tail(rx[p]))
           ELSE /\ parser' = r.p
                /\ frames' = frames \o r.frames
                /\ received' = received \o Head(rx[p])
                /\ rx' = [rx EXCEPT ![p] = Tail(@)]
                /\ UNCHANGED <<vars, serving, sent, pending, chunk>>
    /\ UNCHANGED <<air, reader>>

(* serve returns: its context has ended, the reader has, or the session    *)
(* gives the connection up, for a write that failed or a silent peer.      *)
serve(p) ==
    /\ serving = p /\ ServeEnds(p, rx[p])
    /\ UNCHANGED <<air, reader>>

ChannelStep ==
    /\ \/ Connect \/ ConnectStep \/ Watchdog \/ WatchdogDone
       \/ Cancel \/ Close \/ \E p \in Peers : PeerComes(p)
    /\ UNCHANGED intake

ReaderStep(p) ==
    \/ ReadFromUDP(p) \/ HandOverChunk(p) \/ ReadFails(p)
    \/ \E size \in Reads \cup {ReadChunk} : Read(p, size)

IntakeNext ==
    \/ ChannelStep
    \/ \E p \in Peers :
        \/ \E stream \in Streams[p] : Serve(p, stream)
        \/ ReaderStep(p) \/ ReceiveChunk(p) \/ serve(p)

(* The goroutines run: Connect (but what a peer does is up to it), the     *)
(* watchdog, the session once its context or its reader has ended, and the *)
(* readers: a hand-over that can go on does, and a Read of a connection    *)
(* that has been closed fails.                                             *)
Certain ==
    /\ pc = "accept" => deadline \/ listener = "closed"
    /\ pc = "exited" => dog = "gone"
    /\ pc = "socket" => closed \/ cancelled \/ come < MaxPeers

Fairness ==
    /\ []<>(pc = "idle" \/ ~Certain) \/ []<><<ConnectStep>>_vars
    /\ WF_vars(Watchdog) /\ WF_vars(WatchdogDone)
    /\ \A p \in Peers :
        /\ WF_session((cancelled \/ reader[p] = "over") /\ serve(p))
        /\ WF_readers(HandOverChunk(p))
        /\ WF_readers(kind # "udp" /\ p \notin open /\ ReadFails(p))

IntakeSpec == IntakeInit /\ [][IntakeNext]_<<vars, intake>>
FairSpec == IntakeSpec /\ Fairness

----------------------------------------------------------------------------
(* Framing does not depend on how the octets came: on one connection the   *)
(* parser is fed what its peer sent, from the beginning and in order, and  *)
(* finds the frames that are in it, whatever the chunks (Parser.Next,      *)
(* resync).  Every octet is in a frame, discarded and counted, or still    *)
(* buffered, and the buffer never refuses one (Stack.Receive).             *)
FramesAsSent ==
    serving # NoPeer =>
        /\ kind # "udp" => IsPrefix(received, sent)
        /\ frames = FramesIn(received)
        /\ Len(received) = parser.discarded + Len(parser.buf)
                           + FoldLeft(LAMBDA sum, f : sum + FrameSize(Len(f)), 0, frames)
        /\ rx[serving] # <<>> => ~Receive(parser, Head(rx[serving]), <<>>).failed

(* Nothing stays blocked: a Connect that is cancelled, or whose channel is *)
(* closed, returns; and the reader of a connection the session has left    *)
(* ends, parked in Read or "handing over a chunk nobody will now take"     *)
(* (acceptOnce, the reader's context of its own in serve), but for one     *)
(* that reads a datagram socket, which only is not left handing over.      *)
NothingBlocked ==
    /\ (cancelled \/ closed) ~> pc = "idle"
    /\ \A p \in Peers :
        (reader[p] # "none" /\ serving # p)
            ~> reader[p] = "over" \/ (kind = "udp" /\ reader[p] = "read")

(* A session that has left a connection leaves no reader behind that takes *)
(* octets meant for the next one: "Closing the connection unblocks a       *)
(* reader parked in Read" (serve).                                         *)
NoneStolen ==
    [][\A p \in Peers : pending'[p] # pending[p] => serving \in {NoPeer, p} \/ serving' = p]_intake
=============================================================================
