------------------------------- MODULE Files --------------------------------
(***************************************************************************)
(* File transfer: the chained requests of master/file.go, fileapi.go and   *)
(* file_auth.go, and the one transfer an outstation has open               *)
(* (outstation/file.go, file_auth.go), over a network that loses, delays,  *)
(* repeats and reorders fragments.                                         *)
(*                                                                         *)
(* One file, under one name, in a DirFileHandler's directory.  Its octets  *)
(* are told apart by who wrote them, so that a mixture of two versions can *)
(* be seen.  A transfer's steps are fragments of their own; a handler is   *)
(* one step of its session's goroutine.                                    *)
(***************************************************************************)
EXTENDS Naturals, Sequences, FiniteSets

CONSTANTS
    Masters,       \* the masters
    Methods,       \* the methods their applications call
    Sizes,         \* the sizes of the files they write
    BlockSize,     \* FileConfig.MaxBlockSize
    Room,          \* MaxTxFragment - 32, what a response has left for a block
    MasterBlock,   \* the block size a master asks for
    OldSize,       \* the size of the file that is there at first
    Credentials,   \* whether opens need an authentication first: the choices
    SeqModulus,    \* application sequence numbers
    MaxCalls,      \* bound: calls, over all masters
    Disturbances,  \* what may disturb the ordinary course
    MaxDisturbed   \* bound: how often something does

VARIABLES
    auth,    \* whether opens need an authentication first
    out,     \* the outstation's session, and the file on its disk
    master,  \* the masters' transfers
    net,     \* the fragments under way
    calls,   \* the number of calls made
    used     \* the number of disturbances so far

vars == <<auth, out, master, net, calls, used>>

(* loses, repeats, late: as for any request; quiet: the outstation ends a  *)
(* transfer that is still going on; fails: the disk does, or the           *)
(* credentials are refused; expires: an authentication does; shortens: the *)
(* source has less than was declared; cancels: a caller gives up; drops:   *)
(* the connection ends.                                                    *)
Kinds == {"loses", "repeats", "late", "quiet", "fails", "expires", "shortens", "cancels",
          "drops"}

ASSUME FilesAssumption ==
    /\ Disturbances \subseteq Kinds
    /\ {BlockSize, MasterBlock, SeqModulus} \subseteq Nat \ {0}

Spend(what) ==
    /\ what \subseteq Disturbances
    /\ used + Cardinality(what) <= MaxDisturbed
    /\ used' = used + Cardinality(what)

Content(writer, n) == [i \in 1..n |-> writer]
Least(a, b) == IF a < b THEN a ELSE b
Idle == "idle"

----------------------------------------------------------------------------
(* Fragments: the group 70 objects, with the fields that matter here.      *)
Object ==
    [mode |-> "null", key |-> 0, handle |-> 0, size |-> 0, blockSize |-> 0, block |-> 0,
     last |-> FALSE, data |-> <<>>]

Request(m, fn, seq, obj) ==
    [to |-> "outstation", from |-> m, fn |-> fn, seq |-> seq, obj |-> obj]
Response(q, status, obj) ==
    [to |-> q.from, seq |-> q.seq, status |-> status, obj |-> obj]

----------------------------------------------------------------------------
(* The outstation.  A handler takes the session and its disk to the next   *)
(* ones; failing is whether what the handler calls refuses or fails.       *)
(* opened holds what each handle's file was when it was opened, landed     *)
(* what the writes that were closed as whole left.                         *)
NoFile ==
    [handle |-> 0, mode |-> "null", block |-> 0, blockSize |-> 0, size |-> 0, received |-> 0,
     done |-> FALSE]

Respond(o, q, status, obj) ==
    LET r == Response(q, status, obj) IN [o EXCEPT !.reply = {r}, !.lastResp = {r}]

Refuse(o, q, status) == Respond(o, q, status, [Object EXCEPT !.handle = q.obj.handle])

fileAuthorized(o, q) ==
    IF ~auth THEN q.obj.key = 0
    ELSE /\ q.obj.key # 0 /\ q.obj.key = o.fileAuth.key
         /\ q.from = o.fileAuth.source /\ ~o.fileAuth.expired

NoAuthorization == [key |-> 0, source |-> "none", expired |-> FALSE]

(* Refused credentials end the authentication there was.                   *)
onAuthenticateFile(o, q, failing) ==
    LET key == o.keys + 1
    IN  IF failing THEN Respond([o EXCEPT !.fileAuth = NoAuthorization], q, "SUCCESS", Object)
        ELSE Respond([o EXCEPT !.keys = key,
                               !.fileAuth = [key |-> key, source |-> q.from, expired |-> FALSE]],
                     q, "SUCCESS", [Object EXCEPT !.key = key])

negotiateBlockSize(requested) ==
    LET size == IF requested > 0 /\ requested < BlockSize THEN requested ELSE BlockSize
    IN  IF Room > 0 /\ size > Room THEN Room ELSE size

(* A write replaces the file from the start: OpenWrite truncates it.       *)
openTransfer(o, q, handle) ==
    LET t == [NoFile EXCEPT !.handle = handle, !.mode = q.obj.mode,
                            !.blockSize = negotiateBlockSize(q.obj.blockSize)]
    IN  IF q.obj.mode = "read"
        THEN [o EXCEPT !.file = [t EXCEPT !.size = Len(o.disk.data)]]
        ELSE [o EXCEPT !.file = [t EXCEPT !.size = q.obj.size],
                       !.disk = [there |-> TRUE, data |-> <<>>]]

onOpenFile(o, q) ==
    LET handle == o.handleSeq + 1
        o1 == openTransfer(o, q, handle)
    IN  IF ~fileAuthorized(o, q) THEN Refuse(o, q, "PERMISSION_DENIED")
        ELSE IF o.file # NoFile THEN Refuse(o, q, "TOO_MANY_OPEN")
        ELSE IF q.obj.mode = "read" /\ ~o.disk.there THEN Refuse(o, q, "NOT_FOUND")
        ELSE Respond([o1 EXCEPT !.handleSeq = handle, !.opened = Append(@, o1.disk.data)],
                     q, "SUCCESS",
                     [Object EXCEPT !.handle = handle, !.size = o1.file.size,
                                    !.blockSize = o1.file.blockSize])

closeFile(o) == [o EXCEPT !.file = NoFile]

(* A variant with a defect: a write cut short is closed as if it were      *)
(* whole.                                                                  *)
CloseAsItIs(o, q, failing) ==
    IF o.file = NoFile \/ o.file.handle # q.obj.handle THEN Refuse(o, q, "INVALID_HANDLE")
    ELSE IF failing THEN Refuse(closeFile(o), q, "FATAL")
    ELSE Refuse([closeFile(o) EXCEPT !.landed = @ \cup {<<o.file.handle, o.disk.data>>}],
                q, "SUCCESS")

(* Closing a write is the commit point; the handle is released either way. *)
onCloseFile(o, q, failing) ==
    LET incomplete == /\ o.file.mode = "write"
                      /\ ~o.file.done \/ o.file.received # o.file.size
    IN  IF o.file = NoFile \/ o.file.handle # q.obj.handle THEN Refuse(o, q, "INVALID_HANDLE")
        ELSE IF incomplete \/ failing THEN Refuse(closeFile(o), q, "FATAL")
        ELSE Refuse([closeFile(o) EXCEPT !.landed = @ \cup {<<o.file.handle, o.disk.data>>}],
                    q, "SUCCESS")

onAbortFile(o, q) ==
    IF o.file = NoFile THEN Refuse(o, q, "NOT_OPEN")
    ELSE IF q.obj.handle # 0 /\ q.obj.handle # o.file.handle THEN Refuse(o, q, "INVALID_HANDLE")
    ELSE Refuse(closeFile(o), q, "SUCCESS")

onDeleteFile(o, q) ==
    IF ~fileAuthorized(o, q) THEN Refuse(o, q, "PERMISSION_DENIED")
    ELSE IF o.file # NoFile THEN Refuse(o, q, "LOCKED")
    ELSE IF ~o.disk.there THEN Refuse(o, q, "NOT_FOUND")
    ELSE Refuse([o EXCEPT !.disk = [there |-> FALSE, data |-> <<>>]], q, "SUCCESS")

onGetFileInfo(o, q) ==
    IF ~o.disk.there THEN Refuse(o, q, "NOT_FOUND")
    ELSE Respond(o, q, "SUCCESS", [Object EXCEPT !.size = Len(o.disk.data)])

(* A variant with a defect: the octet after the block is not looked for.   *)
ReadBlockBlindly(o) ==
    LET from == o.file.block * o.file.blockSize
        upTo == Least(from + o.file.blockSize, Len(o.disk.data))
    IN  [data |-> SubSeq(o.disk.data, from + 1, upTo), last |-> upTo + 1 >= Len(o.disk.data)]

(* The next block, and whether anything follows it.                        *)
readBlock(o) ==
    LET from == o.file.block * o.file.blockSize
        upTo == Least(from + o.file.blockSize, Len(o.disk.data))
    IN  [data |-> SubSeq(o.disk.data, from + 1, upTo), last |-> upTo = Len(o.disk.data)]

onFileRead(o, q, failing) ==
    LET t == o.file
        b == readBlock(o)
    IN  IF t = NoFile THEN Refuse(o, q, "NOT_OPEN")
        ELSE IF t.handle # q.obj.handle THEN Refuse(o, q, "INVALID_HANDLE")
        ELSE IF t.mode # "read" THEN Refuse(o, q, "INVALID_MODE")
        ELSE IF t.done THEN Refuse(o, q, "NOT_OPEN")
        ELSE IF q.obj.block # t.block THEN Refuse(o, q, "BLOCK_SEQUENCE")
        ELSE IF failing THEN Refuse(closeFile(o), q, "FATAL")
        ELSE Respond([o EXCEPT !.file.block = @ + 1, !.file.done = b.last], q, "SUCCESS",
                     [Object EXCEPT !.handle = t.handle, !.block = t.block,
                                    !.last = b.last, !.data = b.data])

onFileWrite(o, q, failing) ==
    LET t == o.file
    IN  IF t = NoFile THEN Refuse(o, q, "NOT_OPEN")
        ELSE IF t.handle # q.obj.handle THEN Refuse(o, q, "INVALID_HANDLE")
        ELSE IF t.mode # "write" THEN Refuse(o, q, "INVALID_MODE")
        ELSE IF q.obj.block # t.block THEN Refuse(o, q, "BLOCK_SEQUENCE")
        ELSE IF Len(q.obj.data) > t.blockSize THEN Refuse(o, q, "WRITE_BLOCK_SIZE")
        ELSE IF failing THEN Refuse(closeFile(o), q, "FATAL")
        ELSE Refuse([o EXCEPT !.file.block = @ + 1, !.file.done = q.obj.last,
                              !.file.received = @ + Len(q.obj.data),
                              !.disk.data = @ \o q.obj.data], q, "SUCCESS")

isRepeatRequest(o, q) == o.lastReq = {q}
rememberRequest(o, q) == [o EXCEPT !.lastReq = {q}, !.lastResp = {}]
replayResponse(o) == [o EXCEPT !.reply = o.lastResp]

Dispatch(o, q, failing) ==
    CASE q.fn = "AUTHENTICATE_FILE" -> onAuthenticateFile(o, q, failing)
      [] q.fn = "OPEN_FILE"         -> onOpenFile(o, q)
      [] q.fn = "CLOSE_FILE"        -> onCloseFile(o, q, failing)
      [] q.fn = "ABORT_FILE"        -> onAbortFile(o, q)
      [] q.fn = "DELETE_FILE"       -> onDeleteFile(o, q)
      [] q.fn = "GET_FILE_INFO"     -> onGetFileInfo(o, q)
      [] q.fn = "READ"              -> onFileRead(o, q, failing)
      [] q.fn = "WRITE"             -> onFileWrite(o, q, failing)

handle(o, q, failing) ==
    IF isRepeatRequest(o, q) THEN replayResponse(o)
    ELSE Dispatch(rememberRequest(o, q), q, failing)

(* A variant with a defect: only reads time out.                           *)
ReadTimesOut(t) == t.mode = "read"

(* checkFileTimeout: whether a transfer that goes quiet is closed.         *)
TimesOut(t) == t # NoFile

----------------------------------------------------------------------------
(* A master's transfer.  data is what arrived, taken how much of the       *)
(* source was read; release: the caller gave up and a close or an abort is *)
(* queued behind the chain.                                                *)
NoTransfer ==
    [method |-> "none", step |-> Idle, write |-> FALSE, size |-> 0, length |-> 0, key |-> 0,
     handle |-> 0, blockSize |-> 0, block |-> 0, last |-> FALSE, data |-> <<>>, taken |-> 0,
     failed |-> FALSE, closed |-> FALSE, releasing |-> FALSE, cancelled |-> FALSE,
     release |-> FALSE]

(* A step goes out under the next number.                                  *)
sendTask(u, m, fn, obj) ==
    LET seq == (u.seq + 1) % SeqModulus
    IN  [u EXCEPT !.t.step = fn, !.seq = seq, !.sent = {Request(m, fn, seq, obj)}]

newFileOpenTask(u, m) ==
    sendTask(u, m, "OPEN_FILE",
             [Object EXCEPT !.mode = IF u.t.write THEN "write" ELSE "read", !.key = u.t.key,
                            !.size = u.t.size, !.blockSize = MasterBlock])
newFileReadTask(u, m) ==
    sendTask(u, m, "READ", [Object EXCEPT !.handle = u.t.handle, !.block = u.t.block])

(* A block that is not full is the last: a size that is a multiple of the  *)
(* block's ends with an empty one.                                         *)
newFileWriteTask(u, m) ==
    LET n == Least(u.t.blockSize, u.t.length - u.t.taken)
    IN  sendTask([u EXCEPT !.t.taken = @ + n], m, "WRITE",
                 [Object EXCEPT !.handle = u.t.handle, !.block = u.t.block,
                                !.last = n < u.t.blockSize, !.data = Content(m, n)])
newFileCloseTask(u, m) == sendTask(u, m, "CLOSE_FILE", [Object EXCEPT !.handle = u.t.handle])
newFileAbortTask(u, m) == sendTask(u, m, "ABORT_FILE", [Object EXCEPT !.handle = u.t.handle])
newFileDeleteTask(u, m) == sendTask(u, m, "DELETE_FILE", [Object EXCEPT !.key = u.t.key])
newFileInfoTask(u, m) == sendTask(u, m, "GET_FILE_INFO", Object)
newFileAuthTask(u, m) == sendTask(u, m, "AUTHENTICATE_FILE", Object)

FirstStep(u, m) ==
    CASE u.t.method \in {"ReadFile", "WriteFile"} -> newFileOpenTask(u, m)
      [] u.t.method = "DeleteFile"                -> newFileDeleteTask(u, m)
      [] u.t.method = "FileInfo"                  -> newFileInfoTask(u, m)

(* What the caller is told.                                                *)
Returns(u, ok) ==
    [u EXCEPT !.outcomes = Append(@, [method |-> u.t.method, ok |-> ok, handle |-> u.t.handle,
                                      data |-> u.t.data, size |-> u.t.size])]

Release(u, m) == IF u.t.write THEN newFileAbortTask(u, m) ELSE newFileCloseTask(u, m)

(* The chain is over: runTransfer closes what a failure left open, unless  *)
(* the caller is gone.                                                     *)
runTransfer(u, m) ==
    IF u.t.cancelled
    THEN IF u.t.release THEN Release([u EXCEPT !.t.release = FALSE], m)
         ELSE [u EXCEPT !.t = NoTransfer]
    ELSE IF ~u.t.failed THEN [Returns(u, TRUE) EXCEPT !.t = NoTransfer]
    ELSE IF u.t.handle # 0 /\ ~u.t.closed /\ ~u.t.releasing
    THEN Release([u EXCEPT !.t.releasing = TRUE], m)
    ELSE [Returns(u, FALSE) EXCEPT !.t = NoTransfer]

fail(u, m) == runTransfer([u EXCEPT !.t.failed = TRUE], m)

onOpened(u, m, r) ==
    LET u1 == [u EXCEPT !.t.handle = r.obj.handle, !.t.size = r.obj.size,
                        !.t.blockSize = Least(MasterBlock, r.obj.blockSize)]
    IN  IF r.status # "SUCCESS" \/ r.obj.handle = 0 THEN fail(u, m)
        ELSE IF u.t.write THEN newFileWriteTask(u1, m) ELSE newFileReadTask(u1, m)

onBlock(u, m, r) ==
    LET u1 == [u EXCEPT !.t.data = @ \o r.obj.data, !.t.block = @ + 1, !.t.last = r.obj.last]
    IN  IF r.status # "SUCCESS" \/ r.obj.block # u.t.block THEN fail(u, m)
        ELSE IF u1.t.last THEN newFileCloseTask(u1, m) ELSE newFileReadTask(u1, m)

(* Whether the block written was the last shows in what is left to take.   *)
onWritten(u, m, r) ==
    LET last == u.t.taken < (u.t.block + 1) * u.t.blockSize
        u1 == [u EXCEPT !.t.block = @ + 1, !.t.last = last]
    IN  IF r.status # "SUCCESS" THEN fail(u, m)
        ELSE IF last THEN newFileCloseTask(u1, m) ELSE newFileWriteTask(u1, m)

onClosed(u, m, r) ==
    runTransfer([u EXCEPT !.t.closed = TRUE, !.t.failed = @ \/ r.status # "SUCCESS"], m)

onAuthenticated(u, m, r) ==
    IF r.obj.key = 0 THEN fail(u, m) ELSE FirstStep([u EXCEPT !.t.key = r.obj.key], m)

onSolicited(u, m, r) ==
    IF u.t.step = Idle \/ r.seq # u.seq THEN u
    ELSE CASE u.t.step = "AUTHENTICATE_FILE" -> onAuthenticated(u, m, r)
           [] u.t.step = "OPEN_FILE"         -> onOpened(u, m, r)
           [] u.t.step = "READ"              -> onBlock(u, m, r)
           [] u.t.step = "WRITE"             -> onWritten(u, m, r)
           [] u.t.step = "CLOSE_FILE"        -> onClosed(u, m, r)
           [] u.t.step = "ABORT_FILE"        -> runTransfer([u EXCEPT !.t.closed = TRUE], m)
           [] u.t.step \in {"DELETE_FILE", "GET_FILE_INFO"} ->
                  IF r.status # "SUCCESS" THEN fail(u, m) ELSE runTransfer(u, m)

----------------------------------------------------------------------------
Init ==
    /\ auth \in Credentials
    /\ out = [file |-> NoFile, handleSeq |-> 0, keys |-> 0, fileAuth |-> NoAuthorization,
              disk |-> [there |-> TRUE, data |-> Content("old", OldSize)],
              lastReq |-> {}, lastResp |-> {}, reply |-> {}, opened |-> <<>>, landed |-> {}]
    /\ master = [m \in Masters |-> [seq |-> 0, sent |-> {}, outcomes |-> <<>>, t |-> NoTransfer]]
    /\ net = {}
    /\ calls = 0
    /\ used = 0

Puts(m, u) == master' = [master EXCEPT ![m] = [u EXCEPT !.sent = {}]]

(* A method is called.  The source of a write may hold less than declared. *)
Call(m, method, size) ==
    /\ master[m].t.step = Idle
    /\ calls < MaxCalls
    /\ calls' = calls + 1
    /\ \E short \in {0, 1} :
         LET t == [NoTransfer EXCEPT !.method = method, !.write = method = "WriteFile",
                                     !.size = IF method = "WriteFile" THEN size ELSE 0,
                                     !.length = IF method = "WriteFile" THEN size - short ELSE 0]
             u0 == [master[m] EXCEPT !.t = t]
             u == IF auth /\ method # "FileInfo" THEN newFileAuthTask(u0, m) ELSE FirstStep(u0, m)
         IN  /\ short = 1 => method = "WriteFile" /\ size > 0
             /\ IF short = 1 THEN Spend({"shortens"}) ELSE UNCHANGED used
             /\ Puts(m, u)
             /\ net' = net \cup u.sent
    /\ UNCHANGED <<auth, out>>

Handle(q) ==
    /\ q.to = "outstation"
    /\ \E repeat, failing \in BOOLEAN :
         LET o == handle(out, q, failing)
         IN  /\ failing => \/ q.fn = "AUTHENTICATE_FILE"
                           \/ q.fn \in {"READ", "WRITE", "CLOSE_FILE"} /\ out.file # NoFile
             /\ Spend((IF repeat THEN {"repeats"} ELSE {}) \cup (IF failing THEN {"fails"} ELSE {}))
             /\ out' = [o EXCEPT !.reply = {}]
             /\ net' = (IF repeat THEN net ELSE net \ {q}) \cup o.reply
    /\ UNCHANGED <<auth, master, calls>>

Receive(r) ==
    /\ r.to \in Masters
    /\ \E repeat \in BOOLEAN :
         LET u == onSolicited(master[r.to], r.to, r)
         IN  /\ Spend(IF repeat THEN {"repeats"} ELSE {})
             /\ Puts(r.to, u)
             /\ net' = (IF repeat THEN net ELSE net \ {r}) \cup u.sent
    /\ UNCHANGED <<auth, out, calls>>

Lose(msg) ==
    /\ Spend({"loses"})
    /\ net' = net \ {msg}
    /\ UNCHANGED <<auth, out, master, calls>>

OnTheWay(m) ==
    \E msg \in net : msg.to = m \/ (msg.to = "outstation" /\ msg.from = m)

checkTimeout(m) ==
    /\ master[m].t.step # Idle
    /\ Spend(IF OnTheWay(m) THEN {"late"} ELSE {})
    /\ LET u == fail(master[m], m)
       IN  Puts(m, u) /\ net' = net \cup u.sent
    /\ UNCHANGED <<auth, out, calls>>

(* The caller's context ends.  The chain goes on without it; whether a     *)
(* close is queued behind it depends on how far it had come.               *)
GivesUp(m) ==
    /\ master[m].t.step # Idle
    /\ ~master[m].t.cancelled /\ ~master[m].t.releasing
    /\ Spend({"cancels"})
    /\ master' = [master EXCEPT ![m] =
           [Returns(@, FALSE) EXCEPT
               !.t.cancelled = TRUE,
               !.t.release = master[m].t.handle # 0 /\ ~master[m].t.closed]]
    /\ UNCHANGED <<auth, out, net, calls>>

Using(m) == master[m].t.step # Idle /\ master[m].t.handle = out.file.handle

(* The transfer has gone quiet, or a step of it is late.                   *)
FileTimeout ==
    /\ TimesOut(out.file)
    /\ Spend(IF net # {} \/ \E m \in Masters : Using(m) THEN {"quiet"} ELSE {})
    /\ out' = closeFile(out)
    /\ UNCHANGED <<auth, master, net, calls>>

(* FileConfig.Timeout has passed since an authentication.                  *)
KeyExpires ==
    /\ out.fileAuth.key # 0 /\ ~out.fileAuth.expired
    /\ Spend({"expires"})
    /\ out' = [out EXCEPT !.fileAuth.expired = TRUE]
    /\ UNCHANGED <<auth, master, net, calls>>

(* A transfer belongs to the connection it started on.                     *)
Reconnect ==
    /\ Spend({"drops"})
    /\ net' = {}
    /\ out' = [closeFile(out) EXCEPT !.fileAuth = NoAuthorization, !.lastReq = {}]
    /\ master' = [m \in Masters |->
           LET u == [master[m] EXCEPT !.t.releasing = TRUE, !.t.release = FALSE]
           IN  IF u.t.step = Idle THEN master[m] ELSE fail(u, m)]
    /\ UNCHANGED <<auth, calls>>

Next ==
    \/ \E m \in Masters :
         \/ checkTimeout(m) \/ GivesUp(m)
         \/ \E method \in Methods, size \in Sizes : Call(m, method, size)
    \/ \E msg \in net : Handle(msg) \/ Receive(msg) \/ Lose(msg)
    \/ FileTimeout \/ KeyExpires \/ Reconnect

Spec == Init /\ [][Next]_vars

(* The sessions' loops run on, and what is sent arrives unless it is lost. *)
FairSpec ==
    /\ Spec
    /\ []<>(net = {}) \/ []<><<\E msg \in net : Handle(msg) \/ Receive(msg)>>_vars
    /\ []<>(net # {} \/ \A m \in Masters : master[m].t.step = Idle)
           \/ []<><<\E m \in Masters : checkTimeout(m)>>_vars
    /\ []<>(~TimesOut(out.file) \/ net # {} \/ \E m \in Masters : Using(m))
           \/ []<><<FileTimeout>>_vars

----------------------------------------------------------------------------
Outcomes == UNION {{<<m, i>> : i \in DOMAIN master[m].outcomes} : m \in Masters}
Outcome(k) == master[k[1]].outcomes[k[2]]

(* WriteFile returns success only for a file that landed whole: when its   *)
(* handle was closed, the file on the disk was what the caller had to      *)
(* write, every octet and no other (outstation/file.go, onCloseFile:       *)
(* "Closing a write is the commit point, so it must not report success for *)
(* a file that did not arrive whole").                                     *)
WriteMeansWhole ==
    \A k \in Outcomes :
        LET c == Outcome(k)
        IN  (c.method = "WriteFile" /\ c.ok) =>
                <<c.handle, Content(k[1], c.size)>> \in out.landed

(* ReadFile returns success only with the whole file, as it was when it    *)
(* was opened: blocks are neither skipped, nor taken twice, nor taken from *)
(* a later transfer (onFileRead; master/file.go, newFileReadTask).         *)
ReadMeansWhole ==
    \A k \in Outcomes :
        LET c == Outcome(k)
        IN  (c.method = "ReadFile" /\ c.ok) => c.data = out.opened[c.handle]

(* A file that is open is closed in the end, whatever is lost and whoever  *)
(* gives up: the outstation has one transfer, and "refusing every later    *)
(* one" is what DefaultFileTimeout is there to prevent (file.go).          *)
HandleReleased == (out.file # NoFile) ~> (out.file = NoFile)
=============================================================================
