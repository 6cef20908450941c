-------------------------------- MODULE Pipe --------------------------------
(***************************************************************************)
(* One Pipe of index.js: the JavaScript object, the native handle below it *)
(* and the bare-stream Duplex it extends, from construction to 'close'.    *)
(*                                                                         *)
(* The bits of this._state are the set state, the four _pending*           *)
(* continuations the set pending.  Three parties act on them:              *)
(*   - the user of the pipe, who may call any method at any time           *)
(*     JavaScript runs;                                                    *)
(*   - the stream (bare-stream, external), which calls _open, _read,       *)
(*     _writev, _final and _destroy as its contract allows;                *)
(*   - the event loop, which runs the binding's callbacks, each to         *)
(*     completion and never while a microtask (jobs) is waiting.           *)
(* An action is everything one of those calls does before it returns.  One *)
(* handler is split: _onconnect completes the open, which lets the user's  *)
(* 'open' listener and a queued write run, and only then emits 'connect';  *)
(* frame is "onconnect" in between.                                        *)
(*                                                                         *)
(* Messages are only counted here, so the batch given to _writev splits    *)
(* into any number of segments; module PipeIpc keeps the handle queue.     *)
(***************************************************************************)
EXTENDS PipeHandle, Sequences

CONSTANT MaxQueue   \* bound: messages the stream buffers for one _writev

ASSUME MaxQueueAssumption == MaxQueue \in Nat \ {0}

VARIABLES
  allowHalfOpen,  \* the option of the constructor
  state,          \* _state
  error,          \* _error # null, set by an open() that failed
  pending,        \* which of the four continuations are not null
  segments,       \* segments of the batch in flight still to complete
  jobs,           \* microtasks queued by connect() and open()
  frame,          \* "onconnect" while _onconnect is below its emit
  handle,         \* the native handle
  stream,         \* the Duplex (external)
  events          \* the events emitted, in order

vars == <<allowHalfOpen, state, error, pending, segments, jobs, frame,
          handle, stream, events>>

Flags == {"CONNECTING", "CONNECTED", "READING", "CLOSING", "CLOSED",
          "UNREFED", "READABLE", "WRITABLE"}
Continuations == {"open", "write", "final", "destroy"}
Jobs == {"failConnect", "failOpen", "connect"}
Events == {"connect", "end", "finish", "close"}

(***************************************************************************)
(* What the pipe can tell about its Duplex.                                *)
(*   opening    _open was called; opened: and its callback succeeded       *)
(*   queue      messages written and not yet given to _writev              *)
(*   ending     end() was called; finished: 'finish' was emitted           *)
(*   readEnding push(null) was called; ended: 'end' was emitted            *)
(*   full       the last push() was refused and nothing was consumed since *)
(*   destroying destroy() was called, or both halves are done              *)
(*   closed     'close' was emitted                                        *)
(***************************************************************************)
StreamType ==
  [opening: BOOLEAN, opened: BOOLEAN, queue: 0..MaxQueue, ending: BOOLEAN,
   finished: BOOLEAN, readEnding: BOOLEAN, ended: BOOLEAN, full: BOOLEAN,
   destroying: BOOLEAN, closed: BOOLEAN]

NewStream ==
  [opening |-> FALSE, opened |-> FALSE, queue |-> 0, ending |-> FALSE,
   finished |-> FALSE, readEnding |-> FALSE, ended |-> FALSE, full |-> FALSE,
   destroying |-> FALSE, closed |-> FALSE]

TypeOK ==
  /\ allowHalfOpen \in BOOLEAN
  /\ state \subseteq Flags
  /\ error \in BOOLEAN
  /\ pending \subseteq Continuations
  /\ segments \in 0..MaxQueue
  /\ jobs \subseteq Jobs
  /\ frame \in {"none", "onconnect"}
  /\ handle \in HandleType
  /\ stream \in StreamType
  /\ events \in Seq(Events)

Init ==
  /\ allowHalfOpen \in BOOLEAN
  /\ state = {}
  /\ error = FALSE
  /\ pending = {}
  /\ segments = 0
  /\ jobs = {}
  /\ frame = "none"
  /\ handle = BindingInit
  /\ stream = NewStream
  /\ events = <<>>

-----------------------------------------------------------------------------
(* When each party may act.                                                *)

\* JavaScript runs until the environment is torn down.
Js == ~handle.exiting

\* A turn of the event loop: no JavaScript frame, no microtask left.
Loop == Js /\ frame = "none" /\ jobs = {}

\* The stream works for the pipe only while it is open and not destroyed.
Streaming == Js /\ stream.opened /\ ~stream.destroying

-----------------------------------------------------------------------------
(* Steps the methods share.                                                *)

Is(flag) == flag \in state

MarkClosing(st) == (st \ {"CONNECTING"}) \cup {"CLOSING"}

\* Predestroy that forgets to give up on a connect in flight.
PredestroyKeepsConnecting(st, h) ==
  IF "CLOSING" \in st
  THEN state' = st /\ handle' = h
  ELSE state' = st \cup {"CLOSING"} /\ handle' = BindingClose(h)

\* _predestroy from flags st and handle h.
Predestroy(st, h) ==
  IF "CLOSING" \in st
  THEN state' = st /\ handle' = h
  ELSE state' = MarkClosing(st) /\ handle' = BindingClose(h)

\* stream.destroy(): once only, and _predestroy at once.
Destroy(st, h, s) ==
  /\ stream' = [s EXCEPT !.destroying = TRUE]
  /\ IF s.destroying THEN state' = st /\ handle' = h ELSE Predestroy(st, h)

\* The stream destroys itself once both halves are done, without _predestroy.
AutoDestroy(s) == [s EXCEPT !.destroying = @ \/ (s.ended /\ s.finished)]

\* _continueOpen(null): the open callback, if there is one, opens the stream.
ContinueOpen(s) ==
  IF "open" \in pending /\ ~s.destroying THEN [s EXCEPT !.opened = TRUE] ELSE s

\* _pendingOpen, _pendingWrite, _pendingFinal or _pendingDestroy = null.
Settle(c) == pending' = pending \ {c}

\* The final callback without an error: 'finish', unless destroyed meanwhile.
Finish(s) ==
  IF s.destroying
  THEN stream' = s /\ UNCHANGED events
  ELSE /\ stream' = AutoDestroy([s EXCEPT !.finished = TRUE])
       /\ events' = Append(events, "finish")

\* The destroy callback: 'close'.
Close(s) ==
  /\ stream' = [s EXCEPT !.closed = TRUE]
  /\ events' = Append(events, "close")

\* push(null) for a half that is not readable, end() for one not writable.
EndHalves(s, r, w) ==
  [s EXCEPT !.readEnding = @ \/ ~r, !.ending = @ \/ ~w]

HalfFlags(r, w) ==
  (IF r THEN {"READABLE"} ELSE {}) \cup (IF w THEN {"WRITABLE"} ELSE {})

-----------------------------------------------------------------------------
(* The user of the pipe.                                                   *)

\* The guard without its CONNECTING half.
UnusedOrConnecting == ~Is("CLOSING") /\ ~error /\ ~Is("CONNECTED")

\* connect() and open() throw on a pipe that is closing, failed, connecting
\* or connected.
Unused == ~Is("CLOSING") /\ ~error /\ ~Is("CONNECTING") /\ ~Is("CONNECTED")

\* connect(path).  A path libuv rejects at once fails from a microtask.
Connect ==
  /\ Js
  /\ Unused
  /\ state' = state \cup {"CONNECTING"}
  /\ \/ handle' = BindingConnect(handle) /\ UNCHANGED jobs
     \/ jobs' = jobs \cup {"failConnect"} /\ UNCHANGED handle
  /\ UNCHANGED <<allowHalfOpen, error, pending, segments, frame, stream, events>>

\* What open(fd) and _onspawn do with a descriptor that reads and writes as
\* r and w say.
Adopt(r, w) ==
  /\ state' = state \cup {"CONNECTED"} \cup HalfFlags(r, w)
  /\ handle' = BindingOpen(handle, r, w)
  /\ stream' = ContinueOpen(EndHalves(stream, r, w))
  /\ Settle("open")

\* open(fd).
Open ==
  /\ Js
  /\ Unused
  /\ \/ /\ ~handle.fd
        /\ \E r, w \in BOOLEAN : (r \/ w) /\ Adopt(r, w)
        /\ jobs' = jobs \cup {"connect"}
        /\ UNCHANGED error
     \/ /\ error' = TRUE
        /\ jobs' = jobs \cup {"failOpen"}
        /\ UNCHANGED <<state, pending, handle, stream>>
  /\ UNCHANGED <<allowHalfOpen, segments, frame, events>>

\* _onspawn: a subprocess took this pipe as one of its stdio.  That the pipe is
\* unused is an assumption on the caller: _onspawn does not look.
OnSpawn ==
  /\ Js
  /\ Unused
  /\ ~handle.fd
  /\ \E r, w \in BOOLEAN : (r \/ w) /\ Adopt(r, w)
  /\ UNCHANGED <<allowHalfOpen, error, segments, jobs, frame, events>>

\* A server or an IPC pipe accepts into this pipe, which need not be unused:
\* uv_accept only asks that its handle has no descriptor.
OnAccept ==
  /\ Js
  /\ handle.uv = "open" /\ ~handle.fd
  /\ handle' = AcceptedInto(handle)
  /\ state' = state \cup {"CONNECTED", "READABLE", "WRITABLE"}
  /\ stream' = ContinueOpen(stream)
  /\ Settle("open")
  /\ UNCHANGED <<allowHalfOpen, error, segments, jobs, frame, events>>

\* write(chunk), up to the bound MaxQueue.
Write ==
  /\ Js
  /\ ~stream.destroying /\ ~stream.ending /\ stream.queue < MaxQueue
  /\ stream' = [stream EXCEPT !.queue = @ + 1]
  /\ UNCHANGED <<allowHalfOpen, state, error, pending, segments, jobs, frame,
                 handle, events>>

\* end().
End ==
  /\ Js
  /\ ~stream.destroying /\ ~stream.ending
  /\ stream' = [stream EXCEPT !.ending = TRUE]
  /\ UNCHANGED <<allowHalfOpen, state, error, pending, segments, jobs, frame,
                 handle, events>>

\* The user consumes what was read, which makes room for more.
Consume ==
  /\ Js
  /\ stream.full
  /\ stream' = [stream EXCEPT !.full = FALSE]
  /\ UNCHANGED <<allowHalfOpen, state, error, pending, segments, jobs, frame,
                 handle, events>>

\* destroy().
UserDestroy ==
  /\ Js
  /\ ~stream.destroying
  /\ Destroy(state, handle, stream)
  /\ UNCHANGED <<allowHalfOpen, error, pending, segments, jobs, frame, events>>

Ref ==
  /\ Js
  /\ Is("UNREFED")
  /\ state' = state \ {"UNREFED"}
  /\ handle' = IF Is("CLOSING") THEN handle ELSE BindingRef(handle)
  /\ UNCHANGED <<allowHalfOpen, error, pending, segments, jobs, frame, stream,
                 events>>

Unref ==
  /\ Js
  /\ ~Is("UNREFED")
  /\ state' = state \cup {"UNREFED"}
  /\ handle' = IF Is("CLOSING") THEN handle ELSE BindingUnref(handle)
  /\ UNCHANGED <<allowHalfOpen, error, pending, segments, jobs, frame, stream,
                 events>>

User ==
  \/ Connect \/ Open \/ OnSpawn \/ OnAccept
  \/ Write \/ End \/ Consume \/ UserDestroy
  \/ Ref \/ Unref

-----------------------------------------------------------------------------
(* Microtasks.                                                             *)

\* An open callback with an error destroys the stream, and so does the code
\* itself when there is none.
FailOpening(st) == Destroy(st, handle, stream) /\ Settle("open")

\* _failConnect, from connect()'s microtask.
FailConnectJob ==
  /\ Js /\ frame = "none"
  /\ "failConnect" \in jobs
  /\ jobs' = jobs \ {"failConnect"}
  /\ IF Is("CLOSING")
     THEN UNCHANGED <<state, pending, handle, stream>>
     ELSE FailOpening(state \ {"CONNECTING"})
  /\ UNCHANGED <<allowHalfOpen, error, segments, frame, events>>

\* open()'s microtask for a descriptor that could not be opened.
FailOpenJob ==
  /\ Js /\ frame = "none"
  /\ "failOpen" \in jobs
  /\ jobs' = jobs \ {"failOpen"}
  /\ FailOpening(state)
  /\ UNCHANGED <<allowHalfOpen, error, segments, frame, events>>

\* open()'s microtask for one that was.
ConnectJob ==
  /\ Js /\ frame = "none"
  /\ "connect" \in jobs
  /\ jobs' = jobs \ {"connect"}
  /\ events' = IF Is("CLOSING") THEN events ELSE Append(events, "connect")
  /\ UNCHANGED <<allowHalfOpen, state, error, pending, segments, frame,
                 handle, stream>>

Microtask == FailConnectJob \/ FailOpenJob \/ ConnectJob

-----------------------------------------------------------------------------
(* The stream (external) calling the methods it is given.                  *)

\* _open: once, never for a destroyed stream.
StreamOpen ==
  /\ Js
  /\ ~stream.opening /\ ~stream.destroying
  /\ IF Is("CONNECTED")
     THEN /\ stream' = [stream EXCEPT !.opening = TRUE, !.opened = TRUE]
          /\ UNCHANGED pending
     ELSE /\ stream' = [stream EXCEPT !.opening = TRUE]
          /\ pending' = pending \cup {"open"}
  /\ UNCHANGED <<allowHalfOpen, state, error, segments, jobs, frame, handle,
                 events>>

\* _read: there is room in the buffer.  A further call while READING is set
\* changes nothing.
StreamRead ==
  /\ Streaming
  /\ ~stream.readEnding /\ ~stream.full
  /\ ~Is("READING")
  /\ state' = state \cup {"READING"}
  /\ handle' = BindingResume(handle)
  /\ UNCHANGED <<allowHalfOpen, error, pending, segments, jobs, frame, stream,
                 events>>

\* The native write of a batch's first segment, split in n.
StartWrite(n) ==
  /\ CanWrite(handle)
  /\ handle' = BindingWritev(handle)
  /\ segments' = n
  /\ pending' = pending \cup {"write"}
  /\ stream' = [stream EXCEPT !.queue = 0]
  /\ UNCHANGED state

\* A throwing native write that is not reported to the stream.
RefuseWriteSilently ==
  /\ pending' = pending \cup {"write"}
  /\ UNCHANGED <<state, handle, stream, segments>>

\* A chunk that is no view, an invalid target or a native error: the write
\* callback is called with the error before _writev returns.
RefuseWrite ==
  /\ Destroy(state, handle, [stream EXCEPT !.queue = 0])
  /\ UNCHANGED <<pending, segments>>

\* _writev with everything that was queued.
StreamWritev ==
  /\ Streaming
  /\ stream.queue > 0 /\ "write" \notin pending
  /\ (\E n \in 1..stream.queue : StartWrite(n)) \/ RefuseWrite
  /\ UNCHANGED <<allowHalfOpen, error, jobs, frame, events>>

\* _final, once every write has completed.  The binding's end() fails only with
\* ENOTCONN, which _final takes for an end; an error of another kind, which it
\* would report, libuv does not return here.
StreamFinal ==
  /\ Streaming
  /\ stream.ending /\ stream.queue = 0 /\ ~stream.finished
  /\ pending \cap {"write", "final"} = {}
  /\ IF {"READABLE", "WRITABLE"} \subseteq state /\ CanWrite(handle)
     THEN /\ pending' = pending \cup {"final"}
          /\ handle' = BindingEnd(handle)
          /\ UNCHANGED <<stream, events>>
     ELSE Finish(stream) /\ UNCHANGED <<pending, handle>>
  /\ UNCHANGED <<allowHalfOpen, state, error, segments, jobs, frame>>

\* The consumer reaches the end: 'end'.
StreamEnd ==
  /\ Streaming /\ frame = "none"
  /\ stream.readEnding /\ ~stream.ended /\ ~stream.full
  /\ stream' = AutoDestroy([stream EXCEPT !.ended = TRUE])
  /\ events' = Append(events, "end")
  /\ UNCHANGED <<allowHalfOpen, state, error, pending, segments, jobs, frame,
                 handle>>

\* _destroy takes a handle that is closing for one that has closed.
ClosingAlready == Is("CLOSING")

\* _destroy does not look at CLOSED.
NeverClosedAlready == FALSE

\* _destroy finds the handle closed before it was called.
ClosedAlready == Is("CLOSED")

\* _destroy: once, when no other callback is pending.
StreamDestroy ==
  /\ Js /\ frame = "none"
  /\ stream.destroying /\ ~stream.closed
  /\ pending = {}
  /\ IF ClosedAlready
     THEN Close(stream) /\ UNCHANGED <<state, pending, handle>>
     ELSE /\ pending' = {"destroy"}
          /\ Predestroy(state, handle)
          /\ UNCHANGED <<stream, events>>
  /\ UNCHANGED <<allowHalfOpen, error, segments, jobs, frame>>

Stream ==
  \/ StreamOpen \/ StreamRead \/ StreamWritev \/ StreamFinal
  \/ StreamEnd \/ StreamDestroy

-----------------------------------------------------------------------------
(* The event loop: the binding's callbacks and the methods they call.      *)

\* on_connect with an error, _onconnect and _failConnect.
OnConnectError ==
  /\ Loop
  /\ handle.connect > 0 /\ ~handle.closing
  /\ LET h == ConnectDone(handle)
     IN  IF Is("CLOSING")
         THEN handle' = h /\ UNCHANGED <<state, pending, stream>>
         ELSE Destroy(state \ {"CONNECTING"}, h, stream) /\ Settle("open")
  /\ UNCHANGED <<allowHalfOpen, error, segments, jobs, frame, events>>

\* on_connect and _onconnect, up to the emit when an open callback runs first.
OnConnect ==
  /\ Loop
  /\ handle.connect > 0 /\ ~handle.closing
  /\ handle' = UvStreamOpen(ConnectDone(handle), TRUE, TRUE)
  /\ state' = (state \ {"CONNECTING"})
                \cup {"CONNECTED", "READABLE", "WRITABLE"}
  /\ stream' = ContinueOpen(stream)
  /\ Settle("open")
  /\ IF "open" \in pending
     THEN frame' = "onconnect" /\ UNCHANGED events
     ELSE events' = Append(events, "connect") /\ UNCHANGED frame
  /\ UNCHANGED <<allowHalfOpen, error, segments, jobs>>

\* The rest of _onconnect, after the open callback returned.
EmitConnect ==
  /\ Js
  /\ frame = "onconnect"
  /\ frame' = "none"
  /\ events' = Append(events, "connect")
  /\ UNCHANGED <<allowHalfOpen, state, error, pending, segments, jobs, handle,
                 stream>>

\* A request cancelled by uv_close, or called back once the environment is
\* exiting: the binding returns without calling JavaScript.
DropConnect ==
  /\ handle.connect > 0 /\ (handle.closing \/ handle.exiting)
  /\ handle' = ConnectDone(handle)
  /\ UNCHANGED <<allowHalfOpen, state, error, pending, segments, jobs, frame,
                 stream, events>>

\* _onread forgets that reading stopped.
PauseReadingKeepsFlag == handle' = BindingPause(handle) /\ UNCHANGED state

\* _onread when push() was refused.
PauseReading ==
  handle' = BindingPause(handle) /\ state' = state \ {"READING"}

\* on_read and _onread with data, which the stream may not have room for.
OnReadData ==
  /\ Loop /\ handle.reading
  /\ \/ UNCHANGED <<state, handle, stream>>
     \/ /\ stream' = [stream EXCEPT !.full = TRUE]
        /\ IF stream.destroying
           THEN UNCHANGED <<state, handle>>
           ELSE PauseReading
  /\ UNCHANGED <<allowHalfOpen, error, pending, segments, jobs, frame, events>>

\* on_read and _onread at the end of the data; libuv stops reading.
OnReadEnd ==
  /\ Loop /\ handle.reading
  /\ handle' = ReadEnded(handle)
  /\ stream' = EndHalves(stream, FALSE, allowHalfOpen)
  /\ UNCHANGED <<allowHalfOpen, state, error, pending, segments, jobs, frame,
                 events>>

\* on_read and _onread with an error; libuv gives up both halves.
OnReadError ==
  /\ Loop /\ handle.reading
  /\ Destroy(state, ReadFailed(handle), stream)
  /\ UNCHANGED <<allowHalfOpen, error, pending, segments, jobs, frame, events>>

\* _continueWrite without the comparison with the number of segments.
MoreSegmentsAlways == TRUE

MoreSegments == segments > 1

\* _writeNextSegment from on_write: h is the handle without the request that
\* completed.
NextSegment(h) ==
  \/ /\ CanWrite(h)
     /\ handle' = BindingWritev(h)
     /\ segments' = segments - 1
     /\ UNCHANGED <<state, pending, stream>>
  \/ /\ Destroy(state, h, stream)
     /\ segments' = 0
     /\ Settle("write")

\* on_write returns early on a closing handle, as on_connect does.
WriteReportedUnlessClosing == ~handle.closing

\* on_write calls JavaScript for a closing handle too.
WriteReported == TRUE

\* on_write without an error and _continueWrite.  A write that completed just
\* before uv_close is still called back without one.
OnWrite ==
  /\ Loop /\ handle.write > 0 /\ WriteReported
  /\ LET h == WriteDone(handle)
     IN  IF "write" \in pending /\ MoreSegments
         THEN NextSegment(h)
         ELSE /\ handle' = h
              /\ segments' = 0
              /\ Settle("write")
              /\ UNCHANGED <<state, stream>>
  /\ UNCHANGED <<allowHalfOpen, error, jobs, frame, events>>

\* on_write with an error, be it ECANCELED, and _continueWrite.
OnWriteError ==
  /\ Loop /\ handle.write > 0 /\ WriteReported
  /\ LET h == WriteDone(handle)
     IN  IF "write" \in pending
         THEN Destroy(state, h, stream)
         ELSE handle' = h /\ UNCHANGED <<state, stream>>
  /\ segments' = 0
  /\ Settle("write")
  /\ UNCHANGED <<allowHalfOpen, error, jobs, frame, events>>

\* on_shutdown and _onfinal, which takes no error.
OnShutdown ==
  /\ Loop /\ handle.shutdown > 0
  /\ handle' = ShutdownDone(handle)
  /\ Settle("final")
  /\ IF "final" \in pending THEN Finish(stream) ELSE UNCHANGED <<stream, events>>
  /\ UNCHANGED <<allowHalfOpen, state, error, segments, jobs, frame>>

\* on_write and on_shutdown once the environment is exiting.
DropRequest ==
  /\ handle.exiting
  /\ \/ handle.write > 0 /\ handle' = WriteDone(handle)
     \/ handle.shutdown > 0 /\ handle' = ShutdownDone(handle)
  /\ UNCHANGED <<allowHalfOpen, state, error, pending, segments, jobs, frame,
                 stream, events>>

\* on_close and _onclose: _continueOpen, then _continueDestroy.
OnClose ==
  /\ Loop
  /\ handle.uv = "closing" /\ NoRequests(handle)
  /\ handle' = UvClosed(handle)
  /\ state' = state \cup {"CLOSED"}
  /\ pending' = pending \ {"open", "destroy"}
  /\ IF "destroy" \in pending
     THEN Close(ContinueOpen(stream))
     ELSE stream' = ContinueOpen(stream) /\ UNCHANGED events
  /\ UNCHANGED <<allowHalfOpen, error, segments, jobs, frame>>

\* on_close once the environment is exiting.
DropClose ==
  /\ handle.exiting
  /\ handle.uv = "closing" /\ NoRequests(handle)
  /\ handle' = UvClosed(handle)
  /\ UNCHANGED <<allowHalfOpen, state, error, pending, segments, jobs, frame,
                 stream, events>>

\* The environment is torn down under the pipe, whatever it was doing.
Teardown ==
  /\ Js
  /\ handle.uv # "closed"
  /\ handle' = OnTeardown(handle)
  /\ UNCHANGED <<allowHalfOpen, state, error, pending, segments, jobs, frame,
                 stream, events>>

Callback ==
  \/ OnConnect \/ OnConnectError \/ EmitConnect \/ DropConnect
  \/ OnReadData \/ OnReadEnd \/ OnReadError
  \/ OnWrite \/ OnWriteError \/ OnShutdown \/ DropRequest
  \/ OnClose \/ DropClose

-----------------------------------------------------------------------------
Next == User \/ Microtask \/ Stream \/ Callback \/ Teardown

Spec == Init /\ [][Next]_vars

(***************************************************************************)
(* Fairness.  Microtasks run, the stream calls _destroy once nothing is    *)
(* pending, and libuv calls back every request of a handle that is closing *)
(* and then its close callback.  None of it is owed by the user or by the  *)
(* peer of the pipe.                                                       *)
(***************************************************************************)
Cancelled == handle.closing /\ (OnWrite \/ OnWriteError \/ OnShutdown)

ClosingFairness ==
  /\ WF_vars(Microtask)
  /\ WF_vars(EmitConnect)
  /\ WF_vars(StreamDestroy)
  /\ WF_vars(Cancelled)
  /\ WF_vars(DropConnect)
  /\ WF_vars(DropRequest)
  /\ WF_vars(OnClose)
  /\ WF_vars(DropClose)

FairSpec == Spec /\ ClosingFairness

\* The peer answers: a connect, a write and a shutdown in flight complete,
\* and the stream reads whenever it has room.
PeerFairness ==
  /\ WF_vars(OnConnect \/ OnConnectError)
  /\ WF_vars(OnWrite \/ OnWriteError)
  /\ WF_vars(OnShutdown)
  /\ WF_vars(StreamRead)

LiveSpec == FairSpec /\ PeerFairness

-----------------------------------------------------------------------------
(* Properties.                                                             *)

(***************************************************************************)
(* Every continuation the pipe holds is owed by something that will settle *)
(* it: the write and final callbacks by the one native request in flight,  *)
(* through splitting, failure and cancellation; the destroy callback by    *)
(* the close in progress; the open callback never outlives the connection  *)
(* or the handle; and CONNECTING never outlives the request or the         *)
(* microtask that answers it (_continue*, _onclose, _failConnect).         *)
(***************************************************************************)
CallbacksOwned ==
  Js =>
    /\ "write" \in pending <=> handle.write = 1
    /\ "final" \in pending <=> handle.shutdown = 1
    /\ "destroy" \in pending => handle.uv = "closing"
    /\ "open" \in pending => ~Is("CONNECTED") /\ ~Is("CLOSED")
    /\ Is("CONNECTING") => handle.connect = 1 \/ "failConnect" \in jobs

(***************************************************************************)
(* The three request structs embedded in bare_pipe_t are never submitted   *)
(* while in flight (binding.c, requests).                                  *)
(***************************************************************************)
OneRequestEach ==
  handle.connect <= 1 /\ handle.write <= 1 /\ handle.shutdown <= 1

(***************************************************************************)
(* uv_close is called at most once, by destroy() and the teardown of the   *)
(* environment together, although the teardown does not set closing.       *)
(***************************************************************************)
ClosedOnce == handle.closes = IF handle.uv = "open" THEN 0 ELSE 1

(***************************************************************************)
(* While the connection is readable the READING bit says exactly whether   *)
(* libuv is reading: _read neither skips a uv_read_start that is needed    *)
(* nor starts a second one (_read, _onread, bare_pipe_resume and _pause).  *)
(***************************************************************************)
ReadingAgrees ==
  (Js /\ Is("CONNECTED") /\ ~Is("CLOSING") /\ ~stream.readEnding)
    => (Is("READING") <=> handle.reading)

(***************************************************************************)
(* When 'close' has been emitted nothing is left: no continuation, no      *)
(* native request, and the handle has closed.                              *)
(***************************************************************************)
NothingAfterClose ==
  stream.closed => pending = {} /\ handle.uv = "closed" /\ NoRequests(handle)

\* No event is emitted twice, and 'close' is the last one.
EventsOnce ==
  \A i, j \in DOMAIN events :
    i < j => events[i] # events[j] /\ events[i] # "close"

(***************************************************************************)
(* A destroyed pipe emits 'close', unless the environment goes first: no   *)
(* order of _predestroy, cancelled requests, _destroy and on_close strands *)
(* the destroy callback.                                                   *)
(***************************************************************************)
DestroyCompletes == stream.destroying ~> (stream.closed \/ ~Js)

\* The teardown of the environment always ends with the handle closed.
TeardownCompletes == ~Js ~> handle.uv = "closed"

(***************************************************************************)
(* A write, an end and a connect are answered when the peer does its part, *)
(* whatever the number of segments and whoever destroys the pipe.          *)
(***************************************************************************)
RequestsSettle ==
  /\ (\E c \in {"write", "final"} : c \in pending)
       ~> (pending \cap {"write", "final"} = {} \/ ~Js)
  /\ Is("CONNECTING") ~> (~Is("CONNECTING") \/ ~Js)

(***************************************************************************)
(* Backpressure is released: once the consumer has made room, libuv reads  *)
(* again, or there is nothing more to read.                                *)
(***************************************************************************)
Drained == Streaming /\ Is("READABLE") /\ ~stream.full /\ ~stream.readEnding

ReadingResumes == Drained ~> (handle.reading \/ ~Drained)

(***************************************************************************)
(* What a step may rely on, and must preserve: the flags, the handle, the  *)
(* requests, the stream and the two halves of reading agree with each      *)
(* other.  Every property above follows from it (module PipeProofs).       *)
(***************************************************************************)
HandleInSync ==
  /\ ClosedOnce
  /\ handle.exiting => handle.uv # "open"
  /\ Js => /\ handle.closing <=> Is("CLOSING")
           /\ handle.uv = "open" <=> ~handle.closing
           /\ handle.uv = "closed" <=> Is("CLOSED")
           /\ Is("CONNECTED") /\ ~Is("CLOSING") => handle.fd

RequestsInSync ==
  /\ OneRequestEach
  /\ handle.uv = "closed" => NoRequests(handle)
  /\ CallbacksOwned
  /\ Js => /\ Is("CLOSING") => ~Is("CONNECTING")
           /\ handle.connect = 1 /\ ~Is("CLOSING")
                => Is("CONNECTING") /\ ~Is("CONNECTED") /\ handle.fd
           /\ "failConnect" \in jobs
                => handle.connect = 0 /\ (Is("CONNECTING") \/ Is("CLOSING"))

StreamInSync ==
  /\ NothingAfterClose
  /\ stream.ended => stream.readEnding
  /\ Js => /\ Is("CLOSING") => stream.destroying
           /\ stream.destroying /\ ~Is("CLOSING") => stream.ended
           /\ "destroy" \in pending => pending = {"destroy"}
           /\ stream.opened /\ ~stream.destroying => Is("CONNECTED")

ReadInSync ==
  /\ ReadingAgrees
  /\ Js /\ ~Is("CONNECTED") /\ ~Is("CLOSING") => ~Is("READING") /\ ~handle.reading
  /\ Js /\ Is("CONNECTED") /\ ~Is("CLOSING") /\ ~stream.readEnding => handle.readable

Consistent == HandleInSync /\ RequestsInSync /\ StreamInSync /\ ReadInSync

\* The readyState getter; isReadable, isWritable and isFinished are bare-stream's.
readyState ==
  LET readable == Is("CONNECTED") /\ Is("READABLE")
                    /\ ~stream.ended /\ ~stream.destroying
      writable == Is("CONNECTED") /\ Is("WRITABLE")
                    /\ ~stream.finished /\ ~stream.destroying
  IN  IF Is("CONNECTING") THEN "opening"
      ELSE CASE readable /\ writable -> "open"
             [] readable /\ ~writable -> "readOnly"
             [] ~readable /\ writable -> "writeOnly"
             [] OTHER -> "closed"

Lifecycle ==
  INSTANCE PipeLifecycle WITH
    stage <- IF stream.closed THEN "closed"
             ELSE IF stream.destroying THEN "destroyed"
             ELSE IF Is("CONNECTED") /\ ~Is("CONNECTING") THEN "connected"
             ELSE "new",
    ready <- readyState

\* The pipe keeps the promises of PipeLifecycle.
ImplementsLifecycle == Lifecycle!Spec

(***************************************************************************)
(* What test.js says: "connect emitted on a destroyed socket" and "connect *)
(* emitted after destroy" must not happen.                                 *)
(***************************************************************************)
NoConnectOnceDestroyed ==
  [][Len(events') > Len(events) /\ events'[Len(events')] = "connect"
       => ~stream.destroying]_vars
=============================================================================
