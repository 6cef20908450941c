-------------------------- MODULE ServedPipeProofs --------------------------
(***************************************************************************)
(* Proofs about ServedPipe: the server in it is a PipeServer and the pipe  *)
(* a Pipe, so that what is proved of each holds of the two together; and a *)
(* server is closed only after its pipe.                                   *)
(***************************************************************************)
EXTENDS ServedPipe, TLAPS

SP == INSTANCE PipeServerProofs
PP == INSTANCE PipeProofs WITH
        state <- pipeState, error <- pipeError, jobs <- pipeJobs,
        frame <- pipeFrame, handle <- pipeHandle

-----------------------------------------------------------------------------
(* The modules of the proofs are about the same server and the same pipe.  *)

LEMMA SameServer == S!Spec <=> SP!Spec
BY DEF
      S!vars, SP!vars, S!Init, SP!Init, S!Is, SP!Is, S!Live, SP!Live,
      S!Exiting, SP!Exiting, S!Js, SP!Js, S!Loop, SP!Loop, S!Connections,
      SP!Connections, S!CloseMaybe, SP!CloseMaybe, S!DropBacklog,
      SP!DropBacklog, S!ListenHandle, SP!ListenHandle, S!MayListen,
      SP!MayListen, S!StartBinding, SP!StartBinding, S!Listen, SP!Listen,
      S!CloseClosed, SP!CloseClosed, S!StopListening, SP!StopListening,
      S!CloseOpen, SP!CloseOpen, S!Ref, SP!Ref, S!Unref, SP!Unref, S!User,
      SP!User, S!ListeningEvent, SP!ListeningEvent, S!RunJob, SP!RunJob,
      S!Arrive, SP!Arrive, S!Incoming, SP!Incoming, S!OnConnection,
      SP!OnConnection, S!OnConnectionRejected, SP!OnConnectionRejected,
      S!OnConnectionError, SP!OnConnectionError, S!OnConnectionThrows,
      SP!OnConnectionThrows, S!ConnectionClosed, SP!ConnectionClosed,
      S!FailedBind, SP!FailedBind, S!OnClose, SP!OnClose, S!AfterError,
      SP!AfterError, S!ErrorThrows, SP!ErrorThrows, S!DropClose, SP!DropClose, S!Teardown, SP!Teardown,
      S!Callback, SP!Callback, S!Next, SP!Next, S!Spec, SP!Spec, S!BindingInit,
      SP!BindingInit, S!UvClose, SP!UvClose, S!BindingBind, SP!BindingBind,
      S!BindingBindFailed, SP!BindingBindFailed, S!BindingClose,
      SP!BindingClose, S!BindingRef, SP!BindingRef, S!BindingUnref,
      SP!BindingUnref, S!OnTeardown, SP!OnTeardown, S!UvClosed, SP!UvClosed

LEMMA SamePipe == P!Spec <=> PP!Spec
BY DEF
      P!vars, PP!vars, P!Init, PP!Init, P!NewStream, PP!NewStream, P!Js, PP!Js,
      P!Loop, PP!Loop, P!Streaming, PP!Streaming, P!Is, PP!Is, P!MarkClosing,
      PP!MarkClosing, P!Predestroy, PP!Predestroy, P!Destroy, PP!Destroy,
      P!AutoDestroy, PP!AutoDestroy, P!ContinueOpen, PP!ContinueOpen, P!Settle,
      PP!Settle, P!Finish, PP!Finish, P!Close, PP!Close, P!EndHalves,
      PP!EndHalves, P!HalfFlags, PP!HalfFlags, P!Unused, PP!Unused, P!Connect,
      PP!Connect, P!Adopt, PP!Adopt, P!Open, PP!Open, P!OnSpawn, PP!OnSpawn,
      P!OnAccept, PP!OnAccept, P!Write, PP!Write, P!End, PP!End, P!Consume,
      PP!Consume, P!UserDestroy, PP!UserDestroy, P!Ref, PP!Ref, P!Unref,
      PP!Unref, P!User, PP!User, P!FailOpening, PP!FailOpening,
      P!FailConnectJob, PP!FailConnectJob, P!FailOpenJob, PP!FailOpenJob,
      P!ConnectJob, PP!ConnectJob, P!Microtask, PP!Microtask, P!StreamOpen,
      PP!StreamOpen, P!StreamRead, PP!StreamRead, P!StartWrite, PP!StartWrite,
      P!RefuseWrite, PP!RefuseWrite, P!StreamWritev, PP!StreamWritev,
      P!StreamFinal, PP!StreamFinal, P!StreamEnd, PP!StreamEnd,
      P!ClosedAlready, PP!ClosedAlready, P!StreamDestroy, PP!StreamDestroy,
      P!Stream, PP!Stream, P!OnConnectError, PP!OnConnectError, P!OnConnect,
      PP!OnConnect, P!EmitConnect, PP!EmitConnect, P!DropConnect,
      PP!DropConnect, P!PauseReading, PP!PauseReading, P!OnReadData,
      PP!OnReadData, P!OnReadEnd, PP!OnReadEnd, P!OnReadError, PP!OnReadError,
      P!MoreSegments, PP!MoreSegments, P!NextSegment, PP!NextSegment,
      P!WriteReported, PP!WriteReported, P!OnWrite, PP!OnWrite, P!OnWriteError,
      PP!OnWriteError, P!OnShutdown, PP!OnShutdown, P!DropRequest,
      PP!DropRequest, P!OnClose, PP!OnClose, P!DropClose, PP!DropClose,
      P!Teardown, PP!Teardown, P!Callback, PP!Callback, P!Next, PP!Next,
      P!Spec, PP!Spec, P!BindingInit, PP!BindingInit, P!UvClose, PP!UvClose,
      P!UvStreamOpen, PP!UvStreamOpen, P!ConnectDone, PP!ConnectDone,
      P!WriteDone, PP!WriteDone, P!ShutdownDone, PP!ShutdownDone, P!ReadEnded,
      PP!ReadEnded, P!ReadFailed, PP!ReadFailed, P!NoRequests, PP!NoRequests,
      P!BindingConnect, PP!BindingConnect, P!BindingOpen, PP!BindingOpen,
      P!AcceptedInto, PP!AcceptedInto, P!BindingResume, PP!BindingResume,
      P!BindingPause, PP!BindingPause, P!CanWrite, PP!CanWrite,
      P!BindingWritev, PP!BindingWritev, P!BindingEnd, PP!BindingEnd,
      P!BindingClose, PP!BindingClose, P!BindingRef, PP!BindingRef,
      P!BindingUnref, PP!BindingUnref, P!OnTeardown, PP!OnTeardown, P!UvClosed,
      PP!UvClosed

-----------------------------------------------------------------------------
(***************************************************************************)
(* The server beside a pipe does nothing that a PipeServer does not.       *)
(***************************************************************************)
THEOREM ServesAsServer == Spec => S!Spec
<1>1. Init => S!Init
  BY DEF Init
<1>2. [Next]_vars => [S!Next]_(S!vars)
  <2>1. UNCHANGED serverVars => UNCHANGED S!vars
    BY DEF serverVars, S!vars
  <2>2. Server \/ Connection \/ Teardown \/ DropServer \/ DropPipe \/ UNCHANGED vars
          => UNCHANGED serverVars \/ S!Next
    <3>1. Server => S!Next
      BY ServedAssumption
      DEF Server, OnConnection, OnConnectionRefused, OnConnectionError, ServerJob,
          ServerOnClose, ServerAfterError, ServerAlone, OtherClosed, S!Next, S!Callback
    <3>2. TellServer => UNCHANGED serverVars \/ S!Next
      BY ServedAssumption DEF TellServer, S!Next, S!Callback
    <3>3. Connection => UNCHANGED serverVars \/ S!Next
      BY <3>2
      DEF Connection, PipeUser, PipeStream, PipeDestroy, PipeOnClose, PipeRequest,
          PipeOnRead
    <3>4. Teardown \/ DropServer \/ DropPipe => UNCHANGED serverVars \/ S!Next
      BY DEF Teardown, DropServer, DropPipe, S!Next, S!Callback
    <3>5. QED
      BY <3>1, <3>3, <3>4 DEF vars
  <2>3. QED
    BY <2>1, <2>2 DEF Next
<1>3. QED
  BY <1>1, <1>2, PTL DEF Spec, S!Spec

(***************************************************************************)
(* The pipe that a server accepts into does nothing that a Pipe does not.  *)
(***************************************************************************)
THEOREM RunsAsPipe == Spec => P!Spec
<1>1. Init => P!Init
  BY DEF Init
<1>2. [Next]_vars => [P!Next]_(P!vars)
  <2>1. UNCHANGED pipeVars => UNCHANGED P!vars
    BY DEF pipeVars, P!vars
  <2>2. Server => UNCHANGED pipeVars \/ P!Next
    BY DEF Server, OnConnection, OnConnectionRefused, OnConnectionError, ServerJob,
           ServerOnClose, ServerAfterError, ServerAlone, OtherClosed, P!Next, P!User
  <2>3. Connection => P!Next
    BY DEF Connection, PipeUser, PipeStream, PipeDestroy, PipeOnClose, PipeRequest,
           PipeOnRead, P!Next, P!User, P!Stream, P!Callback
  <2>4. Teardown \/ DropServer \/ DropPipe => UNCHANGED pipeVars \/ P!Next
    BY DEF Teardown, DropServer, DropPipe, P!Next, P!Callback
  <2>5. QED
    BY <2>1, <2>2, <2>3, <2>4 DEF Next, vars
<1>3. QED
  BY <1>1, <1>2, PTL DEF Spec, P!Spec

-----------------------------------------------------------------------------
(* What is proved of each.                                                 *)

LEMMA ServerFacts == Spec => [](S!TypeOK /\ S!HandleGuarded)
<1>1. SP!Spec => []SP!TypeOK
  BY SP!ServerTypeCorrect, ServedAssumption DEF S!HandleType, SP!HandleType
<1>2. SP!Spec => []SP!HandleGuarded
  BY SP!HandleIsGuarded, ServedAssumption DEF S!HandleType, SP!HandleType
<1>3. SP!TypeOK <=> S!TypeOK
  BY DEF S!TypeOK, SP!TypeOK, S!Flags, SP!Flags, S!HandleType, SP!HandleType
<1>4. SP!HandleGuarded <=> S!HandleGuarded
  BY DEF S!HandleGuarded, SP!HandleGuarded, S!Js, SP!Js, S!Exiting, SP!Exiting,
         S!Live, SP!Live, S!Is, SP!Is, S!Connections, SP!Connections
<1>5. QED
  BY <1>1, <1>2, <1>3, <1>4, ServesAsServer, SameServer, PTL

LEMMA PipeFacts == Spec => [](P!TypeOK /\ P!NothingAfterClose)
<1>1. PP!Spec => []PP!TypeOK
  BY PP!TypeCorrect, ServedAssumption
<1>2. PP!Spec => []PP!NothingAfterClose
  BY PP!NothingIsLeftAfterClose, ServedAssumption
<1>3. PP!TypeOK <=> P!TypeOK
  BY DEF P!TypeOK, PP!TypeOK, P!Flags, PP!Flags, P!HandleType, PP!HandleType,
         P!Continuations, PP!Continuations, P!Jobs, PP!Jobs, P!Events, PP!Events,
         P!StreamType, PP!StreamType
<1>4. PP!NothingAfterClose <=> P!NothingAfterClose
  BY DEF P!NothingAfterClose, PP!NothingAfterClose, P!NoRequests, PP!NoRequests
<1>5. QED
  BY <1>1, <1>2, <1>3, <1>4, RunsAsPipe, SamePipe, PTL

-----------------------------------------------------------------------------
(***************************************************************************)
(* What joins the two: a pipe that was accepted and has not emitted        *)
(* 'close' is a connection of the server.                                  *)
(***************************************************************************)
Joined == Accepted /\ ~stream.closed => conn[Served] = "open"

\* A pipe is accepted once, and 'close' is for good.
Stays ==
  /\ "CONNECTED" \in pipeState' => "CONNECTED" \in pipeState
  /\ stream.closed => stream'.closed

LEMMA DestroyStays ==
  ASSUME NEW st, NEW h, NEW s \in P!StreamType, st = pipeState,
         s.closed = stream.closed, P!Destroy(st, h, s)
  PROVE  Stays
<1>1. stream'.closed = s.closed
  BY DEF P!Destroy, P!StreamType
<1>2. "CONNECTED" \in pipeState' => "CONNECTED" \in pipeState
  BY DEF P!Destroy, P!Predestroy, P!MarkClosing
<1>3. QED
  BY <1>1, <1>2 DEF Stays

LEMMA ConnectionStays ==
  ASSUME P!TypeOK, Connection
  PROVE  Stays
<1>1. stream \in P!StreamType
  BY DEF P!TypeOK
<1>2. ASSUME UNCHANGED pipeState, UNCHANGED stream PROVE Stays
  BY <1>2 DEF Stays
<1>3. CASE PipeUser
  <2>1. CASE P!UserDestroy
    BY <1>1, <2>1, DestroyStays DEF P!UserDestroy
  <2>2. CASE P!Write \/ P!End \/ P!Consume \/ P!Ref \/ P!Unref
    BY <1>1, <2>2
    DEF P!Write, P!End, P!Consume, P!Ref, P!Unref, P!StreamType, Stays
  <2>3. QED
    BY <1>3, <2>1, <2>2 DEF PipeUser
<1>4. CASE PipeStream
  <2>1. CASE P!StreamOpen \/ P!StreamRead \/ P!StreamEnd
    BY <1>1, <2>1
    DEF P!StreamOpen, P!StreamRead, P!StreamEnd, P!AutoDestroy, P!StreamType, Stays
  <2>2. CASE P!StreamWritev
    <3>1. CASE P!RefuseWrite
      <4>1. PICK s : s = [stream EXCEPT !.queue = 0]
        OBVIOUS
      <4>2. s \in P!StreamType /\ s.closed = stream.closed
        BY <1>1, <4>1, ServedAssumption DEF P!StreamType
      <4>3. QED
        BY <3>1, <4>1, <4>2, DestroyStays DEF P!RefuseWrite
    <3>2. CASE \E n \in 1..stream.queue : P!StartWrite(n)
      BY <1>1, <3>2 DEF P!StartWrite, P!StreamType, Stays
    <3>3. QED
      BY <2>2, <3>1, <3>2 DEF P!StreamWritev
  <2>3. CASE P!StreamFinal
    BY <1>1, <2>3 DEF P!StreamFinal, P!Finish, P!AutoDestroy, P!StreamType, Stays
  <2>4. QED
    BY <1>4, <2>1, <2>2, <2>3 DEF PipeStream
<1>5. CASE PipeDestroy
  BY <1>1, <1>5
  DEF PipeDestroy, P!StreamDestroy, P!Close, P!Predestroy, P!MarkClosing,
      P!StreamType, Stays
<1>6. CASE PipeOnClose
  BY <1>1, <1>6
  DEF PipeOnClose, P!OnClose, P!Close, P!ContinueOpen, P!StreamType, Stays
<1>7. CASE PipeRequest
  <2>1. CASE P!OnWrite
    <3>1. \/ UNCHANGED <<pipeState, stream>>
          \/ \E h : P!Destroy(pipeState, h, stream)
      BY <2>1 DEF P!OnWrite, P!NextSegment
    <3>2. QED
      BY <1>1, <1>2, <3>1, DestroyStays
  <2>2. CASE P!OnWriteError
    <3>1. \/ UNCHANGED <<pipeState, stream>>
          \/ \E h : P!Destroy(pipeState, h, stream)
      BY <2>2 DEF P!OnWriteError
    <3>2. QED
      BY <1>1, <1>2, <3>1, DestroyStays
  <2>3. CASE P!OnShutdown
    BY <1>1, <2>3 DEF P!OnShutdown, P!Finish, P!AutoDestroy, P!StreamType, Stays
  <2>4. QED
    BY <1>7, <2>1, <2>2, <2>3 DEF PipeRequest
<1>8. CASE PipeOnRead
  <2>1. CASE P!OnReadData
    BY <1>1, <2>1 DEF P!OnReadData, P!PauseReading, P!StreamType, Stays
  <2>2. CASE P!OnReadEnd
    BY <1>1, <2>2 DEF P!OnReadEnd, P!EndHalves, P!StreamType, Stays
  <2>3. CASE P!OnReadError
    BY <1>1, <2>3, DestroyStays DEF P!OnReadError
  <2>4. QED
    BY <1>8, <2>1, <2>2, <2>3 DEF PipeOnRead
<1>9. QED
  BY <1>3, <1>4, <1>5, <1>6, <1>7, <1>8 DEF Connection

\* The server forgets no connection but the one that emitted 'close'.
LEMMA ServerKeepsOpen ==
  ASSUME S!TypeOK, conn[Served] = "open",
         ServerJob \/ ServerOnClose \/ ServerAfterError \/ ServerAlone
           \/ (\E c \in Conns : OtherClosed(c)) \/ Teardown \/ DropServer
  PROVE  conn'[Served] = "open"
<1>1. Served \in Conns /\ DOMAIN conn = Conns
  BY ServedAssumption DEF S!TypeOK
<1>2. S!DropBacklog => conn'[Served] = "open"
  BY <1>1 DEF S!DropBacklog
<1>3. CASE ServerJob \/ ServerOnClose \/ ServerAfterError \/ DropServer
  BY <1>3
  DEF ServerJob, ServerOnClose, ServerAfterError, DropServer, S!RunJob, S!OnClose,
      S!AfterError, S!ErrorThrows, S!DropClose
<1>4. CASE ServerAlone
  <2>1. CASE S!User
    BY <1>2, <2>1
    DEF S!User, S!Listen, S!Ref, S!Unref, S!CloseOpen, S!CloseClosed
  <2>2. ASSUME NEW c \in Conns,
               \/ S!Arrive(c) \/ S!OnConnectionThrows(c)
               \/ S!OnConnection(c) \/ S!OnConnectionRejected(c)
               \/ S!OnConnectionError(c)
        PROVE  conn'[Served] = "open"
    <3>1. conn[c] # "open" /\ \E v : conn' = [conn EXCEPT ![c] = v]
      BY <2>2
      DEF S!Arrive, S!OnConnectionThrows, S!OnConnection, S!OnConnectionRejected,
          S!OnConnectionError, S!Incoming
    <3>2. QED
      BY <1>1, <3>1
  <2>3. QED
    BY <1>4, <2>1, <2>2 DEF ServerAlone
<1>5. CASE \E c \in Conns : OtherClosed(c)
  BY <1>1, <1>5 DEF OtherClosed, S!ConnectionClosed
<1>6. CASE Teardown
  BY <1>2, <1>6 DEF Teardown, S!Teardown, serverVars
<1>7. QED
  BY <1>3, <1>4, <1>5, <1>6

-----------------------------------------------------------------------------
(***************************************************************************)
(* A server is closed only when the pipe it accepted has closed and left   *)
(* nothing, however many other connections there are.                      *)
(***************************************************************************)
THEOREM ClosesAfterPipes == Spec => []ClosedAfterPipes
<1>1. Init => Joined
  BY DEF Init, P!Init, Joined, Accepted
<1>2. Joined /\ S!TypeOK /\ P!TypeOK /\ [Next]_vars => Joined'
  <2>1. SUFFICES ASSUME Joined, S!TypeOK, P!TypeOK, [Next]_vars,
                        Accepted', ~stream'.closed
                 PROVE  conn'[Served] = "open"
    BY DEF Joined
  <2>2. Served \in Conns /\ DOMAIN conn = Conns /\ stream \in P!StreamType
    <3>1. DOMAIN conn = Conns
      BY <2>1 DEF S!TypeOK
    <3>2. stream \in P!StreamType
      BY <2>1 DEF P!TypeOK
    <3>3. QED
      BY <3>1, <3>2, ServedAssumption
  <2>3. Stays => conn[Served] = "open"
    BY <2>1 DEF Stays, Joined, Accepted
  <2>4. CASE OnConnection
    BY <2>2, <2>4 DEF OnConnection, S!OnConnection
  <2>5. CASE OnConnectionRefused
    <3>1. Stays
      BY <2>2, <2>5, DestroyStays DEF OnConnectionRefused, P!UserDestroy
    <3>2. conn[Served] = "backlog"
      BY <2>5
      DEF OnConnectionRefused, S!OnConnectionRejected, S!OnConnectionError, S!Incoming
    <3>3. QED
      BY <2>3, <3>1, <3>2
  <2>6. CASE OnConnectionError
    BY <2>3, <2>6
    DEF OnConnectionError, S!OnConnectionError, S!Incoming, pipeVars, Stays
  <2>7. CASE \/ ServerJob \/ ServerOnClose \/ ServerAfterError \/ ServerAlone
             \/ (\E c \in Conns : OtherClosed(c)) \/ Teardown \/ DropServer
    <3>1. UNCHANGED <<pipeState, stream>>
      BY <2>7
      DEF ServerJob, ServerOnClose, ServerAfterError, ServerAlone, OtherClosed,
          Teardown, DropServer, pipeVars, P!Teardown
    <3>2. QED
      BY <2>1, <2>3, <2>7, <3>1, ServerKeepsOpen DEF Stays
  <2>8. CASE Connection
    <3>1. Stays
      BY <2>1, <2>8, ConnectionStays
    <3>2. TellServer => UNCHANGED conn
      BY <2>1 DEF TellServer, serverVars
    <3>3. UNCHANGED conn
      BY <2>8, <3>2
      DEF Connection, PipeUser, PipeStream, PipeDestroy, PipeOnClose, PipeRequest,
          PipeOnRead, serverVars
    <3>4. QED
      BY <2>3, <3>1, <3>3
  <2>9. CASE DropPipe
    BY <2>3, <2>9 DEF DropPipe, P!DropRequest, P!DropClose, serverVars, Stays
  <2>10. CASE UNCHANGED vars
    BY <2>3, <2>10 DEF vars, serverVars, pipeVars, Stays
  <2>11. QED
    BY <2>1, <2>4, <2>5, <2>6, <2>7, <2>8, <2>9, <2>10 DEF Next, Server
<1>3. Joined /\ S!HandleGuarded /\ P!NothingAfterClose => ClosedAfterPipes
  <2>1. SUFFICES ASSUME Joined, S!HandleGuarded, P!NothingAfterClose, ~Gone, Accepted
                 PROVE  /\ S!Is("CLOSED") => pipeHandle.uv = "closed" /\ pending = {}
                        /\ pipeHandle.uv # "closed" => Served \in S!Connections
    BY DEF ClosedAfterPipes
  <2>2. Served \in S!Connections \/ stream.closed
    BY <2>1, ServedAssumption DEF Joined, S!Connections
  <2>3. S!Is("CLOSED") => S!Connections = {}
    BY <2>1 DEF Gone, S!HandleGuarded, S!Js
  <2>4. stream.closed => pipeHandle.uv = "closed" /\ pending = {}
    BY <2>1 DEF P!NothingAfterClose
  <2>5. QED
    BY <2>2, <2>3, <2>4
<1>4. Spec => []Joined
  BY <1>1, <1>2, ServerFacts, PipeFacts, PTL DEF Spec
<1>5. QED
  BY <1>3, <1>4, ServerFacts, PipeFacts, PTL
=============================================================================
