----------------------------- MODULE PipeServer -----------------------------
(***************************************************************************)
(* The Server of index.js over one native handle per listen(), and the     *)
(* connections it accepts.  A connection is a Pipe of its own (module      *)
(* Pipe); the server sees of it that it was accepted and that it emitted   *)
(* 'close'.                                                                *)
(*                                                                         *)
(* An action is everything one call, microtask or callback does before it  *)
(* returns.  _onclose is split where it emits 'error': the listener may    *)
(* call listen() or close() before _closeMaybe runs, and if it throws, or  *)
(* there is none, _closeMaybe does not run at all; frame is "onclose" in   *)
(* between.  Every other event is the last thing its function does.        *)
(***************************************************************************)
EXTENDS PipeHandle, Sequences

CONSTANTS
  Conns,      \* the clients that connect, each once
  Closers,    \* the callers of close(onclose), each once
  NoHandle,   \* _handle is null
  MaxListens  \* bound: calls of listen() that reach the native handle

ASSUME ServerAssumption ==
  /\ MaxListens \in Nat /\ NoHandle \notin HandleType
  /\ Closers \cap {"listening", "close"} = {}

VARIABLES
  state,    \* _state
  error,    \* _error # null
  handle,   \* _handle
  jobs,     \* microtasks, in order: "listening", "close" or an onclose
  frame,    \* "onclose" while _onclose is above its _closeMaybe
  conn,     \* what became of each client
  closer,   \* what became of each onclose callback
  event,    \* the event the last step emitted, or "none"
  listens,  \* listen() calls so far
  skipped   \* an 'error' listener that threw kept _onclose from closing the server

vars == <<state, error, handle, jobs, frame, conn, closer, event, listens, skipped>>

Flags == {"BINDING", "BOUND", "CLOSING", "CLOSED", "UNREFED"}

TypeOK ==
  /\ state \subseteq Flags
  /\ error \in BOOLEAN
  /\ handle \in HandleType \cup {NoHandle}
  /\ jobs \in Seq({"listening", "close"} \cup Closers)
  /\ frame \in {"none", "onclose"}
  /\ conn \in [Conns -> {"new", "backlog", "parked", "open", "gone"}]
  /\ closer \in [Closers -> {"idle", "once", "queued", "called"}]
  /\ event \in {"none", "listening", "connection", "error", "close"}
  /\ listens \in 0..MaxListens
  /\ skipped \in BOOLEAN

Init ==
  /\ state = {} /\ error = FALSE /\ handle = NoHandle
  /\ jobs = <<>> /\ frame = "none"
  /\ conn = [c \in Conns |-> "new"]
  /\ closer = [c \in Closers |-> "idle"]
  /\ event = "none" /\ listens = 0 /\ skipped = FALSE

-----------------------------------------------------------------------------
Is(flag) == flag \in state

Live == handle # NoHandle

\* The environment is being torn down: no JavaScript runs any more.
Exiting == Live /\ handle.exiting

Js == ~Exiting

Loop == Js /\ frame = "none" /\ jobs = <<>>

\* _connections.
Connections == {c \in Conns : conn[c] = "open"}

\* _closeMaybe that does not wait for the connections.
CloseMaybeEarly(st, h, open) ==
  LET done == "CLOSING" \in st /\ "CLOSED" \notin st /\ h = NoHandle
  IN  /\ state' = IF done THEN (st \ {"CLOSING"}) \cup {"CLOSED"} ELSE st
      /\ jobs' = IF done THEN Append(jobs, "close") ELSE jobs

\* _closeMaybe that does not queue the event.
CloseMaybeSilent(st, h, open) ==
  LET done == /\ "CLOSING" \in st /\ "CLOSED" \notin st
              /\ h = NoHandle /\ open = {}
  IN  /\ state' = IF done THEN (st \ {"CLOSING"}) \cup {"CLOSED"} ELSE st
      /\ UNCHANGED jobs

\* _closeMaybe with flags st, handle h and connections open.
CloseMaybe(st, h, open) ==
  LET done == /\ "CLOSING" \in st /\ "CLOSED" \notin st
              /\ h = NoHandle /\ open = {}
  IN  /\ state' = IF done THEN (st \ {"CLOSING"}) \cup {"CLOSED"} ELSE st
      /\ jobs' = IF done THEN Append(jobs, "close") ELSE jobs

\* The clients the kernel still holds for a listener go with it.
DropBacklog ==
  conn' = [c \in Conns |->
             IF conn[c] \in {"backlog", "parked"} THEN "gone" ELSE conn[c]]

-----------------------------------------------------------------------------
(* The user of the server.                                                 *)

\* A new handle that an earlier unref() does not reach.
ListenHandleRefed == BindingInit

\* The handle listen() creates.
ListenHandle == IF Is("UNREFED") THEN BindingUnref(BindingInit) ELSE BindingInit

\* listen() does not refuse while a failed bind is being cleaned up.
MayListenWhileBinding == ~Is("CLOSING") /\ ~Is("BOUND")

MayListen == ~Is("CLOSING") /\ ~Is("BINDING") /\ ~Is("BOUND")

\* The flag of connect() in place of the one of listen().
StartBindingAsPipe == (state \ {"CLOSED"}) \cup {"CONNECTING"}

\* The flags while the path is being bound, which a failed bind keeps.
StartBinding == (state \ {"CLOSED"}) \cup {"BINDING"}

\* listen(path).
Listen ==
  /\ Js
  /\ MayListen /\ listens < MaxListens
  /\ listens' = listens + 1
  /\ \/ /\ handle' = BindingBind(ListenHandle)
        /\ state' = (StartBinding \ {"BINDING"}) \cup {"BOUND"}
        /\ jobs' = Append(jobs, "listening")
        /\ UNCHANGED error
     \/ /\ \E bound \in BOOLEAN :
             handle' = BindingClose(BindingBindFailed(ListenHandle, bound))
        /\ state' = StartBinding
        /\ error' = TRUE
        /\ UNCHANGED jobs
  /\ event' = "none"
  /\ UNCHANGED <<frame, conn, closer, skipped>>

\* close(onclose) on a server that has closed.
CloseClosed(c) ==
  /\ Js
  /\ Is("CLOSED") /\ closer[c] = "idle"
  /\ closer' = [closer EXCEPT ![c] = "queued"]
  /\ jobs' = Append(jobs, c)
  /\ event' = "none"
  /\ UNCHANGED <<state, error, handle, frame, conn, listens, skipped>>

\* close() that leaves BINDING and BOUND to _onclose.
StopListeningKeepsBound == state \cup {"CLOSING"}

StopListening == (state \ {"BINDING", "BOUND"}) \cup {"CLOSING"}

\* close() and close(onclose) on one that has not.
CloseOpen(callers) ==
  /\ Js
  /\ ~Is("CLOSED") /\ \A c \in callers : closer[c] = "idle"
  /\ closer' = [c \in Closers |-> IF c \in callers THEN "once" ELSE closer[c]]
  /\ CASE Is("CLOSING") -> UNCHANGED <<state, handle, jobs, conn>>
       [] ~Is("CLOSING") /\ Live ->
            /\ state' = StopListening
            /\ handle' = BindingClose(handle)
            /\ DropBacklog
            /\ UNCHANGED jobs
       [] OTHER ->
            CloseMaybe(StopListening, handle, Connections) /\ UNCHANGED <<handle, conn>>
  /\ event' = "none"
  /\ UNCHANGED <<error, frame, listens, skipped>>

Ref ==
  /\ Js
  /\ Is("UNREFED")
  /\ state' = state \ {"UNREFED"}
  /\ handle' = IF Live THEN BindingRef(handle) ELSE handle
  /\ event' = "none"
  /\ UNCHANGED <<error, jobs, frame, conn, closer, listens, skipped>>

Unref ==
  /\ Js
  /\ ~Is("UNREFED")
  /\ state' = state \cup {"UNREFED"}
  /\ handle' = IF Live THEN BindingUnref(handle) ELSE handle
  /\ event' = "none"
  /\ UNCHANGED <<error, jobs, frame, conn, closer, listens, skipped>>

User ==
  \/ Listen \/ Ref \/ Unref
  \/ CloseOpen({})
  \/ \E c \in Closers : CloseClosed(c) \/ CloseOpen({c})

-----------------------------------------------------------------------------
(* Microtasks.                                                             *)

ListeningEvent == IF Is("CLOSING") THEN "none" ELSE "listening"

RunJob ==
  /\ Js /\ frame = "none"
  /\ jobs # <<>>
  /\ jobs' = Tail(jobs)
  /\ CASE Head(jobs) = "listening" ->
            event' = ListeningEvent /\ UNCHANGED closer
       [] Head(jobs) = "close" ->
            /\ event' = "close"
            /\ closer' = [c \in Closers |->
                            IF closer[c] = "once" THEN "called" ELSE closer[c]]
       [] OTHER ->
            event' = "none" /\ closer' = [closer EXCEPT ![Head(jobs)] = "called"]
  /\ UNCHANGED <<state, error, handle, frame, conn, listens, skipped>>

-----------------------------------------------------------------------------
(* The event loop.                                                         *)

\* A client connects to the listener (the kernel, external).
Arrive(c) ==
  /\ Live /\ handle.listening /\ handle.uv = "open"
  /\ conn[c] = "new"
  /\ conn' = [conn EXCEPT ![c] = "backlog"]
  /\ event' = "none"
  /\ UNCHANGED <<state, error, handle, jobs, frame, closer, listens, skipped>>

\* libuv has a client for the listener and none it still waits to hand over.
Incoming(c) ==
  /\ Loop
  /\ Live /\ handle.listening /\ handle.uv = "open" /\ ~handle.closing
  /\ conn[c] = "backlog" /\ \A d \in Conns : conn[d] # "parked"

\* on_connection, _onconnection and the 'connection' event.
OnConnection(c) ==
  /\ Incoming(c)
  /\ conn' = [conn EXCEPT ![c] = "open"]
  /\ event' = "connection"
  /\ UNCHANGED <<state, error, handle, jobs, frame, closer, listens, skipped>>

\* The client is not the owner: dropped without an event.
OnConnectionRejected(c) ==
  /\ Incoming(c)
  /\ conn' = [conn EXCEPT ![c] = "gone"]
  /\ event' = "none"
  /\ UNCHANGED <<state, error, handle, jobs, frame, closer, listens, skipped>>

\* The kernel or uv_accept failed: the client is lost, the server goes on.
OnConnectionError(c) ==
  /\ Incoming(c)
  /\ conn' = [conn EXCEPT ![c] = "gone"]
  /\ event' = "error"
  /\ UNCHANGED <<state, error, handle, jobs, frame, closer, listens, skipped>>

\* new Pipe throws, so that accept is never called and libuv waits for it.
OnConnectionThrows(c) ==
  /\ Incoming(c)
  /\ conn' = [conn EXCEPT ![c] = "parked"]
  /\ event' = "none"
  /\ UNCHANGED <<state, error, handle, jobs, frame, closer, listens, skipped>>

\* The 'close' listener with _closeMaybe before the connection is deleted.
ConnectionClosedLate(c) ==
  /\ Js /\ frame = "none"
  /\ conn[c] = "open"
  /\ conn' = [conn EXCEPT ![c] = "gone"]
  /\ CloseMaybe(state, handle, Connections)
  /\ event' = "none"
  /\ UNCHANGED <<error, handle, frame, closer, listens, skipped>>

\* The 'close' listener _onconnection puts on each connection.
ConnectionClosed(c) ==
  /\ Js /\ frame = "none"
  /\ conn[c] = "open"
  /\ conn' = [conn EXCEPT ![c] = "gone"]
  /\ CloseMaybe(state, handle, Connections \ {c})
  /\ event' = "none"
  /\ UNCHANGED <<error, handle, frame, closer, listens, skipped>>

\* _onclose resets _error before it looks at it.
FailedBindForgotten == FALSE

\* The error _onclose has to report.
FailedBind == error

\* on_close and _onclose, up to the emit when a bind had failed.
OnClose ==
  /\ Loop
  /\ Live /\ handle.uv = "closing"
  /\ handle' = NoHandle
  /\ error' = FALSE
  /\ LET st == state \ {"BINDING", "BOUND"}
     IN  IF FailedBind
         THEN /\ state' = st /\ frame' = "onclose" /\ event' = "error"
              /\ UNCHANGED jobs
         ELSE /\ CloseMaybe(st, NoHandle, Connections)
              /\ event' = "none" /\ UNCHANGED frame
  /\ UNCHANGED <<conn, closer, listens, skipped>>

\* An _onclose that returns once it has emitted 'error', as _onconnection does.
AfterErrorNothing ==
  /\ Js /\ frame = "onclose"
  /\ frame' = "none"
  /\ event' = "none"
  /\ UNCHANGED <<state, error, handle, jobs, conn, closer, listens, skipped>>

\* The rest of _onclose, after the 'error' listener returned.
AfterError ==
  /\ Js /\ frame = "onclose"
  /\ frame' = "none"
  /\ CloseMaybe(state, handle, Connections)
  /\ event' = "none"
  /\ UNCHANGED <<error, handle, conn, closer, listens, skipped>>

\* The 'error' listener throws, or there is none and the emit does: the rest of
\* _onclose is skipped, and with it the close of a server that waits for nothing
\* else.
ErrorThrows ==
  /\ Js /\ frame = "onclose"
  /\ frame' = "none"
  /\ skipped' = (skipped \/ (Is("CLOSING") /\ ~Live /\ Connections = {}))
  /\ event' = "none"
  /\ UNCHANGED <<state, error, handle, jobs, conn, closer, listens>>

\* on_close once the environment is exiting.
DropClose ==
  /\ Exiting /\ handle.uv = "closing"
  /\ handle' = UvClosed(handle)
  /\ event' = "none"
  /\ UNCHANGED <<state, error, jobs, frame, conn, closer, listens, skipped>>

\* The environment is torn down under the server.
Teardown ==
  /\ Js /\ Live
  /\ handle' = OnTeardown(handle)
  /\ DropBacklog
  /\ event' = "none"
  /\ UNCHANGED <<state, error, jobs, frame, closer, listens, skipped>>

Callback ==
  \/ OnClose \/ AfterError \/ ErrorThrows \/ DropClose
  \/ \E c \in Conns :
       \/ Arrive(c)
       \/ OnConnection(c) \/ OnConnectionRejected(c)
       \/ OnConnectionError(c) \/ OnConnectionThrows(c)
       \/ ConnectionClosed(c)

-----------------------------------------------------------------------------
Next == User \/ RunJob \/ Callback \/ Teardown

Spec == Init /\ [][Next]_vars

(***************************************************************************)
(* Fairness.  Microtasks run, the 'error' listener returns or throws,      *)
(* libuv closes a handle it was asked to close; and, for a server to       *)
(* close, its connections end, which is up to the user and the peers.      *)
(***************************************************************************)
FairSpec ==
  /\ Spec
  /\ WF_vars(RunJob)
  /\ WF_vars(AfterError \/ ErrorThrows)
  /\ WF_vars(OnClose)
  /\ WF_vars(DropClose)
  /\ \A c \in Conns : WF_vars(ConnectionClosed(c))

-----------------------------------------------------------------------------
(* Properties.                                                             *)

(***************************************************************************)
(* The flags own the handle: while there is one, some flag makes listen()  *)
(* refuse, so none is ever overwritten and leaked; and a server that is    *)
(* listening has a native listener that nobody is closing.                 *)
(***************************************************************************)
HandleGuarded ==
  Js => /\ Live => Is("BINDING") \/ Is("BOUND") \/ Is("CLOSING")
        /\ Is("BOUND") => Live /\ handle.listening /\ ~handle.closing
        /\ Is("CLOSED") => ~Live /\ Connections = {}

\* ref() and unref() outlive the handle they were called on: every handle the
\* server listens with is referenced exactly when UNREFED is clear.
RefAgrees == Live => (handle.ref <=> ~Is("UNREFED"))

\* 'listening' is only ever emitted for a server that is.
ListeningMeansBound == event = "listening" => Is("BOUND")

(***************************************************************************)
(* An onclose callback that is waiting has somebody to call it: the close  *)
(* in progress, or a microtask that is queued already.                     *)
(***************************************************************************)
ClosersOwed ==
  \A c \in Closers :
    /\ closer[c] = "once" =>
         Is("CLOSING") \/ \E i \in DOMAIN jobs : jobs[i] = "close"
    /\ closer[c] = "queued" => \E i \in DOMAIN jobs : jobs[i] = c

\* A failed bind is reported by the handle that failed, before the server is
\* closed and before another handle takes its place.
FailureOwned == error => Live /\ handle.closing /\ ~Is("BOUND") /\ ~Is("CLOSED")

(***************************************************************************)
(* A server that is closing has something left that will close it: its     *)
(* handle, a connection, or an _onclose that is under way.  The one way to *)
(* be left with nothing is an 'error' listener that threw (CloseEmitted).  *)
(***************************************************************************)
CloseAwaited ==
  Is("CLOSING") => Live \/ Connections # {} \/ frame = "onclose" \/ skipped

\* A server that is closing is closed once its connections have ended, unless
\* an 'error' listener that threw kept _onclose from doing so.
CloseCompletes == Is("CLOSING") ~> (Is("CLOSED") \/ skipped \/ ~Js)

\* Every onclose callback is called: at once on a server that had closed, and
\* otherwise by the close it waits for, if that is not skipped.
ClosersCalled ==
  \A c \in Closers :
    /\ closer[c] = "queued" ~> (closer[c] = "called" \/ ~Js)
    /\ closer[c] = "once" ~> (closer[c] = "called" \/ skipped \/ ~Js)

\* A failed bind is reported, and the server can listen again or be closed.
FailureReported ==
  error ~> ((event = "error" /\ ~Is("BINDING")) \/ ~Js)

\* The phase of ServerLifecycle that the flags stand for.
Phase ==
  IF Is("CLOSED") THEN "closed"
  ELSE IF Is("CLOSING") THEN "closing"
  ELSE IF Is("BOUND") THEN "listening"
  ELSE IF Is("BINDING") THEN "failing"
  ELSE "idle"

Lifecycle ==
  INSTANCE ServerLifecycle WITH phase <- Phase, connections <- Connections

\* The server keeps the promises of ServerLifecycle.
ImplementsLifecycle == Lifecycle!Spec

(***************************************************************************)
(* What index.d.ts says of 'close': "Emitted once the server has closed    *)
(* and all existing connections have ended".                               *)
(***************************************************************************)
CloseMeansClosed == event = "close" => Is("CLOSED") /\ ~Live /\ Connections = {}

(***************************************************************************)
(* What index.d.ts says of close(): "The server emits `close` after all    *)
(* existing connections have ended".                                       *)
(***************************************************************************)
CloseEmitted == (Is("CLOSING") /\ Connections = {}) ~> (event = "close" \/ ~Js)
=============================================================================
