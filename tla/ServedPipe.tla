----------------------------- MODULE ServedPipe -----------------------------
(***************************************************************************)
(* A Server and, in full, the Pipe of one of the clients it accepts, in    *)
(* one environment: PipeServer joined to Pipe where _onconnection makes,   *)
(* accepts into or destroys the pipe, where the 'close' of the pipe tells  *)
(* the server, and where the environment is torn down under both.  What    *)
(* PipeServer assumes of a connection, that it ends, is here what Pipe     *)
(* does once it is destroyed.                                              *)
(***************************************************************************)
EXTENDS Naturals, Sequences

CONSTANTS Conns, Closers, NoHandle, MaxListens,   \* as in PipeServer
          MaxQueue,                               \* as in Pipe
          Served                                  \* the client of the pipe

VARIABLES
  \* the server
  state, error, handle, jobs, frame, conn, closer, event, listens,
  skipped,
  \* the pipe
  allowHalfOpen, pipeState, pipeError, pending, segments, pipeJobs, pipeFrame,
  pipeHandle, stream, events

S == INSTANCE PipeServer
P == INSTANCE Pipe WITH
       state <- pipeState, error <- pipeError, jobs <- pipeJobs,
       frame <- pipeFrame, handle <- pipeHandle

ASSUME ServedAssumption ==
  /\ Served \in Conns
  /\ MaxListens \in Nat /\ NoHandle \notin S!HandleType
  /\ Closers \cap {"listening", "close"} = {}
  /\ MaxQueue \in Nat \ {0}

serverVars == <<state, error, handle, jobs, frame, conn, closer, event, listens,
                skipped>>
pipeVars == <<allowHalfOpen, pipeState, pipeError, pending, segments, pipeJobs,
              pipeFrame, pipeHandle, stream, events>>
vars == <<serverVars, pipeVars>>

Init == S!Init /\ P!Init

\* The environment is being torn down.
Gone == S!Exiting \/ pipeHandle.exiting

\* The server accepted into the pipe, and its user has it.
Accepted == "CONNECTED" \in pipeState

\* It was made at all.
Made == Accepted \/ stream.destroying

-----------------------------------------------------------------------------
\* _onconnection with a client that is accepted.
OnConnection == ~Gone /\ S!OnConnection(Served) /\ P!OnAccept

\* One that is refused, or that libuv fails to accept: pipe.destroy().
OnConnectionRefused ==
  /\ ~Gone
  /\ S!OnConnectionRejected(Served) \/ S!OnConnectionError(Served)
  /\ P!UserDestroy

\* on_connection with an error comes before there is a pipe.
OnConnectionError == ~Gone /\ S!OnConnectionError(Served) /\ UNCHANGED pipeVars

\* The server's microtasks, callbacks and the rest of its _onclose.
ServerJob == ~Gone /\ S!RunJob /\ UNCHANGED pipeVars

ServerOnClose == ~Gone /\ S!OnClose /\ UNCHANGED pipeVars

ServerAfterError ==
  /\ ~Gone
  /\ S!AfterError \/ S!ErrorThrows
  /\ UNCHANGED pipeVars

\* What else the server does without the pipe.
ServerAlone ==
  /\ ~Gone
  /\ \/ S!User
     \/ \E c \in Conns : S!Arrive(c) \/ S!OnConnectionThrows(c)
     \/ \E c \in Conns \ {Served} :
          \/ S!OnConnection(c) \/ S!OnConnectionRejected(c)
          \/ S!OnConnectionError(c)
  /\ UNCHANGED pipeVars

\* A connection whose pipe is not here.
OtherClosed(c) ==
  /\ ~Gone /\ c # Served
  /\ S!ConnectionClosed(c)
  /\ UNCHANGED pipeVars

Server ==
  \/ OnConnection \/ OnConnectionRefused \/ OnConnectionError
  \/ ServerJob \/ ServerOnClose \/ ServerAfterError \/ ServerAlone
  \/ \E c \in Conns : OtherClosed(c)

-----------------------------------------------------------------------------
\* The pipe runs, and no turn of the loop while the server has a microtask.
Running == ~Gone /\ Made
Looping == Running /\ frame = "none" /\ jobs = <<>>

\* The listener that tells the server forgets the last connection.
TellServerNothing == UNCHANGED serverVars

\* The 'close' listener of _onconnection, if the step emits 'close'.
TellServer ==
  IF stream'.closed /\ ~stream.closed /\ conn[Served] = "open"
  THEN S!ConnectionClosed(Served)
  ELSE UNCHANGED serverVars

\* The user of an accepted pipe; connect() and open() refuse it.
PipeUser ==
  /\ Running /\ Accepted
  /\ P!Write \/ P!End \/ P!Consume \/ P!UserDestroy \/ P!Ref \/ P!Unref
  /\ UNCHANGED serverVars

PipeStream ==
  /\ Running
  /\ \/ P!StreamOpen \/ P!StreamRead \/ P!StreamWritev \/ P!StreamFinal
     \/ frame = "none" /\ P!StreamEnd
  /\ UNCHANGED serverVars

PipeDestroy == Running /\ frame = "none" /\ P!StreamDestroy /\ TellServer

PipeOnClose == Looping /\ P!OnClose /\ TellServer

PipeRequest ==
  /\ Looping
  /\ P!OnWrite \/ P!OnWriteError \/ P!OnShutdown
  /\ UNCHANGED serverVars

PipeOnRead ==
  /\ Looping
  /\ P!OnReadData \/ P!OnReadEnd \/ P!OnReadError
  /\ UNCHANGED serverVars

Connection ==
  \/ PipeUser \/ PipeStream \/ PipeDestroy
  \/ PipeOnClose \/ PipeRequest \/ PipeOnRead

-----------------------------------------------------------------------------
PipeOpen == Made /\ pipeHandle.uv # "closed"

\* The environment is torn down: the callback of every handle there is.
Teardown ==
  /\ ~Gone /\ (S!Live \/ PipeOpen)
  /\ IF S!Live THEN S!Teardown ELSE UNCHANGED serverVars
  /\ IF PipeOpen THEN P!Teardown ELSE UNCHANGED pipeVars

DropServer == S!DropClose /\ UNCHANGED pipeVars

DropPipe == (P!DropRequest \/ P!DropClose) /\ UNCHANGED serverVars

Next == Server \/ Connection \/ Teardown \/ DropServer \/ DropPipe

Spec == Init /\ [][Next]_vars

(***************************************************************************)
(* Fairness: that of PipeServer, but for the end of the served connection; *)
(* and that of a closing Pipe.                                             *)
(***************************************************************************)
FairSpec ==
  /\ Spec
  /\ WF_vars(ServerJob) /\ WF_vars(ServerOnClose) /\ WF_vars(ServerAfterError)
  /\ WF_vars(DropServer)
  /\ WF_vars(PipeDestroy) /\ WF_vars(PipeOnClose)
  /\ WF_vars(pipeHandle.closing /\ PipeRequest)
  /\ WF_vars(DropPipe)
  /\ \A c \in Conns : WF_vars(OtherClosed(c))

-----------------------------------------------------------------------------
(* Properties.                                                             *)

(***************************************************************************)
(* A server is closed only when the pipe it accepted is done with: its     *)
(* native handle has closed and nothing of it is still to be called back;  *)
(* and every pipe that is not is one of its connections (_onconnection,    *)
(* _closeMaybe, _predestroy, _destroy).                                    *)
(***************************************************************************)
ClosedAfterPipes ==
  ~Gone /\ Accepted =>
    /\ S!Is("CLOSED") => pipeHandle.uv = "closed" /\ pending = {}
    /\ pipeHandle.uv # "closed" => Served \in S!Connections

(***************************************************************************)
(* Destroying its connections is enough for a closing server to close:     *)
(* nothing the peers, the pipes or the microtasks do keeps one in its set, *)
(* and only an 'error' listener that throws can keep it open (ErrorThrows  *)
(* of PipeServer).                                                         *)
(***************************************************************************)
DestroyedPipesLetClose ==
  (S!Is("CLOSING") /\ (Served \in S!Connections => stream.destroying))
    ~> (S!Is("CLOSED") \/ skipped \/ Gone)
=============================================================================
