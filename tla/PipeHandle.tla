----------------------------- MODULE PipeHandle -----------------------------
(***************************************************************************)
(* The native handle behind a Pipe and a Server: the bare_pipe_t of        *)
(* binding.c together with the part of libuv's uv_pipe_t that the binding  *)
(* observes.  The module has no variables; Pipe and PipeServer keep one    *)
(* such record each and change it only through the operators below, one    *)
(* per function of the binding.                                            *)
(*                                                                         *)
(*   fd         the uv_pipe_t owns a descriptor                            *)
(*   readable, writable, reading                                           *)
(*              uv_is_readable, uv_is_writable and "uv_read_start is on"   *)
(*   ref        uv_has_ref                                                 *)
(*   connect, write, shutdown                                              *)
(*              how many times each of the three embedded request structs  *)
(*              is in flight; a struct must not be submitted twice         *)
(*   closing, exiting, listening                                           *)
(*              the flags of bare_pipe_t                                   *)
(*   uv         "open", then "closing" after uv_close, then "closed" once  *)
(*              on_close has run                                           *)
(*   closes     how many times uv_close was called                         *)
(***************************************************************************)
EXTENDS Naturals

HandleType ==
  [fd: BOOLEAN, readable: BOOLEAN, writable: BOOLEAN, reading: BOOLEAN,
   ref: BOOLEAN, connect: Nat, write: Nat, shutdown: Nat,
   closing: BOOLEAN, exiting: BOOLEAN, listening: BOOLEAN,
   uv: {"open", "closing", "closed"}, closes: Nat]

BindingInit ==
  [fd |-> FALSE, readable |-> FALSE, writable |-> FALSE, reading |-> FALSE,
   ref |-> TRUE, connect |-> 0, write |-> 0, shutdown |-> 0,
   closing |-> FALSE, exiting |-> FALSE, listening |-> FALSE,
   uv |-> "open", closes |-> 0]

-----------------------------------------------------------------------------
(* libuv.  Closing stops reading, drops the descriptor and cancels the     *)
(* requests in flight; their callbacks run before the close callback.      *)

UvClose(h) ==
  [h EXCEPT !.uv = "closing", !.closes = @ + 1, !.fd = FALSE,
            !.readable = FALSE, !.writable = FALSE, !.reading = FALSE]

\* The handle takes over a descriptor that can do what r and w say.
UvStreamOpen(h, r, w) == [h EXCEPT !.fd = TRUE, !.readable = r, !.writable = w]

\* A request is called back.
ConnectDone(h) == [h EXCEPT !.connect = @ - 1]

WriteDone(h) == [h EXCEPT !.write = @ - 1]

ShutdownDone(h) == [h EXCEPT !.shutdown = @ - 1]

\* libuv stops reading at the end of the data, and after an error it takes
\* the handle to be neither readable nor writable.
ReadEnded(h) == [h EXCEPT !.reading = FALSE]

ReadFailed(h) ==
  [h EXCEPT !.reading = FALSE, !.readable = FALSE, !.writable = FALSE]

\* Everything submitted has been called back, so on_close may run.
NoRequests(h) == h.connect = 0 /\ h.write = 0 /\ h.shutdown = 0

-----------------------------------------------------------------------------
(* The binding, one operator per function.                                 *)

BindingConnect(h) == [h EXCEPT !.connect = @ + 1, !.fd = TRUE]

BindingOpen(h, r, w) == UvStreamOpen(h, r, w)

\* bare_pipe_bind; one that fails may have bound the descriptor already.
BindingBind(h) == [h EXCEPT !.fd = TRUE, !.listening = TRUE]

BindingBindFailed(h, bound) == [h EXCEPT !.fd = bound]

\* What uv_accept does to the client, a connected socket or pipe.
AcceptedInto(h) == UvStreamOpen(h, TRUE, TRUE)

BindingResume(h) == IF h.readable THEN [h EXCEPT !.reading = TRUE] ELSE h

BindingPause(h) == IF h.readable THEN [h EXCEPT !.reading = FALSE] ELSE h

\* uv_write refuses a handle without a descriptor or a writable half.
CanWrite(h) == h.fd /\ h.writable

BindingWritev(h) == [h EXCEPT !.write = @ + 1]

\* uv_shutdown refuses what uv_write refuses, and ends the writable half.
BindingEnd(h) == [h EXCEPT !.shutdown = @ + 1, !.writable = FALSE]

BindingClose(h) ==
  IF h.closing THEN h ELSE UvClose([h EXCEPT !.closing = TRUE])

BindingRef(h) == [h EXCEPT !.ref = TRUE]

BindingUnref(h) == [h EXCEPT !.ref = FALSE]

\* The teardown callback without its look at closing.
OnTeardownAlways(h) == UvClose([h EXCEPT !.exiting = TRUE])

\* The teardown callback that leaves closing to somebody else.
OnTeardownNever(h) == [h EXCEPT !.exiting = TRUE]

\* bare_pipe__on_teardown leaves closing alone: nothing of JavaScript runs
\* once the handle is exiting, so bare_pipe_close is not called any more.
OnTeardown(h) ==
  LET e == [h EXCEPT !.exiting = TRUE]
  IN  IF e.closing THEN e ELSE UvClose(e)

UvClosed(h) == [h EXCEPT !.uv = "closed"]
=============================================================================
