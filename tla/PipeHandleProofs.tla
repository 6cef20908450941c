-------------------------- MODULE PipeHandleProofs --------------------------
(***************************************************************************)
(* What each operation does to a native handle: it stays one, and which of *)
(* its fields change.  The proofs about Pipe and PipeServer use these      *)
(* lemmas and never expand an operator of PipeHandle.                      *)
(***************************************************************************)
EXTENDS PipeHandle, TLAPS

\* The handles a and b differ at most in the fields of a set.
Same(a, b, changed) ==
  /\ "fd" \notin changed => b.fd = a.fd
  /\ "readable" \notin changed => b.readable = a.readable
  /\ "writable" \notin changed => b.writable = a.writable
  /\ "reading" \notin changed => b.reading = a.reading
  /\ "ref" \notin changed => b.ref = a.ref
  /\ "connect" \notin changed => b.connect = a.connect
  /\ "write" \notin changed => b.write = a.write
  /\ "shutdown" \notin changed => b.shutdown = a.shutdown
  /\ "closing" \notin changed => b.closing = a.closing
  /\ "exiting" \notin changed => b.exiting = a.exiting
  /\ "listening" \notin changed => b.listening = a.listening
  /\ "uv" \notin changed => b.uv = a.uv
  /\ "closes" \notin changed => b.closes = a.closes

(* A new handle is open, idle and referenced. *)
LEMMA InitHandle ==
  /\ BindingInit \in HandleType
  /\ ~BindingInit.closing /\ ~BindingInit.exiting /\ ~BindingInit.listening
  /\ ~BindingInit.fd /\ ~BindingInit.reading /\ BindingInit.ref
  /\ BindingInit.uv = "open" /\ BindingInit.closes = 0
  /\ BindingInit.connect = 0 /\ BindingInit.write = 0 /\ BindingInit.shutdown = 0
  BY DEF BindingInit, HandleType

(* connect() submits the connect request and takes a descriptor. *)
LEMMA ConnectHandle ==
  ASSUME NEW h \in HandleType
  PROVE  /\ BindingConnect(h) \in HandleType
         /\ BindingConnect(h).connect = h.connect + 1
         /\ BindingConnect(h).fd
         /\ Same(h, BindingConnect(h), {"connect", "fd"})
<1>1. ASSUME NEW n \in Nat
      PROVE  [h EXCEPT !.connect = n, !.fd = TRUE] \in HandleType
  BY DEF HandleType
<1>2. h.connect + 1 \in Nat
  BY DEF HandleType
<1>3. BindingConnect(h) \in HandleType
  BY <1>1, <1>2 DEF BindingConnect
<1>4. QED
  BY <1>3 DEF BindingConnect, HandleType, Same

(* open(), an accept and an established connection give it a descriptor. *)
LEMMA StreamOpenHandle ==
  ASSUME NEW h \in HandleType, NEW r \in BOOLEAN, NEW w \in BOOLEAN
  PROVE  /\ UvStreamOpen(h, r, w) \in HandleType
         /\ UvStreamOpen(h, r, w).fd
         /\ UvStreamOpen(h, r, w).readable = r
         /\ UvStreamOpen(h, r, w).writable = w
         /\ Same(h, UvStreamOpen(h, r, w), {"fd", "readable", "writable"})
  BY DEF UvStreamOpen, HandleType, Same

(* A bind that succeeds makes the handle a listener. *)
LEMMA BindHandle ==
  ASSUME NEW h \in HandleType
  PROVE  /\ BindingBind(h) \in HandleType
         /\ BindingBind(h).listening
         /\ Same(h, BindingBind(h), {"fd", "listening"})
  BY DEF BindingBind, HandleType, Same

(* One that fails may leave a descriptor and no listener. *)
LEMMA BindFailedHandle ==
  ASSUME NEW h \in HandleType, NEW bound \in BOOLEAN
  PROVE  /\ BindingBindFailed(h, bound) \in HandleType
         /\ Same(h, BindingBindFailed(h, bound), {"fd"})
  BY DEF BindingBindFailed, HandleType, Same

(* resume() starts reading a readable handle. *)
LEMMA ResumeHandle ==
  ASSUME NEW h \in HandleType
  PROVE  /\ BindingResume(h) \in HandleType
         /\ h.readable => BindingResume(h).reading
         /\ Same(h, BindingResume(h), {"reading"})
  BY DEF BindingResume, HandleType, Same

(* pause() stops reading a readable handle. *)
LEMMA PauseHandle ==
  ASSUME NEW h \in HandleType
  PROVE  /\ BindingPause(h) \in HandleType
         /\ h.readable => ~BindingPause(h).reading
         /\ Same(h, BindingPause(h), {"reading"})
  BY DEF BindingPause, HandleType, Same

(* writev() submits the write request. *)
LEMMA WritevHandle ==
  ASSUME NEW h \in HandleType
  PROVE  /\ BindingWritev(h) \in HandleType
         /\ BindingWritev(h).write = h.write + 1
         /\ Same(h, BindingWritev(h), {"write"})
<1>1. ASSUME NEW n \in Nat
      PROVE  [h EXCEPT !.write = n] \in HandleType
  BY DEF HandleType
<1>2. h.write + 1 \in Nat
  BY DEF HandleType
<1>3. BindingWritev(h) \in HandleType
  BY <1>1, <1>2 DEF BindingWritev
<1>4. QED
  BY <1>3 DEF BindingWritev, HandleType, Same

(* end() submits the shutdown request and ends the writable half. *)
LEMMA EndHandle ==
  ASSUME NEW h \in HandleType
  PROVE  /\ BindingEnd(h) \in HandleType
         /\ BindingEnd(h).shutdown = h.shutdown + 1
         /\ Same(h, BindingEnd(h), {"shutdown", "writable"})
<1>1. ASSUME NEW n \in Nat
      PROVE  [h EXCEPT !.shutdown = n, !.writable = FALSE] \in HandleType
  BY DEF HandleType
<1>2. h.shutdown + 1 \in Nat
  BY DEF HandleType
<1>3. BindingEnd(h) \in HandleType
  BY <1>1, <1>2 DEF BindingEnd
<1>4. QED
  BY <1>3 DEF BindingEnd, HandleType, Same

(* A connect request that was in flight is called back. *)
LEMMA ConnectDoneHandle ==
  ASSUME NEW h \in HandleType, h.connect > 0
  PROVE  /\ ConnectDone(h) \in HandleType
         /\ ConnectDone(h).connect = h.connect - 1
         /\ Same(h, ConnectDone(h), {"connect"})
<1>1. ASSUME NEW n \in Nat
      PROVE  [h EXCEPT !.connect = n] \in HandleType
  BY DEF HandleType
<1>2. h.connect - 1 \in Nat
  BY DEF HandleType
<1>3. ConnectDone(h) \in HandleType
  BY <1>1, <1>2 DEF ConnectDone
<1>4. QED
  BY <1>3 DEF ConnectDone, HandleType, Same

(* A write request that was in flight is called back. *)
LEMMA WriteDoneHandle ==
  ASSUME NEW h \in HandleType, h.write > 0
  PROVE  /\ WriteDone(h) \in HandleType
         /\ WriteDone(h).write = h.write - 1
         /\ Same(h, WriteDone(h), {"write"})
<1>1. ASSUME NEW n \in Nat
      PROVE  [h EXCEPT !.write = n] \in HandleType
  BY DEF HandleType
<1>2. h.write - 1 \in Nat
  BY DEF HandleType
<1>3. WriteDone(h) \in HandleType
  BY <1>1, <1>2 DEF WriteDone
<1>4. QED
  BY <1>3 DEF WriteDone, HandleType, Same

(* A shutdown request that was in flight is called back. *)
LEMMA ShutdownDoneHandle ==
  ASSUME NEW h \in HandleType, h.shutdown > 0
  PROVE  /\ ShutdownDone(h) \in HandleType
         /\ ShutdownDone(h).shutdown = h.shutdown - 1
         /\ Same(h, ShutdownDone(h), {"shutdown"})
<1>1. ASSUME NEW n \in Nat
      PROVE  [h EXCEPT !.shutdown = n] \in HandleType
  BY DEF HandleType
<1>2. h.shutdown - 1 \in Nat
  BY DEF HandleType
<1>3. ShutdownDone(h) \in HandleType
  BY <1>1, <1>2 DEF ShutdownDone
<1>4. QED
  BY <1>3 DEF ShutdownDone, HandleType, Same

(* At the end of the data reading stops. *)
LEMMA ReadEndedHandle ==
  ASSUME NEW h \in HandleType
  PROVE  /\ ReadEnded(h) \in HandleType
         /\ ~ReadEnded(h).reading
         /\ Same(h, ReadEnded(h), {"reading"})
  BY DEF ReadEnded, HandleType, Same

(* After a read error both halves are gone. *)
LEMMA ReadFailedHandle ==
  ASSUME NEW h \in HandleType
  PROVE  /\ ReadFailed(h) \in HandleType
         /\ ~ReadFailed(h).reading
         /\ Same(h, ReadFailed(h), {"reading", "readable", "writable"})
  BY DEF ReadFailed, HandleType, Same

(* uv_close, counted. *)
LEMMA UvCloseHandle ==
  ASSUME NEW h \in HandleType
  PROVE  /\ UvClose(h) \in HandleType
         /\ UvClose(h).uv = "closing"
         /\ UvClose(h).closes = h.closes + 1
         /\ Same(h, UvClose(h), {"uv", "closes", "fd", "readable", "writable", "reading"})
<1>1. ASSUME NEW n \in Nat
      PROVE  [h EXCEPT !.uv = "closing", !.closes = n, !.fd = FALSE,
                     !.readable = FALSE, !.writable = FALSE, !.reading = FALSE] \in HandleType
  BY DEF HandleType
<1>2. h.closes + 1 \in Nat
  BY DEF HandleType
<1>3. UvClose(h) \in HandleType
  BY <1>1, <1>2 DEF UvClose
<1>4. QED
  BY <1>3 DEF UvClose, HandleType, Same

(* close() calls uv_close unless closing is set already. *)
LEMMA CloseHandle ==
  ASSUME NEW h \in HandleType
  PROVE  /\ BindingClose(h) \in HandleType
         /\ h.closing => BindingClose(h) = h
         /\ ~h.closing =>
              /\ BindingClose(h).uv = "closing"
              /\ BindingClose(h).closes = h.closes + 1
         /\ BindingClose(h).closing
         /\ Same(h, BindingClose(h),
                 {"closing", "uv", "closes", "fd", "readable", "writable", "reading"})
<1> DEFINE c == [h EXCEPT !.closing = TRUE]
<1>1. c \in HandleType /\ c.closing /\ Same(h, c, {"closing"})
  BY DEF HandleType, Same
<1>2. /\ UvClose(c) \in HandleType
      /\ UvClose(c).uv = "closing"
      /\ UvClose(c).closes = c.closes + 1
      /\ Same(c, UvClose(c), {"uv", "closes", "fd", "readable", "writable", "reading"})
  BY <1>1, UvCloseHandle
<1>3. CASE h.closing
  BY <1>3 DEF BindingClose, Same
<1>4. CASE ~h.closing
  <2>1. BindingClose(h) = UvClose(c)
    BY <1>4 DEF BindingClose
  <2> HIDE DEF c
  <2> QED
    BY <1>1, <1>2, <1>4, <2>1 DEF Same
<1>5. QED
  BY <1>3, <1>4

(* The teardown sets exiting and calls uv_close unless close() did. *)
LEMMA TeardownHandle ==
  ASSUME NEW h \in HandleType
  PROVE  /\ OnTeardown(h) \in HandleType
         /\ OnTeardown(h).exiting
         /\ h.closing => Same(h, OnTeardown(h), {"exiting"})
         /\ ~h.closing =>
              /\ OnTeardown(h).uv = "closing"
              /\ OnTeardown(h).closes = h.closes + 1
         /\ Same(h, OnTeardown(h),
                 {"exiting", "uv", "closes", "fd", "readable", "writable", "reading"})
<1> DEFINE e == [h EXCEPT !.exiting = TRUE]
<1>1. e \in HandleType /\ e.exiting /\ Same(h, e, {"exiting"})
  BY DEF HandleType, Same
<1>2. /\ UvClose(e) \in HandleType
      /\ UvClose(e).uv = "closing"
      /\ UvClose(e).closes = e.closes + 1
      /\ Same(e, UvClose(e), {"uv", "closes", "fd", "readable", "writable", "reading"})
  BY <1>1, UvCloseHandle
<1>3. OnTeardown(h) = IF e.closing THEN e ELSE UvClose(e)
  BY DEF OnTeardown
<1> HIDE DEF e
<1>4. QED
  BY <1>1, <1>2, <1>3 DEF Same

(* The close callback. *)
LEMMA ClosedHandle ==
  ASSUME NEW h \in HandleType
  PROVE  /\ UvClosed(h) \in HandleType
         /\ UvClosed(h).uv = "closed"
         /\ Same(h, UvClosed(h), {"uv"})
  BY DEF UvClosed, HandleType, Same

(* ref() and unref() change nothing else. *)
LEMMA RefHandle ==
  ASSUME NEW h \in HandleType
  PROVE  /\ BindingRef(h) \in HandleType
         /\ BindingRef(h).ref
         /\ Same(h, BindingRef(h), {"ref"})
  BY DEF BindingRef, HandleType, Same

(* The same of unref(). *)
LEMMA UnrefHandle ==
  ASSUME NEW h \in HandleType
  PROVE  /\ BindingUnref(h) \in HandleType
         /\ ~BindingUnref(h).ref
         /\ Same(h, BindingUnref(h), {"ref"})
  BY DEF BindingUnref, HandleType, Same
=============================================================================
