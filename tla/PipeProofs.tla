----------------------------- MODULE PipeProofs -----------------------------
(***************************************************************************)
(* Proofs about Pipe, for every bound MaxQueue.                            *)
(***************************************************************************)
EXTENDS Pipe, PipeHandleProofs

-----------------------------------------------------------------------------
(* What the shared steps of Pipe do to a stream.                           *)

(* The streams a and b differ at most in the fields of a set. *)
SameStream(a, b, changed) ==
  /\ "opening" \notin changed => b.opening = a.opening
  /\ "opened" \notin changed => b.opened = a.opened
  /\ "queue" \notin changed => b.queue = a.queue
  /\ "ending" \notin changed => b.ending = a.ending
  /\ "finished" \notin changed => b.finished = a.finished
  /\ "readEnding" \notin changed => b.readEnding = a.readEnding
  /\ "ended" \notin changed => b.ended = a.ended
  /\ "full" \notin changed => b.full = a.full
  /\ "destroying" \notin changed => b.destroying = a.destroying
  /\ "closed" \notin changed => b.closed = a.closed

(* AutoDestroy destroys a stream whose halves are both done, and no other. *)
LEMMA AutoDestroyStream ==
  ASSUME NEW s \in StreamType
  PROVE  /\ AutoDestroy(s) \in StreamType
         /\ AutoDestroy(s).destroying <=> (s.destroying \/ (s.ended /\ s.finished))
         /\ SameStream(s, AutoDestroy(s), {"destroying"})
<1>1. ASSUME NEW b \in BOOLEAN
      PROVE  /\ [s EXCEPT !.destroying = b] \in StreamType
             /\ [s EXCEPT !.destroying = b].destroying = b
             /\ SameStream(s, [s EXCEPT !.destroying = b], {"destroying"})
  BY DEF StreamType, SameStream
<1>2. (s.destroying \/ (s.ended /\ s.finished)) \in BOOLEAN
  BY DEF StreamType
<1>3. QED
  BY <1>1, <1>2 DEF AutoDestroy

(* EndHalves ends the halves that the flags do not name. *)
LEMMA EndHalvesStream ==
  ASSUME NEW s \in StreamType, NEW r \in BOOLEAN, NEW w \in BOOLEAN
  PROVE  /\ EndHalves(s, r, w) \in StreamType
         /\ EndHalves(s, r, w).readEnding <=> (s.readEnding \/ ~r)
         /\ SameStream(s, EndHalves(s, r, w), {"readEnding", "ending"})
<1>1. ASSUME NEW a \in BOOLEAN, NEW b \in BOOLEAN
      PROVE  /\ [s EXCEPT !.readEnding = a, !.ending = b] \in StreamType
             /\ [s EXCEPT !.readEnding = a, !.ending = b].readEnding = a
             /\ SameStream(s, [s EXCEPT !.readEnding = a, !.ending = b],
                           {"readEnding", "ending"})
  BY DEF StreamType, SameStream
<1>2. (s.readEnding \/ ~r) \in BOOLEAN /\ (s.ending \/ ~w) \in BOOLEAN
  BY DEF StreamType
<1>3. QED
  BY <1>1, <1>2 DEF EndHalves

(* ContinueOpen opens a stream that waits for it and is not destroyed. *)
LEMMA ContinueOpenStream ==
  ASSUME NEW s \in StreamType
  PROVE  /\ ContinueOpen(s) \in StreamType
         /\ s.destroying => ContinueOpen(s) = s
         /\ ContinueOpen(s).opened => s.opened \/ "open" \in pending
         /\ SameStream(s, ContinueOpen(s), {"opened"})
<1>1. /\ [s EXCEPT !.opened = TRUE] \in StreamType
      /\ SameStream(s, [s EXCEPT !.opened = TRUE], {"opened"})
  BY DEF StreamType, SameStream
<1>2. CASE "open" \in pending /\ ~s.destroying
  BY <1>1, <1>2 DEF ContinueOpen
<1>3. CASE ~("open" \in pending /\ ~s.destroying)
  BY <1>3 DEF ContinueOpen, SameStream
<1>4. QED
  BY <1>2, <1>3

(* Destroy marks the stream, and closes the handle unless somebody did. *)
LEMMA DestroyStep ==
  ASSUME NEW st \in SUBSET Flags, NEW h \in HandleType, NEW s \in StreamType,
         Destroy(st, h, s)
  PROVE  /\ state' \in SUBSET Flags /\ handle' \in HandleType
         /\ stream' \in StreamType
         /\ stream'.destroying /\ SameStream(s, stream', {"destroying"})
         /\ s.destroying \/ "CLOSING" \in st => state' = st /\ handle' = h
         /\ ~s.destroying /\ "CLOSING" \notin st =>
              state' = MarkClosing(st) /\ handle' = BindingClose(h)
<1>1. /\ stream' \in StreamType
      /\ stream'.destroying /\ SameStream(s, stream', {"destroying"})
  BY DEF Destroy, StreamType, SameStream
<1>2. BindingClose(h) \in HandleType
  BY CloseHandle
<1>3. MarkClosing(st) \in SUBSET Flags
  BY DEF MarkClosing, Flags
<1>4. QED
  BY <1>1, <1>2, <1>3 DEF Destroy, Predestroy

(* Close emits 'close' and changes nothing else of the stream. *)
LEMMA CloseStep ==
  ASSUME NEW s \in StreamType, events \in Seq(Events), Close(s)
  PROVE  /\ stream' \in StreamType /\ events' \in Seq(Events)
         /\ stream'.closed /\ SameStream(s, stream', {"closed"})
<1>1. "close" \in Events
  BY DEF Events
<1>2. events' \in Seq(Events)
  BY <1>1 DEF Close
<1>3. QED
  BY <1>2 DEF Close, StreamType, SameStream

(* Finish emits 'finish' for a stream that is not destroyed. *)
LEMMA FinishStep ==
  ASSUME NEW s \in StreamType, events \in Seq(Events), Finish(s)
  PROVE  /\ stream' \in StreamType /\ events' \in Seq(Events)
         /\ SameStream(s, stream', {"finished", "destroying"})
         /\ s.destroying => stream'.destroying
         /\ stream'.destroying /\ ~s.destroying => s.ended
<1> DEFINE f == [s EXCEPT !.finished = TRUE]
<1>1. f \in StreamType /\ SameStream(s, f, {"finished"})
  BY DEF StreamType, SameStream
<1>2. "finish" \in Events
  BY DEF Events
<1>3. CASE s.destroying
  BY <1>3 DEF Finish, SameStream
<1>4. CASE ~s.destroying
  <2>1. stream' = AutoDestroy(f) /\ events' = Append(events, "finish")
    BY <1>4 DEF Finish
  <2>2. /\ AutoDestroy(f) \in StreamType
        /\ AutoDestroy(f).destroying <=> (f.destroying \/ (f.ended /\ f.finished))
        /\ SameStream(f, AutoDestroy(f), {"destroying"})
    BY <1>1, AutoDestroyStream
  <2>3. events' \in Seq(Events)
    BY <2>1, <1>2
  <2> HIDE DEF f
  <2>4. QED
    BY <1>1, <1>4, <2>1, <2>2, <2>3 DEF SameStream
<1>5. QED
  BY <1>3, <1>4

(* Adopt connects the pipe to a descriptor. *)
LEMMA AdoptStep ==
  ASSUME TypeOK, NEW r \in BOOLEAN, NEW w \in BOOLEAN, Adopt(r, w)
  PROVE  /\ state' \in SUBSET Flags /\ "CONNECTED" \in state'
         /\ \A f \in Flags \ {"CONNECTED", "READABLE", "WRITABLE"} :
              f \in state' <=> f \in state
         /\ handle' \in HandleType
         /\ handle'.fd /\ handle'.readable = r
         /\ Same(handle, handle', {"fd", "readable", "writable"})
         /\ stream' \in StreamType
         /\ stream'.readEnding <=> (stream.readEnding \/ ~r)
         /\ SameStream(stream, stream', {"opened", "readEnding", "ending"})
         /\ pending' = pending \ {"open"}
<1>1. /\ handle' \in HandleType
      /\ handle'.fd /\ handle'.readable = r
      /\ Same(handle, handle', {"fd", "readable", "writable"})
  BY StreamOpenHandle DEF TypeOK, Adopt, BindingOpen
<1>2. /\ EndHalves(stream, r, w) \in StreamType
      /\ EndHalves(stream, r, w).readEnding <=> (stream.readEnding \/ ~r)
      /\ SameStream(stream, EndHalves(stream, r, w), {"readEnding", "ending"})
  BY EndHalvesStream DEF TypeOK
<1>3. /\ stream' \in StreamType
      /\ SameStream(EndHalves(stream, r, w), stream', {"opened"})
  BY <1>2, ContinueOpenStream DEF Adopt
<1>4. state' = state \cup {"CONNECTED"} \cup HalfFlags(r, w)
  BY DEF Adopt
<1>5. /\ state' \in SUBSET Flags /\ "CONNECTED" \in state'
      /\ \A f \in Flags \ {"CONNECTED", "READABLE", "WRITABLE"} :
           f \in state' <=> f \in state
  BY <1>4 DEF TypeOK, HalfFlags, Flags
<1>6. QED
  BY <1>1, <1>2, <1>3, <1>5 DEF SameStream, Adopt, Settle

-----------------------------------------------------------------------------
(* Every variable keeps its type: the flags, continuations and microtasks  *)
(* are those of the code, the handle stays a handle, and no count goes     *)
(* below zero.                                                             *)
THEOREM TypeCorrect == Spec => []TypeOK
<1>1. Init => TypeOK
  <2>1. Init => stream \in StreamType /\ segments \in 0..MaxQueue
    BY MaxQueueAssumption DEF Init, NewStream, StreamType
  <2>2. Init => handle \in HandleType
    BY InitHandle DEF Init
  <2>3. Init => events \in Seq(Events)
    BY DEF Init
  <2>4. QED
    BY <2>1, <2>2, <2>3 DEF Init, TypeOK
<1>2. ASSUME TypeOK, [Next]_vars
      PROVE  TypeOK'
  <2> USE <1>2, MaxQueueAssumption
  <2>1. /\ handle \in HandleType /\ stream \in StreamType
        /\ state \in SUBSET Flags /\ events \in Seq(Events)
    BY DEF TypeOK
  <2>2. CASE Connect
    BY <2>1, <2>2, ConnectHandle DEF TypeOK, Connect, Flags, Jobs
  <2>3. CASE Open
    <3>1. ASSUME NEW r \in BOOLEAN, NEW w \in BOOLEAN, Adopt(r, w)
          PROVE  /\ state' \in SUBSET Flags /\ handle' \in HandleType
                 /\ stream' \in StreamType /\ pending' \subseteq pending
      BY <3>1, AdoptStep
    <3>2. QED
      BY <2>3, <3>1 DEF TypeOK, Open, Jobs
  <2>4. CASE OnSpawn
    <3>1. ASSUME NEW r \in BOOLEAN, NEW w \in BOOLEAN, Adopt(r, w)
          PROVE  /\ state' \in SUBSET Flags /\ handle' \in HandleType
                 /\ stream' \in StreamType /\ pending' \subseteq pending
      BY <3>1, AdoptStep
    <3>2. QED
      BY <2>4, <3>1 DEF TypeOK, OnSpawn
  <2>5. CASE OnAccept
    BY <2>1, <2>5, StreamOpenHandle, ContinueOpenStream
       DEF TypeOK, OnAccept, AcceptedInto, Settle, Flags
  <2>6. CASE Write
    <3>1. stream.queue + 1 \in 0..MaxQueue
      BY <2>1, <2>6 DEF Write, StreamType
    <3>2. ASSUME NEW n \in 0..MaxQueue
          PROVE  [stream EXCEPT !.queue = n] \in StreamType
      BY <2>1 DEF StreamType
    <3>3. QED
      BY <2>6, <3>1, <3>2 DEF TypeOK, Write
  <2>7. CASE End \/ Consume
    BY <2>1, <2>7 DEF TypeOK, End, Consume, StreamType
  <2>8. CASE UserDestroy
    BY <2>1, <2>8, DestroyStep DEF TypeOK, UserDestroy
  <2>9. CASE Ref \/ Unref
    BY <2>1, <2>9, RefHandle, UnrefHandle DEF TypeOK, Ref, Unref, Flags
  <2>10. CASE FailConnectJob
    <3>1. state \ {"CONNECTING"} \in SUBSET Flags
      BY <2>1
    <3>2. ASSUME Destroy(state \ {"CONNECTING"}, handle, stream)
          PROVE  /\ state' \in SUBSET Flags /\ handle' \in HandleType
                 /\ stream' \in StreamType
      BY <2>1, <3>1, <3>2, DestroyStep
    <3>3. QED
      BY <2>10, <3>2 DEF TypeOK, FailConnectJob, FailOpening, Settle
  <2>11. CASE FailOpenJob
    BY <2>1, <2>11, DestroyStep DEF TypeOK, FailOpenJob, FailOpening, Settle
  <2>12. CASE ConnectJob
    <3>1. Append(events, "connect") \in Seq(Events)
      BY <2>1 DEF Events
    <3>2. QED
      BY <2>12, <3>1 DEF TypeOK, ConnectJob
  <2>13. CASE StreamOpen
    BY <2>1, <2>13 DEF TypeOK, StreamOpen, StreamType, Continuations
  <2>14. CASE StreamRead
    BY <2>1, <2>14, ResumeHandle DEF TypeOK, StreamRead, Flags
  <2>15. CASE StreamWritev
    <3>1. [stream EXCEPT !.queue = 0] \in StreamType
      BY <2>1 DEF StreamType
    <3>2. stream.queue \in 0..MaxQueue
      BY <2>1 DEF StreamType
    <3>3. ASSUME NEW n \in 1..stream.queue, StartWrite(n)
          PROVE  TypeOK'
      <4>1. n \in 0..MaxQueue
        BY <3>2
      <4>2. handle' \in HandleType
        BY <2>1, <3>3, WritevHandle DEF StartWrite
      <4>3. QED
        BY <2>15, <3>1, <3>3, <4>1, <4>2
           DEF TypeOK, StreamWritev, StartWrite, Continuations
    <3>4. CASE RefuseWrite
      BY <2>1, <2>15, <3>1, <3>4, DestroyStep DEF TypeOK, StreamWritev, RefuseWrite
    <3>5. QED
      BY <2>15, <3>3, <3>4 DEF StreamWritev
  <2>16. CASE StreamFinal
    <3>1. CASE Finish(stream) /\ UNCHANGED <<pending, handle>>
      BY <2>1, <2>16, <3>1, FinishStep DEF TypeOK, StreamFinal
    <3>2. CASE /\ pending' = pending \cup {"final"}
               /\ handle' = BindingEnd(handle)
               /\ UNCHANGED <<stream, events>>
      BY <2>1, <2>16, <3>2, EndHandle DEF TypeOK, StreamFinal, Continuations
    <3>3. QED
      BY <2>16, <3>1, <3>2 DEF StreamFinal
  <2>17. CASE StreamEnd
    <3>1. [stream EXCEPT !.ended = TRUE] \in StreamType
      BY <2>1 DEF StreamType
    <3>2. Append(events, "end") \in Seq(Events)
      BY <2>1 DEF Events
    <3>3. QED
      BY <2>17, <3>1, <3>2, AutoDestroyStream DEF TypeOK, StreamEnd
  <2>18. CASE StreamDestroy
    <3>1. ASSUME Close(stream)
          PROVE  stream' \in StreamType /\ events' \in Seq(Events)
      BY <2>1, <3>1, CloseStep
    <3>2. BindingClose(handle) \in HandleType /\ MarkClosing(state) \in SUBSET Flags
      BY <2>1, CloseHandle DEF MarkClosing, Flags
    <3>3. QED
      BY <2>18, <3>1, <3>2 DEF TypeOK, StreamDestroy, Predestroy, Continuations
  <2>19. CASE OnConnectError
    <3>1. ConnectDone(handle) \in HandleType
      BY <2>1, <2>19, ConnectDoneHandle DEF OnConnectError
    <3>2. state \ {"CONNECTING"} \in SUBSET Flags
      BY <2>1
    <3>3. QED
      BY <2>1, <2>19, <3>1, <3>2, DestroyStep DEF TypeOK, OnConnectError, Settle
  <2>20. CASE OnConnect
    <3>1. ConnectDone(handle) \in HandleType
      BY <2>1, <2>20, ConnectDoneHandle DEF OnConnect
    <3>2. Append(events, "connect") \in Seq(Events)
      BY <2>1 DEF Events
    <3>3. handle' \in HandleType
      BY <2>20, <3>1, StreamOpenHandle DEF OnConnect
    <3>4. QED
      BY <2>1, <2>20, <3>2, <3>3, ContinueOpenStream
         DEF TypeOK, OnConnect, Settle, Flags
  <2>21. CASE EmitConnect
    <3>1. Append(events, "connect") \in Seq(Events)
      BY <2>1 DEF Events
    <3>2. QED
      BY <2>21, <3>1 DEF TypeOK, EmitConnect
  <2>22. CASE DropConnect
    BY <2>1, <2>22, ConnectDoneHandle DEF TypeOK, DropConnect
  <2>23. CASE OnReadData
    <3>1. [stream EXCEPT !.full = TRUE] \in StreamType
      BY <2>1 DEF StreamType
    <3>2. QED
      BY <2>1, <2>23, <3>1, PauseHandle DEF TypeOK, OnReadData, PauseReading
  <2>24. CASE OnReadEnd
    BY <2>1, <2>24, ReadEndedHandle, EndHalvesStream DEF TypeOK, OnReadEnd
  <2>25. CASE OnReadError
    BY <2>1, <2>25, ReadFailedHandle, DestroyStep DEF TypeOK, OnReadError
  <2>26. CASE OnWrite
    <3>1. WriteDone(handle) \in HandleType
      BY <2>1, <2>26, WriteDoneHandle DEF OnWrite
    <3>2. CASE "write" \in pending /\ MoreSegments
      <4>1. segments - 1 \in 0..MaxQueue
        BY <3>2 DEF TypeOK, MoreSegments
      <4>2. NextSegment(WriteDone(handle))
        BY <2>26, <3>2 DEF OnWrite
      <4>3. ASSUME Destroy(state, WriteDone(handle), stream)
            PROVE  /\ state' \in SUBSET Flags /\ handle' \in HandleType
                   /\ stream' \in StreamType
        BY <2>1, <3>1, <4>3, DestroyStep
      <4>4. BindingWritev(WriteDone(handle)) \in HandleType
        BY <3>1, WritevHandle
      <4>5. QED
        BY <2>26, <4>1, <4>2, <4>3, <4>4 DEF TypeOK, OnWrite, NextSegment, Settle
    <3>3. CASE ~("write" \in pending /\ MoreSegments)
      BY <2>26, <3>1, <3>3 DEF TypeOK, OnWrite, Settle
    <3>4. QED
      BY <3>2, <3>3
  <2>27. CASE OnWriteError
    <3>1. WriteDone(handle) \in HandleType
      BY <2>1, <2>27, WriteDoneHandle DEF OnWriteError
    <3>2. ASSUME Destroy(state, WriteDone(handle), stream)
          PROVE  /\ state' \in SUBSET Flags /\ handle' \in HandleType
                 /\ stream' \in StreamType
      BY <2>1, <3>1, <3>2, DestroyStep
    <3>3. QED
      BY <2>27, <3>1, <3>2 DEF TypeOK, OnWriteError, Settle
  <2>28. CASE OnShutdown
    BY <2>1, <2>28, ShutdownDoneHandle, FinishStep DEF TypeOK, OnShutdown, Settle
  <2>29. CASE DropRequest
    BY <2>1, <2>29, WriteDoneHandle, ShutdownDoneHandle DEF TypeOK, DropRequest
  <2>30. CASE OnClose
    <3>1. ASSUME NEW s \in StreamType, Close(s)
          PROVE  stream' \in StreamType /\ events' \in Seq(Events)
      BY <2>1, <3>1, CloseStep
    <3>2. ContinueOpen(stream) \in StreamType
      BY <2>1, ContinueOpenStream
    <3>3. UvClosed(handle) \in HandleType
      BY <2>1, ClosedHandle
    <3>4. QED
      BY <2>30, <3>1, <3>2, <3>3 DEF TypeOK, OnClose, Flags
  <2>31. CASE DropClose
    BY <2>1, <2>31, ClosedHandle DEF TypeOK, DropClose
  <2>32. CASE Teardown
    BY <2>1, <2>32, TeardownHandle DEF TypeOK, Teardown
  <2>33. CASE UNCHANGED vars
    BY <2>33 DEF TypeOK, vars
  <2>34. QED
    BY <2>2, <2>3, <2>4, <2>5, <2>6, <2>7, <2>8, <2>9, <2>10, <2>11, <2>12,
       <2>13, <2>14, <2>15, <2>16, <2>17, <2>18, <2>19, <2>20, <2>21, <2>22,
       <2>23, <2>24, <2>25, <2>26, <2>27, <2>28, <2>29, <2>30, <2>31, <2>32, <2>33
       DEF Next, User, Microtask, Stream, Callback
<1>3. QED
  BY <1>1, <1>2, PTL DEF Spec

-----------------------------------------------------------------------------
(* The flags, the native handle, its requests, the continuations and the  *)
(* stream agree with each other in every reachable state.  The four parts *)
(* of Consistent are proved together: a callback may rely on a flag only   *)
(* because the handle agrees with it, and the handle is closed only once   *)
(* because the stream and the flags agree on who destroyed the pipe.       *)
THEOREM Consistency == Spec => []Consistent
<1>1. Init => Consistent
  BY InitHandle
     DEF Init, NewStream, Consistent, HandleInSync, RequestsInSync, StreamInSync,
         ReadInSync, ClosedOnce, OneRequestEach, CallbacksOwned, NothingAfterClose,
         ReadingAgrees, NoRequests, Is, Js
<1>2. ASSUME TypeOK, Consistent, [Next]_vars
      PROVE  Consistent'
  <2> USE <1>2 DEF Consistent, HandleInSync, RequestsInSync, StreamInSync, ReadInSync,
            ClosedOnce, OneRequestEach, CallbacksOwned, NothingAfterClose,
            ReadingAgrees, NoRequests, Is, Js
  <2>1. /\ handle \in HandleType /\ stream \in StreamType
        /\ state \in SUBSET Flags /\ allowHalfOpen \in BOOLEAN
    BY DEF TypeOK
  <2>2. CASE Connect
    <3>1. /\ ~Is("CLOSING") /\ ~Is("CONNECTED") /\ ~Is("CONNECTING")
          /\ handle.connect = 0 /\ handle.uv = "open" /\ "destroy" \notin pending
          /\ ~stream.closed
      BY <2>1, <2>2 DEF Connect, Unused, HandleType
    <3>2. state' = state \cup {"CONNECTING"} /\ UNCHANGED <<pending, stream>>
      BY <2>2 DEF Connect
    <3>3. CASE handle' = BindingConnect(handle) /\ UNCHANGED jobs
      <4>1. /\ handle'.connect = handle.connect + 1 /\ handle'.fd
            /\ Same(handle, handle', {"connect", "fd"})
        BY <2>1, <3>3, ConnectHandle
      <4>2. QED
        BY <2>1, <3>1, <3>2, <3>3, <4>1 DEF Same
    <3>4. CASE jobs' = jobs \cup {"failConnect"} /\ UNCHANGED handle
      BY <3>1, <3>2, <3>4
    <3>5. QED
      BY <2>2, <3>3, <3>4 DEF Connect
  <2>3. CASE Open
    <3>1. ASSUME NEW r \in BOOLEAN, NEW w \in BOOLEAN, Adopt(r, w)
          PROVE  /\ "CONNECTED" \in state'
                 /\ \A f \in {"CONNECTING", "READING", "CLOSING", "CLOSED"} :
                      f \in state' <=> f \in state
                 /\ handle'.fd /\ handle'.readable = r
                 /\ Same(handle, handle', {"fd", "readable", "writable"})
                 /\ stream'.readEnding <=> (stream.readEnding \/ ~r)
                 /\ SameStream(stream, stream', {"opened", "readEnding", "ending"})
                 /\ pending' = pending \ {"open"}
      BY <3>1, AdoptStep DEF Flags
    <3>2. QED
      BY <2>1, <2>3, <3>1 DEF Open, Unused, Same, SameStream
  <2>4. CASE OnSpawn
    <3>1. ASSUME NEW r \in BOOLEAN, NEW w \in BOOLEAN, Adopt(r, w)
          PROVE  /\ "CONNECTED" \in state'
                 /\ \A f \in {"CONNECTING", "READING", "CLOSING", "CLOSED"} :
                      f \in state' <=> f \in state
                 /\ handle'.fd /\ handle'.readable = r
                 /\ Same(handle, handle', {"fd", "readable", "writable"})
                 /\ stream'.readEnding <=> (stream.readEnding \/ ~r)
                 /\ SameStream(stream, stream', {"opened", "readEnding", "ending"})
                 /\ pending' = pending \ {"open"}
      BY <3>1, AdoptStep DEF Flags
    <3>2. QED
      BY <2>1, <2>4, <3>1 DEF OnSpawn, Unused, Same, SameStream
  <2>5. CASE OnAccept
    <3>1. /\ handle'.fd /\ handle'.readable
          /\ Same(handle, handle', {"fd", "readable", "writable"})
      BY <2>1, <2>5, StreamOpenHandle DEF OnAccept, AcceptedInto
    <3>2. SameStream(stream, stream', {"opened"})
      BY <2>1, <2>5, ContinueOpenStream DEF OnAccept
    <3>3. ~handle.closing /\ ~Is("CLOSING") /\ ~stream.closed /\ "destroy" \notin pending
      BY <2>1, <2>5 DEF OnAccept, HandleType
    <3>4. QED
      BY <2>1, <2>5, <3>1, <3>2, <3>3 DEF OnAccept, Settle, Same, SameStream
  <2>6. CASE Write
    BY <2>1, <2>6 DEF Write, StreamType
  <2>7. CASE End \/ Consume
    BY <2>1, <2>7 DEF End, Consume, StreamType
  <2>8. CASE UserDestroy
    BY <2>1, <2>8, DestroyStep, CloseHandle
       DEF UserDestroy, MarkClosing, Same, SameStream
  <2>9. CASE Ref \/ Unref
    BY <2>1, <2>9, RefHandle, UnrefHandle DEF Ref, Unref, Same
  <2>10. CASE FailConnectJob
    <3>1. CASE Is("CLOSING")
      BY <2>10, <3>1 DEF FailConnectJob
    <3>2. CASE ~Is("CLOSING")
      <4>1. state \ {"CONNECTING"} \in SUBSET Flags
        BY <2>1
      <4>2. Destroy(state \ {"CONNECTING"}, handle, stream) /\ pending' = pending \ {"open"}
        BY <2>10, <3>2 DEF FailConnectJob, FailOpening, Settle
      <4>3. QED
        BY <2>1, <2>10, <3>2, <4>1, <4>2, DestroyStep, CloseHandle
           DEF FailConnectJob, MarkClosing, Same, SameStream
    <3>3. QED
      BY <3>1, <3>2
  <2>11. CASE FailOpenJob
    BY <2>1, <2>11, DestroyStep, CloseHandle
       DEF FailOpenJob, FailOpening, Settle, MarkClosing, Same,
           SameStream
  <2>12. CASE ConnectJob
    BY <2>1, <2>12 DEF ConnectJob
  <2>13. CASE StreamOpen
    <3>1. ~stream.closed /\ "destroy" \notin pending /\ ~Is("CLOSING") /\ ~Is("CLOSED")
      BY <2>1, <2>13 DEF StreamOpen, HandleType
    <3>2. /\ SameStream(stream, [stream EXCEPT !.opening = TRUE], {"opening"})
          /\ SameStream(stream, [stream EXCEPT !.opening = TRUE, !.opened = TRUE],
                        {"opening", "opened"})
      BY <2>1 DEF StreamType, SameStream
    <3>3. /\ SameStream(stream, stream', {"opening", "opened"})
          /\ ~Is("CONNECTED") => stream'.opened = stream.opened
      <4>1. CASE Is("CONNECTED")
        BY <2>13, <3>2, <4>1 DEF StreamOpen
      <4>2. CASE ~Is("CONNECTED")
        <5>1. SameStream(stream, stream', {"opening"})
          BY <2>13, <3>2, <4>2 DEF StreamOpen
        <5>2. QED
          BY <4>2, <5>1 DEF SameStream
      <4>3. QED
        BY <4>1, <4>2
    <3>4. QED
      BY <2>1, <2>13, <3>1, <3>2, <3>3 DEF StreamOpen, SameStream
  <2>14. CASE StreamRead
    BY <2>1, <2>14, ResumeHandle DEF StreamRead, Same, Streaming
  <2>15. CASE StreamWritev
    <3>1. ASSUME NEW n \in 1..stream.queue, StartWrite(n)
          PROVE  Consistent'
      <4>1. handle'.write = handle.write + 1 /\ Same(handle, handle', {"write"})
        BY <2>1, <3>1, WritevHandle DEF StartWrite
      <4>2. pending' = pending \cup {"write"} /\ UNCHANGED <<state, jobs>>
        BY <2>15, <3>1 DEF StreamWritev, StartWrite
      <4>3. SameStream(stream, stream', {"queue"})
        BY <2>1, <3>1, MaxQueueAssumption DEF StartWrite, StreamType, SameStream
      <4>4. /\ "write" \notin pending /\ "destroy" \notin pending /\ handle.write = 0
            /\ stream.opened /\ ~stream.destroying /\ ~Is("CLOSING") /\ handle.uv = "open"
        BY <2>1, <2>15 DEF StreamWritev, Streaming, HandleType
      <4>5. QED
        BY <2>1, <4>1, <4>2, <4>3, <4>4 DEF Same, SameStream
    <3>2. CASE RefuseWrite
      <4> DEFINE s == [stream EXCEPT !.queue = 0]
      <4>1. s \in StreamType /\ SameStream(stream, s, {"queue"})
        BY <2>1, MaxQueueAssumption DEF StreamType, SameStream
      <4>2. Destroy(state, handle, s) /\ UNCHANGED <<pending, jobs>>
        BY <2>15, <3>2 DEF StreamWritev, RefuseWrite
      <4>3. ~stream.destroying /\ ~Is("CLOSING")
        BY <2>1, <2>15 DEF StreamWritev, Streaming
      <4> HIDE DEF s
      <4>4. /\ stream'.destroying /\ SameStream(stream, stream', {"queue", "destroying"})
            /\ state' = MarkClosing(state) /\ handle' = BindingClose(handle)
        BY <2>1, <4>1, <4>2, <4>3, DestroyStep DEF SameStream
      <4>5. QED
        BY <2>1, <2>15, <4>2, <4>3, <4>4, CloseHandle
           DEF StreamWritev, Streaming, MarkClosing, Same, SameStream
    <3>3. QED
      BY <2>15, <3>1, <3>2 DEF StreamWritev
  <2>16. CASE StreamFinal
    <3>1. CASE Finish(stream) /\ UNCHANGED <<pending, handle>>
      <4>1. /\ SameStream(stream, stream', {"finished", "destroying"})
            /\ stream.destroying => stream'.destroying
            /\ stream'.destroying /\ ~stream.destroying => stream.ended
        BY <2>1, <3>1, FinishStep DEF TypeOK
      <4>2. QED
        BY <2>1, <2>16, <3>1, <4>1 DEF StreamFinal, SameStream
    <3>2. CASE /\ pending' = pending \cup {"final"}
               /\ handle' = BindingEnd(handle)
               /\ UNCHANGED <<stream, events>>
      BY <2>1, <2>16, <3>2, EndHandle DEF StreamFinal, Streaming, Same, HandleType
    <3>3. QED
      BY <2>16, <3>1, <3>2 DEF StreamFinal
  <2>17. CASE StreamEnd
    <3>1. [stream EXCEPT !.ended = TRUE] \in StreamType
          /\ [stream EXCEPT !.ended = TRUE].ended
          /\ SameStream(stream, [stream EXCEPT !.ended = TRUE], {"ended"})
      BY <2>1 DEF StreamType, SameStream
    <3>2. QED
      BY <2>1, <2>17, <3>1, AutoDestroyStream DEF StreamEnd, Streaming, SameStream
  <2>18. CASE StreamDestroy
    <3>1. CASE Is("CLOSED")
      <4>1. stream'.closed /\ SameStream(stream, stream', {"closed"})
        BY <2>1, <2>18, <3>1, CloseStep DEF StreamDestroy, ClosedAlready, TypeOK
      <4>2. QED
        BY <2>1, <2>18, <3>1, <4>1 DEF StreamDestroy, ClosedAlready, SameStream
    <3>2. CASE ~Is("CLOSED")
      BY <2>1, <2>18, <3>2, CloseHandle
         DEF StreamDestroy, ClosedAlready, Predestroy, MarkClosing, Same, HandleType
    <3>3. QED
      BY <3>1, <3>2
  <2>19. CASE OnConnectError
    <3>1. /\ ConnectDone(handle) \in HandleType
          /\ ConnectDone(handle).connect = handle.connect - 1
          /\ Same(handle, ConnectDone(handle), {"connect"})
      BY <2>1, <2>19, ConnectDoneHandle DEF OnConnectError, Loop
    <3>2. /\ state \ {"CONNECTING"} \in SUBSET Flags /\ ~Is("CLOSING")
          /\ Destroy(state \ {"CONNECTING"}, ConnectDone(handle), stream)
          /\ pending' = pending \ {"open"} /\ jobs' = jobs
      BY <2>1, <2>19 DEF OnConnectError, Loop, Settle
    <3>3. QED
      BY <2>1, <2>19, <3>1, <3>2, DestroyStep, CloseHandle
         DEF OnConnectError, Loop, MarkClosing, Same, SameStream, HandleType
  <2>20. CASE OnConnect
    <3>1. /\ ConnectDone(handle) \in HandleType
          /\ ConnectDone(handle).connect = handle.connect - 1
          /\ Same(handle, ConnectDone(handle), {"connect"})
      BY <2>1, <2>20, ConnectDoneHandle DEF OnConnect, Loop
    <3>2. /\ handle'.fd /\ handle'.readable
          /\ Same(ConnectDone(handle), handle', {"fd", "readable", "writable"})
      BY <2>20, <3>1, StreamOpenHandle DEF OnConnect
    <3>3. SameStream(stream, stream', {"opened"})
      BY <2>1, <2>20, ContinueOpenStream DEF OnConnect, Loop
    <3>4. handle.uv = "open" /\ ~Is("CLOSING") /\ ~stream.closed /\ ~Is("READING")
          /\ ~handle.reading /\ "destroy" \notin pending /\ handle.connect = 1
      BY <2>1, <2>20 DEF OnConnect, Loop, HandleType
    <3>5. HandleInSync'
      BY <2>1, <2>20, <3>1, <3>2, <3>4 DEF OnConnect, Same
    <3>6. RequestsInSync'
      <4>1. handle'.connect = 0
        BY <3>1, <3>2, <3>4 DEF Same
      <4>2. "CONNECTING" \notin state' /\ (Is("CLOSING")' <=> Is("CLOSING"))
        BY <2>20 DEF OnConnect
      <4>3. pending' = pending \ {"open"} /\ jobs' = {}
        BY <2>20 DEF OnConnect, Loop, Settle
      <4>4. QED
        BY <2>1, <3>1, <3>2, <3>4, <4>1, <4>2, <4>3 DEF Same
    <3>7. StreamInSync'
      BY <2>1, <2>20, <3>1, <3>2, <3>3, <3>4 DEF OnConnect, Settle, Same, SameStream
    <3>8. ReadInSync'
      BY <2>1, <2>20, <3>1, <3>2, <3>3, <3>4 DEF OnConnect, Same, SameStream
    <3>9. QED
      BY <3>5, <3>6, <3>7, <3>8
  <2>21. CASE EmitConnect
    BY <2>1, <2>21 DEF EmitConnect
  <2>22. CASE DropConnect
    BY <2>1, <2>22, ConnectDoneHandle DEF DropConnect, Same, HandleType
  <2>23. CASE OnReadData
    <3>1. SameStream(stream, [stream EXCEPT !.full = TRUE], {"full"})
      BY <2>1 DEF StreamType, SameStream
    <3>2. CASE PauseReading /\ stream' = [stream EXCEPT !.full = TRUE]
      <4>1. /\ handle' = BindingPause(handle) /\ state' = state \ {"READING"}
            /\ UNCHANGED <<pending, jobs>>
        BY <2>23, <3>2 DEF OnReadData, PauseReading
      <4>2. QED
        BY <2>1, <2>23, <3>1, <3>2, <4>1, PauseHandle
           DEF OnReadData, Loop, Same, SameStream
    <3>3. CASE UNCHANGED <<state, handle>> /\ SameStream(stream, stream', {"full"})
      BY <2>1, <2>23, <3>3 DEF OnReadData, SameStream
    <3>4. QED
      BY <2>23, <3>1, <3>2, <3>3 DEF OnReadData, SameStream
  <2>24. CASE OnReadEnd
    <3>1. ~handle'.reading /\ Same(handle, handle', {"reading"})
      BY <2>1, <2>24, ReadEndedHandle DEF OnReadEnd
    <3>2. /\ stream'.readEnding
          /\ SameStream(stream, stream', {"readEnding", "ending"})
      BY <2>1, <2>24, EndHalvesStream DEF OnReadEnd
    <3>3. ~Is("CLOSING") => Is("CONNECTED")
      BY <2>1, <2>24 DEF OnReadEnd, Loop
    <3>4. UNCHANGED <<state, pending, jobs>>
      BY <2>24 DEF OnReadEnd
    <3>5. HandleInSync'
      BY <3>1, <3>4 DEF Same
    <3>6. RequestsInSync'
      BY <3>1, <3>4 DEF Same
    <3>7. StreamInSync'
      BY <3>1, <3>2, <3>4 DEF Same, SameStream
    <3>8. ReadInSync'
      BY <3>1, <3>2, <3>3, <3>4 DEF Same, SameStream
    <3>9. QED
      BY <3>5, <3>6, <3>7, <3>8
  <2>25. CASE OnReadError
    <3>1. /\ ReadFailed(handle) \in HandleType
          /\ ~ReadFailed(handle).reading
          /\ Same(handle, ReadFailed(handle), {"reading", "readable", "writable"})
      BY <2>1, ReadFailedHandle
    <3>2. QED
      BY <2>1, <2>25, <3>1, DestroyStep, CloseHandle
         DEF OnReadError, Loop, MarkClosing, Same, SameStream
  <2>26. CASE OnWrite
    <3>1. /\ WriteDone(handle) \in HandleType
          /\ WriteDone(handle).write = handle.write - 1
          /\ Same(handle, WriteDone(handle), {"write"})
      BY <2>1, <2>26, WriteDoneHandle DEF OnWrite, Loop
    <3>2. handle.write = 1 /\ "write" \in pending
      BY <2>1, <2>26 DEF OnWrite, Loop, HandleType
    <3>3. CASE MoreSegments
      <4>1. CASE /\ handle' = BindingWritev(WriteDone(handle))
                 /\ UNCHANGED <<state, pending, stream>>
        BY <2>1, <2>26, <3>1, <3>2, <4>1, WritevHandle DEF OnWrite, Loop, Same
      <4>2. CASE Destroy(state, WriteDone(handle), stream) /\ Settle("write")
        BY <2>1, <2>26, <3>1, <3>2, <4>2, DestroyStep, CloseHandle
           DEF OnWrite, Loop, MarkClosing, Settle, Same, SameStream
      <4>3. QED
        BY <2>26, <3>2, <3>3, <4>1, <4>2 DEF OnWrite, Loop, NextSegment
    <3>4. CASE ~MoreSegments
      BY <2>1, <2>26, <3>1, <3>2, <3>4 DEF OnWrite, Loop, Settle, Same
    <3>5. QED
      BY <3>3, <3>4
  <2>27. CASE OnWriteError
    <3>1. /\ WriteDone(handle) \in HandleType
          /\ WriteDone(handle).write = handle.write - 1
          /\ Same(handle, WriteDone(handle), {"write"})
      BY <2>1, <2>27, WriteDoneHandle DEF OnWriteError, Loop
    <3>2. handle.write = 1 /\ "write" \in pending
      BY <2>1, <2>27 DEF OnWriteError, Loop, HandleType
    <3>3. QED
      BY <2>1, <2>27, <3>1, <3>2, DestroyStep, CloseHandle
         DEF OnWriteError, Loop, MarkClosing, Settle, Same, SameStream
  <2>28. CASE OnShutdown
    <3>1. /\ ShutdownDone(handle).shutdown = handle.shutdown - 1
          /\ Same(handle, ShutdownDone(handle), {"shutdown"})
      BY <2>1, <2>28, ShutdownDoneHandle DEF OnShutdown, Loop
    <3>2. handle.shutdown = 1 /\ "final" \in pending
      BY <2>1, <2>28 DEF OnShutdown, Loop, HandleType
    <3>3. /\ SameStream(stream, stream', {"finished", "destroying"})
          /\ stream.destroying => stream'.destroying
          /\ stream'.destroying /\ ~stream.destroying => stream.ended
      BY <2>1, <2>28, <3>2, FinishStep DEF OnShutdown, Loop, TypeOK
    <3>4. QED
      BY <2>1, <2>28, <3>1, <3>2, <3>3
         DEF OnShutdown, Loop, Settle, Same, SameStream
  <2>29. CASE DropRequest
    BY <2>1, <2>29, WriteDoneHandle, ShutdownDoneHandle
       DEF DropRequest, Same, HandleType
  <2>30. CASE OnClose
    <3>1. handle'.uv = "closed" /\ Same(handle, handle', {"uv"})
      BY <2>1, <2>30, ClosedHandle DEF OnClose, Loop
    <3>2. stream.destroying /\ ContinueOpen(stream) = stream
      BY <2>1, <2>30, ContinueOpenStream DEF OnClose, Loop
    <3>3. /\ SameStream(stream, stream', {"closed"})
          /\ "destroy" \notin pending => stream' = stream
      BY <2>1, <2>30, <3>2, CloseStep DEF OnClose, Loop, SameStream, TypeOK
    <3>4. pending' \cap {"open", "destroy"} = {} /\ ("destroy" \in pending => pending' = {})
      BY <2>30 DEF OnClose, Loop
    <3>5. /\ handle.uv = "closing" /\ NoRequests(handle) /\ Js /\ jobs = {}
          /\ state' = state \cup {"CLOSED"} /\ pending' = pending \ {"open", "destroy"}
          /\ jobs' = jobs
      BY <2>30 DEF OnClose, Loop
    <3>6. HandleInSync'
      BY <3>1, <3>5 DEF Same
    <3>7. RequestsInSync'
      BY <3>1, <3>5 DEF Same
    <3>8. StreamInSync'
      BY <3>1, <3>2, <3>3, <3>4, <3>5 DEF Same, SameStream
    <3>9. ReadInSync'
      BY <3>1, <3>5 DEF Same
    <3>10. QED
      BY <3>6, <3>7, <3>8, <3>9
  <2>31. CASE DropClose
    BY <2>1, <2>31, ClosedHandle DEF DropClose, Same
  <2>32. CASE Teardown
    BY <2>1, <2>32, TeardownHandle DEF Teardown, Same
  <2>33. CASE UNCHANGED vars
    BY <2>1, <2>33 DEF vars
  <2> HIDE DEF Consistent, HandleInSync, RequestsInSync, StreamInSync, ReadInSync,
               ClosedOnce, OneRequestEach, CallbacksOwned, NothingAfterClose,
               ReadingAgrees, NoRequests, Is, Js
  <2>34. QED
    BY <2>2, <2>3, <2>4, <2>5, <2>6, <2>7, <2>8, <2>9, <2>10, <2>11, <2>12,
       <2>13, <2>14, <2>15, <2>16, <2>17, <2>18, <2>19, <2>20, <2>21, <2>22,
       <2>23, <2>24, <2>25, <2>26, <2>27, <2>28, <2>29, <2>30, <2>31, <2>32,
       <2>33
       DEF Next, User, Microtask, Stream, Callback
<1>3. QED
  BY <1>1, <1>2, TypeCorrect, PTL DEF Spec

(* Whatever _writev, _final, _destroy, connect() and _open are waiting for  *)
(* is owed by a native request, a microtask or the close in progress.       *)
THEOREM CallbacksAreOwned == Spec => []CallbacksOwned
<1>1. Consistent => CallbacksOwned
  BY DEF Consistent, RequestsInSync
<1>2. QED
  BY <1>1, Consistency, PTL

(* No request struct of bare_pipe_t is submitted while it is in flight. *)
THEOREM RequestsAreNotReused == Spec => []OneRequestEach
<1>1. Consistent => OneRequestEach
  BY DEF Consistent, RequestsInSync
<1>2. QED
  BY <1>1, Consistency, PTL

(* destroy() and the teardown of the environment close the handle once. *)
THEOREM HandleIsClosedOnce == Spec => []ClosedOnce
<1>1. Consistent => ClosedOnce
  BY DEF Consistent, HandleInSync
<1>2. QED
  BY <1>1, Consistency, PTL

(* 'close' is emitted when nothing is left to answer or to close. *)
THEOREM NothingIsLeftAfterClose == Spec => []NothingAfterClose
<1>1. Consistent => NothingAfterClose
  BY DEF Consistent, StreamInSync
<1>2. QED
  BY <1>1, Consistency, PTL

(* READING and uv_read_start never disagree on a readable connection. *)
THEOREM ReadingFlagIsRight == Spec => []ReadingAgrees
<1>1. Consistent => ReadingAgrees
  BY DEF Consistent, ReadInSync
<1>2. QED
  BY <1>1, Consistency, PTL
=============================================================================
