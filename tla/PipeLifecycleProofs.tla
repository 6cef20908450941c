------------------------- MODULE PipeLifecycleProofs -------------------------
(***************************************************************************)
(* Proofs about Pipe that need more than Consistent: no event is emitted   *)
(* twice, and readyState follows PipeLifecycle.                            *)
(***************************************************************************)
EXTENDS PipeProofs

Emitted(e) == \E i \in DOMAIN events : events[i] = e

(***************************************************************************)
(* What became of the connection.  A half that ended was connected; a      *)
(* connect in progress is over once the stream is destroyed; one that      *)
(* failed at once is answered before anything can be read.                 *)
(***************************************************************************)
LifeInSync ==
  /\ stream.ended \/ stream.finished => Is("CONNECTED")
  /\ Js /\ ~Is("CLOSING") =>
       /\ stream.readEnding => Is("CONNECTED")
       /\ "failConnect" \in jobs => ~stream.readEnding
  /\ "final" \in pending => Is("CONNECTED") /\ ~stream.finished
  /\ "destroy" \in pending => stream.destroying
  /\ stream.closed => stream.destroying
  /\ stream.destroying => ~Is("CONNECTING")

(***************************************************************************)
(* Every event has left its trace in the state, and 'connect' is still to  *)
(* come from one place at most.                                            *)
(***************************************************************************)
EventsInSync ==
  /\ EventsOnce
  /\ Emitted("finish") => stream.finished
  /\ Emitted("end") => stream.ended
  /\ Emitted("close") => stream.closed
  /\ Emitted("connect") \/ "connect" \in jobs \/ frame = "onconnect" => Is("CONNECTED")
  /\ "connect" \in jobs => ~Emitted("connect") /\ frame = "none"
  /\ frame = "onconnect" => ~Emitted("connect") /\ ~stream.closed

InSync == TypeOK /\ Consistent /\ LifeInSync /\ EventsInSync

-----------------------------------------------------------------------------
(* Steps in general.                                                       *)

(* The bits that readyState looks at. *)
Bits == {"CONNECTING", "CONNECTED", "READABLE", "WRITABLE"}

SameBits == \A f \in Bits : f \in state' <=> f \in state

Grows ==
  /\ stream.ended => stream'.ended
  /\ stream.finished => stream'.finished
  /\ stream.destroying => stream'.destroying
  /\ stream.closed => stream'.closed
  /\ stream'.closed => stream.closed \/ stream.destroying

(* A step that leaves the connection, its ends and its events alone. *)
Minor ==
  /\ SameBits
  /\ "CLOSING" \in state' <=> "CLOSING" \in state
  /\ UNCHANGED <<jobs, frame, events>>
  /\ "final" \in pending' => "final" \in pending
  /\ "destroy" \in pending' => "destroy" \in pending
  /\ SameStream(stream, stream', {"opening", "opened", "queue", "ending", "full"})
  /\ Js' => Js

(* connect(), and the connection that is there. *)
Begins ==
  /\ ~Is("CONNECTED") /\ ~Is("CONNECTING") /\ ~stream.destroying
  /\ state' = state \cup {"CONNECTING"}
  /\ UNCHANGED stream

Opens ==
  /\ ~Is("CONNECTED") /\ ~stream.destroying
  /\ Is("CONNECTED")' /\ (Is("READABLE")' \/ Is("WRITABLE")')
  /\ Is("CONNECTING")' => Is("CONNECTING")
  /\ stream'.ended = stream.ended /\ stream'.finished = stream.finished
  /\ stream'.destroying = stream.destroying /\ stream'.closed = stream.closed

GivesUp == ~stream.destroying /\ stream'.destroying /\ ~stream'.closed

Keeps == Grows /\ LifeInSync' /\ EventsInSync'

Proper == Keeps /\ (SameBits \/ Begins \/ Opens \/ GivesUp)

(* An event that was not emitted before, and nothing after 'close'. *)
LEMMA EmitOnce ==
  ASSUME EventsOnce, events \in Seq(Events), NEW e \in Events,
         ~Emitted(e), ~Emitted("close"), events' = Append(events, e)
  PROVE  /\ EventsOnce'
         /\ \A f : Emitted(f)' <=> (Emitted(f) \/ f = e)
<1>1. /\ Len(events) \in Nat /\ Len(events') = Len(events) + 1
      /\ DOMAIN events = 1..Len(events) /\ DOMAIN events' = 1..(Len(events) + 1)
      /\ \A i \in 1..Len(events) : events'[i] = events[i]
      /\ events'[Len(events) + 1] = e
  OBVIOUS
<1>2. \A f : Emitted(f)' <=> (Emitted(f) \/ f = e)
  BY <1>1 DEF Emitted
<1>3. ASSUME NEW i \in DOMAIN events', NEW j \in DOMAIN events', i < j
      PROVE  events'[i] # events'[j] /\ events'[i] # "close"
  <2>1. i \in DOMAIN events /\ events'[i] = events[i] /\ events[i] # "close"
    BY <1>1, <1>3 DEF Emitted
  <2>2. CASE j \in DOMAIN events
    BY <1>1, <1>3, <2>1, <2>2 DEF EventsOnce
  <2>3. CASE j = Len(events) + 1
    BY <1>1, <2>1, <2>3 DEF Emitted
  <2>4. QED
    BY <1>1, <2>2, <2>3
<1>4. QED
  BY <1>2, <1>3 DEF EventsOnce

(* A step that emits nothing keeps what the events say. *)
LEMMA QuietEvents ==
  ASSUME EventsInSync, events' = events, Grows, stream'.closed = stream.closed,
         Is("CONNECTED") => Is("CONNECTED")',
         frame' = frame, "connect" \in jobs' => "connect" \in jobs
  PROVE  EventsInSync'
<1>1. EventsOnce'
  BY DEF EventsInSync, EventsOnce
<1>2. \A e : Emitted(e)' <=> Emitted(e)
  BY DEF Emitted
<1>3. QED
  BY <1>1, <1>2 DEF EventsInSync, Grows

(* A minor step keeps everything. *)
LEMMA MinorStep == InSync /\ Minor => Proper
<1>1. SUFFICES ASSUME InSync, Minor PROVE Keeps
  BY DEF Minor, Proper
<1>2. Grows /\ stream'.closed = stream.closed
  BY <1>1 DEF Minor, Grows, SameStream
<1>3. \A f \in Bits \cup {"CLOSING"} : Is(f)' <=> Is(f)
  BY <1>1 DEF Minor, SameBits, Is
<1>4. EventsInSync'
  BY <1>1, <1>2, <1>3, QuietEvents DEF InSync, Minor, Bits
<1>5. LifeInSync'
  <2>1. /\ stream'.ended = stream.ended /\ stream'.finished = stream.finished
        /\ stream'.readEnding = stream.readEnding /\ jobs' = jobs
        /\ stream'.destroying = stream.destroying /\ stream'.closed = stream.closed
    BY <1>1 DEF Minor, SameStream
  <2>2. Js /\ Is("CONNECTING") => ~Is("CLOSING")
    BY <1>1 DEF InSync, Consistent, RequestsInSync
  <2>3. QED
    BY <1>1, <1>3, <2>1, <2>2 DEF InSync, LifeInSync, Minor, Bits
<1>6. QED
  BY <1>2, <1>4, <1>5 DEF Keeps

(* So does a step that destroys the stream, from flags that may have given *)
(* up on a connect.                                                        *)
LEMMA DestroyProper ==
  ASSUME InSync, Js, NEW st \in {state, state \ {"CONNECTING"}},
         NEW h \in HandleType, NEW s \in StreamType,
         SameStream(stream, s, {"queue"}), Destroy(st, h, s),
         jobs' \subseteq jobs, pending' \subseteq pending,
         UNCHANGED <<frame, events>>
  PROVE  Proper
<1>1. st \in SUBSET Flags
  BY DEF InSync, TypeOK
<1>2. /\ state' \in SUBSET Flags /\ stream' \in StreamType
      /\ stream'.destroying /\ SameStream(s, stream', {"destroying"})
      /\ s.destroying \/ "CLOSING" \in st => state' = st
      /\ ~s.destroying /\ "CLOSING" \notin st => state' = MarkClosing(st)
  BY <1>1, DestroyStep
<1>3. SameStream(stream, stream', {"queue", "destroying"})
  BY <1>2 DEF SameStream
<1>4. Grows /\ stream'.closed = stream.closed
  BY <1>2, <1>3 DEF Grows, SameStream
<1>5. /\ ~Is("CONNECTING")'
      /\ \A f \in Bits \ {"CONNECTING"} : Is(f)' <=> Is(f)
      /\ stream.destroying => SameBits
      /\ Is("CLOSING") => Is("CLOSING")'
      /\ ~Is("CLOSING")' => stream.destroying
  <2>1. CASE stream.destroying
    <3>1. "CONNECTING" \notin state
      BY <2>1 DEF InSync, LifeInSync, Is
    <3>2. state' = st /\ st = state
      BY <1>2, <2>1, <3>1 DEF SameStream
    <3>3. QED
      BY <2>1, <3>1, <3>2 DEF Is, SameBits
  <2>2. CASE ~stream.destroying
    <3>1. "CLOSING" \notin st /\ ~s.destroying
      BY <2>2 DEF InSync, Consistent, StreamInSync, SameStream, Is
    <3>2. state' = MarkClosing(st)
      BY <1>2, <3>1
    <3>3. QED
      BY <2>2, <3>2 DEF MarkClosing, Is, Bits
  <2>3. QED
    BY <2>1, <2>2
<1>6. stream.destroying \/ (GivesUp /\ ~stream.closed)
  BY <1>2, <1>4 DEF GivesUp, InSync, LifeInSync
<1>7. LifeInSync'
  BY <1>2, <1>3, <1>4, <1>5 DEF InSync, LifeInSync, SameStream, Bits
<1>8. EventsInSync'
  BY <1>4, <1>5, QuietEvents DEF InSync, Bits
<1>9. QED
  BY <1>4, <1>5, <1>6, <1>7, <1>8 DEF Proper, Keeps

-----------------------------------------------------------------------------
(* Every step is proper.                                                   *)

(* A pipe that is unused has nothing of a connection. *)
LEMMA UnusedFacts ==
  ASSUME InSync, Js, Unused
  PROVE  /\ ~Is("CONNECTED") /\ ~Is("CONNECTING") /\ ~Is("CLOSING")
         /\ ~stream.destroying /\ ~stream.readEnding /\ ~stream.closed
         /\ "failConnect" \notin jobs /\ handle.connect = 0
         /\ handle \in HandleType /\ stream \in StreamType
<1>1. ~Is("CONNECTED") /\ ~Is("CONNECTING") /\ ~Is("CLOSING")
  BY DEF Unused
<1>2. handle \in HandleType /\ stream \in StreamType
  BY DEF InSync, TypeOK
<1>3. ~stream.readEnding /\ ~stream.ended
  BY <1>1 DEF InSync, LifeInSync
<1>4. ~stream.destroying /\ ~stream.closed
  BY <1>1, <1>3 DEF InSync, LifeInSync, Consistent, StreamInSync
<1>5. "failConnect" \notin jobs /\ handle.connect = 0
  <2>1. handle.connect \in {0, 1}
    BY <1>2 DEF InSync, Consistent, RequestsInSync, OneRequestEach, HandleType
  <2>2. QED
    BY <1>1, <2>1 DEF InSync, Consistent, RequestsInSync
<1>6. QED
  BY <1>1, <1>2, <1>3, <1>4, <1>5

(* Nothing connects any more once a connection has no more data. *)
LEMMA NothingConnects ==
  ASSUME InSync, Js, stream.readEnding, Is("CONNECTED")
  PROVE  ~Is("CONNECTING")
<1>1. CASE Is("CLOSING")
  BY <1>1 DEF InSync, Consistent, RequestsInSync
<1>2. CASE ~Is("CLOSING")
  BY <1>2 DEF InSync, LifeInSync, Consistent, RequestsInSync, CallbacksOwned
<1>3. QED
  BY <1>1, <1>2

(* A descriptor of open() or of a subprocess makes an unused pipe connected. *)
LEMMA AdoptProper ==
  ASSUME InSync, Js, Unused, NEW r \in BOOLEAN, NEW w \in BOOLEAN, r \/ w, Adopt(r, w),
         UNCHANGED <<frame, events>>, jobs' = jobs \/ jobs' = jobs \cup {"connect"}
  PROVE  Proper
<1>1. /\ ~Is("CONNECTED") /\ ~Is("CONNECTING") /\ ~Is("CLOSING")
      /\ ~stream.destroying /\ ~stream.readEnding /\ ~stream.closed
      /\ "failConnect" \notin jobs
  BY UnusedFacts
<1>2. /\ state' \in SUBSET Flags /\ "CONNECTED" \in state'
      /\ \A f \in Flags \ {"CONNECTED", "READABLE", "WRITABLE"} :
           f \in state' <=> f \in state
      /\ SameStream(stream, stream', {"opened", "readEnding", "ending"})
      /\ pending' = pending \ {"open"}
  BY AdoptStep DEF InSync
<1>3. "READABLE" \in state' \/ "WRITABLE" \in state'
  BY DEF Adopt, HalfFlags
<1>4. Grows /\ stream'.closed = stream.closed /\ Opens
  BY <1>1, <1>2, <1>3 DEF Grows, Opens, SameStream, Is, Flags
<1>5. LifeInSync'
  BY <1>1, <1>2 DEF InSync, LifeInSync, SameStream, Is, Flags
<1>6. EventsInSync'
  <2>1. EventsOnce'
    BY DEF InSync, EventsInSync, EventsOnce
  <2>2. \A e : Emitted(e)' <=> Emitted(e)
    BY DEF Emitted
  <2>3. ~Emitted("connect") /\ frame = "none"
    BY <1>1 DEF InSync, EventsInSync, TypeOK
  <2>4. QED
    BY <1>1, <1>2, <1>4, <2>1, <2>2, <2>3 DEF InSync, EventsInSync, Grows, Is
<1>7. QED
  BY <1>4, <1>5, <1>6 DEF Proper, Keeps

(* What the user of the pipe does. *)
LEMMA UserProper == InSync /\ User => Proper
<1>1. SUFFICES ASSUME InSync, User PROVE Proper
  OBVIOUS
<1>2. /\ handle \in HandleType /\ stream \in StreamType /\ state \in SUBSET Flags
      /\ events \in Seq(Events)
  BY <1>1 DEF InSync, TypeOK
<1>3. CASE Connect
  <2>1. /\ Js /\ Unused /\ state' = state \cup {"CONNECTING"}
        /\ \/ handle' = BindingConnect(handle) /\ jobs' = jobs
           \/ jobs' = jobs \cup {"failConnect"} /\ handle' = handle
        /\ UNCHANGED <<pending, frame, stream, events>>
    BY <1>3 DEF Connect
  <2>2. /\ ~Is("CONNECTED") /\ ~Is("CONNECTING") /\ ~Is("CLOSING")
        /\ ~stream.destroying /\ ~stream.readEnding /\ ~stream.closed
        /\ "failConnect" \notin jobs /\ handle.connect = 0
    BY <1>1, <2>1, UnusedFacts
  <2>3. \A f \in Flags \ {"CONNECTING"} : Is(f)' <=> Is(f)
    BY <2>1 DEF Is
  <2>4. Grows /\ Begins
    BY <2>1, <2>2 DEF Grows, Begins
  <2>5. \/ handle'.connect = 1
        \/ "failConnect" \in jobs'
    BY <1>2, <2>1, <2>2, ConnectHandle
  <2>6. LifeInSync'
    BY <1>1, <2>1, <2>2, <2>3, <2>5 DEF InSync, LifeInSync, Flags
  <2>7. EventsInSync'
    BY <1>1, <2>1, <2>3, <2>4, QuietEvents DEF InSync, Flags
  <2>8. QED
    BY <2>4, <2>6, <2>7 DEF Proper, Keeps
<1>4. CASE Open
  <2>1. Js /\ Unused /\ UNCHANGED <<frame, events>>
    BY <1>4 DEF Open
  <2>2. CASE /\ \E r, w \in BOOLEAN : (r \/ w) /\ Adopt(r, w)
             /\ jobs' = jobs \cup {"connect"}
    BY <1>1, <2>1, <2>2, AdoptProper
  <2>3. CASE /\ jobs' = jobs \cup {"failOpen"}
             /\ UNCHANGED <<state, pending, handle, stream>>
    <3>1. Grows /\ SameBits
      BY <2>3 DEF Grows, SameBits
    <3>2. LifeInSync'
      BY <1>1, <2>3 DEF InSync, LifeInSync, Js, Is
    <3>3. EventsInSync'
      BY <1>1, <2>1, <2>3, <3>1, QuietEvents DEF InSync, Is
    <3>4. QED
      BY <3>1, <3>2, <3>3 DEF Proper, Keeps
  <2>4. QED
    BY <1>4, <2>2, <2>3 DEF Open
<1>5. CASE OnSpawn
  BY <1>1, <1>5, AdoptProper DEF OnSpawn
<1>6. CASE OnAccept
  <2>1. /\ Js /\ handle.uv = "open" /\ ~handle.fd
        /\ state' = state \cup {"CONNECTED", "READABLE", "WRITABLE"}
        /\ stream' = ContinueOpen(stream) /\ pending' = pending \ {"open"}
        /\ handle' = AcceptedInto(handle)
        /\ UNCHANGED <<jobs, frame, events>>
    BY <1>6 DEF OnAccept, Settle
  <2>2. SameStream(stream, stream', {"opened"})
    BY <1>2, <2>1, ContinueOpenStream
  <2>4. ~Is("CLOSING") /\ ~Is("CONNECTED")
    BY <1>1, <2>1 DEF InSync, Consistent, HandleInSync
  <2>5. ~stream.destroying
    BY <1>1, <2>1, <2>4 DEF InSync, Consistent, StreamInSync, LifeInSync
  <2>6. Grows /\ Opens /\ stream'.closed = stream.closed
    BY <2>1, <2>2, <2>4, <2>5 DEF Grows, Opens, SameStream, Is
  <2>7. \A f \in {"CONNECTING", "CLOSING"} : Is(f)' <=> Is(f)
    BY <2>1 DEF Is
  <2>8. Is("CONNECTED")'
    BY <2>1 DEF Is
  <2>9. LifeInSync'
    BY <1>1, <2>1, <2>2, <2>7, <2>8 DEF InSync, LifeInSync, SameStream
  <2>10. EventsInSync'
    BY <1>1, <2>1, <2>6, <2>8, QuietEvents DEF InSync
  <2>11. QED
    BY <2>6, <2>9, <2>10 DEF Proper, Keeps
<1>7. CASE Write
  <2>1. SameStream(stream, stream', {"queue"})
    BY <1>2, <1>7 DEF Write, SameStream, StreamType
  <2>2. Minor
    BY <1>7, <2>1 DEF Write, Minor, SameBits, SameStream, Js, Is
  <2>3. QED
    BY <1>1, <2>2, MinorStep
<1>8. CASE End \/ Consume
  <2>1. SameStream(stream, stream', {"ending", "full"})
    BY <1>2, <1>8 DEF End, Consume, SameStream, StreamType
  <2>2. Minor
    BY <1>8, <2>1 DEF End, Consume, Minor, SameBits, SameStream, Js, Is
  <2>3. QED
    BY <1>1, <2>2, MinorStep
<1>9. CASE UserDestroy
  <2>1. SameStream(stream, stream, {"queue"})
    BY DEF SameStream
  <2>2. QED
    BY <1>1, <1>2, <1>9, <2>1, DestroyProper DEF UserDestroy
<1>10. CASE Ref \/ Unref
  <2>1. Same(handle, handle', {"ref"})
    <3>1. CASE handle' = handle
      BY <3>1 DEF Same
    <3>2. CASE handle' # handle
      BY <1>2, <1>10, <3>2, RefHandle, UnrefHandle DEF Ref, Unref
    <3>3. QED
      BY <3>1, <3>2
  <2>2. Minor
    BY <1>10, <2>1 DEF Ref, Unref, Minor, SameBits, Bits, SameStream, Js, Is, Same
  <2>3. QED
    BY <1>1, <2>2, MinorStep
<1>11. QED
  BY <1>1, <1>3, <1>4, <1>5, <1>6, <1>7, <1>8, <1>9, <1>10 DEF User

(* The microtasks of connect() and open(). *)
LEMMA MicrotaskProper == InSync /\ Microtask => Proper
<1>1. SUFFICES ASSUME InSync, Microtask PROVE Proper
  OBVIOUS
<1>2. /\ handle \in HandleType /\ stream \in StreamType /\ state \in SUBSET Flags
      /\ events \in Seq(Events) /\ SameStream(stream, stream, {"queue"})
  BY <1>1 DEF InSync, TypeOK, SameStream
<1>3. CASE FailConnectJob
  <2>1. CASE Is("CLOSING")
    <3>1. UNCHANGED <<state, pending, handle, stream, frame, events>> /\ jobs' \subseteq jobs
      BY <1>3, <2>1 DEF FailConnectJob
    <3>2. Grows /\ SameBits
      BY <3>1 DEF Grows, SameBits
    <3>3. LifeInSync'
      BY <1>1, <2>1, <3>1 DEF InSync, LifeInSync, Js, Is, Consistent, RequestsInSync
    <3>4. EventsInSync'
      BY <1>1, <3>1, <3>2, QuietEvents DEF InSync, Is
    <3>5. QED
      BY <3>2, <3>3, <3>4 DEF Proper, Keeps
  <2>2. CASE ~Is("CLOSING")
    BY <1>1, <1>2, <1>3, <2>2, DestroyProper DEF FailConnectJob, FailOpening, Settle
  <2>3. QED
    BY <2>1, <2>2
<1>4. CASE FailOpenJob
  BY <1>1, <1>2, <1>4, DestroyProper DEF FailOpenJob, FailOpening, Settle
<1>5. CASE ConnectJob
  <2>1. /\ Js /\ frame = "none" /\ "connect" \in jobs /\ jobs' = jobs \ {"connect"}
        /\ events' = IF Is("CLOSING") THEN events ELSE Append(events, "connect")
        /\ UNCHANGED <<state, pending, handle, stream, frame>>
    BY <1>5 DEF ConnectJob
  <2>2. Grows /\ SameBits
    BY <2>1 DEF Grows, SameBits
  <2>3. LifeInSync'
    BY <1>1, <2>1 DEF InSync, LifeInSync, Js, Is
  <2>4. CASE Is("CLOSING")
    <3>1. EventsInSync'
      BY <1>1, <2>1, <2>2, <2>4, QuietEvents DEF InSync, Is
    <3>2. QED
      BY <2>2, <2>3, <3>1 DEF Proper, Keeps
  <2>5. CASE ~Is("CLOSING")
    <3>1. ~stream.closed
      BY <1>1, <1>2, <2>1, <2>5
         DEF InSync, Consistent, HandleInSync, StreamInSync, NothingAfterClose
    <3>2. ~Emitted("connect") /\ ~Emitted("close") /\ Is("CONNECTED")
      BY <1>1, <2>1, <3>1 DEF InSync, EventsInSync
    <3>3. EventsOnce' /\ \A f : Emitted(f)' <=> (Emitted(f) \/ f = "connect")
      BY <1>1, <1>2, <2>1, <2>5, <3>2, EmitOnce DEF InSync, EventsInSync, Events
    <3>4. EventsInSync'
      BY <1>1, <2>1, <3>2, <3>3 DEF InSync, EventsInSync, Is
    <3>5. QED
      BY <2>2, <2>3, <3>4 DEF Proper, Keeps
  <2>6. QED
    BY <2>4, <2>5
<1>6. QED
  BY <1>1, <1>3, <1>4, <1>5 DEF Microtask

(* 'finish', of a stream whose connection is there, and what follows it. *)
LEMMA FinishProper ==
  ASSUME InSync, Js, Finish(stream), Is("CONNECTED"), ~stream.finished,
         UNCHANGED <<state, jobs, frame>>, "final" \notin pending',
         "destroy" \in pending' => "destroy" \in pending
  PROVE  Proper
<1>1. stream \in StreamType /\ events \in Seq(Events) /\ SameBits /\ Is("CONNECTED")'
  BY DEF InSync, TypeOK, SameBits, Is
<1>2. CASE stream.destroying
  <2>1. stream' = stream /\ events' = events
    BY <1>2 DEF Finish
  <2>2. Grows
    BY <2>1 DEF Grows
  <2>3. LifeInSync'
    BY <1>2, <2>1 DEF InSync, LifeInSync, Is
  <2>4. EventsInSync'
    BY <2>1, <2>2, <1>1, QuietEvents DEF InSync
  <2>5. QED
    BY <1>1, <2>2, <2>3, <2>4 DEF Proper, Keeps
<1>3. CASE ~stream.destroying
  <2> DEFINE f == [stream EXCEPT !.finished = TRUE]
  <2>1. f \in StreamType /\ f.finished /\ SameStream(stream, f, {"finished"})
    BY <1>1 DEF StreamType, SameStream
  <2>2. stream' = AutoDestroy(f) /\ events' = Append(events, "finish")
    BY <1>3 DEF Finish
  <2> HIDE DEF f
  <2>3. /\ stream'.destroying <=> (f.destroying \/ (f.ended /\ f.finished))
        /\ SameStream(f, stream', {"destroying"})
    BY <2>1, <2>2, AutoDestroyStream
  <2>4. /\ stream'.finished /\ stream'.ended = stream.ended
        /\ stream'.closed = stream.closed /\ stream'.readEnding = stream.readEnding
        /\ stream'.destroying <=> stream.ended
    BY <1>3, <2>1, <2>3 DEF SameStream
  <2>5. ~stream.closed
    BY <1>3 DEF InSync, LifeInSync
  <2>6. Grows
    BY <1>3, <2>4, <2>5 DEF Grows
  <2>7. stream.ended => ~Is("CONNECTING")
    BY NothingConnects DEF InSync, Consistent, StreamInSync
  <2>8. LifeInSync'
    BY <1>1, <1>3, <2>4, <2>5, <2>7 DEF InSync, LifeInSync, Is
  <2>9. ~Emitted("finish") /\ ~Emitted("close")
    BY <2>5 DEF InSync, EventsInSync
  <2>10. EventsOnce' /\ \A e : Emitted(e)' <=> (Emitted(e) \/ e = "finish")
    BY <1>1, <2>2, <2>9, EmitOnce DEF InSync, EventsInSync, Events
  <2>11. EventsInSync'
    BY <1>1, <2>4, <2>10 DEF InSync, EventsInSync, Is
  <2>12. QED
    BY <1>1, <2>6, <2>8, <2>11 DEF Proper, Keeps
<1>4. QED
  BY <1>2, <1>3

(* 'close', of a stream that is destroyed. *)
LEMMA CloseProper ==
  ASSUME InSync, Js, NEW s \in StreamType, Close(s), SameStream(stream, s, {"opened"}),
         stream.destroying, ~stream.closed, frame = "none",
         SameBits, "CLOSING" \in state' <=> "CLOSING" \in state,
         UNCHANGED <<jobs, frame>>, pending' \subseteq pending
  PROVE  Proper
<1>1. stream' \in StreamType /\ stream'.closed /\ SameStream(s, stream', {"closed"})
  BY CloseStep DEF InSync, TypeOK
<1>2. events \in Seq(Events) /\ events' = Append(events, "close")
  BY DEF InSync, TypeOK, Close
<1>3. SameStream(stream, stream', {"opened", "closed"})
  BY <1>1 DEF SameStream
<1>4. \A f \in Bits \cup {"CLOSING"} : Is(f)' <=> Is(f)
  BY DEF SameBits, Is
<1>5. Grows
  BY <1>1, <1>3 DEF Grows, SameStream
<1>6. LifeInSync'
  BY <1>1, <1>3, <1>4 DEF InSync, LifeInSync, SameStream, Bits
<1>7. ~Emitted("close")
  BY DEF InSync, EventsInSync
<1>8. EventsOnce' /\ \A e : Emitted(e)' <=> (Emitted(e) \/ e = "close")
  BY <1>2, <1>7, EmitOnce DEF InSync, EventsInSync, Events
<1>9. EventsInSync'
  BY <1>1, <1>3, <1>4, <1>8 DEF InSync, EventsInSync, SameStream, Bits
<1>10. QED
  BY <1>5, <1>6, <1>9 DEF Proper, Keeps

(* What the stream calls. *)
LEMMA StreamProper == InSync /\ Stream => Proper
<1>1. SUFFICES ASSUME InSync, Stream PROVE Proper
  OBVIOUS
<1>2. /\ handle \in HandleType /\ stream \in StreamType /\ state \in SUBSET Flags
      /\ events \in Seq(Events)
  BY <1>1 DEF InSync, TypeOK
<1>3. Streaming => Is("CONNECTED") /\ Js /\ ~stream.destroying /\ ~stream.closed
  BY <1>1 DEF Streaming, InSync, LifeInSync, Consistent, StreamInSync
<1>4. CASE StreamOpen
  <2>1. SameStream(stream, stream', {"opening", "opened"})
    BY <1>2, <1>4 DEF StreamOpen, SameStream, StreamType
  <2>2. Minor
    BY <1>4, <2>1 DEF StreamOpen, Minor, SameBits, SameStream, Js, Is
  <2>3. QED
    BY <1>1, <2>2, MinorStep
<1>5. CASE StreamRead
  <2>1. Same(handle, handle', {"reading"})
    BY <1>2, <1>5, ResumeHandle DEF StreamRead
  <2>2. Minor
    BY <1>5, <2>1 DEF StreamRead, Minor, SameBits, Bits, SameStream, Js, Is, Same
  <2>3. QED
    BY <1>1, <2>2, MinorStep
<1>6. CASE StreamWritev
  <2> DEFINE s == [stream EXCEPT !.queue = 0]
  <2>1. s \in StreamType /\ SameStream(stream, s, {"queue"})
    BY <1>2, MaxQueueAssumption DEF StreamType, SameStream
  <2> HIDE DEF s
  <2>2. CASE \E n \in 1..stream.queue : StartWrite(n)
    <3>1. /\ handle' = BindingWritev(handle) /\ pending' = pending \cup {"write"}
          /\ stream' = s /\ state' = state /\ UNCHANGED <<jobs, frame, events>>
      BY <1>6, <2>2 DEF StreamWritev, StartWrite, s
    <3>2. Same(handle, handle', {"write"})
      BY <1>2, <3>1, WritevHandle
    <3>3. Minor
      BY <2>1, <3>1, <3>2 DEF Minor, SameBits, SameStream, Js, Is, Same
    <3>4. QED
      BY <1>1, <3>3, MinorStep
  <2>3. CASE RefuseWrite
    <3>1. Destroy(state, handle, s) /\ UNCHANGED <<pending, jobs, frame, events>> /\ Js
      BY <1>3, <1>6, <2>3 DEF StreamWritev, RefuseWrite, s
    <3>2. QED
      BY <1>1, <1>2, <2>1, <3>1, DestroyProper
  <2>4. QED
    BY <1>6, <2>2, <2>3 DEF StreamWritev
<1>7. CASE StreamFinal
  <2>1. /\ Streaming /\ ~stream.finished /\ "final" \notin pending
        /\ UNCHANGED <<state, jobs, frame>>
    BY <1>7 DEF StreamFinal
  <2>2. CASE Finish(stream) /\ UNCHANGED <<pending, handle>>
    BY <1>1, <1>3, <2>1, <2>2, FinishProper
  <2>3. CASE /\ pending' = pending \cup {"final"} /\ handle' = BindingEnd(handle)
             /\ UNCHANGED <<stream, events>>
    <3>1. Same(handle, handle', {"shutdown", "writable"})
      BY <1>2, <2>3, EndHandle
    <3>2. Grows /\ SameBits
      BY <2>1, <2>3 DEF Grows, SameBits
    <3>3. LifeInSync'
      BY <1>1, <1>3, <2>1, <2>3, <3>1 DEF InSync, LifeInSync, Js, Is, Same
    <3>4. EventsInSync'
      BY <1>1, <2>1, <2>3, <3>2, QuietEvents DEF InSync, Is
    <3>5. QED
      BY <3>2, <3>3, <3>4 DEF Proper, Keeps
  <2>4. QED
    BY <1>7, <2>2, <2>3 DEF StreamFinal
<1>8. CASE StreamEnd
  <2> DEFINE s == [stream EXCEPT !.ended = TRUE]
  <2>1. s \in StreamType /\ s.ended /\ SameStream(stream, s, {"ended"})
    BY <1>2 DEF StreamType, SameStream
  <2>2. /\ Streaming /\ stream.readEnding /\ ~stream.ended
        /\ stream' = AutoDestroy(s) /\ events' = Append(events, "end")
        /\ UNCHANGED <<state, pending, jobs, frame, handle>>
    BY <1>8 DEF StreamEnd
  <2> HIDE DEF s
  <2>3. /\ stream'.destroying <=> (s.destroying \/ (s.ended /\ s.finished))
        /\ SameStream(s, stream', {"destroying"})
    BY <2>1, <2>2, AutoDestroyStream
  <2>4. /\ stream'.ended /\ stream'.finished = stream.finished
        /\ stream'.closed = stream.closed /\ stream'.readEnding = stream.readEnding
        /\ stream'.destroying <=> stream.finished
    BY <1>3, <2>1, <2>2, <2>3 DEF SameStream
  <2>5. Grows /\ SameBits
    BY <1>3, <2>2, <2>4 DEF Grows, SameBits
  <2>6. ~Is("CONNECTING")
    BY <1>1, <1>3, <2>2, NothingConnects
  <2>7. LifeInSync'
    BY <1>1, <1>3, <2>2, <2>4, <2>6 DEF InSync, LifeInSync, Js, Is
  <2>8. ~Emitted("end") /\ ~Emitted("close")
    BY <1>1, <1>3, <2>2 DEF InSync, EventsInSync
  <2>9. EventsOnce' /\ \A e : Emitted(e)' <=> (Emitted(e) \/ e = "end")
    BY <1>1, <1>2, <2>2, <2>8, EmitOnce DEF InSync, EventsInSync, Events
  <2>10. EventsInSync'
    BY <1>1, <2>2, <2>4, <2>9 DEF InSync, EventsInSync, Is
  <2>11. QED
    BY <2>5, <2>7, <2>10 DEF Proper, Keeps
<1>9. CASE StreamDestroy
  <2>1. /\ Js /\ frame = "none" /\ stream.destroying /\ ~stream.closed /\ pending = {}
        /\ UNCHANGED <<jobs, frame>>
    BY <1>9 DEF StreamDestroy
  <2>2. CASE Close(stream) /\ UNCHANGED <<state, pending, handle>>
    <3>1. SameBits /\ SameStream(stream, stream, {"opened"})
      BY <2>2 DEF SameBits, SameStream
    <3>2. QED
      BY <1>1, <1>2, <2>1, <2>2, <3>1, CloseProper
  <2>3. CASE /\ pending' = {"destroy"} /\ Predestroy(state, handle)
             /\ UNCHANGED <<stream, events>>
    <3>1. ~Is("CONNECTING")
      BY <1>1, <2>1 DEF InSync, LifeInSync
    <3>2. /\ SameBits /\ (Is("CLOSING") => Is("CLOSING")')
          /\ (~Is("CLOSING")' => state' = state)
      BY <2>3, <3>1 DEF Predestroy, MarkClosing, Is, SameBits, Bits
    <3>3. Grows
      BY <2>3 DEF Grows
    <3>4. LifeInSync'
      BY <1>1, <2>1, <2>3, <3>1, <3>2 DEF InSync, LifeInSync, Is, SameBits, Bits, Js
    <3>5. EventsInSync'
      BY <1>1, <2>1, <2>3, <3>2, <3>3, QuietEvents DEF InSync, Is, SameBits, Bits
    <3>6. QED
      BY <3>2, <3>3, <3>4, <3>5 DEF Proper, Keeps
  <2>4. QED
    BY <1>9, <2>2, <2>3 DEF StreamDestroy
<1>10. QED
  BY <1>1, <1>4, <1>5, <1>6, <1>7, <1>8, <1>9 DEF Stream

(* A write that completed or failed, and what _continueWrite does. *)
LEMMA WriteProper == InSync /\ (OnWrite \/ OnWriteError) => Proper
<1>1. SUFFICES ASSUME InSync, OnWrite \/ OnWriteError PROVE Proper
  OBVIOUS
<1> DEFINE h == WriteDone(handle)
<1>2. /\ handle \in HandleType /\ stream \in StreamType
      /\ SameStream(stream, stream, {"queue"})
  BY <1>1 DEF InSync, TypeOK, SameStream
<1>3. Js /\ handle.write > 0 /\ UNCHANGED <<jobs, frame, events>>
  BY <1>1 DEF OnWrite, OnWriteError, Loop
<1>4. h \in HandleType /\ Same(handle, h, {"write"})
  BY <1>2, <1>3, WriteDoneHandle
<1>5. \/ Destroy(state, h, stream) /\ pending' \subseteq pending
      \/ /\ handle' = h \/ handle' = BindingWritev(h)
         /\ pending' \subseteq pending /\ UNCHANGED <<state, stream>>
  BY <1>1 DEF OnWrite, OnWriteError, NextSegment, Settle
<1> HIDE DEF h
<1>6. CASE Destroy(state, h, stream) /\ pending' \subseteq pending
  BY <1>1, <1>2, <1>3, <1>4, <1>6, DestroyProper
<1>7. CASE /\ handle' = h \/ handle' = BindingWritev(h)
           /\ pending' \subseteq pending /\ UNCHANGED <<state, stream>>
  <2>1. Same(handle, handle', {"write"})
    BY <1>4, <1>7, WritevHandle DEF Same
  <2>2. Minor
    BY <1>3, <1>7, <2>1 DEF Minor, SameBits, SameStream, Js, Same
  <2>3. QED
    BY <1>1, <2>2, MinorStep
<1>8. QED
  BY <1>5, <1>6, <1>7

(* The teardown leaves the JavaScript side as it is. *)
LEMMA TeardownProper == InSync /\ Teardown => Proper
<1>1. SUFFICES ASSUME InSync, Teardown PROVE Proper
  OBVIOUS
<1>2. handle \in HandleType
  BY <1>1 DEF InSync, TypeOK
<1>3. handle'.exiting
  BY <1>1, <1>2, TeardownHandle DEF Teardown
<1>4. Minor
  BY <1>1, <1>3 DEF Teardown, Minor, SameBits, SameStream, Js
<1>5. QED
  BY <1>1, <1>4, MinorStep

(* What the event loop calls. *)
LEMMA CallbackProper == InSync /\ Callback => Proper
<1>1. SUFFICES ASSUME InSync, Callback PROVE Proper
  OBVIOUS
<1>2. /\ handle \in HandleType /\ stream \in StreamType /\ state \in SUBSET Flags
      /\ events \in Seq(Events) /\ SameStream(stream, stream, {"queue"})
  BY <1>1 DEF InSync, TypeOK, SameStream
<1>3. CASE OnConnectError
  <2>1. /\ Js /\ handle.connect > 0 /\ ~handle.closing /\ ~Is("CLOSING")
    BY <1>1, <1>3 DEF OnConnectError, Loop, InSync, Consistent, HandleInSync
  <2>2. ConnectDone(handle) \in HandleType
    BY <1>2, <2>1, ConnectDoneHandle
  <2>3. QED
    BY <1>1, <1>2, <1>3, <2>1, <2>2, DestroyProper DEF OnConnectError, Settle
<1>4. CASE OnConnect
  <2>1. /\ Js /\ jobs = {} /\ frame = "none" /\ handle.connect > 0 /\ ~handle.closing
        /\ state' = (state \ {"CONNECTING"}) \cup {"CONNECTED", "READABLE", "WRITABLE"}
        /\ stream' = ContinueOpen(stream) /\ pending' = pending \ {"open"}
        /\ \/ frame' = "onconnect" /\ events' = events
           \/ frame' = frame /\ events' = Append(events, "connect")
        /\ UNCHANGED jobs
    BY <1>4 DEF OnConnect, Loop, Settle
  <2>2. handle.connect = 1 /\ ~Is("CLOSING") /\ ~Is("CONNECTED")
    BY <1>1, <1>2, <2>1
       DEF InSync, Consistent, HandleInSync, RequestsInSync, OneRequestEach, HandleType
  <2>3. ~stream.destroying /\ ~stream.closed
    BY <1>1, <2>1, <2>2 DEF InSync, Consistent, StreamInSync, LifeInSync
  <2>4. SameStream(stream, stream', {"opened"})
    BY <1>2, <2>1, ContinueOpenStream
  <2>5. Grows /\ Opens
    BY <2>1, <2>2, <2>3, <2>4 DEF Grows, Opens, SameStream, Is
  <2>6. Is("CONNECTED")' /\ ~Is("CONNECTING")'
    BY <2>1 DEF Is
  <2>7. LifeInSync'
    BY <1>1, <2>1, <2>3, <2>4, <2>6 DEF InSync, LifeInSync, SameStream
  <2>8. ~Emitted("connect") /\ ~Emitted("close")
    BY <1>1, <2>2, <2>3 DEF InSync, EventsInSync
  <2>9. CASE frame' = "onconnect" /\ events' = events
    <3>1. EventsOnce' /\ \A e : Emitted(e)' <=> Emitted(e)
      <4>1. EventsOnce'
        BY <1>1, <2>9 DEF InSync, EventsInSync, EventsOnce
      <4>2. QED
        BY <2>9, <4>1 DEF Emitted
    <3>2. EventsInSync'
      BY <1>1, <2>1, <2>3, <2>4, <2>6, <2>8, <2>9, <3>1
         DEF InSync, EventsInSync, SameStream
    <3>3. QED
      BY <2>5, <2>7, <3>2 DEF Proper, Keeps
  <2>10. CASE frame' = frame /\ events' = Append(events, "connect")
    <3>1. EventsOnce' /\ \A e : Emitted(e)' <=> (Emitted(e) \/ e = "connect")
      BY <1>1, <1>2, <2>8, <2>10, EmitOnce DEF InSync, EventsInSync, Events
    <3>2. EventsInSync'
      BY <1>1, <2>1, <2>4, <2>6, <2>10, <3>1 DEF InSync, EventsInSync, SameStream
    <3>3. QED
      BY <2>5, <2>7, <3>2 DEF Proper, Keeps
  <2>11. QED
    BY <2>1, <2>9, <2>10
<1>5. CASE EmitConnect
  <2>1. /\ frame = "onconnect" /\ frame' = "none" /\ events' = Append(events, "connect")
        /\ UNCHANGED <<state, pending, jobs, handle, stream>>
    BY <1>5 DEF EmitConnect
  <2>2. ~Emitted("connect") /\ ~Emitted("close") /\ Is("CONNECTED") /\ "connect" \notin jobs
    BY <1>1, <2>1 DEF InSync, EventsInSync
  <2>3. EventsOnce' /\ \A e : Emitted(e)' <=> (Emitted(e) \/ e = "connect")
    BY <1>1, <1>2, <2>1, <2>2, EmitOnce DEF InSync, EventsInSync, Events
  <2>4. Grows /\ SameBits
    BY <2>1 DEF Grows, SameBits
  <2>5. LifeInSync'
    BY <1>1, <2>1 DEF InSync, LifeInSync, Js, Is
  <2>6. EventsInSync'
    BY <1>1, <2>1, <2>2, <2>3 DEF InSync, EventsInSync, Is
  <2>7. QED
    BY <2>4, <2>5, <2>6 DEF Proper, Keeps
<1>6. CASE DropConnect
  <2>1. Same(handle, handle', {"connect"})
    BY <1>2, <1>6, ConnectDoneHandle DEF DropConnect
  <2>2. Minor
    BY <1>6, <2>1 DEF DropConnect, Minor, SameBits, SameStream, Js, Same
  <2>3. QED
    BY <1>1, <2>2, MinorStep
<1>7. CASE OnReadData
  <2>1. SameStream(stream, stream', {"full"})
    BY <1>2, <1>7 DEF OnReadData, SameStream, StreamType
  <2>2. Same(handle, handle', {"reading"})
    BY <1>2, <1>7, PauseHandle DEF OnReadData, PauseReading, Same
  <2>3. state' = state \/ state' = state \ {"READING"}
    BY <1>7 DEF OnReadData, PauseReading
  <2>4. Minor
    BY <1>7, <2>1, <2>2, <2>3
       DEF OnReadData, Minor, SameBits, Bits, SameStream, Js, Is, Same
  <2>5. QED
    BY <1>1, <2>4, MinorStep
<1>8. CASE OnReadEnd
  <2>1. /\ Js /\ jobs = {} /\ handle.reading /\ handle' = ReadEnded(handle)
        /\ stream' = EndHalves(stream, FALSE, allowHalfOpen)
        /\ UNCHANGED <<state, pending, jobs, frame, events>>
    BY <1>8 DEF OnReadEnd, Loop
  <2>2. SameStream(stream, stream', {"readEnding", "ending"})
    BY <1>1, <1>2, <2>1, EndHalvesStream DEF InSync, TypeOK
  <2>3. Same(handle, handle', {"reading"})
    BY <1>2, <2>1, ReadEndedHandle
  <2>4. Grows /\ SameBits
    BY <2>1, <2>2 DEF Grows, SameBits, SameStream
  <2>5. Is("CLOSING") \/ Is("CONNECTED")
    BY <1>1, <2>1 DEF InSync, Consistent, ReadInSync
  <2>6. LifeInSync'
    BY <1>1, <2>1, <2>2, <2>3, <2>5 DEF InSync, LifeInSync, Js, Is, Same, SameStream
  <2>7. EventsInSync'
    BY <1>1, <2>1, <2>2, <2>4, QuietEvents DEF InSync, Is, SameStream
  <2>8. QED
    BY <2>4, <2>6, <2>7 DEF Proper, Keeps
<1>9. CASE OnReadError
  <2>1. ReadFailed(handle) \in HandleType
    BY <1>2, ReadFailedHandle
  <2>2. QED
    BY <1>1, <1>2, <1>9, <2>1, DestroyProper DEF OnReadError, Loop
<1>10. CASE OnWrite \/ OnWriteError
  BY <1>1, <1>10, WriteProper
<1>11. CASE OnShutdown
  <2>1. /\ Js /\ handle.shutdown > 0 /\ handle' = ShutdownDone(handle)
        /\ pending' = pending \ {"final"} /\ UNCHANGED <<state, jobs, frame>>
    BY <1>11 DEF OnShutdown, Loop, Settle
  <2>2. Same(handle, handle', {"shutdown"})
    BY <1>2, <2>1, ShutdownDoneHandle
  <2>3. CASE "final" \in pending
    <3>1. Finish(stream) /\ Is("CONNECTED") /\ ~stream.finished
      BY <1>1, <1>11, <2>3 DEF OnShutdown, InSync, LifeInSync
    <3>2. QED
      BY <1>1, <2>1, <2>2, <3>1, FinishProper DEF Same
  <2>4. CASE "final" \notin pending
    <3>1. UNCHANGED <<stream, events>>
      BY <1>11, <2>4 DEF OnShutdown
    <3>2. Minor
      BY <2>1, <2>2, <3>1 DEF Minor, SameBits, SameStream, Js, Same
    <3>3. QED
      BY <1>1, <3>2, MinorStep
  <2>5. QED
    BY <2>3, <2>4
<1>12. CASE DropRequest
  <2>1. handle'.exiting = handle.exiting
    <3>1. CASE handle.write > 0 /\ handle' = WriteDone(handle)
      BY <1>2, <3>1, WriteDoneHandle DEF Same
    <3>2. CASE handle.shutdown > 0 /\ handle' = ShutdownDone(handle)
      BY <1>2, <3>2, ShutdownDoneHandle DEF Same
    <3>3. QED
      BY <1>12, <3>1, <3>2 DEF DropRequest
  <2>2. Minor
    BY <1>12, <2>1 DEF DropRequest, Minor, SameBits, SameStream, Js
  <2>3. QED
    BY <1>1, <2>2, MinorStep
<1>13. CASE OnClose
  <2>1. /\ Js /\ jobs = {} /\ frame = "none" /\ handle' = UvClosed(handle)
        /\ state' = state \cup {"CLOSED"} /\ pending' = pending \ {"open", "destroy"}
        /\ UNCHANGED <<jobs, frame>>
    BY <1>13 DEF OnClose, Loop
  <2>2. Same(handle, handle', {"uv"})
    BY <1>2, <2>1, ClosedHandle
  <2>3. /\ SameBits
        /\ "CLOSING" \in state' <=> "CLOSING" \in state
    BY <2>1 DEF SameBits, Bits
  <2> DEFINE s == ContinueOpen(stream)
  <2>4. s \in StreamType /\ SameStream(stream, s, {"opened"})
    BY <1>2, ContinueOpenStream
  <2>5. CASE "destroy" \in pending
    <3>1. Close(s)
      BY <1>13, <2>5 DEF OnClose
    <3> HIDE DEF s
    <3>2. stream.destroying /\ ~stream.closed
      BY <1>1, <2>5
         DEF InSync, LifeInSync, Consistent, StreamInSync, NothingAfterClose
    <3>3. QED
      BY <1>1, <2>1, <2>2, <2>3, <2>4, <3>1, <3>2, CloseProper DEF Same
  <2>6. CASE "destroy" \notin pending
    <3>1. stream' = s /\ events' = events
      BY <1>13, <2>6 DEF OnClose
    <3> HIDE DEF s
    <3>2. Minor
      BY <2>1, <2>2, <2>3, <2>4, <3>1 DEF Minor, SameStream, Js, Same
    <3>3. QED
      BY <1>1, <3>2, MinorStep
  <2>7. QED
    BY <2>5, <2>6
<1>14. CASE DropClose
  <2>1. Same(handle, handle', {"uv"})
    BY <1>2, <1>14, ClosedHandle DEF DropClose
  <2>2. Minor
    BY <1>14, <2>1 DEF DropClose, Minor, SameBits, SameStream, Js, Same
  <2>3. QED
    BY <1>1, <2>2, MinorStep
<1>15. QED
  BY <1>1, <1>3, <1>4, <1>5, <1>6, <1>7, <1>8, <1>9, <1>10, <1>11, <1>12, <1>13,
     <1>14 DEF Callback

-----------------------------------------------------------------------------
(* The theorems.                                                           *)

(* Every step is proper, and a pipe is in sync in every state. *)
LEMMA StepProper == InSync /\ [Next]_vars => Proper
<1>1. SUFFICES ASSUME InSync, [Next]_vars PROVE Proper
  OBVIOUS
<1>2. CASE UNCHANGED vars
  <2>1. Minor
    BY <1>2 DEF vars, Minor, SameBits, SameStream, Js
  <2>2. QED
    BY <1>1, <2>1, MinorStep
<1>3. QED
  BY <1>1, <1>2, UserProper, MicrotaskProper, StreamProper, CallbackProper,
     TeardownProper DEF Next

(* The invariant of this module. *)
THEOREM StaysInSync == Spec => []InSync
<1>1. Init => LifeInSync /\ EventsInSync
  BY DEF Init, NewStream, LifeInSync, EventsInSync, EventsOnce, Emitted, Is
<1>2. InSync /\ [Next]_vars => LifeInSync' /\ EventsInSync'
  BY StepProper DEF Proper, Keeps
<1>3. InSync <=> TypeOK /\ Consistent /\ LifeInSync /\ EventsInSync
  BY DEF InSync
<1>4. QED
  BY <1>1, <1>2, <1>3, TypeCorrect, Consistency, PTL DEF Spec

(* No event is emitted twice, and nothing after 'close'. *)
THEOREM EventsAreEmittedOnce == Spec => []EventsOnce
<1>1. InSync => EventsOnce
  BY DEF InSync, EventsInSync
<1>2. QED
  BY <1>1, StaysInSync, PTL

(* Every step is one of the life cycle, or a stutter. *)
LEMMA StepRefines == InSync /\ InSync' /\ Proper => [Lifecycle!Next]_(Lifecycle!vars)
<1>1. SUFFICES ASSUME InSync, InSync', Proper
      PROVE  [Lifecycle!Next]_(Lifecycle!vars)
  OBVIOUS
<1> USE DEF Is
<1>2. /\ Grows
      /\ SameBits \/ Begins \/ Opens \/ GivesUp
  BY <1>1 DEF Proper, Keeps
<1>3. /\ stream.closed => stream.destroying
      /\ stream.destroying => ~Is("CONNECTING")
      /\ stream.ended \/ stream.finished => Is("CONNECTED")
      /\ stream'.closed => stream'.destroying
      /\ stream'.destroying => ~Is("CONNECTING")'
  BY <1>1 DEF InSync, LifeInSync
<1>4. stream \in StreamType /\ stream' \in StreamType
  BY <1>1 DEF InSync, TypeOK
<1>5. CASE stream.destroying
  <2>1. stream'.destroying /\ readyState = "closed" /\ readyState' = "closed"
    BY <1>2, <1>3, <1>5 DEF readyState, Grows
  <2>2. QED
    BY <1>2, <1>5, <2>1 DEF Grows, Lifecycle!Next, Lifecycle!Close, Lifecycle!vars
<1>6. CASE ~stream.destroying /\ stream'.destroying
  <2>1. ~stream.closed /\ ~stream'.closed /\ readyState' = "closed"
    BY <1>2, <1>3, <1>6 DEF readyState, Grows
  <2>2. QED
    BY <1>6, <2>1 DEF Lifecycle!Next, Lifecycle!Destroy
<1>7. CASE ~stream'.destroying /\ ~stream.destroying /\ SameBits
  <2>1. ~stream.closed /\ ~stream'.closed
    BY <1>3, <1>7
  <2>2. CASE ~("CONNECTED" \in state) \/ "CONNECTING" \in state
    <3>1. readyState' = readyState
      BY <1>7, <2>2 DEF readyState, SameBits, Bits
    <3>2. QED
      BY <1>7, <2>1, <2>2, <3>1 DEF SameBits, Bits, Lifecycle!vars
  <2>3. CASE "CONNECTED" \in state /\ "CONNECTING" \notin state
    <3>1. readyState' # readyState => Lifecycle!EndHalf
      BY <1>2, <1>7, <2>1, <2>3
         DEF readyState, SameBits, Bits, Grows, Lifecycle!EndHalf, Lifecycle!Halves
    <3>2. readyState' = readyState => UNCHANGED Lifecycle!vars
      BY <1>7, <2>1, <2>3 DEF SameBits, Bits, Lifecycle!vars
    <3>3. QED
      BY <3>1, <3>2 DEF Lifecycle!Next
  <2>4. QED
    BY <2>2, <2>3
<1>8. CASE ~stream'.destroying /\ ~stream.destroying /\ Begins
  <2>1. /\ ~stream.closed /\ ~stream'.closed /\ "CONNECTING" \in state'
        /\ readyState = "closed" /\ readyState' = "opening"
    BY <1>3, <1>8 DEF Begins, readyState
  <2>2. QED
    BY <1>8, <2>1 DEF Begins, Lifecycle!Next, Lifecycle!Begin
<1>9. CASE ~stream'.destroying /\ ~stream.destroying /\ Opens
  <2>1. /\ ~stream.closed /\ ~stream'.closed /\ ~stream'.ended /\ ~stream'.finished
    BY <1>3, <1>9 DEF Opens
  <2>2. CASE "CONNECTING" \in state'
    <3>1. readyState = "opening" /\ readyState' = "opening" /\ "CONNECTING" \in state
      BY <1>9, <2>2 DEF Opens, readyState
    <3>2. QED
      BY <1>9, <2>1, <2>2, <3>1 DEF Lifecycle!vars
  <2>3. CASE "CONNECTING" \notin state'
    <3>1. readyState' \in {"open", "readOnly", "writeOnly"}
      BY <1>9, <2>1, <2>3 DEF Opens, readyState
    <3>2. QED
      BY <1>9, <2>1, <2>3, <3>1 DEF Opens, Lifecycle!Next, Lifecycle!Establish
  <2>4. QED
    BY <2>2, <2>3
<1>10. QED
  BY <1>2, <1>5, <1>6, <1>7, <1>8, <1>9 DEF GivesUp

(***************************************************************************)
(* readyState follows the life cycle index.d.ts promises: 'opening' at     *)
(* most once, then only halves lost, and 'closed' for good once destroyed. *)
(***************************************************************************)
THEOREM PipeRefines == Spec => ImplementsLifecycle
<1>1. Init => Lifecycle!Init
  BY DEF Init, NewStream, Lifecycle!Init, readyState, Is
<1>2. InSync /\ InSync' /\ [Next]_vars => [Lifecycle!Next]_(Lifecycle!vars)
  BY StepProper, StepRefines
<1>3. QED
  BY <1>1, <1>2, StaysInSync, PTL DEF Spec, ImplementsLifecycle, Lifecycle!Spec
=============================================================================
