------------------------------ MODULE PipeIpc ------------------------------
(***************************************************************************)
(* Sending handles from one Pipe to another (ipc: true): the handle queue  *)
(* that write() keeps beside the stream's own queue, the splitting of a    *)
(* batch into segments with at most one handle each, the wire, and the     *)
(* receiving binding, which surfaces the handles of a read before its      *)
(* data.  Both pipes are connected and open; their life is module Pipe's.  *)
(*                                                                         *)
(* A message is its number; sent[m] is the handle it was written with.     *)
(***************************************************************************)
EXTENDS Naturals, Sequences, SequencesExt

CONSTANTS
  Handles,      \* the handles a user sends
  NoTarget,     \* null in place of a handle
  MaxMessages,  \* bound: messages written
  MaxThrows     \* bound: calls of write() that throw, on an unknown encoding

ASSUME IpcAssumption ==
  /\ NoTarget \notin Handles
  /\ MaxMessages \in Nat /\ MaxThrows \in Nat

VARIABLES
  sent,             \* the messages written so far
  throws,           \* calls of write() that threw
  queue,            \* the stream's queue of messages
  handleQueue,      \* _handleQueue
  handleQueueSize,  \* _handleQueueSize
  segments,         \* segments of _pendingWriteSegments still to complete
  writing,          \* _pendingWrite # null
  closing,          \* the sender's CLOSING
  wire,             \* native writes the receiver has not read
  frame,            \* where the receiver's on_read is
  reading,          \* the messages of that read
  pendingHandles,   \* libuv's handles received and not yet accepted
  accepted,         \* the handles the receiver accepted, in order
  delivered,        \* the messages _onread was given
  rclosing          \* the receiver's closing

senderVars == <<queue, handleQueue, handleQueueSize, segments, writing, closing>>
receiverVars == <<frame, reading, pendingHandles, accepted, delivered, rclosing>>
vars == <<sent, throws, senderVars, wire, receiverVars>>

Targets == Handles \cup {NoTarget}
Messages == 1..MaxMessages
Segment == [chunks: Seq(Messages), handle: Targets]

TypeOK ==
  /\ sent \in Seq(Targets)
  /\ throws \in 0..MaxThrows
  /\ queue \in Seq(Messages)
  /\ handleQueue \in Seq(Targets)
  /\ handleQueueSize \in Nat
  /\ segments \in Seq(Segment)
  /\ writing \in BOOLEAN
  /\ closing \in BOOLEAN
  /\ wire \in Seq(Segment)
  /\ frame \in {"idle", "handles", "kept", "took", "data"}
  /\ reading \in Seq(Messages)
  /\ pendingHandles \in Seq(Handles)
  /\ accepted \in Seq(Handles)
  /\ delivered \in Seq(Messages)
  /\ rclosing \in BOOLEAN

Init ==
  /\ sent = <<>> /\ throws = 0
  /\ queue = <<>> /\ handleQueue = <<>> /\ handleQueueSize = 0
  /\ segments = <<>> /\ writing = FALSE /\ closing = FALSE
  /\ wire = <<>>
  /\ frame = "idle" /\ reading = <<>> /\ pendingHandles = <<>>
  /\ accepted = <<>> /\ delivered = <<>> /\ rclosing = FALSE

-----------------------------------------------------------------------------
\* The handles among the targets, in order.
Carrying(targets) ==
  FlattenSeq([i \in DOMAIN targets |->
                IF targets[i] = NoTarget THEN <<>> ELSE <<targets[i]>>])

\* How many of them there are.
Count(targets) == Cardinality({i \in DOMAIN targets : targets[i] # NoTarget})

\* A batch with the handles taken from the queue for it, holes filled.
Taken(batch) ==
  [i \in DOMAIN batch |->
     IF i \in DOMAIN handleQueue THEN handleQueue[i] ELSE NoTarget]

\* A message without a handle joins the one before it, even one with a handle.
JoinsAfterHandle(targets, i) == i > 1 /\ targets[i] = NoTarget

\* A message joins the one before it if neither has a handle.
Joins(targets, i) ==
  i > 1 /\ targets[i] = NoTarget /\ targets[i - 1] = NoTarget

\* The messages among the first n that start a segment.
Starts(targets, n) == {i \in 1..n : ~Joins(targets, i)}

\* The messages of the r-th segment.
Run(targets, r) == {i \in DOMAIN targets : Cardinality(Starts(targets, i)) = r}

\* The segments of a batch: each run of messages without a handle, and each
\* message with one.
Split(batch, targets) ==
  [r \in 1..Cardinality(Starts(targets, Len(batch))) |->
     LET run == Run(targets, r)
         start == CHOOSE i \in run : \A j \in run : i <= j
     IN  [chunks |-> SubSeq(batch, start, start + Cardinality(run) - 1),
          handle |-> targets[start]]]

\* stream.destroy() and _predestroy at the sender: _clearHandleQueue, close.
DestroySender ==
  /\ closing' = TRUE
  /\ handleQueue' = <<>> /\ handleQueueSize' = 0

-----------------------------------------------------------------------------
(* The sender.                                                             *)

\* What write() does to the handle queue before it calls super.write().
Enqueue(h) ==
  /\ handleQueue' = Append(handleQueue, h)
  /\ handleQueueSize' = handleQueueSize + (IF h = NoTarget THEN 0 ELSE 1)

Write(h) ==
  /\ ~closing /\ Len(sent) < MaxMessages
  /\ sent' = Append(sent, h)
  /\ queue' = Append(queue, Len(sent) + 1)
  /\ Enqueue(h)
  /\ UNCHANGED <<throws, segments, writing, closing, wire, receiverVars>>

\* super.write() throws, on an unknown encoding, after the handle was queued.
WriteThrows(h) ==
  /\ throws < MaxThrows
  /\ ~closing
  /\ throws' = throws + 1
  /\ Enqueue(h)
  /\ UNCHANGED <<sent, queue, segments, writing, closing, wire, receiverVars>>

\* _writeNextSegment: the target may have become invalid, or libuv refuse.
WriteSegments(segs) ==
  \/ /\ wire' = Append(wire, Head(segs))
     /\ segments' = segs
     /\ writing' = TRUE
     /\ UNCHANGED closing
  \/ /\ closing' = TRUE
     /\ segments' = <<>> /\ writing' = FALSE
     /\ UNCHANGED wire

\* _writev that keeps the nulls of a batch without handles in the queue.
TakeHandlesKeepsNulls(batch) ==
  /\ handleQueue' =
       IF closing' THEN <<>>
       ELSE IF handleQueueSize = 0 THEN handleQueue
       ELSE SubSeq(handleQueue, Len(batch) + 1, Len(handleQueue))
  /\ handleQueueSize' =
       IF closing' THEN 0
       ELSE handleQueueSize - Count(Taken(batch))

\* _writev that counts every entry it takes as a handle.
TakeHandlesCountsNulls(batch) ==
  /\ handleQueue' =
       IF handleQueueSize = 0 \/ closing' THEN <<>>
       ELSE SubSeq(handleQueue, Len(batch) + 1, Len(handleQueue))
  /\ handleQueueSize' =
       IF handleQueueSize = 0 \/ closing' THEN 0 ELSE handleQueueSize - Len(batch)

\* The handle queue after _writev took a batch; the size stays in step.
TakeHandles(batch) ==
  /\ handleQueue' =
       IF handleQueueSize = 0 \/ closing' THEN <<>>
       ELSE SubSeq(handleQueue, Len(batch) + 1, Len(handleQueue))
  /\ handleQueueSize' =
       IF closing' THEN 0
       ELSE handleQueueSize - Count(Taken(batch))

\* _writev with everything queued.
Writev ==
  /\ ~closing /\ ~writing /\ queue # <<>>
  /\ queue' = <<>>
  /\ IF handleQueueSize = 0
     THEN WriteSegments(<<[chunks |-> queue, handle |-> NoTarget]>>)
     ELSE WriteSegments(Split(queue, Taken(queue)))
  /\ TakeHandles(queue)
  /\ UNCHANGED <<sent, throws, receiverVars>>

\* _continueWrite stops one segment early.
MoreSegmentsButOne == Len(segments) > 2

MoreSegments == Len(segments) > 1

\* on_write and _continueWrite: the next segment, or the batch is settled.  A
\* handle that is closing refuses the native write, which settles it too.
OnWrite ==
  /\ writing
  /\ IF MoreSegments /\ ~closing
     THEN WriteSegments(Tail(segments))
     ELSE segments' = <<>> /\ writing' = FALSE /\ UNCHANGED <<closing, wire>>
  /\ IF closing' THEN handleQueue' = <<>> /\ handleQueueSize' = 0
                 ELSE UNCHANGED <<handleQueue, handleQueueSize>>
  /\ UNCHANGED <<sent, throws, queue, receiverVars>>

\* destroy(), at any time.
Destroy ==
  /\ ~closing
  /\ DestroySender
  /\ UNCHANGED <<sent, throws, queue, segments, writing, wire, receiverVars>>

Sender ==
  \/ \E h \in Targets : Write(h) \/ WriteThrows(h)
  \/ Writev \/ OnWrite \/ Destroy

-----------------------------------------------------------------------------
(* The receiver.                                                           *)

\* libuv reads n native writes at once; the one with a handle ends the read
\* (external).  That is Linux; macOS ends the read before it (test.js 2033-2037).
OnRead(n) ==
  /\ frame = "idle" /\ ~rclosing
  /\ \A i \in 1..n - 1 : wire[i].handle = NoTarget
  /\ LET taken == SubSeq(wire, 1, n)
     IN  /\ reading' = FlattenSeq([i \in 1..n |-> taken[i].chunks])
         /\ pendingHandles' =
              pendingHandles \o Carrying([i \in 1..n |-> taken[i].handle])
  /\ wire' = SubSeq(wire, n + 1, Len(wire))
  /\ frame' = "handles"
  /\ UNCHANGED <<sent, throws, senderVars, accepted, delivered, rclosing>>

\* accept() of k handles by the receiver's user.
Accept(k) ==
  /\ accepted' = accepted \o SubSeq(pendingHandles, 1, k)
  /\ pendingHandles' = SubSeq(pendingHandles, k + 1, Len(pendingHandles))

\* The 'handle' event: its listener accepts some, or none, or destroys the pipe.
OnHandle ==
  /\ frame = "handles" /\ pendingHandles # <<>> /\ ~rclosing
  /\ \E k \in 0..Len(pendingHandles) :
       Accept(k) /\ frame' = IF k = 0 THEN "kept" ELSE "took"
  /\ rclosing' \in BOOLEAN
  /\ UNCHANGED <<sent, throws, senderVars, wire, reading, delivered>>

\* The loop does not compare the count with the one before the event.
AfterHandleSpins == "handles"

\* Where the loop of on_read goes after an event.
AfterHandle == IF frame = "kept" THEN "data" ELSE "handles"

\* The end of the loop's body.
CountHandles ==
  /\ frame \in {"kept", "took"}
  /\ frame' = AfterHandle
  /\ UNCHANGED <<sent, throws, senderVars, wire, reading, pendingHandles,
                 accepted, delivered, rclosing>>

\* The loop is done: _onread, unless the pipe is closing.
OnReadData ==
  /\ frame = "data" \/ (frame = "handles" /\ (pendingHandles = <<>> \/ rclosing))
  /\ frame' = "idle" /\ reading' = <<>>
  /\ delivered' = IF rclosing THEN delivered ELSE delivered \o reading
  /\ UNCHANGED <<sent, throws, senderVars, wire, pendingHandles, accepted, rclosing>>

\* accept() outside a 'handle' event.
AcceptLater ==
  /\ frame = "idle" /\ pendingHandles # <<>> /\ ~rclosing
  /\ Accept(1)
  /\ UNCHANGED <<sent, throws, senderVars, wire, frame, reading, delivered, rclosing>>

Receiver ==
  \/ \E n \in 1..Len(wire) : OnRead(n)
  \/ OnHandle \/ CountHandles \/ OnReadData \/ AcceptLater

-----------------------------------------------------------------------------
Next == Sender \/ Receiver

Spec == Init /\ [][Next]_vars

\* on_read runs to its end: it is one call.
FairSpec ==
  Spec /\ WF_vars(OnHandle) /\ WF_vars(CountHandles) /\ WF_vars(OnReadData)

-----------------------------------------------------------------------------
(* Properties.                                                             *)

(***************************************************************************)
(* While the sender is open the size of the handle queue counts its        *)
(* handles, and, unless a write() threw, its two queues stay in step: the  *)
(* i-th entry of the handle queue is the handle of the i-th message the    *)
(* stream holds (write, _writev, _clearHandleQueue).                       *)
(***************************************************************************)
QueuesAligned ==
  ~closing =>
    /\ handleQueueSize = Count(handleQueue)
    /\ throws = 0 => /\ Len(handleQueue) = Len(queue)
                     /\ \A i \in DOMAIN queue : handleQueue[i] = sent[queue[i]]

\* The messages of a sequence of segments.
Chunks(segs) == FlattenSeq([i \in DOMAIN segs |-> segs[i].chunks])

(***************************************************************************)
(* While both ends are open no message is lost, repeated or reordered on   *)
(* its way through the queue, the segments, the wire and the read.         *)
(***************************************************************************)
NothingLost ==
  (~closing /\ ~rclosing) =>
    delivered \o reading \o Chunks(wire)
      \o (IF writing THEN Chunks(Tail(segments)) ELSE <<>>) \o queue
      = [m \in DOMAIN sent |-> m]

\* A native write that carries a handle carries the message written with it,
\* and nothing else.
HandleRidesAlone ==
  \A i \in DOMAIN wire :
    LET w == wire[i]
    IN  IF w.handle = NoTarget
        THEN \A j \in DOMAIN w.chunks : sent[w.chunks[j]] = NoTarget
        ELSE Len(w.chunks) = 1 /\ sent[w.chunks[1]] = w.handle

\* The same while no write() has thrown.
HandleRidesUnlessThrown == throws = 0 => HandleRidesAlone

\* Surfacing the handles of a read ends, whatever the listener accepts.
ReadEnds == frame # "idle" ~> frame = "idle"

Channel ==
  INSTANCE HandleChannel WITH
    delivered <- Len(delivered), surfaced <- accepted \o pendingHandles

\* Every message arrives in order, its handle no later than itself.
ImplementsChannel == Channel!Spec
=============================================================================
