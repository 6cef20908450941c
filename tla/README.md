# A specification of bare-pipe

bare-pipe gives JavaScript native pipes: Unix domain sockets, Windows named
pipes and anonymous pipes, as a `Duplex` stream (`Pipe`) and a `Server`. It is
`src/index.js` over `src/binding.c` over libuv. Almost all of its difficulty is
in who calls whom back, and when: user code, the stream below `Pipe`, microtasks
and libuv's callbacks all act on one small set of flags, and any of them may find
that another has destroyed the pipe in the meantime.

This directory holds TLA+ modules of that behaviour, TLC configurations that
check them on small instances, and proofs, checked by TLAPS, of what matters most:
every safety property that holds in the configurations is also a theorem.

## 1. Inventory

| Component | State | Operations | Interacts with |
| --- | --- | --- | --- |
| Native handle (`bare_pipe_t`, `binding.c`) | `closing`, `exiting`, `listening`, `owner_only`, three embedded requests, the `uv_pipe_t` | init, connect, bind, open, accept, resume, pause, writev, end, close, ref, unref; callbacks on_connection, on_connect, on_read, on_write, on_shutdown, on_close, on_teardown | called by Pipe and Server; calls their `_on...` methods from the event loop |
| Pipe (`index.js` 13-543) | `_state` bits, `_error`, four `_pending...` continuations, the segments of a batch, the handle queue | connect, open, write, accept, ref, unref, destroy; `_open`, `_read`, `_writev`, `_final`, `_predestroy`, `_destroy`; `_onconnect`, `_onaccept`, `_onread`, `_onwrite`, `_onfinal`, `_onhandle`, `_onclose`, `_onspawn` | bare-stream calls the `_` methods; the binding calls the `_on` methods; a Server or another Pipe accepts into it |
| Server (`index.js` 547-775) | `_state` bits, `_error`, `_handle`, `_connections` | listen, close, ref, unref; `_onconnection`, `_onclose`, `_closeMaybe` | creates a Pipe per client, listens for its 'close' |
| IPC handle passing (`write`, `_writev`, `accept`; `on_read`) | `_handleQueue`, `_handleQueueSize`, `_pendingWriteSegments`; libuv's received handles | write with a handle, accept, the 'handle' event | the queue must agree with bare-stream's own queue of messages |
| Owner-only access control, `remoteCredentials()` (`lib/acl/`) | `connected`, the time of the accept, in the handle | restrict_to_owner, disconnect, timestamp, is_owner_client, peer_credentials | bind and accept of the binding; clients, and the processes and clocks of the system |
| Argument validation and overloads | none of its own | the overloads of the constructors, connect, open, listen, write, createConnection; `validate...`; `bare_pipe__get_path` and the integer conversions | what a call marks or creates before it validates stays behind when it throws |
| `Pipe.pipe`, constants, errors | none | pure | - |

What is hard in them, with the line each bites at, is the list "hazards" of
`PROJECT.json`. In short:

* **Pipe.** `_predestroy` closes the handle before `_destroy` stores its
  continuation, so `on_close` can come first; a destroyed pipe still gets
  `on_write` and `on_shutdown`; `connect()` and `open()` fail from a microtask
  that others overtake; `_onconnect` runs user code in its middle; the bit READING
  must follow libuv's reading exactly, or a reader sleeps for ever; the three
  request structs may not be submitted twice; and the environment can be torn
  down at any point. Correct means: every continuation is settled exactly once,
  'close' comes last and leaves nothing behind, uv_close is called once, reading
  resumes.
* **Server.** A failed bind is reported only when its handle has closed, and the
  listener of that 'error' may listen again; the close waits for the handle and
  for the connections in either order; 'listening', 'close' and late onclose
  callbacks are microtasks. Correct means: no handle is overwritten, no callback
  is stranded, connections exist only between listen and close.
* **IPC.** The handle queue is a second queue beside the stream's, kept in step
  only by counting. Correct means: a handle travels with the message it was
  written with, nothing is lost in the splitting, and surfacing handles ends.
* **Server and pipe together.** The server takes a pipe's 'close' for the end of
  its connection, and a pipe emits it only after its own handle, continuations
  and requests are done. Correct means: the server never closes over a live pipe,
  and destroying the pipes is enough for it to close.
* **Owner.** Windows keeps only the id of a peer, and ids are reused; binding,
  restricting and listening are three calls with clients in between. Correct
  means: whom a server serves, or names, is who connected.
* **Arguments.** Optional arguments stand between required ones and are told
  apart by type. Correct means: nothing is dropped or taken for another, what is
  accepted reaches libuv unchanged, and what is refused leaves no trace.

## 2. Modules

| Module | What it is |
| --- | --- |
| `PipeHandle` | Operators on a record that is one `bare_pipe_t` and what the binding observes of its `uv_pipe_t`; one operator per function of the binding. No variables. |
| `Pipe` | One Pipe: 33 actions. Its environment is the user, the stream, the event loop and the teardown. |
| `PipeLifecycle` | What `readyState` promises. `Pipe` implements it. |
| `PipeServer` | One Server over the handles it listens with, its clients and its onclose callbacks. |
| `ServerLifecycle` | What a server promises of its connections. `PipeServer` implements it. |
| `ServedPipe` | `PipeServer` joined to the whole `Pipe` of one of its clients, in one environment. |
| `PipeIpc` | A sending and a receiving pipe, the wire between them. |
| `HandleChannel` | An ordered channel of messages and handles. `PipeIpc` implements it. |
| `PipeOwner`, `MCPipeOwner` | The calls that bind, restrict, accept and check an owner-only pipe, among processes that come and go and two clocks; the four kinds of process for TLC. |
| `PipeArguments`, `MCPipeArguments` | One call: how its arguments are read, validated and converted; the calls for TLC. |
| `PipeHandleProofs`, `PipeProofs`, `PipeLifecycleProofs` | Lemmas about handles and streams, and the theorems about `Pipe`. |
| `PipeServerProofs`, `PipeIpcProofs`, `ServedPipeProofs`, `PipeOwnerProofs`, `PipeArgumentsProofs` | The theorems about the module of the same name. |

### How the modules correspond to the code

`map` in `PROJECT.json` gives the lines of every definition. The conventions are:

* An action is everything one call does before it returns to the event loop, the
  microtask queue or the user. The user may act whenever JavaScript runs. Two
  handlers are split where they emit an event and then go on: `_onconnect`
  (`OnConnect`, `EmitConnect`) and the server's `_onclose` (`OnClose`, and then
  `AfterError`, or `ErrorThrows` if the 'error' listener throws or there is none);
  `frame` says that such a handler is on the stack, and neither microtasks nor
  callbacks run then. `skipped` remembers that a throw kept `_onclose` from closing
  a server that had nothing else left to close it. In `PipeIpc` `frame` is where the
  receiver's `on_read` is: each turn of its loop over the received handles is an
  event (`OnHandle`) and the comparison of the counts (`CountHandles`), so that a
  loop that spins is a behaviour and not a stutter.
* `state` is the set of the bits of `_state`. `pending` is the set of the
  continuations that are not null. `jobs` are the microtasks, a set for a Pipe
  (each is queued at most once) and a sequence for a Server.
* A request counts how many times its struct is in flight, so that a model that
  reuses one shows it. `closes` counts `uv_close` in the same way.
* A native call that may fail is a disjunction. An error carries no value.
* `handle.exiting` is the teardown of the environment: no JavaScript after it,
  only the `Drop...` actions, which are the early returns of the callbacks.
* The **stream** of `Pipe` is external. It is what `index.js` relies on in
  bare-stream: `_open` once; `_read` when there is room; one `_writev` at a time
  with everything queued; `_final` after the last write; `destroy()` calls
  `_predestroy` at once and `_destroy` when no other continuation is pending; an
  error given to a callback destroys the stream; a stream whose halves have both
  ended destroys itself, without `_predestroy`. What `isReadable` and
  `isWritable` answer is inferred from `test.js` 164-262.
* `Pipe` only counts messages, so a batch splits into any number of segments up
  to its length; `PipeIpc` has the handles that decide the splitting, and leaves
  the rest of the life of both pipes out: they are connected, and may be
  destroyed.
* `ServedPipe` takes the actions of `Pipe` and `PipeServer` as they are and says
  only when each may run: `OnConnection` is the server's `_onconnection` and the
  pipe's `_onaccept` in one step, `TellServer` is the 'close' listener that
  `_onconnection` adds, `Teardown` meets every handle at once, and neither side's
  callbacks run while the other's microtasks wait. Its other clients are
  connections that merely end.
* In `PipeOwner` each system call is an action, since other processes run beside
  the server. A process has the creation time that the system's clock showed, and
  beside it, for the properties, the tick that it really was; `epoch` counts how
  often the clock was set back. On Unix the peer is what the kernel kept at the
  connect; on Windows it is looked up by its id at the check.
* In `PipeArguments` a behaviour is one call. A value is its type with what the
  code looks at: of a string its length in characters, the width of one in bytes
  and whether it begins with NUL; of a number whether it is an integer, and which.
  `MaxPath` and `MaxInt` stand for 4096 and 2^31 - 1; the conversions
  wrap and truncate at them as the binding's do. The body of a method
  (`connectBody`, `listenBody`, ...) is the sequence of its checks and of the
  statements that leave something behind, in the code's order; what a call does is
  what stands before the first check that throws, so that a statement moved across
  a check is another behaviour. `createConnection` is the body of the constructor,
  which connects or opens by itself if it is given a path or a descriptor, and then
  that of `connect()`.
* The **kernel and libuv** are external: a client arrives at a listener at any
  time; a read of an IPC pipe returns any number of native writes up to the first
  that carries a handle, which is where Linux ends a read (macOS ends it before that
  write, `test.js` 2033-2037); a request in flight completes, fails or is cancelled;
  `binding.end` fails only with ENOTCONN, which `_final` takes for an end.
* Assumed of the caller: `_onspawn` is called for an unused pipe only (`OnSpawn`),
  as it does not look. Assumed of listeners: that they return where
  more follows their event in the same call, which is so of 'open' (with 'connect'
  after it) and of 'close' (with the `onclose` callbacks registered later); the
  server's 'error' listener in `_onclose` may throw (`ErrorThrows`), and every other
  event is the last thing its function does.

## 3. Runs

| Run | Question | Result | Distinct states |
| --- | --- | --- | --- |
| PipeSafety | Do flags, handle, requests, continuations and stream agree in every interleaving? Does a destroyed pipe emit 'close', a torn down one close its handle, and does readyState keep its promises? | holds | 60 652 |
| PipeProgress | Do writes, ends and connects settle, and does reading resume? | holds | 39 112 |
| PipeConnectEvent | Is 'connect' never emitted on a destroyed pipe? | violated | - |
| ServerSafety | Is every handle guarded, every callback owed, every failure owned, and something left to close a closing server? Does a server close, call everybody back, report failures, and implement ServerLifecycle? | holds | 23 164 |
| ServerErrorThrows | Does a closing server emit 'close' once its connections have ended? | violated | - |
| ServerCloseEvent | Does 'close' mean that the server has closed? | violated | - |
| ServedPipe | Does a server close only after the pipe it accepted, and is destroying its pipes enough? | holds | 277 792 |
| IpcSafety | Do the two queues stay aligned, and is nothing lost? | holds | 1 078 819 |
| IpcChannel | Does surfacing end, and is the channel ordered? | holds | 16 524 |
| IpcMisaligned | Does a handle travel with its message even if a write() threw? | violated | - |
| OwnerCheck | Is whom a server serves, or names, who connected, and is no owner turned away? | holds | 393 372 |
| ArgumentsCheck | Is every call read as declared, refused exactly when it must be, and without trace? | holds | 128 138 |

Deadlock is not checked: a closed pipe, a server nobody calls, an empty wire, a
connection that was checked and a call that returned have nothing left to do.

Bounds, and why they are enough:

* `MaxQueue` (3, and 2 for PipeProgress): messages the stream holds for one
  `_writev`, hence segments of a batch. With 3 there is a first, a middle and a
  last segment. The theorems hold for every value.
* `MaxListens` (2): a second listen can meet what the first left behind, which
  is the only state the server keeps across listens.
* `Conns` (3), `Closers` (2): with three clients one can be served while one
  waits in the backlog and one is parked; two callbacks can be registered before
  and after the same close. Clients are exchangeable, but there is no symmetry
  set, as the run checks liveness.
* `ServedPipe` has two clients, of which one has its pipe, one callback, one
  listen and a queue of one message: enough for the pipe to be accepted, refused,
  written to, ended, destroyed and torn down in every phase of the server, with
  another connection that holds the close up. What a second listen or a longer
  batch adds does not cross from one side to the other; `ServerSafety` and
  `PipeSafety` have it.
* `MaxMessages` (4, 3 for the refinement), `Handles` (2): four messages hold
  every adjacency of messages with and without handles, in one batch and
  across two.
* `MaxThrows` (1): one call of `write()` that throws already shifts the queue.
* `PipeOwner` has one client, one process id, three ticks and one setting back of
  the clock (`MaxTime`, `MaxBacks`): the id can pass from the peer to another
  process and on to a third, before, in and after the tick of the accept. More ids
  do not interact: the check looks up the client's only.
* `MCShapes` enumerates the calls: every overload with each argument present, left
  out, at its limits, one past them, wrapped round and of another type. `MaxPath`
  (6) is divisible by the widths 1 to 3 of a character, and so exact at the
  boundary for each; `MaxInt` is 3. `createConnection` is also given strings,
  numbers and other values where its options belong.

Fairness. `FairSpec` of `Pipe` asks only for what runs by itself: microtasks, the
rest of `_onconnect`, bare-stream's call of `_destroy`, and libuv, which calls
back every request of a handle that is closing and then its close callback.
`LiveSpec` adds the peer: a connect, a write and a shutdown in flight complete,
and the stream reads when it has room. Nothing is owed by the user: nobody has to
call `destroy()`, `end()` or `read()`. `FairSpec` of `PipeServer` asks the
same of microtasks and libuv, and that the server's 'error' listener returns or
throws (`WF_vars(AfterError \/ ErrorThrows)`: it is a call, but nothing says which);
it adds that connections end, without which no server closes. Where the listener
threw and left nobody to close the server, `CloseCompletes` and `ClosersCalled`
promise nothing (`skipped`), and `CloseAwaited` shows that there is no other way to
be left so. `FairSpec` of `PipeIpc` only
that `on_read`, one call, runs on, whatever its listener does. `ServedPipe` has
the fairness of `PipeServer` but for the end of the connection that has a pipe:
in its place stands that of a pipe that is closing, and the property asks for the
server's 'close' only once the pipe is destroyed. `PipeOwner` and `PipeArguments`
have no liveness.

### What the violated runs show

* `PipeConnectEvent`: `_onconnect` completes the open and emits 'connect'
  without looking at the state again. An 'open' listener, or a queued write that
  is refused, may have destroyed the pipe by then. `open()` guards its own emit
  (`index.js` 207), and `test.js` 571 and 594 take the event for an error.
* `ServerCloseEvent`: `_closeMaybe` queues the 'close' event; a `listen()` before
  the microtask is accepted, and the event is emitted by a server that listens.
* `ServerErrorThrows`: `listen()` fails, `close()` is called, and `_onclose` emits
  'error' (`index.js` 768). If a listener throws, or there is none, `_closeMaybe`
  (770) is not reached: a process that survives the exception, as the one of
  `test.js` 1119-1165 does, has a server that stays CLOSING, refuses to listen, and
  never calls its onclose callbacks. `index.d.ts` 200-203 promises the 'close'.
* `IpcMisaligned`: `write()` queues the handle before `super.write()`, which
  throws on an unknown encoding. The next message takes the handle.

One more divergence is stated in a property that holds: `listen(path, undefined,
{ backlog })` looks for the backlog in its options only if they stand in place of
the path (`index.js` 616), and listens with 511, where `index.d.ts` 183 says it may
be given there. `AsDeclared` names that call, and the default that it takes.

## 4. Proofs

The only assumptions are the named `ASSUME`s on the constants, which say no more
than the types and that the constants for "none" are no members of the sets they
are added to. `ShapesAssumption` of `PipeArguments` says which calls there are: any
values in any place, but that the last parameter is given a callback or nothing,
that options where no overload takes anything else are an object, and that no option
is itself an object. Liveness apart, nothing below depends on a bound: the sets of
connections, callbacks, clients, ids, handles and calls, and the numbers, are
arbitrary.

**A pipe.** `PipeProofs` proves, for every `MaxQueue` > 0:

* `TypeCorrect`: `Spec => []TypeOK`. No count goes below zero, no action leaves a
  handle or a stream that is not one.
* `Consistency`: `Spec => []Consistent`, and from it `CallbacksAreOwned`,
  `RequestsAreNotReused`, `HandleIsClosedOnce`, `NothingIsLeftAfterClose` and
  `ReadingFlagIsRight`, the properties of `PipeSafety` of the same content.

None of those five is inductive. `Consistent` is, given `TypeOK`: it adds that
CLOSING, the binding's `closing` and libuv's state of the handle are one fact
until the environment exits; that a connect in flight belongs to a pipe that is
CONNECTING and not yet connected; that a CLOSING pipe has a destroyed stream, and
a stream that destroyed itself without `_predestroy` has ended reading; and that
a readable connection has a readable handle. TLC checks `Consistent` in
`PipeSafety`. The proof has one step per action. `PipeHandleProofs` states once
what each operation does to a handle (`Same` names the fields it may change), so
that the steps never expand the record; `PipeProofs` does the same for the stream
(`SameStream`) and for the steps actions share.

`PipeLifecycleProofs` adds `EventsAreEmittedOnce`, `Spec => []EventsOnce`, and
`PipeRefines`, that a pipe implements `PipeLifecycle`. Both need `InSync`:
`Consistent`, and which events have been emitted, and what `readyState` says, in
terms of the flags, the stream and the queued microtasks. A second 'connect', say,
is excluded because its microtask or request is gone once the first was emitted.

**A server.** `PipeServerProofs` proves `TypeOK`, `HandleGuarded`, `RefAgrees`,
`ListeningMeansBound`, `ClosersOwed`, `FailureOwned` and, as `ClosingIsAwaited`,
`CloseAwaited`; and, as `ServerRefines`, that `PipeServer` implements
`ServerLifecycle`. Their conjunction is almost inductive: `IInv` adds that a queued
'listening' finds its server bound or still closing the handle it was queued for,
that the flags exclude one another and there are no connections before BOUND, and
that a handle that listens and is not being closed belongs to BOUND.

**A server and a pipe.** `ServesAsServer` and `RunsAsPipe` show that what
`ServedPipe` does is, seen from its server, a behaviour of `PipeServer`, and from
its pipe, one of `Pipe`; `ServedPipeProofs` then takes the theorems above by
instantiating their modules. `ClosesAfterPipes` (`ClosedAfterPipes`) follows with
the invariant `Joined`, which ties the two sides: while a pipe that the server
accepted into has not emitted 'close', it is one of the server's connections.

**IPC.** For any number of messages and handles, in four layers, each an invariant
that the next one uses:

* `SpecIInv`: the queues, from which `QueuesStayAligned` (`QueuesAligned`) and
  `HandleRides` (`HandleRidesUnlessThrown`) follow. While the pipe is open there is
  an entry of the handle queue for every message the stream holds, and until a
  `write()` throws every segment to be written and every write on the wire carries
  its messages' own handle. Entries are counted with cardinalities of index sets.
* `IpcTypes` (`TypeOK`), whose one hard part is that `_writev`'s splitting yields
  segments of messages.
* `NoneLost` (`NothingLost`), whether or not a `write()` threw. Its invariant `Flow`
  replaces the concatenation by counting: each of what was delivered, the read under
  way, the wire, the segments behind the native write and the stream's queue is an
  interval (`Between`), or is tiled by intervals (`Tiles`), that begins where the one
  before it ends. `SplitTiles` is the lemma about the splitting, `TilesSplit` and
  `TilesAppend` what a read and a native write do to the wire, and `TilesFlatten`
  leads back to the sequences of `NothingLost`.
* `KeepsTheChannel`: `Spec /\ [](throws = 0) => ImplementsChannel`, the refinement of
  `HandleChannel`, with or without a `destroy()` at either end. Its invariant
  `Surfaced` says that the handles received are those of the messages delivered and
  of the read under way (`Among`). That nothing throws is needed, as `IpcMisaligned`
  shows.

What `FlattenSeq` computes is proved by induction over the length of the sequence,
which the lemma `Induction` states for a set of numbers: the least number outside
the set, which exists because < is well-founded, would be a successor.

**Owner.** `OwnersOnlyAdmitted`, `PeerReported`, `AllScreened`, `OwnersAreServed`,
for any processes, ids, clients and clock. The heart of the invariant: within one
epoch, differences of the clock are differences of true time, so that a process
that was created after the accept also shows it, whenever the check comes.

**Arguments.** `RefusedLeavesNothing` (`RejectedLeavesNothing`) for any call: the
lemmas on the bodies (`BodyOfTwo`, `CheckedOnce`, `CheckedTwice`, `Listening` and
their like) work out from the order of the statements what was done when a check
throws, and with `listenBodyMarked`, where `listen()` marks the server first, there
would be no proof. The one call that leaves a mark is the one the property names,
`createConnection` with a path or descriptor in the place of its options:
`BeginsInConstructor`. `PathExactly`: for a buffer of any length and characters of
any width, `validatePath` accepts exactly the paths that `bare_pipe__get_path`
passes on whole and terminated; `IntegerExactly`: the same of integers of any width
and their conversion. From these `ValidationExact` (`ValidatedExactly`), by what
each method takes for its values (`ListenWhole` and its like), with
`createConnection` refused when its constructor has begun already (`ConstructedIs`,
`Connecting`). `ReadAsDeclared` (`AsDeclared`) goes through the overloads: `OfOne`
to `OfFour` say what the parameters of an overload are in a call that fits it, and a
lemma for each method that the code takes them for the same. For
`listen(path, undefined, { backlog })`, the call that `AsDeclared` excepts, it is
proved that it has the default (`BacklogIsLost`). `ArgumentTypes` is `TypeOK`. The
invariant, `ReadInv`, says that a call that returned was read by its own method.

Every invariant, action property and refinement that a passing run checks is now a
theorem. Only model-checked are the liveness properties, which are out of reach of
the prover here: they rest on fairness and on what is enabled.

## 5. Not modelled

* **remoteCredentials** of the end that connected, whose peer is the server; and
  the pid and gid, which are copied from what the kernel says.
* How a Windows peer is found to be local, and the DACL's contents: a client is
  local or not, and any process may get past the restriction.
* `coerceBatch`: what it refuses is a choice in `Pipe` (`RefuseWrite`).
* `accept()` into a handle that is closing or has a descriptor: what libuv's
  `uv_accept` does then is not visible in this repository. `OnAccept` takes open
  handles without one.
* `Pipe.pipe`, errors with their codes and texts, buffers and bytes, the Bare runtime.
* A check of a Unix peer whose system calls fail (`unix.h` 29), which turns even an
  owner away: `OwnersServed` holds where they succeed.
* Where macOS ends the read of an IPC pipe.
* Types, build files, tests and examples, which have no behaviour of their own.

## 6. Plan

In order of what is most important:

1. *Done:* `PipeHandle`, `Pipe`, `PipeLifecycle`; safety, closing, progress.
2. *Done:* `PipeServer`, `ServerLifecycle`; `PipeIpc`, `HandleChannel`.
3. *Done:* `TypeCorrect` and `Consistency` with its corollaries.
4. *Done:* `PipeOwner`: the restriction, the accept and the check, on Unix and
   Windows, and its proofs.
5. *Done:* `ServedPipe`: a server and the whole pipe of one client.
6. *Done:* `PipeArguments`: overloads, validation and conversion.
7. *Done:* the safety properties and the refinement of `PipeServer`, those of
   `PipeLifecycle`, `QueuesAligned` and `HandleRidesUnlessThrown` of `PipeIpc`.
8. *Done:* the types, `NothingLost` and the refinement of `PipeIpc`; the overloads
   and the validation of `PipeArguments`.
9. Left: two pipes with their whole life on the ends of one IPC channel.
