------------------------------ MODULE PipeOwner ------------------------------
(***************************************************************************)
(* Who is at the other end: listen({ ownerOnly }), the check of a client   *)
(* that was accepted, and remoteCredentials() (binding.c over lib/acl).    *)
(*                                                                         *)
(* On Unix the kernel keeps the user of a peer as it connects.  On Windows *)
(* it keeps a process id, and whoever has that id is looked up later:      *)
(* processes end and start all the time, and only the time of the accept   *)
(* tells a process that reused the id from the one that connected.         *)
(*                                                                         *)
(* Processes run beside the server, so each of its system calls is an      *)
(* action: bind, restrict, disconnect, listen; accept and the check.       *)
(***************************************************************************)
EXTENDS Integers

CONSTANTS
  Clients,      \* the connections, each made once
  Pids,         \* process ids
  Kinds,        \* the processes there may be, by user and integrity level
  ServerLevel,  \* the integrity level of the server's process
  NoProcess,    \* no process has the id
  MaxTime,      \* bound: ticks of the coarse clock
  MaxBacks      \* bound: how often the clock is set back

Users == {"owner", "system", "other"}   \* system is root on Unix

\* created is the system clock at its start; born is the tick it really was,
\* epoch how often the clock had been set back by then.
Process == [user: Users, level: Int, created: Nat, born: Nat, epoch: Nat]

ASSUME OwnerAssumption ==
  /\ Kinds \subseteq [user: Users, level: Int] /\ ServerLevel \in Int
  /\ NoProcess \notin Process
  /\ MaxTime \in Nat /\ MaxBacks \in Nat

VARIABLES
  windows,    \* the platform
  ownerOnly,  \* the option of listen()
  socket,     \* how far bare_pipe_bind got
  time,       \* ticks passed
  clock,      \* the system clock, positive
  epoch,      \* how often it was set back
  process,    \* the process that has an id
  client      \* the connections

vars == <<windows, ownerOnly, socket, time, clock, epoch, process, client>>

(***************************************************************************)
(*   stage     "waiting" to be accepted, "taken" by uv_accept, "admitted"  *)
(*             or "dropped"; "received" over IPC or opened from a handle   *)
(*   local     the peer is on this machine; if so pid is its id            *)
(*   peer      the process that connected, or NoProcess if it is remote    *)
(*   screened  the socket was restricted when it did                       *)
(*   connected the handle's time of the accept; 0 if it has none           *)
(*   accepted, epoch                                                       *)
(*             the tick and the epoch that really was                      *)
(*   answer    the process whose user and level the check went by          *)
(*   reported  the process whose user remoteCredentials() last returned    *)
(***************************************************************************)
ClientType ==
  [stage: {"new", "waiting", "taken", "admitted", "dropped", "received"},
   local: BOOLEAN, pid: Pids, peer: Process \cup {NoProcess},
   screened: BOOLEAN, connected: Nat, accepted: Nat, epoch: Nat,
   answer: Process \cup {NoProcess}, reported: Process \cup {NoProcess}]

TypeOK ==
  /\ windows \in BOOLEAN /\ ownerOnly \in BOOLEAN
  /\ socket \in {"none", "bound", "disconnecting", "restricted", "listening", "failed"}
  /\ time \in Nat /\ epoch \in Nat
  /\ clock \in Nat \ {0}
  /\ process \in [Pids -> Process \cup {NoProcess}]
  /\ client \in [Clients -> ClientType]

NewClient(p) ==
  [stage |-> "new", local |-> TRUE, pid |-> p, peer |-> NoProcess,
   screened |-> FALSE, connected |-> 0, accepted |-> 0, epoch |-> 0,
   answer |-> NoProcess, reported |-> NoProcess]

Init ==
  /\ windows \in BOOLEAN /\ ownerOnly \in BOOLEAN
  /\ socket = "none"
  /\ time = 0 /\ clock = 1 /\ epoch = 0
  /\ process = [p \in Pids |-> NoProcess]
  /\ client \in [Clients -> {NewClient(p) : p \in Pids}]

-----------------------------------------------------------------------------
(* The world (external).                                                   *)

Tick ==
  /\ time < MaxTime
  /\ time' = time + 1 /\ clock' = clock + 1
  /\ UNCHANGED <<windows, ownerOnly, socket, epoch, process, client>>

SetBack ==
  /\ epoch < MaxBacks
  /\ clock' \in 1..(clock - 1)
  /\ epoch' = epoch + 1
  /\ UNCHANGED <<windows, ownerOnly, socket, time, process, client>>

Started(kind) ==
  [user |-> kind.user, level |-> kind.level,
   created |-> clock, born |-> time, epoch |-> epoch]

Spawn(p) ==
  /\ process[p] = NoProcess
  /\ \E k \in Kinds : process' = [process EXCEPT ![p] = Started(k)]
  /\ UNCHANGED <<windows, ownerOnly, socket, time, clock, epoch, client>>

\* A process ended and nothing holds it open any more: its id is free.
Exit(p) ==
  /\ process[p] # NoProcess
  /\ process' = [process EXCEPT ![p] = NoProcess]
  /\ UNCHANGED <<windows, ownerOnly, socket, time, clock, epoch, client>>

Waiting == {c \in Clients : client[c].stage = "waiting"}

\* A socket takes clients once it listens; a named pipe one client as soon as
\* it is bound.
Reachable ==
  \/ socket = "listening"
  \/ windows /\ Waiting = {} /\ socket \in {"bound", "disconnecting", "restricted"}

\* The client k once it has connected.
Arrived(k, stage, local) ==
  [k EXCEPT !.stage = stage, !.local = local,
            !.peer = IF local THEN process[k.pid] ELSE NoProcess,
            !.screened = socket \in {"disconnecting", "restricted", "listening"}]

(***************************************************************************)
(* A client connects.  The mode or the DACL of a restricted socket turns   *)
(* most other users away; a process may bypass the one and impersonate the *)
(* owner for the other, so that any process may get through.               *)
(***************************************************************************)
Arrive(c, stage) ==
  /\ client[c].stage = "new"
  /\ \E local \in BOOLEAN :
       /\ IF local THEN process[client[c].pid] # NoProcess ELSE windows
       /\ client' = [client EXCEPT ![c] = Arrived(@, stage, local)]
  /\ UNCHANGED <<windows, ownerOnly, socket, time, clock, epoch, process>>

Connect(c) == Reachable /\ Arrive(c, "waiting")

\* A connected pipe comes from another process, or from a descriptor.
Receive(c) == Arrive(c, "received")

World ==
  \/ Tick \/ SetBack
  \/ \E p \in Pids : Spawn(p) \/ Exit(p)
  \/ \E c \in Clients : Connect(c) \/ Receive(c)

-----------------------------------------------------------------------------
(* bare_pipe_bind, call by call.                                           *)

\* No DisconnectNamedPipe, and no close of the listener.
DisconnectedNever == client

\* The clients, with those that wait dropped.
Disconnected ==
  [c \in Clients |->
     IF c \in Waiting THEN [client[c] EXCEPT !.stage = "dropped"] ELSE client[c]]

Bind ==
  /\ socket = "none"
  /\ socket' = "bound"
  /\ UNCHANGED <<windows, ownerOnly, time, clock, epoch, process, client>>

\* Any call may fail; listen() then closes the handle.
BindFails ==
  /\ socket \in {"none", "bound", "disconnecting", "restricted"}
  /\ socket' = "failed"
  /\ client' = Disconnected
  /\ UNCHANGED <<windows, ownerOnly, time, clock, epoch, process>>

\* fchmodat on Unix, SetSecurityInfo on Windows.
Restrict ==
  /\ ownerOnly
  /\ socket = "bound"
  /\ socket' = IF windows THEN "disconnecting" ELSE "restricted"
  /\ UNCHANGED <<windows, ownerOnly, time, clock, epoch, process, client>>

\* DisconnectNamedPipe.
Disconnect ==
  /\ socket = "disconnecting"
  /\ socket' = "restricted"
  /\ client' = Disconnected
  /\ UNCHANGED <<windows, ownerOnly, time, clock, epoch, process>>

Listen ==
  /\ socket = IF ownerOnly THEN "restricted" ELSE "bound"
  /\ socket' = "listening"
  /\ UNCHANGED <<windows, ownerOnly, time, clock, epoch, process, client>>

-----------------------------------------------------------------------------
(* bare_pipe_accept, and lib/acl.                                          *)

\* The time in another epoch than the creation times.
TimestampShifted == IF windows THEN clock - 2 ELSE 0

\* bare_pipe_acl_timestamp.
Timestamp == IF windows THEN clock ELSE 0

Taken(k) ==
  [k EXCEPT !.stage = IF ownerOnly THEN "taken" ELSE "admitted",
            !.connected = Timestamp, !.accepted = time, !.epoch = epoch]

\* uv_accept and the time it was; a server that is not ownerOnly is done.
Accept(c) ==
  /\ socket = "listening"
  /\ c \in Waiting /\ \A d \in Clients : client[d].stage # "taken"
  /\ client' = [client EXCEPT ![c] = Taken(@)]
  /\ UNCHANGED <<windows, ownerOnly, socket, time, clock, epoch, process>>

\* No comparison of the two times.
IsPeerAlways(q, connected) == q # NoProcess

\* One that does not admit the process created in the tick of the accept.
IsPeerBefore(q, connected) == q # NoProcess /\ q.created < connected

\* bare_pipe_acl__peer_process takes the process q that has the id now.
IsPeer(q, connected) == q # NoProcess /\ q.created <= connected

\* What is_owner_client asks of a user, and on Windows of an integrity level.
Trusted(q) ==
  q.user \in {"owner", "system"} /\ (windows => q.level >= ServerLevel)

\* A peer that is not asked whether it is remote.
IdentifiedAnywhere(c) ==
  LET q == process[client[c].pid]
  IN  CASE ~windows -> {client[c].peer}
        [] windows /\ ~IsPeer(q, client[c].connected) -> {NoProcess}
        [] OTHER -> IF q.user = "owner" THEN {q} ELSE {q, NoProcess}

(***************************************************************************)
(* Whom the peer of c may be taken for: on Unix for itself; on Windows for *)
(* the process that has its id, unless it is remote, gone, too young, or   *)
(* another user's that the server may not query.                           *)
(***************************************************************************)
Identified(c) ==
  LET q == process[client[c].pid]
  IN  CASE ~windows -> {client[c].peer}
        [] windows /\ (~client[c].local \/ ~IsPeer(q, client[c].connected))
             -> {NoProcess}
        [] OTHER -> IF q.user = "owner" THEN {q} ELSE {q, NoProcess}

Checked(k, q) ==
  [k EXCEPT !.answer = q,
            !.stage = IF q # NoProcess /\ Trusted(q) THEN "admitted" ELSE "dropped"]

\* is_owner_client and the answer of bare_pipe_accept.
Check(c) ==
  /\ client[c].stage = "taken"
  /\ \E q \in Identified(c) : client' = [client EXCEPT ![c] = Checked(@, q)]
  /\ UNCHANGED <<windows, ownerOnly, socket, time, clock, epoch, process>>

Reported(k, q) == [k EXCEPT !.reported = q]

\* remoteCredentials() of a server end; without a time it names no user.
RemoteCredentials(c) ==
  /\ client[c].stage \in {"admitted", "received"}
  /\ \E q \in (IF windows /\ client[c].connected = 0
                THEN {NoProcess} ELSE Identified(c)) :
       client' = [client EXCEPT ![c] = Reported(@, q)]
  /\ UNCHANGED <<windows, ownerOnly, socket, time, clock, epoch, process>>

Server ==
  \/ Bind \/ BindFails \/ Restrict \/ Disconnect \/ Listen
  \/ \E c \in Clients : Accept(c) \/ Check(c) \/ RemoteCredentials(c)

Next == World \/ Server

Spec == Init /\ [][Next]_vars

-----------------------------------------------------------------------------
(* Properties.                                                             *)

(***************************************************************************)
(* q is the process that connected, or one of the documented gaps let q be *)
(* mistaken for it: q was there by the tick of the accept, or the clock    *)
(* was set back in between (README.md, "has two gaps").                    *)
(***************************************************************************)
PeerOrGap(c, q) ==
  \/ q = client[c].peer
  \/ windows /\ (q.born <= client[c].accepted \/ q.epoch # client[c].epoch)

(***************************************************************************)
(* A server that is ownerOnly serves a client only if it is local and the  *)
(* process that connected is the owner's or the system's, and on Windows   *)
(* runs at the server's level or above, whoever has its id by the time of  *)
(* the check (bare_pipe_accept, is_owner_client).                          *)
(***************************************************************************)
OwnersOnly ==
  \A c \in Clients :
    ownerOnly /\ client[c].stage = "admitted" =>
      LET q == client[c].answer
      IN  client[c].local /\ q # NoProcess /\ Trusted(q) /\ PeerOrGap(c, q)

(***************************************************************************)
(* remoteCredentials() names the user of the process that connected or     *)
(* nobody; nobody for a remote peer, and on Windows for a pipe that came   *)
(* without the time of its connection (peer_credentials).                  *)
(***************************************************************************)
ReportsPeer ==
  \A c \in Clients :
    client[c].reported # NoProcess =>
      /\ client[c].local /\ PeerOrGap(c, client[c].reported)
      /\ windows => client[c].stage = "admitted"

(***************************************************************************)
(* Every client a restricted server has waiting or took was let in by the  *)
(* restriction: none was there before it (bare_pipe_bind, the order of     *)
(* restrict, disconnect and listen).                                       *)
(***************************************************************************)
EveryoneScreened ==
  ownerOnly /\ socket = "listening" =>
    \A c \in Clients :
      client[c].stage \in {"waiting", "taken", "admitted"} => client[c].screened

(***************************************************************************)
(* The check turns away no owner that is still there, whatever the tick it *)
(* started in, unless the clock was set back between its start and the     *)
(* accept.  A check whose system calls fail, and that turns anybody away   *)
(* for it (bare_pipe_accept), is left out.                                 *)
(***************************************************************************)
OwnersServed ==
  [][\A c \in Clients :
       LET q == client[c].peer
       IN  /\ client[c].stage = "taken" /\ client[c].local
           /\ q.user = "owner" /\ Trusted(q)
           /\ process[client[c].pid] = q /\ q.epoch = client[c].epoch
           => client'[c].stage # "dropped"]_vars
=============================================================================
