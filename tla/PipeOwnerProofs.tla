--------------------------- MODULE PipeOwnerProofs ---------------------------
(***************************************************************************)
(* Proofs about PipeOwner, for any number of clients, processes, ticks and *)
(* clock changes.  Within one epoch the system clock and the true time run *)
(* in step; that difference of two readings is what the comparison in      *)
(* bare_pipe_acl__peer_process relies on, and what InStep says.            *)
(***************************************************************************)
EXTENDS PipeOwner, TLAPS

USE OwnerAssumption

\* The client was taken by uv_accept.
Stamped(c) == client[c].stage \in {"taken", "admitted"}

\* A process started in the past; in this epoch, as long ago by either time.
Past(q) ==
  q # NoProcess =>
    /\ q.born <= time /\ q.epoch <= epoch
    /\ q.epoch = epoch => clock - q.created = time - q.born

\* The same of a process and the accept of c, both in one epoch.
InStep(q, c) ==
  q # NoProcess /\ q.epoch = client[c].epoch =>
    q.created - client[c].connected = q.born - client[c].accepted

ProcessesPast == \A p \in Pids : Past(process[p])

ClientsPast ==
  \A c \in Clients :
    /\ Past(client[c].peer)
    /\ Stamped(c) =>
         /\ client[c].accepted <= time /\ client[c].epoch <= epoch
         /\ windows /\ client[c].epoch = epoch =>
              clock - client[c].connected = time - client[c].accepted
         /\ client[c].peer # NoProcess =>
              client[c].peer.born <= client[c].accepted
         /\ windows => /\ InStep(client[c].peer, c)
                       /\ \A p \in Pids : InStep(process[p], c)

\* What a client is before and beside the accept.
Stages ==
  \A c \in Clients :
    /\ client[c].stage \in {"new", "waiting", "received"} => client[c].connected = 0
    /\ client[c].reported # NoProcess => client[c].stage \in {"admitted", "received"}
    /\ client[c].stage # "new" =>
         /\ ~windows => client[c].local
         /\ client[c].local => client[c].peer # NoProcess

\* Who may be there at each step of bare_pipe_bind.
Screening ==
  \A c \in Clients :
    /\ Stamped(c) => socket = "listening"
    /\ client[c].stage = "waiting" /\ ~windows => socket = "listening"
    /\ ownerOnly /\ socket \in {"restricted", "listening"}
         /\ client[c].stage \in {"waiting", "taken", "admitted"} => client[c].screened

IInv ==
  /\ ProcessesPast /\ ClientsPast /\ Stages /\ Screening
  /\ OwnersOnly /\ ReportsPeer

-----------------------------------------------------------------------------
(* Types.                                                                  *)

\* What the clients become is a client again.
LEMMA ClientTypes ==
  ASSUME TypeOK, NEW k \in ClientType
  PROVE  /\ \A stage \in {"waiting", "received"}, local \in BOOLEAN :
              Arrived(k, stage, local) \in ClientType
         /\ Taken(k) \in ClientType
         /\ \A q \in Process \cup {NoProcess} :
              Checked(k, q) \in ClientType /\ Reported(k, q) \in ClientType
         /\ [k EXCEPT !.stage = "dropped"] \in ClientType
<1>1. ASSUME NEW stage \in {"waiting", "received"}, NEW local \in BOOLEAN
      PROVE  Arrived(k, stage, local) \in ClientType
  <2>1. k.pid \in Pids
    BY DEF ClientType
  <2> DEFINE peer == IF local THEN process[k.pid] ELSE NoProcess
             screened == socket \in {"disconnecting", "restricted", "listening"}
  <2>2. peer \in Process \cup {NoProcess} /\ screened \in BOOLEAN
    BY <2>1 DEF TypeOK
  <2>3. Arrived(k, stage, local) =
          [k EXCEPT !.stage = stage, !.local = local, !.peer = peer,
                    !.screened = screened]
    BY DEF Arrived
  <2> HIDE DEF peer, screened
  <2> QED
    BY <2>2, <2>3 DEF ClientType
<1>2. Taken(k) \in ClientType
  BY DEF Taken, Timestamp, ClientType, TypeOK
<1>3. ASSUME NEW q \in Process \cup {NoProcess}
      PROVE  Checked(k, q) \in ClientType /\ Reported(k, q) \in ClientType
  BY DEF Checked, Reported, ClientType
<1>4. [k EXCEPT !.stage = "dropped"] \in ClientType
  BY DEF ClientType
<1> QED
  BY <1>1, <1>2, <1>3, <1>4

LEMMA TypeInit == Init => TypeOK
<1> SUFFICES ASSUME Init PROVE TypeOK
  OBVIOUS
<1>1. \A p \in Pids : NewClient(p) \in ClientType
  BY DEF NewClient, ClientType
<1> QED
  BY <1>1 DEF Init, TypeOK

LEMMA TypeNext == TypeOK /\ [Next]_vars => TypeOK'
<1> SUFFICES ASSUME TypeOK, [Next]_vars PROVE TypeOK'
  OBVIOUS
<1>0. \A c \in Clients : client[c] \in ClientType
  BY DEF TypeOK
<1>1. CASE Tick
  BY <1>1 DEF Tick, TypeOK
<1>2. CASE SetBack
  BY <1>2 DEF SetBack, TypeOK
<1>3. ASSUME NEW p \in Pids, Spawn(p) \/ Exit(p) PROVE TypeOK'
  <2>1. \A k \in Kinds : Started(k) \in Process
    BY DEF Started, Process, TypeOK
  <2> QED
    BY <1>3, <2>1 DEF Spawn, Exit, TypeOK
<1>4. ASSUME NEW c \in Clients, Connect(c) \/ Receive(c) PROVE TypeOK'
  <2>1. PICK stage \in {"waiting", "received"}, local \in BOOLEAN :
          client' = [client EXCEPT ![c] = Arrived(client[c], stage, local)]
    BY <1>4 DEF Connect, Receive, Arrive
  <2>2. Arrived(client[c], stage, local) \in ClientType
    BY <1>0, ClientTypes
  <2> QED
    BY <1>4, <2>1, <2>2 DEF Connect, Receive, Arrive, TypeOK
<1>5. CASE Bind \/ BindFails \/ Restrict \/ Disconnect \/ Listen
  <2>1. Disconnected \in [Clients -> ClientType]
    BY <1>0, ClientTypes DEF Disconnected
  <2> QED
    BY <1>5, <2>1 DEF Bind, BindFails, Restrict, Disconnect, Listen, TypeOK
<1>6. ASSUME NEW c \in Clients, Accept(c) PROVE TypeOK'
  BY <1>0, <1>6, ClientTypes DEF Accept, TypeOK
<1>7. ASSUME NEW c \in Clients, Check(c) \/ RemoteCredentials(c) PROVE TypeOK'
  <2>1. Identified(c) \subseteq Process \cup {NoProcess}
    <3>1. client[c].peer \in Process \cup {NoProcess} /\ client[c].pid \in Pids
      BY <1>0 DEF ClientType
    <3>2. process[client[c].pid] \in Process \cup {NoProcess}
      BY <3>1 DEF TypeOK
    <3> QED
      BY <3>1, <3>2 DEF Identified
  <2>2. PICK q \in Process \cup {NoProcess} :
          \/ client' = [client EXCEPT ![c] = Checked(client[c], q)]
          \/ client' = [client EXCEPT ![c] = Reported(client[c], q)]
    BY <1>7, <2>1 DEF Check, RemoteCredentials
  <2>3. /\ Checked(client[c], q) \in ClientType
        /\ Reported(client[c], q) \in ClientType
    BY <1>0, ClientTypes
  <2> QED
    BY <1>7, <2>2, <2>3 DEF Check, RemoteCredentials, TypeOK
<1>8. CASE UNCHANGED vars
  BY <1>8 DEF vars, TypeOK
<1> QED
  BY <1>1, <1>2, <1>3, <1>4, <1>5, <1>6, <1>7, <1>8 DEF Next, World, Server

\* Every variable keeps its type; in particular the time of a connection is
\* one that bare_pipe_acl_timestamp can return.
THEOREM OwnerTypeCorrect == Spec => []TypeOK
BY TypeInit, TypeNext, PTL DEF Spec

-----------------------------------------------------------------------------
(* Who is taken for whom.                                                  *)

\* Whoever is taken for the peer of c is local, and the peer or a gap.
LEMMA IdentifiedIsPeer ==
  ASSUME TypeOK, ClientsPast, Stages, NEW c \in Clients,
         client[c].stage # "new", ~windows \/ Stamped(c),
         NEW q \in Identified(c), q # NoProcess
  PROVE  client[c].local /\ PeerOrGap(c, q)
<1>1. CASE ~windows
  BY <1>1 DEF Identified, Stages, PeerOrGap
<1>2. CASE windows
  <2> DEFINE r == process[client[c].pid]
  <2>1. client[c].pid \in Pids /\ client[c] \in ClientType
    BY DEF TypeOK, ClientType
  <2>2. client[c].local /\ q = r /\ IsPeer(r, client[c].connected)
    BY <1>2 DEF Identified
  <2>3. InStep(r, c)
    BY <1>2, <2>1 DEF ClientsPast
  <2>4. r \in Process
    BY <2>1, <2>2 DEF TypeOK, IsPeer
  <2>5. r.epoch = client[c].epoch => r.born <= client[c].accepted
    BY <2>1, <2>2, <2>3, <2>4 DEF InStep, IsPeer, Process, ClientType
  <2> QED
    BY <1>2, <2>2, <2>5 DEF PeerOrGap
<1> QED
  BY <1>1, <1>2

LEMMA IInvInit == Init => IInv
<1> SUFFICES ASSUME Init PROVE IInv
  OBVIOUS
<1>1. \A p \in Pids : process[p] = NoProcess
  BY DEF Init
<1>2. \A c \in Clients :
        /\ client[c].stage = "new" /\ client[c].peer = NoProcess
        /\ client[c].connected = 0 /\ client[c].reported = NoProcess
  BY DEF Init, NewClient
<1> QED
  BY <1>1, <1>2 DEF IInv, ProcessesPast, ClientsPast, Stages, Screening,
                    OwnersOnly, ReportsPeer, Past, Stamped

-----------------------------------------------------------------------------
(* The steps.                                                              *)

\* A step that changes no client and no time keeps everything but Screening.
LEMMA Undisturbed ==
  ASSUME TypeOK, IInv, UNCHANGED <<windows, ownerOnly, time, clock, epoch, process, client>>
  PROVE  ProcessesPast' /\ ClientsPast' /\ Stages' /\ OwnersOnly' /\ ReportsPeer'
BY DEF IInv, ProcessesPast, ClientsPast, Stages, OwnersOnly, ReportsPeer,
       Past, Stamped, InStep, PeerOrGap, Trusted

\* Time passes, by either clock.
LEMMA TickStep == TypeOK /\ IInv /\ Tick => IInv'
<1> SUFFICES ASSUME TypeOK, IInv, Tick PROVE IInv'
  OBVIOUS
<1> USE DEF Tick
<1>1. ASSUME NEW q \in Process \cup {NoProcess}, Past(q) PROVE Past(q)'
  BY <1>1 DEF Past, TypeOK, Process
<1>2. ProcessesPast'
  BY <1>1 DEF IInv, ProcessesPast, TypeOK
<1>3. ASSUME NEW c \in Clients
      PROVE  /\ Past(client[c].peer)'
             /\ Stamped(c)' =>
                  /\ client'[c].accepted <= time' /\ client'[c].epoch <= epoch'
                  /\ windows' /\ client'[c].epoch = epoch' =>
                       clock' - client'[c].connected = time' - client'[c].accepted
  <2>1. client[c] \in ClientType
    BY DEF TypeOK
  <2>2. Past(client[c].peer)'
    BY <1>1, <2>1 DEF IInv, ClientsPast, ClientType
  <2>3. client[c].connected \in Nat /\ client[c].accepted \in Nat /\ client[c].epoch \in Nat
    BY <2>1 DEF ClientType
  <2> QED
    BY <2>2, <2>3 DEF IInv, ClientsPast, Stamped, TypeOK
<1>4. ClientsPast'
  BY <1>3 DEF IInv, ClientsPast, InStep, Stamped
<1> QED
  BY <1>2, <1>4 DEF IInv, Stages, Screening, OwnersOnly, ReportsPeer, Stamped,
                    PeerOrGap, Trusted

\* The clock is set back: no process and no accept is of the new epoch.
LEMMA SetBackStep == TypeOK /\ IInv /\ SetBack => IInv'
<1> SUFFICES ASSUME TypeOK, IInv, SetBack PROVE IInv'
  OBVIOUS
<1> USE DEF SetBack
<1>1. ASSUME NEW q \in Process \cup {NoProcess}, Past(q) PROVE Past(q)'
  BY <1>1 DEF Past, TypeOK, Process
<1>2. ProcessesPast'
  BY <1>1 DEF IInv, ProcessesPast, TypeOK
<1>3. ASSUME NEW c \in Clients
      PROVE  /\ Past(client[c].peer)'
             /\ Stamped(c)' => client'[c].epoch < epoch'
  <2>1. client[c] \in ClientType
    BY DEF TypeOK
  <2>2. Past(client[c].peer)'
    BY <1>1, <2>1 DEF IInv, ClientsPast, ClientType
  <2>3. client[c].epoch \in Nat
    BY <2>1 DEF ClientType
  <2> QED
    BY <2>2, <2>3 DEF IInv, ClientsPast, Stamped, TypeOK
<1>4. ClientsPast'
  <2>1. \A c \in Clients : client[c].epoch \in Nat
    BY DEF TypeOK, ClientType
  <2> QED
    BY <1>3, <2>1 DEF IInv, ClientsPast, InStep, Stamped, TypeOK
<1> QED
  BY <1>2, <1>4 DEF IInv, Stages, Screening, OwnersOnly, ReportsPeer, Stamped,
                    PeerOrGap, Trusted

\* A process starts or ends: a new one is in step with every accept.
LEMMA ProcessStep ==
  ASSUME TypeOK, IInv, NEW p \in Pids, Spawn(p) \/ Exit(p)
  PROVE  IInv'
<1>1. PICK n \in Process \cup {NoProcess} :
        /\ process' = [process EXCEPT ![p] = n]
        /\ n # NoProcess => n.created = clock /\ n.born = time /\ n.epoch = epoch
  <2>1. \A k \in Kinds : Started(k) \in Process
    BY DEF Started, Process, TypeOK
  <2> QED
    BY <2>1 DEF Spawn, Exit, Started
<1>2. UNCHANGED <<windows, ownerOnly, socket, time, clock, epoch, client>>
  BY DEF Spawn, Exit
<1>3. Past(n)
  BY <1>1 DEF Past, TypeOK
<1>4. ProcessesPast'
  BY <1>1, <1>2, <1>3 DEF IInv, ProcessesPast, Past, TypeOK
<1>5. ASSUME NEW c \in Clients, windows, Stamped(c) PROVE InStep(n, c)
  <2>1. /\ client[c].connected \in Nat /\ client[c].accepted \in Nat
        /\ client[c].epoch \in Nat
    BY DEF TypeOK, ClientType
  <2> QED
    BY <1>1, <1>5, <2>1 DEF InStep, IInv, ClientsPast, TypeOK
<1>6. ClientsPast'
  BY <1>1, <1>2, <1>5 DEF IInv, ClientsPast, Past, InStep, Stamped, TypeOK
<1> QED
  BY <1>2, <1>4, <1>6 DEF IInv, Stages, Screening, OwnersOnly, ReportsPeer, Stamped,
                          PeerOrGap, Trusted

\* A client of the kernel's: it has no time yet and nobody spoke for it.
LEMMA ArriveStep ==
  ASSUME TypeOK, IInv, NEW c \in Clients, Connect(c) \/ Receive(c)
  PROVE  IInv'
<1>1. PICK stage \in {"waiting", "received"}, local \in BOOLEAN :
        /\ client' = [client EXCEPT ![c] = Arrived(client[c], stage, local)]
        /\ IF local THEN process[client[c].pid] # NoProcess ELSE windows
        /\ stage = "waiting" => Reachable
  BY DEF Connect, Receive, Arrive
<1>2. /\ client[c].stage = "new"
      /\ UNCHANGED <<windows, ownerOnly, socket, time, clock, epoch, process>>
  BY DEF Connect, Receive, Arrive
<1>3. client[c] \in ClientType /\ client \in [Clients -> ClientType]
  BY DEF TypeOK
<1>4. /\ client'[c].stage = stage /\ client'[c].local = local
      /\ client'[c].peer = IF local THEN process[client[c].pid] ELSE NoProcess
      /\ client'[c].screened = (socket \in {"disconnecting", "restricted", "listening"})
      /\ client'[c].connected = client[c].connected
      /\ client'[c].reported = client[c].reported
      /\ \A d \in Clients \ {c} : client'[d] = client[d]
  BY <1>1, <1>3 DEF Arrived, ClientType
<1>5. client[c].connected = 0 /\ client[c].reported = NoProcess
  BY <1>2 DEF IInv, Stages
<1>6. ProcessesPast' /\ Past(client[c].peer)'
  <2>1. client[c].pid \in Pids
    BY <1>3 DEF ClientType
  <2>2. Past(process[client[c].pid])
    BY <2>1 DEF IInv, ProcessesPast
  <2> QED
    BY <1>2, <1>4, <2>2 DEF IInv, ProcessesPast, Past
<1>7. ClientsPast'
  <2>1. ~Stamped(c)'
    BY <1>4 DEF Stamped
  <2>2. \A d \in Clients \ {c} : InStep(client[d].peer, d)' <=> InStep(client[d].peer, d)
    BY <1>4 DEF InStep
  <2>3. \A d \in Clients \ {c}, p \in Pids : InStep(process[p], d)' <=> InStep(process[p], d)
    BY <1>2, <1>4 DEF InStep
  <2> HIDE DEF InStep
  <2> QED
    BY <1>2, <1>4, <1>6, <2>1, <2>2, <2>3 DEF IInv, ClientsPast, Past, Stamped
<1>8. Stages'
  BY <1>1, <1>2, <1>4, <1>5 DEF IInv, Stages
<1>9. Screening'
  BY <1>1, <1>2, <1>4 DEF IInv, Screening, Stamped, Reachable
<1>10. OwnersOnly' /\ ReportsPeer'
  BY <1>1, <1>2, <1>4, <1>5 DEF IInv, OwnersOnly, ReportsPeer, PeerOrGap, Trusted
<1> QED
  BY <1>6, <1>7, <1>8, <1>9, <1>10 DEF IInv

\* A step of bare_pipe_bind, which drops clients or none.
LEMMA BindStep ==
  ASSUME TypeOK, IInv, Bind \/ BindFails \/ Restrict \/ Disconnect \/ Listen
  PROVE  IInv'
<1>1. UNCHANGED <<windows, ownerOnly, time, clock, epoch, process>>
  BY DEF Bind, BindFails, Restrict, Disconnect, Listen
<1>2. CASE Bind \/ Restrict \/ Listen
  <2>1. UNCHANGED client
    BY <1>2 DEF Bind, Restrict, Listen
  <2>2. Screening'
    BY <1>1, <1>2, <2>1 DEF Bind, Restrict, Listen, IInv, Screening, Stamped
  <2> QED
    BY <1>1, <2>1, <2>2, Undisturbed DEF IInv
<1>3. CASE BindFails \/ Disconnect
  <2>1. ASSUME NEW c \in Clients
        PROVE  /\ client'[c].stage = IF client[c].stage = "waiting" THEN "dropped"
                                     ELSE client[c].stage
               /\ client'[c].local = client[c].local
               /\ client'[c].peer = client[c].peer
               /\ client'[c].screened = client[c].screened
               /\ client'[c].connected = client[c].connected
               /\ client'[c].accepted = client[c].accepted
               /\ client'[c].epoch = client[c].epoch
               /\ client'[c].answer = client[c].answer
               /\ client'[c].reported = client[c].reported
    <3>1. client[c] \in ClientType
      BY DEF TypeOK
    <3> QED
      BY <1>3, <3>1 DEF BindFails, Disconnect, Disconnected, Waiting, ClientType
  <2>2. ProcessesPast' /\ ClientsPast' /\ Stages'
    BY <1>1, <2>1 DEF IInv, ProcessesPast, ClientsPast, Stages, Past, Stamped, InStep
  <2>3. OwnersOnly' /\ ReportsPeer'
    BY <1>1, <2>1 DEF IInv, OwnersOnly, ReportsPeer, PeerOrGap, Trusted
  <2>4. Screening'
    BY <1>1, <1>3, <2>1 DEF BindFails, Disconnect, IInv, Screening, Stamped
  <2> QED
    BY <2>2, <2>3, <2>4 DEF IInv
<1> QED
  BY <1>2, <1>3

\* uv_accept: from here on the client and every process are in step.
LEMMA AcceptStep ==
  ASSUME TypeOK, IInv, NEW c \in Clients, Accept(c)
  PROVE  IInv'
<1>1. /\ client' = [client EXCEPT ![c] = Taken(client[c])]
      /\ client[c].stage = "waiting" /\ socket = "listening"
      /\ UNCHANGED <<windows, ownerOnly, socket, time, clock, epoch, process>>
  BY DEF Accept, Waiting
<1>2. client[c] \in ClientType /\ client \in [Clients -> ClientType]
  BY DEF TypeOK
<1>3. /\ client'[c].stage = IF ownerOnly THEN "taken" ELSE "admitted"
      /\ client'[c].connected = Timestamp
      /\ client'[c].accepted = time /\ client'[c].epoch = epoch
      /\ client'[c].local = client[c].local /\ client'[c].peer = client[c].peer
      /\ client'[c].screened = client[c].screened
      /\ client'[c].reported = client[c].reported
      /\ \A d \in Clients \ {c} : client'[d] = client[d]
  BY <1>1, <1>2 DEF Taken, ClientType
<1>4. ProcessesPast'
  BY <1>1 DEF IInv, ProcessesPast, Past
<1>5. ASSUME NEW q \in Process \cup {NoProcess}, Past(q), windows PROVE InStep(q, c)'
  BY <1>1, <1>3, <1>5 DEF Past, InStep, Timestamp, TypeOK, Process
<1>6. ClientsPast'
  <2>1. Past(client[c].peer) /\ client[c].peer \in Process \cup {NoProcess}
    BY <1>2 DEF IInv, ClientsPast, ClientType
  <2>2. \A p \in Pids : Past(process[p]) /\ process[p] \in Process \cup {NoProcess}
    BY DEF IInv, ProcessesPast, TypeOK
  <2>3. /\ Past(client[c].peer)'
        /\ client[c].peer # NoProcess => client[c].peer.born <= time
        /\ windows => /\ InStep(client[c].peer, c)'
                      /\ \A p \in Pids : InStep(process[p], c)'
    BY <1>1, <1>3, <1>5, <2>1, <2>2 DEF Past
  <2>4. /\ client'[c].accepted <= time' /\ client'[c].epoch <= epoch'
        /\ windows => clock - client'[c].connected = time - client'[c].accepted
    BY <1>1, <1>3 DEF Timestamp, TypeOK
  <2>5. \A d \in Clients \ {c} : InStep(client[d].peer, d)' <=> InStep(client[d].peer, d)
    BY <1>3 DEF InStep
  <2>6. \A d \in Clients \ {c}, p \in Pids : InStep(process[p], d)' <=> InStep(process[p], d)
    BY <1>1, <1>3 DEF InStep
  <2> HIDE DEF InStep
  <2> QED
    BY <1>1, <1>3, <2>3, <2>4, <2>5, <2>6 DEF IInv, ClientsPast, Past, Stamped
<1>7. client[c].reported = NoProcess
  BY <1>1 DEF IInv, Stages
<1>8. Stages'
  BY <1>1, <1>3, <1>7 DEF IInv, Stages
<1>9. Screening'
  BY <1>1, <1>3 DEF IInv, Screening, Stamped
<1>10. OwnersOnly' /\ ReportsPeer'
  BY <1>1, <1>3, <1>7 DEF IInv, OwnersOnly, ReportsPeer, PeerOrGap, Trusted
<1> QED
  BY <1>4, <1>6, <1>8, <1>9, <1>10 DEF IInv

\* What the two decisions write of a client, and what they leave.
LEMMA Decided ==
  ASSUME NEW k \in ClientType, NEW q
  PROVE  /\ \A n \in {Checked(k, q), Reported(k, q)} :
              /\ n.local = k.local /\ n.peer = k.peer /\ n.screened = k.screened
              /\ n.connected = k.connected /\ n.accepted = k.accepted
              /\ n.epoch = k.epoch
         /\ Checked(k, q).answer = q /\ Checked(k, q).reported = k.reported
         /\ Checked(k, q).stage =
              IF q # NoProcess /\ Trusted(q) THEN "admitted" ELSE "dropped"
         /\ Reported(k, q).stage = k.stage /\ Reported(k, q).answer = k.answer
         /\ Reported(k, q).reported = q
<1> DEFINE stage == IF q # NoProcess /\ Trusted(q) THEN "admitted" ELSE "dropped"
<1>1. Checked(k, q) = [k EXCEPT !.answer = q, !.stage = stage]
  BY DEF Checked
<1>2. Reported(k, q) = [k EXCEPT !.reported = q]
  BY DEF Reported
<1> HIDE DEF stage
<1>3. /\ Checked(k, q).answer = q /\ Checked(k, q).reported = k.reported
      /\ Checked(k, q).stage = stage
      /\ Reported(k, q).stage = k.stage /\ Reported(k, q).answer = k.answer
      /\ Reported(k, q).reported = q
  BY <1>1, <1>2 DEF ClientType
<1>4. ASSUME NEW n, n \in {Checked(k, q), Reported(k, q)}
      PROVE  /\ n.local = k.local /\ n.peer = k.peer /\ n.screened = k.screened
             /\ n.connected = k.connected /\ n.accepted = k.accepted
             /\ n.epoch = k.epoch
  <2>1. CASE n = Checked(k, q)
    BY <1>1, <2>1 DEF ClientType
  <2>2. CASE n = Reported(k, q)
    BY <1>2, <2>2 DEF ClientType
  <2> QED
    BY <1>4, <2>1, <2>2
<1> QED
  BY <1>3, <1>4 DEF stage

\* The two decisions write answer and reported, and leave the times alone.
LEMMA DecisionStep ==
  ASSUME TypeOK, IInv, NEW c \in Clients, Check(c) \/ RemoteCredentials(c)
  PROVE  IInv'
<1>1. PICK q \in Process \cup {NoProcess} :
        \/ /\ client' = [client EXCEPT ![c] = Checked(client[c], q)]
           /\ client[c].stage = "taken" /\ q \in Identified(c)
        \/ /\ client' = [client EXCEPT ![c] = Reported(client[c], q)]
           /\ client[c].stage \in {"admitted", "received"}
           /\ \/ q = NoProcess
              \/ q \in Identified(c) /\ (windows => client[c].connected # 0)
  <2>1. Identified(c) \subseteq Process \cup {NoProcess}
    <3>1. client[c].peer \in Process \cup {NoProcess} /\ client[c].pid \in Pids
      BY DEF TypeOK, ClientType
    <3>2. process[client[c].pid] \in Process \cup {NoProcess}
      BY <3>1 DEF TypeOK
    <3> QED
      BY <3>1, <3>2 DEF Identified
  <2> QED
    BY <2>1 DEF Check, RemoteCredentials
<1>2. UNCHANGED <<windows, ownerOnly, socket, time, clock, epoch, process>>
  BY DEF Check, RemoteCredentials
<1>3. client[c] \in ClientType /\ client \in [Clients -> ClientType]
  BY DEF TypeOK
<1>4. /\ client'[c].local = client[c].local /\ client'[c].peer = client[c].peer
      /\ client'[c].screened = client[c].screened
      /\ client'[c].connected = client[c].connected
      /\ client'[c].accepted = client[c].accepted /\ client'[c].epoch = client[c].epoch
      /\ \A d \in Clients \ {c} : client'[d] = client[d]
  BY <1>1, <1>3, Decided
<1>5. \/ /\ client[c].stage = "taken" /\ q \in Identified(c)
         /\ client'[c].stage = IF q # NoProcess /\ Trusted(q) THEN "admitted" ELSE "dropped"
         /\ client'[c].answer = q /\ client'[c].reported = client[c].reported
      \/ /\ client[c].stage \in {"admitted", "received"}
         /\ client'[c].stage = client[c].stage /\ client'[c].answer = client[c].answer
         /\ client'[c].reported = q
         /\ \/ q = NoProcess
            \/ q \in Identified(c) /\ (windows => client[c].connected # 0)
  BY <1>1, <1>3, Decided
<1>6. Stamped(c)' => Stamped(c)
  BY <1>5 DEF Stamped
<1>7. ProcessesPast' /\ ClientsPast'
  <2>1. \A d \in Clients : InStep(client[d].peer, d)' <=> InStep(client[d].peer, d)
    BY <1>4 DEF InStep
  <2>2. \A d \in Clients, p \in Pids : InStep(process[p], d)' <=> InStep(process[p], d)
    BY <1>2, <1>4 DEF InStep
  <2>3. \A d \in Clients : Stamped(d)' => Stamped(d)
    BY <1>4, <1>6 DEF Stamped
  <2> HIDE DEF InStep, Stamped
  <2> QED
    BY <1>2, <1>4, <2>1, <2>2, <2>3 DEF IInv, ProcessesPast, ClientsPast, Past
<1>8. client[c].reported # NoProcess => client[c].stage \in {"admitted", "received"}
  BY DEF IInv, Stages
<1>9. Stages'
  BY <1>2, <1>4, <1>5, <1>8 DEF IInv, Stages
<1>10. Screening'
  BY <1>2, <1>4, <1>5 DEF IInv, Screening, Stamped
<1>11. q \in Identified(c) /\ q # NoProcess /\ (windows => client[c].connected # 0)
         => client[c].local /\ PeerOrGap(c, q) /\ (windows => Stamped(c))
  <2>1. windows /\ client[c].connected # 0 => Stamped(c)
    BY <1>5 DEF IInv, Stages, Stamped
  <2> QED
    BY <1>5, <2>1, IdentifiedIsPeer DEF IInv
<1>12. client[c].stage = "taken" /\ q \in Identified(c) /\ q # NoProcess
         => client[c].local /\ PeerOrGap(c, q)
  BY IdentifiedIsPeer DEF IInv, Stamped
<1>13. \A d \in Clients : \A r : PeerOrGap(d, r)' <=> PeerOrGap(d, r)
  BY <1>2, <1>4 DEF PeerOrGap
<1>14. \A r : Trusted(r)' <=> Trusted(r)
  BY <1>2 DEF Trusted
<1>15. OwnersOnly'
  BY <1>2, <1>4, <1>5, <1>12, <1>13, <1>14 DEF IInv, OwnersOnly
<1>16. ReportsPeer'
  BY <1>2, <1>4, <1>5, <1>8, <1>11, <1>13 DEF IInv, ReportsPeer, Stamped
<1> QED
  BY <1>7, <1>9, <1>10, <1>15, <1>16 DEF IInv

LEMMA IInvNext == TypeOK /\ IInv /\ [Next]_vars => IInv'
<1> SUFFICES ASSUME TypeOK, IInv, [Next]_vars PROVE IInv'
  OBVIOUS
<1>1. CASE UNCHANGED vars
  <2>1. UNCHANGED <<windows, ownerOnly, time, clock, epoch, process, client>> /\ UNCHANGED socket
    BY <1>1 DEF vars
  <2>2. Screening'
    BY <2>1 DEF IInv, Screening, Stamped
  <2> QED
    BY <2>1, <2>2, Undisturbed DEF IInv
<1> QED
  BY <1>1, TickStep, SetBackStep, ProcessStep, ArriveStep, BindStep, AcceptStep,
     DecisionStep DEF Next, World, Server

-----------------------------------------------------------------------------
(* The theorems.                                                           *)

\* The inductive invariant: the clock and the true time run in step between
\* any process and any accept of one epoch.
THEOREM OwnerInvariant == Spec => []IInv
BY TypeInit, TypeNext, IInvInit, IInvNext, PTL DEF Spec

\* bare_pipe_accept admits to an ownerOnly server only a local client whose
\* process is trusted and connected, or was there by the tick of the accept.
THEOREM OwnersOnlyAdmitted == Spec => []OwnersOnly
BY OwnerInvariant, PTL DEF IInv

\* remoteCredentials() names the user of the process that connected, with the
\* same exceptions.
THEOREM PeerReported == Spec => []ReportsPeer
BY OwnerInvariant, PTL DEF IInv

\* Nobody an ownerOnly server has waiting or serves came before the restriction.
THEOREM AllScreened == Spec => []EveryoneScreened
<1>1. IInv => EveryoneScreened
  BY DEF IInv, Screening, EveryoneScreened
<1> QED
  BY <1>1, OwnerInvariant, PTL

\* The comparison of the times turns away no owner that is still there.
THEOREM OwnersAreServed == Spec => OwnersServed
<1> DEFINE Present(c) ==
      LET q == client[c].peer
      IN  /\ client[c].stage = "taken" /\ client[c].local
          /\ q.user = "owner" /\ Trusted(q)
          /\ process[client[c].pid] = q /\ q.epoch = client[c].epoch
<1>1. ASSUME TypeOK, IInv, NEW c \in Clients, Present(c), Check(c)
      PROVE  client'[c].stage # "dropped"
  <2> DEFINE q == client[c].peer
  <2>1. q # NoProcess /\ client[c] \in ClientType /\ q \in Process
    BY <1>1 DEF IInv, Stages, TypeOK, ClientType
  <2>2. windows => q.born <= client[c].accepted /\ InStep(q, c)
    BY <1>1, <2>1 DEF IInv, ClientsPast, Stamped
  <2>3. windows => q.created <= client[c].connected
    BY <1>1, <2>1, <2>2 DEF InStep, Process, ClientType
  <2>4. Identified(c) = {q}
    BY <1>1, <2>1, <2>3 DEF Identified, IsPeer
  <2>5. client' = [client EXCEPT ![c] = Checked(client[c], q)]
    BY <1>1, <2>4 DEF Check
  <2> QED
    BY <1>1, <2>1, <2>5 DEF Checked, TypeOK, ClientType
<1>2. ASSUME TypeOK, IInv, Next, NEW c \in Clients, Present(c)
      PROVE  client'[c].stage # "dropped"
  <2>1. CASE Check(c)
    BY <1>1, <1>2, <2>1
  <2>2. CASE ~Check(c)
    <3>1. client[c].stage = "taken" /\ client \in [Clients -> ClientType]
      BY <1>2 DEF TypeOK
    <3>2. ASSUME NEW d \in Clients, Arrive(d, "waiting") \/ Arrive(d, "received")
                   \/ Accept(d) \/ Check(d) \/ RemoteCredentials(d)
          PROVE  client'[c].stage = "taken"
      <4>1. d # c
        BY <2>2, <3>1, <3>2 DEF Arrive, Accept, RemoteCredentials, Waiting
      <4> QED
        BY <3>1, <3>2, <4>1 DEF Arrive, Accept, Check, RemoteCredentials
    <3>3. CASE BindFails \/ Disconnect
      BY <3>1, <3>3 DEF BindFails, Disconnect, Disconnected, Waiting
    <3>4. CASE Tick \/ SetBack \/ Bind \/ Restrict \/ Listen
                 \/ \E p \in Pids : Spawn(p) \/ Exit(p)
      BY <3>1, <3>4 DEF Tick, SetBack, Bind, Restrict, Listen, Spawn, Exit
    <3> QED
      BY <1>2, <3>2, <3>3, <3>4 DEF Next, World, Server, Connect, Receive
  <2> QED
    BY <2>1, <2>2
<1>3. TypeOK /\ IInv /\ [Next]_vars =>
        [\A c \in Clients : Present(c) => client'[c].stage # "dropped"]_vars
  BY <1>2
<1> QED
  BY <1>3, OwnerInvariant, OwnerTypeCorrect, PTL DEF Spec, OwnersServed
=============================================================================
