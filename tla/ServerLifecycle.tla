-------------------------- MODULE ServerLifecycle --------------------------
(***************************************************************************)
(* What a Server promises (index.d.ts): it has connections only between    *)
(* listen() and its close, it accepts none once close() was called, it is  *)
(* closed only when the last one has ended, and a listen() that failed     *)
(* leaves it ready for another.                                            *)
(***************************************************************************)
CONSTANT Conns

VARIABLES
  phase,        \* "idle", "listening", "failing", "closing" or "closed"
  connections   \* the connections that have not ended

vars == <<phase, connections>>

TypeOK ==
  /\ phase \in {"idle", "listening", "failing", "closing", "closed"}
  /\ connections \subseteq Conns

Init == phase = "idle" /\ connections = {}

Listen ==
  /\ phase \in {"idle", "closed"}
  /\ phase' \in {"listening", "failing"}
  /\ UNCHANGED connections

Recover ==
  /\ phase = "failing"
  /\ phase' = "idle"
  /\ UNCHANGED connections

Accept(c) ==
  /\ phase = "listening"
  /\ connections' = connections \cup {c}
  /\ UNCHANGED phase

\* close(), which has nothing to wait for on a server that is idle.
Close ==
  \/ /\ phase \in {"listening", "failing"}
     /\ phase' = "closing"
     /\ UNCHANGED connections
  \/ /\ phase = "idle" /\ connections = {}
     /\ phase' = "closed"
     /\ UNCHANGED connections

\* A connection ends; with the last one a closing server may be closed.
End(c) ==
  /\ c \in connections
  /\ connections' = connections \ {c}
  /\ \/ UNCHANGED phase
     \/ phase = "closing" /\ connections' = {} /\ phase' = "closed"

Closed ==
  /\ phase = "closing" /\ connections = {}
  /\ phase' = "closed"
  /\ UNCHANGED connections

Next ==
  \/ Listen \/ Recover \/ Close \/ Closed
  \/ \E c \in Conns : Accept(c) \/ End(c)

Spec == Init /\ [][Next]_vars
=============================================================================
