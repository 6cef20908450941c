--------------------------- MODULE PipeLifecycle ---------------------------
(***************************************************************************)
(* What a Pipe promises about its readyState (index.d.ts): it is 'closed'  *)
(* before it is connected, 'opening' at most once, then it only ever loses *)
(* halves, and a pipe that was destroyed is 'closed' for good.             *)
(***************************************************************************)

VARIABLES
  stage,   \* "new", "connected", "destroyed" or "closed" ('close' emitted)
  ready    \* readyState

vars == <<stage, ready>>

Stages == {"new", "connected", "destroyed", "closed"}

\* The halves a connected pipe can still use, by readyState.
Halves ==
  [open |-> {"read", "write"}, readOnly |-> {"read"}, writeOnly |-> {"write"},
   closed |-> {}]

TypeOK == stage \in Stages /\ ready \in DOMAIN Halves \cup {"opening"}

Init == stage = "new" /\ ready = "closed"

\* connect().
Begin ==
  /\ stage = "new" /\ ready = "closed"
  /\ ready' = "opening"
  /\ UNCHANGED stage

\* The connection is there: at least one half of it can be used.
Establish ==
  /\ stage = "new"
  /\ stage' = "connected"
  /\ ready' \in {"open", "readOnly", "writeOnly"}

\* A half ends, here or at the peer.
EndHalf ==
  /\ stage = "connected"
  /\ \E r \in DOMAIN Halves :
       /\ Halves[r] \subseteq Halves[ready] /\ r # ready
       /\ ready' = r
  /\ UNCHANGED stage

\* destroy(), an error, or both halves done.
Destroy ==
  /\ stage \in {"new", "connected"}
  /\ stage' = "destroyed"
  /\ ready' = "closed"

\* 'close'.
Close ==
  /\ stage = "destroyed"
  /\ stage' = "closed"
  /\ UNCHANGED ready

Next == Begin \/ Establish \/ EndHalf \/ Destroy \/ Close

Spec == Init /\ [][Next]_vars
=============================================================================
