--------------------------- MODULE HandleChannel ---------------------------
(***************************************************************************)
(* What sending handles over a pipe promises (index.d.ts, write): "the     *)
(* handle is transferred to the receiver alongside the chunk".  The n-th   *)
(* message written arrives as the n-th, and the handles arrive in the      *)
(* order they were written, each no later than its message.                *)
(***************************************************************************)
EXTENDS Naturals, Sequences, SequencesExt

CONSTANTS Handles, NoTarget

VARIABLES
  sent,       \* the handle, or NoTarget, each message was written with
  delivered,  \* how many messages have arrived
  surfaced    \* the handles that have arrived, in order

vars == <<sent, delivered, surfaced>>

\* The handles among the first n messages, in order.
HandlesOf(n) ==
  FlattenSeq([i \in 1..n |-> IF sent[i] = NoTarget THEN <<>> ELSE <<sent[i]>>])

Init == sent = <<>> /\ delivered = 0 /\ surfaced = <<>>

Send ==
  /\ \E h \in Handles \cup {NoTarget} : sent' = Append(sent, h)
  /\ UNCHANGED <<delivered, surfaced>>

\* The handles of the next messages arrive before or with the messages.
Surface ==
  /\ \E n \in delivered..Len(sent) : surfaced' = HandlesOf(n)
  /\ Len(surfaced') > Len(surfaced)
  /\ UNCHANGED <<sent, delivered>>

Deliver ==
  /\ \E n \in delivered + 1..Len(sent) :
       /\ Len(HandlesOf(n)) <= Len(surfaced)
       /\ delivered' = n
  /\ UNCHANGED <<sent, surfaced>>

Next == Send \/ Surface \/ Deliver

Spec == Init /\ [][Next]_vars
=============================================================================
