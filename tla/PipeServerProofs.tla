-------------------------- MODULE PipeServerProofs --------------------------
(***************************************************************************)
(* Proofs about PipeServer, for any clients, any callers of close() and    *)
(* any number of calls of listen().                                        *)
(***************************************************************************)
EXTENDS PipeServer, PipeHandleProofs

(***************************************************************************)
(* The inductive invariant.  The flags exclude each other; a listener that *)
(* is not being closed belongs to BOUND; and 'listening' is emitted from   *)
(* the queue before the handle that was closed meanwhile can be gone.      *)
(***************************************************************************)
In(s, j) == \E i \in DOMAIN s : s[i] = j

ListeningOwed == In(jobs, "listening") => Is("BOUND") \/ (Is("CLOSING") /\ Live)

FlagsAgree ==
  /\ Is("CLOSING") => ~Is("BINDING") /\ ~Is("BOUND") /\ ~Is("CLOSED")
  /\ Is("BINDING") => Live
  /\ ~Is("BOUND") /\ ~Is("CLOSING") => Connections = {}

ListenersBound ==
  Js /\ Live /\ ~handle.closing =>
    handle.uv = "open" /\ (handle.listening => Is("BOUND"))

IInv ==
  /\ TypeOK /\ HandleGuarded /\ RefAgrees /\ ListeningMeansBound
  /\ ClosersOwed /\ FailureOwned
  /\ ListeningOwed /\ FlagsAgree /\ ListenersBound

-----------------------------------------------------------------------------
(* The queue of microtasks and the shared steps.                           *)

Jobs == {"listening", "close"} \cup Closers

(* A microtask that is queued joins those that are. *)
LEMMA AppendJob ==
  ASSUME NEW S, NEW s \in Seq(S), NEW x \in S
  PROVE  /\ Append(s, x) \in Seq(S)
         /\ \A j : In(Append(s, x), j) <=> (In(s, j) \/ j = x)
<1>1. /\ Append(s, x) \in Seq(S)
      /\ Len(Append(s, x)) = Len(s) + 1
      /\ \A i \in 1..Len(s) : Append(s, x)[i] = s[i]
      /\ Append(s, x)[Len(s) + 1] = x
  OBVIOUS
<1>2. /\ DOMAIN s = 1..Len(s)
      /\ DOMAIN Append(s, x) = 1..(Len(s) + 1) /\ Len(s) \in Nat
  OBVIOUS
<1>3. QED
  BY <1>1, <1>2 DEF In

(* A microtask that runs leaves the queue, and no other does. *)
LEMMA TailJob ==
  ASSUME NEW S, NEW s \in Seq(S), s # <<>>
  PROVE  /\ Tail(s) \in Seq(S) /\ Head(s) \in S /\ In(s, Head(s))
         /\ \A j : In(s, j) => In(Tail(s), j) \/ j = Head(s)
         /\ \A j : In(Tail(s), j) => In(s, j)
<1>1. /\ Tail(s) \in Seq(S) /\ Head(s) \in S /\ Head(s) = s[1]
      /\ Len(s) \in Nat \ {0} /\ Len(Tail(s)) = Len(s) - 1
      /\ \A i \in 1..(Len(s) - 1) : Tail(s)[i] = s[i + 1]
  OBVIOUS
<1>2. DOMAIN s = 1..Len(s) /\ DOMAIN Tail(s) = 1..(Len(s) - 1)
  BY <1>1
<1>3. In(s, Head(s))
  BY <1>1, <1>2 DEF In
<1>4. ASSUME NEW j, In(s, j), j # Head(s) PROVE In(Tail(s), j)
  <2>1. PICK i \in 1..Len(s) : s[i] = j
    BY <1>2, <1>4 DEF In
  <2>2. i # 1 /\ i - 1 \in 1..(Len(s) - 1)
    BY <1>1, <1>4, <2>1
  <2>3. Tail(s)[i - 1] = j
    BY <1>1, <2>1, <2>2
  <2>4. QED
    BY <1>2, <2>2, <2>3 DEF In
<1>5. ASSUME NEW j, In(Tail(s), j) PROVE In(s, j)
  <2>1. PICK i \in 1..(Len(s) - 1) : Tail(s)[i] = j
    BY <1>2, <1>5 DEF In
  <2>2. s[i + 1] = j /\ i + 1 \in 1..Len(s)
    BY <1>1, <2>1
  <2>3. QED
    BY <1>2, <2>2 DEF In
<1>6. QED
  BY <1>1, <1>3, <1>4, <1>5

(* _closeMaybe closes, and queues the event, or does nothing. *)
LEMMA CloseMaybeStep ==
  ASSUME NEW st \in SUBSET Flags, NEW h, NEW open, jobs \in Seq(Jobs),
         CloseMaybe(st, h, open)
  PROVE  /\ state' \in SUBSET Flags /\ jobs' \in Seq(Jobs)
         /\ \A f \in Flags \ {"CLOSING", "CLOSED"} : f \in state' <=> f \in st
         /\ \A j : In(jobs, j) => In(jobs, j)'
         /\ In(jobs, "listening")' => In(jobs, "listening")
         /\ \/ state' = st
            \/ /\ "CLOSING" \in st /\ "CLOSED" \notin st /\ h = NoHandle /\ open = {}
               /\ "CLOSING" \notin state' /\ "CLOSED" \in state'
               /\ In(jobs, "close")'
<1>1. "close" \in Jobs
  BY DEF Jobs
<1>2. /\ Append(jobs, "close") \in Seq(Jobs)
      /\ \A j : In(Append(jobs, "close"), j) <=> (In(jobs, j) \/ j = "close")
  BY <1>1, AppendJob
<1>3. CASE "CLOSING" \in st /\ "CLOSED" \notin st /\ h = NoHandle /\ open = {}
  <2>1. state' = (st \ {"CLOSING"}) \cup {"CLOSED"} /\ jobs' = Append(jobs, "close")
    BY <1>3 DEF CloseMaybe
  <2>2. \A j : In(jobs, j)' <=> (In(jobs, j) \/ j = "close")
    BY <1>2, <2>1 DEF In
  <2>3. QED
    BY <1>2, <1>3, <2>1, <2>2 DEF Flags
<1>4. CASE ~("CLOSING" \in st /\ "CLOSED" \notin st /\ h = NoHandle /\ open = {})
  <2>1. state' = st /\ jobs' = jobs
    BY <1>4 DEF CloseMaybe
  <2>2. QED
    BY <2>1 DEF In
<1>5. QED
  BY <1>3, <1>4

(* The handle listen() creates is open, and referenced unless UNREFED. *)
LEMMA ListenHandleFacts ==
  ASSUME TypeOK
  PROVE  /\ ListenHandle \in HandleType
         /\ ListenHandle.ref <=> ~Is("UNREFED")
         /\ ~ListenHandle.closing /\ ~ListenHandle.exiting
         /\ ListenHandle.uv = "open"
  BY InitHandle, UnrefHandle DEF ListenHandle, Same

(* Closing a live handle leaves it closing, with its reference. *)
LEMMA ClosingHandle ==
  ASSUME NEW h \in HandleType
  PROVE  /\ BindingClose(h) \in HandleType /\ BindingClose(h).closing
         /\ BindingClose(h).ref = h.ref /\ BindingClose(h).exiting = h.exiting
         /\ BindingClose(h).listening = h.listening
  BY CloseHandle DEF Same

(* A live handle has the type of one. *)
LEMMA LiveHandle ==
  TypeOK => (Live <=> handle \in HandleType)
  BY ServerAssumption DEF TypeOK, Live

-----------------------------------------------------------------------------
(* Every step keeps the invariant.                                         *)

(* The server starts with it. *)
LEMMA InitInvariant == Init => IInv
<1>1. SUFFICES ASSUME Init PROVE IInv
  OBVIOUS
<1>2. TypeOK
  <2>1. <<>> \in Seq({"listening", "close"} \cup Closers)
    OBVIOUS
  <2>2. 0 \in 0..MaxListens
    BY ServerAssumption
  <2>3. QED
    BY <1>1, <2>1, <2>2 DEF Init, TypeOK
<1>3. HandleGuarded /\ RefAgrees /\ ListeningMeansBound /\ FailureOwned
  BY <1>1 DEF Init, HandleGuarded, RefAgrees, ListeningMeansBound, FailureOwned,
              Live, Is
<1>4. ClosersOwed
  BY <1>1 DEF Init, ClosersOwed
<1>5. ListeningOwed /\ FlagsAgree /\ ListenersBound
  BY <1>1 DEF Init, ListeningOwed, In, FlagsAgree, ListenersBound, Live, Is, Connections
<1>6. QED
  BY <1>2, <1>3, <1>4, <1>5 DEF IInv

(***************************************************************************)
(* What the invariant needs of a step that leaves the connections and the  *)
(* callers alone: listen(), and what happens to it later.                  *)
(***************************************************************************)
LEMMA ListenInvariant == IInv /\ Listen => IInv'
<1>1. SUFFICES ASSUME IInv, Listen PROVE IInv'
  OBVIOUS
<1> USE DEF Is
<1>2. TypeOK /\ HandleGuarded /\ FailureOwned /\ FlagsAgree /\ ListeningOwed /\ ClosersOwed
  BY <1>1 DEF IInv
<1>3. /\ "CLOSING" \notin state /\ "BINDING" \notin state /\ "BOUND" \notin state
      /\ listens' = listens + 1 /\ listens < MaxListens
      /\ UNCHANGED <<frame, conn, closer, skipped>> /\ event' = "none"
  BY <1>1 DEF Listen, MayListen
<1>4. ~Live /\ ~error
  BY <1>1, <1>2, <1>3 DEF Listen, Js, Exiting, HandleGuarded, FailureOwned
<1>5. /\ ListenHandle \in HandleType
      /\ ListenHandle.ref <=> "UNREFED" \notin state
      /\ ~ListenHandle.closing /\ ~ListenHandle.exiting
      /\ ListenHandle.uv = "open"
  BY <1>2, ListenHandleFacts
<1>6. listens' \in 0..MaxListens
  BY <1>2, <1>3, ServerAssumption DEF TypeOK
<1>7. Connections' = Connections /\ Connections = {}
  BY <1>2, <1>3 DEF Connections, FlagsAgree
<1>8. state \in SUBSET Flags /\ jobs \in Seq(Jobs)
  BY <1>2 DEF TypeOK, Jobs
<1>9. CASE /\ handle' = BindingBind(ListenHandle)
           /\ state' = (StartBinding \ {"BINDING"}) \cup {"BOUND"}
           /\ jobs' = Append(jobs, "listening")
           /\ UNCHANGED error
  <2>1. /\ handle' \in HandleType /\ handle'.listening
        /\ handle'.ref <=> "UNREFED" \notin state
        /\ ~handle'.closing /\ ~handle'.exiting /\ handle'.uv = "open"
    BY <1>5, <1>9, BindHandle DEF Same
  <2>2. /\ state' \in SUBSET Flags
        /\ "BOUND" \in state' /\ "BINDING" \notin state'
        /\ "CLOSING" \notin state' /\ "CLOSED" \notin state'
        /\ "UNREFED" \in state' <=> "UNREFED" \in state
    BY <1>3, <1>8, <1>9 DEF StartBinding, Flags
  <2>3. /\ jobs' \in Seq(Jobs)
        /\ \A j : In(jobs, j) => In(jobs', j)
    BY <1>8, <1>9, AppendJob DEF Jobs
  <2>4. Live'
    BY <2>1, ServerAssumption DEF Live
  <2>5. TypeOK'
    BY <1>2, <1>3, <1>6, <1>9, <2>1, <2>2, <2>3 DEF TypeOK, Jobs
  <2>6. /\ HandleGuarded' /\ RefAgrees' /\ ListeningMeansBound'
        /\ FailureOwned' /\ ListeningOwed' /\ FlagsAgree' /\ ListenersBound'
    BY <1>3, <1>4, <1>9, <2>1, <2>2, <2>4
       DEF HandleGuarded, RefAgrees, ListeningMeansBound, FailureOwned, ListeningOwed,
           FlagsAgree, ListenersBound
  <2>7. ClosersOwed'
    BY <1>2, <1>3, <2>3 DEF ClosersOwed, In
  <2>8. QED
    BY <2>5, <2>6, <2>7 DEF IInv
<1>10. CASE /\ \E bound \in BOOLEAN :
                 handle' = BindingClose(BindingBindFailed(ListenHandle, bound))
            /\ state' = StartBinding /\ error' = TRUE
            /\ UNCHANGED jobs
  <2>1. PICK bound \in BOOLEAN :
          handle' = BindingClose(BindingBindFailed(ListenHandle, bound))
    BY <1>10
  <2> DEFINE h == BindingBindFailed(ListenHandle, bound)
  <2>2. /\ h \in HandleType /\ h.ref = ListenHandle.ref
        /\ h.exiting = ListenHandle.exiting
    BY <1>5, BindFailedHandle DEF Same
  <2> HIDE DEF h
  <2>3. /\ handle' \in HandleType /\ handle'.closing
        /\ handle'.ref <=> "UNREFED" \notin state
    BY <1>5, <2>1, <2>2, ClosingHandle DEF h
  <2>4. /\ state' \in SUBSET Flags
        /\ "BINDING" \in state' /\ "BOUND" \notin state'
        /\ "CLOSING" \notin state' /\ "CLOSED" \notin state'
        /\ "UNREFED" \in state' <=> "UNREFED" \in state
    BY <1>3, <1>8, <1>10 DEF StartBinding, Flags
  <2>5. Live'
    BY <2>3, ServerAssumption DEF Live
  <2>6. TypeOK'
    BY <1>2, <1>3, <1>6, <1>10, <2>3, <2>4 DEF TypeOK
  <2>7. /\ HandleGuarded' /\ RefAgrees' /\ ListeningMeansBound'
        /\ FailureOwned' /\ FlagsAgree' /\ ListenersBound'
    BY <1>3, <1>7, <1>10, <2>3, <2>4, <2>5
       DEF HandleGuarded, RefAgrees, ListeningMeansBound, FailureOwned,
           FlagsAgree, ListenersBound
  <2>8. ListeningOwed' /\ ClosersOwed'
    BY <1>2, <1>3, <1>10 DEF ListeningOwed, ClosersOwed, In
  <2>9. QED
    BY <2>6, <2>7, <2>8 DEF IInv
<1>11. QED
  BY <1>1, <1>9, <1>10 DEF Listen

(* A handle that is live stays so until on_close. *)
LEMMA CloseInvariant ==
  IInv /\ (\E callers \in SUBSET Closers : CloseOpen(callers)) => IInv'
<1>1. SUFFICES ASSUME IInv, NEW callers \in SUBSET Closers, CloseOpen(callers)
      PROVE  IInv'
  OBVIOUS
<1> USE DEF Is
<1>2. /\ TypeOK /\ HandleGuarded /\ RefAgrees /\ FailureOwned /\ FlagsAgree
      /\ ListeningOwed /\ ClosersOwed /\ ListenersBound
  BY <1>1 DEF IInv
<1>3. /\ Js /\ "CLOSED" \notin state
      /\ \A c \in callers : closer[c] = "idle"
      /\ closer' = [c \in Closers |-> IF c \in callers THEN "once" ELSE closer[c]]
      /\ event' = "none" /\ UNCHANGED <<error, frame, listens, skipped>>
  BY <1>1 DEF CloseOpen
<1>4. /\ closer' \in [Closers -> {"idle", "once", "queued", "called"}]
      /\ \A c \in Closers : closer'[c] = "queued" => closer[c] = "queued"
      /\ \A c \in Closers : closer'[c] = "once" => c \in callers \/ closer[c] = "once"
  BY <1>2, <1>3 DEF TypeOK
<1>5. ListeningMeansBound'
  BY <1>3 DEF ListeningMeansBound
<1>6. state \in SUBSET Flags /\ jobs \in Seq(Jobs) /\ StopListening \in SUBSET Flags
  BY <1>2 DEF TypeOK, Jobs, StopListening, Flags
<1>7. CASE "CLOSING" \in state
  <2>1. UNCHANGED <<state, handle, jobs, conn>>
    BY <1>1, <1>7 DEF CloseOpen
  <2>2. TypeOK'
    BY <1>2, <1>3, <1>4, <2>1 DEF TypeOK
  <2>3. /\ HandleGuarded' /\ RefAgrees' /\ FailureOwned' /\ FlagsAgree'
        /\ ListeningOwed' /\ ListenersBound'
    BY <1>2, <1>3, <2>1 DEF HandleGuarded, RefAgrees, FailureOwned, FlagsAgree,
       ListeningOwed, In, ListenersBound, Live, Js, Exiting, Connections
  <2>4. ClosersOwed'
    BY <1>2, <1>4, <1>7, <2>1 DEF ClosersOwed
  <2>5. QED
    BY <1>5, <2>2, <2>3, <2>4 DEF IInv
<1>8. CASE "CLOSING" \notin state /\ Live
  <2>1. /\ state' = StopListening /\ handle' = BindingClose(handle)
        /\ jobs' = jobs /\ DropBacklog
    BY <1>1, <1>8 DEF CloseOpen
  <2>2. /\ conn' \in [Conns -> {"new", "backlog", "parked", "open", "gone"}]
    BY <1>2, <2>1 DEF DropBacklog, TypeOK
  <2>3. /\ handle \in HandleType /\ handle' \in HandleType /\ handle'.closing
        /\ handle'.ref = handle.ref
    BY <1>2, <1>8, LiveHandle, ClosingHandle, <2>1
  <2>4. /\ state' \in SUBSET Flags
        /\ "CLOSING" \in state' /\ "BOUND" \notin state' /\ "BINDING" \notin state'
        /\ "CLOSED" \notin state'
        /\ "UNREFED" \in state' <=> "UNREFED" \in state
    BY <1>3, <1>6, <2>1 DEF StopListening
  <2>5. Live'
    BY <2>3, ServerAssumption DEF Live
  <2>6. TypeOK'
    BY <1>2, <1>3, <1>4, <2>1, <2>2, <2>3, <2>4 DEF TypeOK
  <2>7. /\ HandleGuarded' /\ RefAgrees' /\ FailureOwned' /\ FlagsAgree'
        /\ ListeningOwed' /\ ListenersBound'
    BY <1>2, <1>3, <1>8, <2>3, <2>4, <2>5 DEF HandleGuarded, RefAgrees, FailureOwned,
       FlagsAgree, ListeningOwed, ListenersBound
  <2>8. ClosersOwed'
    BY <1>2, <1>4, <2>1, <2>4 DEF ClosersOwed
  <2>9. QED
    BY <1>5, <2>6, <2>7, <2>8 DEF IInv
<1>9. CASE "CLOSING" \notin state /\ ~Live
  <2>1. CloseMaybe(StopListening, handle, Connections) /\ UNCHANGED <<handle, conn>>
    BY <1>1, <1>9 DEF CloseOpen
  <2> DEFINE st == StopListening
  <2>2. /\ "CLOSING" \in st /\ "BOUND" \notin st /\ "BINDING" \notin st
        /\ "CLOSED" \notin st /\ st \in SUBSET Flags
        /\ CloseMaybe(st, handle, Connections)
    BY <1>3, <1>6, <2>1 DEF StopListening
  <2> HIDE DEF st
  <2>3. /\ state' \in SUBSET Flags /\ jobs' \in Seq(Jobs)
        /\ \A f \in Flags \ {"CLOSING", "CLOSED"} : f \in state' <=> f \in st
        /\ \A j : In(jobs, j) => In(jobs, j)'
        /\ In(jobs, "listening")' => In(jobs, "listening")
        /\ \/ state' = st
           \/ /\ handle = NoHandle /\ Connections = {}
              /\ "CLOSING" \notin state' /\ "CLOSED" \in state'
              /\ In(jobs, "close")'
    BY <1>6, <2>2, CloseMaybeStep
  <2>4. "BOUND" \notin state' /\ "BINDING" \notin state'
    BY <2>2, <2>3 DEF Flags
  <2>5. ~Live' /\ Connections' = Connections
    BY <1>9, <2>1 DEF Live, Connections
  <2>6. TypeOK'
    BY <1>2, <1>3, <1>4, <2>1, <2>3 DEF TypeOK, Jobs
  <2>7. ~In(jobs, "listening")
    BY <1>2, <1>3, <1>9 DEF ListeningOwed, HandleGuarded
  <2>8. /\ HandleGuarded' /\ RefAgrees' /\ FailureOwned' /\ FlagsAgree'
        /\ ListeningOwed' /\ ListenersBound'
    BY <1>2, <1>3, <1>9, <2>2, <2>3, <2>4, <2>5, <2>7
       DEF HandleGuarded, RefAgrees, FailureOwned, FlagsAgree, ListeningOwed, ListenersBound
  <2>9. ClosersOwed'
    BY <1>2, <1>4, <2>2, <2>3 DEF ClosersOwed, In
  <2>10. QED
    BY <1>5, <2>6, <2>8, <2>9 DEF IInv
<1>10. QED
  BY <1>7, <1>8, <1>9

(* ref() and unref() keep handle and flag in step. *)
LEMMA RefInvariant == IInv /\ (Ref \/ Unref) => IInv'
<1>1. SUFFICES ASSUME IInv, Ref \/ Unref PROVE IInv'
  OBVIOUS
<1> USE DEF Is
<1>2. /\ TypeOK /\ HandleGuarded /\ RefAgrees /\ FailureOwned /\ FlagsAgree
      /\ ListeningOwed /\ ClosersOwed /\ ListenersBound
  BY <1>1 DEF IInv
<1>3. event' = "none" /\ UNCHANGED <<error, jobs, frame, conn, closer, listens, skipped>>
  BY <1>1 DEF Ref, Unref
<1>4. /\ state' \in SUBSET Flags
      /\ \A f \in Flags \ {"UNREFED"} : f \in state' <=> f \in state
  BY <1>1, <1>2 DEF Ref, Unref, TypeOK, Flags
<1>5. CASE Live
  <2>1. handle \in HandleType
    BY <1>2, <1>5, LiveHandle
  <2>2. /\ handle' \in HandleType /\ Same(handle, handle', {"ref"})
        /\ handle'.ref <=> "UNREFED" \notin state'
    BY <1>1, <1>5, <2>1, RefHandle, UnrefHandle DEF Ref, Unref
  <2>3. Live'
    BY <2>2, ServerAssumption DEF Live
  <2>4. TypeOK'
    BY <1>2, <1>3, <1>4, <2>2 DEF TypeOK
  <2>5. /\ HandleGuarded' /\ RefAgrees' /\ FailureOwned' /\ FlagsAgree'
        /\ ListeningOwed' /\ ListenersBound' /\ ListeningMeansBound' /\ ClosersOwed'
    BY <1>2, <1>3, <1>4, <1>5, <2>2, <2>3 DEF HandleGuarded, RefAgrees, FailureOwned,
       FlagsAgree, ListeningOwed, In, ListenersBound, ListeningMeansBound, ClosersOwed,
       Same, Js, Exiting, Connections, Flags
  <2>6. QED
    BY <2>4, <2>5 DEF IInv
<1>6. CASE ~Live
  <2>1. handle' = handle /\ ~Live'
    BY <1>1, <1>6 DEF Ref, Unref, Live
  <2>2. TypeOK'
    BY <1>2, <1>3, <1>4, <2>1 DEF TypeOK
  <2>3. /\ HandleGuarded' /\ RefAgrees' /\ FailureOwned' /\ FlagsAgree'
        /\ ListeningOwed' /\ ListenersBound' /\ ListeningMeansBound' /\ ClosersOwed'
    BY <1>2, <1>3, <1>4, <1>6, <2>1 DEF HandleGuarded, RefAgrees, FailureOwned,
       FlagsAgree, ListeningOwed, In, ListenersBound, ListeningMeansBound, ClosersOwed,
       Js, Exiting, Connections, Flags
  <2>4. QED
    BY <2>2, <2>3 DEF IInv
<1>7. QED
  BY <1>5, <1>6

(* close(onclose) on a closed server queues its callback. *)
LEMMA CloseClosedInvariant == IInv /\ (\E c \in Closers : CloseClosed(c)) => IInv'
<1>1. SUFFICES ASSUME IInv, NEW c \in Closers, CloseClosed(c) PROVE IInv'
  OBVIOUS
<1>2. /\ TypeOK /\ HandleGuarded /\ RefAgrees /\ FailureOwned /\ FlagsAgree
      /\ ListeningOwed /\ ClosersOwed /\ ListenersBound
  BY <1>1 DEF IInv
<1>3. /\ closer' = [closer EXCEPT ![c] = "queued"]
      /\ jobs' = Append(jobs, c) /\ event' = "none"
      /\ UNCHANGED <<state, error, handle, frame, conn, listens, skipped>>
  BY <1>1 DEF CloseClosed
<1>4. jobs \in Seq(Jobs) /\ c \in Jobs
  BY <1>2 DEF TypeOK, Jobs
<1>5. jobs' \in Seq(Jobs) /\ \A j : In(jobs', j) <=> (In(jobs, j) \/ j = c)
  BY <1>3, <1>4, AppendJob
<1>6. TypeOK'
  BY <1>2, <1>3, <1>5 DEF TypeOK, Jobs
<1>7. ListeningOwed'
  <2>1. In(jobs, "listening")' => In(jobs, "listening")
    BY <1>5, ServerAssumption DEF In
  <2>2. QED
    BY <1>2, <1>3, <2>1 DEF ListeningOwed, Is, Live
<1>8. ClosersOwed'
  <2>1. \A j : In(jobs, j) => In(jobs, j)'
    BY <1>5 DEF In
  <2>2. In(jobs, c)'
    BY <1>5 DEF In
  <2>3. /\ closer'[c] = "queued"
        /\ \A d \in Closers \ {c} : closer'[d] = closer[d]
    BY <1>2, <1>3 DEF TypeOK
  <2>4. QED
    BY <1>2, <1>3, <2>1, <2>2, <2>3 DEF ClosersOwed, In, Is
<1>9. /\ HandleGuarded' /\ RefAgrees' /\ FailureOwned' /\ FlagsAgree'
      /\ ListenersBound' /\ ListeningMeansBound'
  BY <1>2, <1>3 DEF HandleGuarded, RefAgrees, FailureOwned, FlagsAgree,
     ListenersBound, ListeningMeansBound, Is, Live, Js, Exiting, Connections
<1>10. QED
  BY <1>6, <1>7, <1>8, <1>9 DEF IInv

(* A microtask runs. *)
LEMMA RunJobInvariant == IInv /\ RunJob => IInv'
<1>1. SUFFICES ASSUME IInv, RunJob PROVE IInv'
  OBVIOUS
<1>2. /\ TypeOK /\ HandleGuarded /\ RefAgrees /\ FailureOwned /\ FlagsAgree
      /\ ListeningOwed /\ ClosersOwed /\ ListenersBound
  BY <1>1 DEF IInv
<1>3. /\ jobs # <<>> /\ jobs' = Tail(jobs)
      /\ UNCHANGED <<state, error, handle, frame, conn, listens, skipped>>
  BY <1>1 DEF RunJob
<1>4. jobs \in Seq(Jobs)
  BY <1>2 DEF TypeOK, Jobs
<1>5. /\ jobs' \in Seq(Jobs) /\ Head(jobs) \in Jobs /\ In(jobs, Head(jobs))
      /\ \A j : In(jobs, j) => In(jobs', j) \/ j = Head(jobs)
      /\ \A j : In(jobs', j) => In(jobs, j)
  BY <1>3, <1>4, TailJob
<1>6. /\ \A j : In(jobs, j) => In(jobs, j)' \/ j = Head(jobs)
      /\ In(jobs, "listening")' => In(jobs, "listening")
  BY <1>5 DEF In
<1>7. /\ HandleGuarded' /\ RefAgrees' /\ FailureOwned' /\ FlagsAgree'
      /\ ListenersBound' /\ ListeningOwed'
  BY <1>2, <1>3, <1>6 DEF HandleGuarded, RefAgrees, FailureOwned, FlagsAgree,
     ListenersBound, ListeningOwed, Is, Live, Js, Exiting, Connections
<1>8. CASE Head(jobs) = "listening"
  <2>1. event' = ListeningEvent /\ closer' = closer
    BY <1>1, <1>8 DEF RunJob
  <2>2. TypeOK'
    BY <1>2, <1>3, <1>5, <2>1 DEF TypeOK, Jobs, ListeningEvent
  <2>3. ListeningMeansBound'
    BY <1>2, <1>3, <1>5, <1>8, <2>1 DEF ListeningMeansBound, ListeningEvent, ListeningOwed, Is
  <2>4. ClosersOwed'
    BY <1>2, <1>3, <1>6, <1>8, <2>1, ServerAssumption DEF ClosersOwed, In, Is
  <2>5. QED
    BY <1>7, <2>2, <2>3, <2>4 DEF IInv
<1>9. CASE Head(jobs) = "close"
  <2>1. /\ event' = "close"
        /\ closer' = [c \in Closers |-> IF closer[c] = "once" THEN "called" ELSE closer[c]]
    BY <1>1, <1>9 DEF RunJob
  <2>2. TypeOK'
    BY <1>2, <1>3, <1>5, <2>1 DEF TypeOK, Jobs
  <2>3. ListeningMeansBound'
    BY <2>1 DEF ListeningMeansBound
  <2>4. \A c \in Closers :
          closer'[c] # "once" /\ (closer'[c] = "queued" => closer[c] = "queued")
    BY <2>1
  <2>5. ClosersOwed'
    BY <1>2, <1>6, <1>9, <2>4, ServerAssumption DEF ClosersOwed, In
  <2>6. QED
    BY <1>7, <2>2, <2>3, <2>5 DEF IInv
<1>10. CASE Head(jobs) \notin {"listening", "close"}
  <2> DEFINE d == Head(jobs)
  <2>1. /\ event' = "none" /\ closer' = [closer EXCEPT ![d] = "called"]
    BY <1>1, <1>10 DEF RunJob
  <2>2. d \in Closers
    BY <1>5, <1>10 DEF Jobs
  <2>3. d # "close"
    BY <1>10
  <2>4. \A j : In(jobs, j) => In(jobs, j)' \/ j = d
    BY <1>6
  <2> HIDE DEF d
  <2>5. TypeOK'
    BY <1>2, <1>3, <1>5, <2>1, <2>2 DEF TypeOK, Jobs
  <2>6. ListeningMeansBound'
    BY <2>1 DEF ListeningMeansBound
  <2>7. closer'[d] = "called" /\ \A c \in Closers \ {d} : closer'[c] = closer[c]
    BY <1>2, <2>1, <2>2 DEF TypeOK
  <2>8. ClosersOwed'
    BY <1>2, <1>3, <2>3, <2>4, <2>7 DEF ClosersOwed, In, Is
  <2>9. QED
    BY <1>7, <2>5, <2>6, <2>8 DEF IInv
<1>11. QED
  BY <1>8, <1>9, <1>10

(***************************************************************************)
(* A client arrives or is handed over.  Only an accepted one becomes a     *)
(* connection, and only of a listener that BOUND guards.                   *)
(***************************************************************************)
ClientStep(c) ==
  \/ Arrive(c) \/ OnConnection(c) \/ OnConnectionRejected(c)
  \/ OnConnectionError(c) \/ OnConnectionThrows(c)

LEMMA ClientInvariant == IInv /\ (\E c \in Conns : ClientStep(c)) => IInv'
<1>1. SUFFICES ASSUME IInv, NEW c \in Conns, ClientStep(c) PROVE IInv'
  OBVIOUS
<1> USE DEF Is
<1>2. /\ TypeOK /\ HandleGuarded /\ RefAgrees /\ FailureOwned /\ FlagsAgree
      /\ ListeningOwed /\ ClosersOwed /\ ListenersBound
  BY <1>1 DEF IInv
<1>3. /\ event' \in {"none", "connection", "error"}
      /\ UNCHANGED <<state, error, handle, jobs, frame, closer, listens, skipped>>
  BY <1>1 DEF ClientStep, Arrive, OnConnection, OnConnectionRejected,
     OnConnectionError, OnConnectionThrows
<1>4. PICK s \in {"backlog", "open", "gone", "parked"} : conn' = [conn EXCEPT ![c] = s]
  BY <1>1 DEF ClientStep, Arrive, OnConnection, OnConnectionRejected,
     OnConnectionError, OnConnectionThrows
<1>5. conn'[c] = s /\ \A d \in Conns \ {c} : conn'[d] = conn[d]
  BY <1>2, <1>4 DEF TypeOK
<1>6. TypeOK'
  BY <1>2, <1>3, <1>4 DEF TypeOK
<1>7. s = "open" => Incoming(c)
  <2>1. CASE Arrive(c)
    BY <1>4, <1>5, <2>1, <1>2 DEF Arrive, TypeOK
  <2>2. CASE OnConnection(c)
    BY <2>2 DEF OnConnection
  <2>3. CASE OnConnectionRejected(c) \/ OnConnectionError(c) \/ OnConnectionThrows(c)
    BY <1>4, <1>5, <2>3, <1>2
       DEF OnConnectionRejected, OnConnectionError, OnConnectionThrows, TypeOK
  <2>4. QED
    BY <1>1, <2>1, <2>2, <2>3 DEF ClientStep
<1>8. \/ Connections' \subseteq Connections
      \/ "BOUND" \in state /\ "CLOSED" \notin state
  <2>1. CASE s = "open"
    BY <1>2, <1>7, <2>1 DEF Incoming, Loop, ListenersBound, HandleGuarded
  <2>2. CASE s # "open"
    BY <1>5, <2>2 DEF Connections
  <2>3. QED
    BY <2>1, <2>2
<1>9. HandleGuarded' /\ FlagsAgree'
  BY <1>2, <1>3, <1>8 DEF HandleGuarded, FlagsAgree, Live, Js, Exiting
<1>10. RefAgrees' /\ FailureOwned' /\ ListenersBound' /\ ListeningOwed'
  BY <1>2, <1>3 DEF RefAgrees, FailureOwned, ListenersBound, ListeningOwed, In,
     Live, Js, Exiting
<1>11. ListeningMeansBound' /\ ClosersOwed'
  BY <1>2, <1>3 DEF ListeningMeansBound, ClosersOwed
<1>12. QED
  BY <1>6, <1>9, <1>10, <1>11 DEF IInv

(* A connection ends, and with the last one a closing server is closed. *)
LEMMA ConnectionClosedInvariant ==
  IInv /\ (\E c \in Conns : ConnectionClosed(c)) => IInv'
<1>1. SUFFICES ASSUME IInv, NEW c \in Conns, ConnectionClosed(c) PROVE IInv'
  OBVIOUS
<1> USE DEF Is
<1>2. /\ TypeOK /\ HandleGuarded /\ RefAgrees /\ FailureOwned /\ FlagsAgree
      /\ ListeningOwed /\ ClosersOwed /\ ListenersBound
  BY <1>1 DEF IInv
<1>3. /\ Js /\ conn' = [conn EXCEPT ![c] = "gone"]
      /\ CloseMaybe(state, handle, Connections \ {c})
      /\ event' = "none" /\ UNCHANGED <<error, handle, frame, closer, listens, skipped>>
  BY <1>1 DEF ConnectionClosed
<1>4. Connections' = Connections \ {c}
  BY <1>2, <1>3 DEF Connections, TypeOK
<1>5. state \in SUBSET Flags /\ jobs \in Seq(Jobs)
  BY <1>2 DEF TypeOK, Jobs
<1>6. /\ state' \in SUBSET Flags /\ jobs' \in Seq(Jobs)
      /\ \A f \in Flags \ {"CLOSING", "CLOSED"} : f \in state' <=> f \in state
      /\ \A j : In(jobs, j) => In(jobs, j)'
      /\ In(jobs, "listening")' => In(jobs, "listening")
      /\ \/ state' = state
         \/ /\ handle = NoHandle /\ Connections \ {c} = {}
            /\ "CLOSING" \in state /\ "CLOSING" \notin state' /\ "CLOSED" \in state'
            /\ In(jobs, "close")'
  BY <1>3, <1>5, CloseMaybeStep
<1>7. TypeOK'
  BY <1>2, <1>3, <1>6 DEF TypeOK, Jobs
<1>8. /\ RefAgrees' /\ FailureOwned' /\ ListenersBound' /\ ListeningMeansBound'
      /\ HandleGuarded' /\ FlagsAgree' /\ ListeningOwed'
  BY <1>2, <1>3, <1>4, <1>6 DEF RefAgrees, FailureOwned, ListenersBound, HandleGuarded,
     FlagsAgree, ListeningOwed, ListeningMeansBound, Live, Js, Exiting, Flags
<1>9. ClosersOwed'
  BY <1>2, <1>3, <1>6 DEF ClosersOwed, In
<1>10. QED
  BY <1>7, <1>8, <1>9 DEF IInv

(* The rest of _onclose, after its 'error' event. *)
LEMMA AfterErrorInvariant == IInv /\ AfterError => IInv'
<1>1. SUFFICES ASSUME IInv, AfterError PROVE IInv'
  OBVIOUS
<1> USE DEF Is
<1>2. /\ TypeOK /\ HandleGuarded /\ RefAgrees /\ FailureOwned /\ FlagsAgree
      /\ ListeningOwed /\ ClosersOwed /\ ListenersBound
  BY <1>1 DEF IInv
<1>3. /\ Js /\ frame' = "none" /\ CloseMaybe(state, handle, Connections)
      /\ event' = "none" /\ UNCHANGED <<error, handle, conn, closer, listens, skipped>>
  BY <1>1 DEF AfterError
<1>4. state \in SUBSET Flags /\ jobs \in Seq(Jobs)
  BY <1>2 DEF TypeOK, Jobs
<1>5. /\ state' \in SUBSET Flags /\ jobs' \in Seq(Jobs)
      /\ \A f \in Flags \ {"CLOSING", "CLOSED"} : f \in state' <=> f \in state
      /\ \A j : In(jobs, j) => In(jobs, j)'
      /\ In(jobs, "listening")' => In(jobs, "listening")
      /\ \/ state' = state
         \/ /\ handle = NoHandle /\ Connections = {}
            /\ "CLOSING" \in state /\ "CLOSING" \notin state' /\ "CLOSED" \in state'
            /\ In(jobs, "close")'
  BY <1>3, <1>4, CloseMaybeStep, SMTT(60)
<1>6. TypeOK'
  BY <1>2, <1>3, <1>5 DEF TypeOK, Jobs
<1>7. Connections' = Connections
  BY <1>3 DEF Connections
<1>8. /\ RefAgrees' /\ FailureOwned' /\ ListenersBound' /\ ListeningMeansBound'
      /\ HandleGuarded' /\ FlagsAgree' /\ ListeningOwed'
  BY <1>2, <1>3, <1>5, <1>7 DEF RefAgrees, FailureOwned, ListenersBound, HandleGuarded,
     FlagsAgree, ListeningOwed, ListeningMeansBound, Live, Js, Exiting, Flags
<1>9. ClosersOwed'
  BY <1>2, <1>3, <1>5 DEF ClosersOwed, In
<1>10. QED
  BY <1>6, <1>8, <1>9 DEF IInv

(* An 'error' listener that throws leaves the server as it is. *)
LEMMA ErrorThrowsInvariant == IInv /\ ErrorThrows => IInv'
<1>1. SUFFICES ASSUME IInv, ErrorThrows PROVE IInv'
  OBVIOUS
<1>2. /\ frame' = "none" /\ event' = "none" /\ skipped' \in BOOLEAN
      /\ UNCHANGED <<state, error, handle, jobs, conn, closer, listens>>
  <2>1. skipped \in BOOLEAN
    BY <1>1 DEF IInv, TypeOK
  <2>2. QED
    BY <1>1, <2>1 DEF ErrorThrows
<1>3. TypeOK'
  BY <1>1, <1>2 DEF IInv, TypeOK
<1>4. /\ RefAgrees' /\ FailureOwned' /\ ListenersBound' /\ ListeningMeansBound'
      /\ HandleGuarded' /\ FlagsAgree' /\ ListeningOwed' /\ ClosersOwed'
  BY <1>1, <1>2 DEF IInv, RefAgrees, FailureOwned, ListenersBound, HandleGuarded,
     FlagsAgree, ListeningOwed, ListeningMeansBound, ClosersOwed, In, Is, Live, Js,
     Exiting, Connections
<1>5. QED
  BY <1>3, <1>4 DEF IInv

(* on_close releases the handle that was closing, and the flags with it. *)
LEMMA OnCloseInvariant == IInv /\ OnClose => IInv'
<1>1. SUFFICES ASSUME IInv, OnClose PROVE IInv'
  OBVIOUS
<1> USE DEF Is
<1>2. /\ TypeOK /\ HandleGuarded /\ RefAgrees /\ FailureOwned /\ FlagsAgree
      /\ ListeningOwed /\ ClosersOwed /\ ListenersBound
  BY <1>1 DEF IInv
<1> DEFINE st == state \ {"BINDING", "BOUND"}
<1>3. /\ Js /\ jobs = <<>> /\ Live /\ handle.uv = "closing"
      /\ handle' = NoHandle /\ error' = FALSE /\ UNCHANGED <<conn, closer, listens, skipped>>
      /\ \/ /\ state' = st /\ frame' = "onclose" /\ event' = "error" /\ jobs' = jobs
         \/ CloseMaybe(st, NoHandle, Connections) /\ event' = "none" /\ frame' = frame
  BY <1>1 DEF OnClose, Loop
<1>4. handle.closing /\ "BOUND" \notin state
  BY <1>2, <1>3 DEF ListenersBound, HandleGuarded, TypeOK
<1>5. /\ st \in SUBSET Flags /\ jobs \in Seq(Jobs)
      /\ "CLOSED" \notin st /\ "BINDING" \notin st /\ "BOUND" \notin st
      /\ "CLOSING" \in st <=> "CLOSING" \in state
  BY <1>2, <1>3 DEF TypeOK, Jobs, HandleGuarded
<1> HIDE DEF st
<1>6. /\ state' \in SUBSET Flags /\ jobs' \in Seq(Jobs)
      /\ \A f \in Flags \ {"CLOSING", "CLOSED"} : f \in state' <=> f \in st
      /\ \A j : In(jobs, j) => In(jobs, j)'
      /\ In(jobs, "listening")' => In(jobs, "listening")
      /\ \/ state' = st
         \/ /\ Connections = {} /\ "CLOSING" \notin state' /\ "CLOSED" \in state'
            /\ In(jobs, "close")'
  <2>1. CASE state' = st /\ jobs' = jobs
    BY <1>5, <2>1 DEF In
  <2>2. CASE CloseMaybe(st, NoHandle, Connections)
    BY <1>5, <2>2, CloseMaybeStep
  <2>3. QED
    BY <1>3, <2>1, <2>2
<1>7. frame' \in {"none", "onclose"} /\ event' \in {"none", "error"}
  BY <1>2, <1>3 DEF TypeOK
<1>8. TypeOK'
  BY <1>2, <1>3, <1>6, <1>7 DEF TypeOK, Jobs
<1>9. /\ ~Live' /\ Connections' = Connections
      /\ "BOUND" \notin state' /\ "BINDING" \notin state'
      /\ ~In(jobs, "listening")'
  BY <1>3, <1>5, <1>6 DEF Live, Connections, Flags, In
<1>10. /\ RefAgrees' /\ FailureOwned' /\ ListenersBound' /\ ListeningMeansBound'
       /\ HandleGuarded' /\ FlagsAgree' /\ ListeningOwed'
  BY <1>2, <1>3, <1>4, <1>5, <1>6, <1>7, <1>9 DEF RefAgrees, FailureOwned, ListenersBound,
     HandleGuarded, FlagsAgree, ListeningOwed, ListeningMeansBound
<1>11. ClosersOwed'
  BY <1>2, <1>3, <1>5, <1>6 DEF ClosersOwed, In
<1>12. QED
  BY <1>8, <1>10, <1>11 DEF IInv

(* The teardown, and the close of a handle that is exiting. *)
LEMMA TeardownInvariant == IInv /\ (Teardown \/ DropClose) => IInv'
<1>1. SUFFICES ASSUME IInv, Teardown \/ DropClose PROVE IInv'
  OBVIOUS
<1>2. /\ TypeOK /\ HandleGuarded /\ RefAgrees /\ FailureOwned /\ FlagsAgree
      /\ ListeningOwed /\ ClosersOwed /\ ListenersBound
  BY <1>1 DEF IInv
<1>3. /\ Live /\ event' = "none"
      /\ UNCHANGED <<state, error, jobs, frame, closer, listens, skipped>>
  BY <1>1 DEF Teardown, DropClose, Exiting
<1>4. handle \in HandleType
  BY <1>2, <1>3, LiveHandle
<1>5. /\ handle' \in HandleType /\ handle'.exiting
      /\ handle'.closing = handle.closing /\ handle'.ref = handle.ref
  <2>1. CASE Teardown
    BY <1>4, <2>1, TeardownHandle DEF Teardown, Same
  <2>2. CASE DropClose
    BY <1>4, <2>2, ClosedHandle DEF DropClose, Exiting, Same
  <2>3. QED
    BY <1>1, <2>1, <2>2
<1>6. Live' /\ ~Js'
  BY <1>5, ServerAssumption DEF Live, Js, Exiting
<1>7. /\ conn' \in [Conns -> {"new", "backlog", "parked", "open", "gone"}]
      /\ Connections' = Connections
  BY <1>1, <1>2 DEF Teardown, DropClose, DropBacklog, TypeOK, Connections
<1>8. TypeOK'
  BY <1>2, <1>3, <1>5, <1>7 DEF TypeOK
<1>9. /\ RefAgrees' /\ FailureOwned' /\ ListenersBound' /\ ListeningMeansBound'
      /\ HandleGuarded' /\ FlagsAgree' /\ ListeningOwed' /\ ClosersOwed'
  BY <1>2, <1>3, <1>5, <1>6, <1>7 DEF RefAgrees, FailureOwned, ListenersBound, HandleGuarded,
     FlagsAgree, ListeningOwed, ListeningMeansBound, ClosersOwed, In, Is
<1>10. QED
  BY <1>8, <1>9 DEF IInv

(* All steps together, and those that change nothing. *)
LEMMA StepInvariant == IInv /\ [Next]_vars => IInv'
<1>1. SUFFICES ASSUME IInv, [Next]_vars PROVE IInv'
  OBVIOUS
<1>2. CASE User
  BY <1>1, <1>2, ListenInvariant, RefInvariant, CloseClosedInvariant, CloseInvariant
     DEF User
<1>3. CASE RunJob
  BY <1>1, <1>3, RunJobInvariant
<1>4. CASE Callback
  BY <1>1, <1>4, OnCloseInvariant, AfterErrorInvariant, ErrorThrowsInvariant,
     TeardownInvariant, ClientInvariant, ConnectionClosedInvariant DEF Callback, ClientStep
<1>5. CASE Teardown
  BY <1>1, <1>5, TeardownInvariant
<1>6. CASE UNCHANGED vars
  BY <1>1, <1>6 DEF vars, IInv, TypeOK, HandleGuarded, RefAgrees, ListeningMeansBound,
     ClosersOwed, FailureOwned, ListeningOwed, In, FlagsAgree, ListenersBound, Live, Js,
     Exiting, Is, Connections
<1>7. QED
  BY <1>1, <1>2, <1>3, <1>4, <1>5, <1>6 DEF Next

(* The invariant holds in every state of a server. *)
THEOREM ServerInvariant == Spec => []IInv
  BY InitInvariant, StepInvariant, PTL DEF Spec

-----------------------------------------------------------------------------
(* The properties.                                                         *)

(* Every variable of a server keeps its type. *)
THEOREM ServerTypeCorrect == Spec => []TypeOK
<1>1. IInv => TypeOK
  BY DEF IInv
<1>2. QED
  BY <1>1, ServerInvariant, PTL

(***************************************************************************)
(* No handle is overwritten: listen() refuses while there is one, and a    *)
(* server that is BOUND has a listener nobody is closing.                  *)
(***************************************************************************)
THEOREM HandleIsGuarded == Spec => []HandleGuarded
<1>1. IInv => HandleGuarded
  BY DEF IInv
<1>2. QED
  BY <1>1, ServerInvariant, PTL

(* ref() and unref() reach every handle a server listens with. *)
THEOREM RefReachesEveryHandle == Spec => []RefAgrees
<1>1. IInv => RefAgrees
  BY DEF IInv
<1>2. QED
  BY <1>1, ServerInvariant, PTL

(* 'listening' is emitted by a server that is listening. *)
THEOREM ListeningIsTrue == Spec => []ListeningMeansBound
<1>1. IInv => ListeningMeansBound
  BY DEF IInv
<1>2. QED
  BY <1>1, ServerInvariant, PTL

(* No onclose callback is stranded. *)
THEOREM ClosersAreOwed == Spec => []ClosersOwed
<1>1. IInv => ClosersOwed
  BY DEF IInv
<1>2. QED
  BY <1>1, ServerInvariant, PTL

(* A failed bind is reported by its own handle. *)
THEOREM FailureIsOwned == Spec => []FailureOwned
<1>1. IInv => FailureOwned
  BY DEF IInv
<1>2. QED
  BY <1>1, ServerInvariant, PTL

-----------------------------------------------------------------------------
(* What a closing server waits for.                                        *)

(* After _closeMaybe a server is closed, or is not closing, or waits. *)
LEMMA CloseMaybeAwaits ==
  ASSUME NEW st, NEW h, NEW open, CloseMaybe(st, h, open), "CLOSED" \notin st
  PROVE  "CLOSING" \in state' => h # NoHandle \/ open # {}
  BY DEF CloseMaybe

(* Every step leaves a closing server something to wait for. *)
LEMMA StepAwaits == CloseAwaited /\ IInv /\ [Next]_vars => CloseAwaited'
<1>1. SUFFICES ASSUME CloseAwaited, IInv, [Next]_vars PROVE CloseAwaited'
  OBVIOUS
<1> USE DEF Is
<1>2. TypeOK /\ FlagsAgree
  BY <1>1 DEF IInv
<1>3. CASE Listen
  BY <1>3 DEF Listen, MayListen, StartBinding, CloseAwaited
<1>4. ASSUME NEW callers \in SUBSET Closers, CloseOpen(callers) PROVE CloseAwaited'
  <2>1. "CLOSED" \notin state /\ UNCHANGED <<frame, skipped>>
    BY <1>4 DEF CloseOpen
  <2>2. CASE "CLOSING" \in state
    BY <1>1, <1>4, <2>1, <2>2 DEF CloseOpen, CloseAwaited, Live, Connections
  <2>3. CASE "CLOSING" \notin state /\ Live
    <3>1. handle \in HandleType /\ handle' = BindingClose(handle)
      BY <1>2, <1>4, <2>3, LiveHandle DEF CloseOpen
    <3>2. Live'
      BY <3>1, ClosingHandle, ServerAssumption DEF Live
    <3>3. QED
      BY <3>2 DEF CloseAwaited
  <2>4. CASE "CLOSING" \notin state /\ ~Live
    <3>1. /\ CloseMaybe(StopListening, handle, Connections)
          /\ UNCHANGED <<handle, conn>> /\ "CLOSED" \notin StopListening
      BY <1>4, <2>1, <2>4 DEF CloseOpen, StopListening
    <3>2. "CLOSING" \in state' => handle # NoHandle \/ Connections # {}
      BY <3>1, CloseMaybeAwaits
    <3>3. QED
      BY <3>1, <3>2 DEF CloseAwaited, Live, Connections
  <2>5. QED
    BY <2>2, <2>3, <2>4
<1>5. CASE Ref \/ Unref
  <2>1. /\ UNCHANGED <<frame, conn, skipped>>
        /\ "CLOSING" \in state' => "CLOSING" \in state
    BY <1>5 DEF Ref, Unref
  <2>2. Live => Live'
    <3>1. SUFFICES ASSUME Live PROVE Live'
      OBVIOUS
    <3>2. handle \in HandleType
      BY <1>2, <3>1, LiveHandle
    <3>3. handle' \in HandleType
      BY <1>5, <3>1, <3>2, RefHandle, UnrefHandle DEF Ref, Unref
    <3>4. QED
      BY <3>3, ServerAssumption DEF Live
  <2>3. QED
    BY <1>1, <2>1, <2>2 DEF CloseAwaited, Connections
<1>6. CASE RunJob \/ (\E c \in Closers : CloseClosed(c)) \/ UNCHANGED vars
  <2>1. UNCHANGED <<state, handle, frame, conn, skipped>>
    BY <1>6 DEF RunJob, CloseClosed, vars
  <2>2. QED
    BY <1>1, <2>1 DEF CloseAwaited, Live, Connections
<1>7. CASE Teardown \/ DropClose
  <2>1. Live /\ UNCHANGED <<state, frame, skipped>>
    BY <1>7 DEF Teardown, DropClose, Exiting
  <2>2. handle \in HandleType
    BY <1>2, <2>1, LiveHandle
  <2>3. handle' \in HandleType
    <3>1. CASE Teardown
      BY <2>2, <3>1, TeardownHandle DEF Teardown
    <3>2. CASE DropClose
      BY <2>2, <3>2, ClosedHandle DEF DropClose
    <3>3. QED
      BY <1>7, <3>1, <3>2
  <2>4. QED
    BY <2>3, ServerAssumption DEF CloseAwaited, Live
<1>8. ASSUME NEW c \in Conns, ClientStep(c) PROVE CloseAwaited'
  <2>1. /\ UNCHANGED <<state, handle, frame, skipped>>
        /\ conn[c] # "open" /\ \E v : conn' = [conn EXCEPT ![c] = v]
    BY <1>8
    DEF ClientStep, Arrive, Incoming, OnConnection, OnConnectionRejected,
        OnConnectionError, OnConnectionThrows
  <2>2. Connections \subseteq Connections'
    BY <1>2, <2>1 DEF Connections, TypeOK
  <2>3. QED
    BY <1>1, <2>1, <2>2 DEF CloseAwaited, Live
<1>9. ASSUME NEW c \in Conns, ConnectionClosed(c) PROVE CloseAwaited'
  <2>1. /\ CloseMaybe(state, handle, Connections \ {c})
        /\ UNCHANGED <<handle, frame, skipped>> /\ conn[c] = "open"
        /\ conn' = [conn EXCEPT ![c] = "gone"]
    BY <1>9 DEF ConnectionClosed
  <2>2. Connections' = Connections \ {c}
    BY <1>2, <2>1 DEF Connections, TypeOK
  <2>3. CASE "CLOSED" \in state
    BY <1>2, <2>1, <2>3 DEF FlagsAgree, CloseMaybe, CloseAwaited
  <2>4. CASE "CLOSED" \notin state
    <3>1. "CLOSING" \in state' => handle # NoHandle \/ Connections \ {c} # {}
      BY <2>1, <2>4, CloseMaybeAwaits
    <3>2. QED
      BY <2>1, <2>2, <3>1 DEF CloseAwaited, Live
  <2>5. QED
    BY <2>3, <2>4
<1>10. CASE OnClose
  <2> DEFINE st == state \ {"BINDING", "BOUND"}
  <2>1. /\ UNCHANGED conn
        /\ \/ frame' = "onclose"
           \/ CloseMaybe(st, NoHandle, Connections)
    BY <1>10 DEF OnClose
  <2>2. CASE frame' = "onclose"
    BY <2>2 DEF CloseAwaited
  <2>3. CASE CloseMaybe(st, NoHandle, Connections)
    <3>1. "CLOSED" \notin state
      BY <1>1, <1>10 DEF IInv, HandleGuarded, OnClose, Loop
    <3>2. "CLOSING" \in state' => Connections # {}
      <4>1. "CLOSED" \notin st
        BY <3>1
      <4>2. QED
        BY <2>3, <4>1, CloseMaybeAwaits
    <3>3. QED
      BY <2>1, <3>2 DEF CloseAwaited, Connections
  <2>4. QED
    BY <2>1, <2>2, <2>3
<1>11. CASE AfterError
  <2>1. CloseMaybe(state, handle, Connections) /\ UNCHANGED <<handle, conn>>
    BY <1>11 DEF AfterError
  <2>2. CASE "CLOSED" \in state
    BY <1>2, <2>1, <2>2 DEF FlagsAgree, CloseMaybe, CloseAwaited
  <2>3. CASE "CLOSED" \notin state
    <3>1. "CLOSING" \in state' => handle # NoHandle \/ Connections # {}
      BY <2>1, <2>3, CloseMaybeAwaits
    <3>2. QED
      BY <2>1, <3>1 DEF CloseAwaited, Live, Connections
  <2>4. QED
    BY <2>2, <2>3
<1>12. CASE ErrorThrows
  <2>1. /\ UNCHANGED <<state, handle, conn>>
        /\ skipped' = (skipped \/ ("CLOSING" \in state /\ ~Live /\ Connections = {}))
    BY <1>12 DEF ErrorThrows
  <2>2. QED
    BY <2>1 DEF CloseAwaited, Live, Connections
<1>13. CASE User
  BY <1>3, <1>4, <1>5, <1>6, <1>13 DEF User
<1>14. CASE Callback
  BY <1>7, <1>8, <1>9, <1>10, <1>11, <1>12, <1>14 DEF Callback, ClientStep
<1>15. QED
  BY <1>1, <1>6, <1>7, <1>13, <1>14 DEF Next

(***************************************************************************)
(* A closing server always has a handle, a connection or an _onclose that  *)
(* will close it, whatever is called in whatever order, unless an 'error'  *)
(* listener threw.                                                         *)
(***************************************************************************)
THEOREM ClosingIsAwaited == Spec => []CloseAwaited
<1>1. Init => CloseAwaited
  BY DEF Init, CloseAwaited, Is
<1>2. QED
  BY <1>1, StepAwaits, ServerInvariant, PTL DEF Spec

-----------------------------------------------------------------------------
(* The refinement of ServerLifecycle.                                      *)

(* A step that keeps the flags, but UNREFED, and the connections is a stutter. *)
LEMMA SamePhase ==
  ASSUME \A f \in {"CLOSED", "CLOSING", "BOUND", "BINDING"} : f \in state' <=> f \in state,
         Connections' = Connections
  PROVE  UNCHANGED Lifecycle!vars
  BY DEF Phase, Is, Lifecycle!vars

(* Every step of a server is one of the life cycle, or a stutter. *)
LEMMA StepRefines == IInv /\ [Next]_vars => [Lifecycle!Next]_(Lifecycle!vars)
<1>1. SUFFICES ASSUME IInv, [Next]_vars PROVE [Lifecycle!Next]_(Lifecycle!vars)
  OBVIOUS
<1> USE DEF Is
<1>2. TypeOK /\ HandleGuarded /\ FlagsAgree /\ ListenersBound
  BY <1>1 DEF IInv
<1>3. CASE Listen
  <2>1. /\ Phase \in {"idle", "closed"}
    BY <1>3 DEF Listen, MayListen, Phase
  <2>2. Phase' \in {"listening", "failing"}
    BY <1>3 DEF Listen, MayListen, StartBinding, Phase
  <2>3. Connections' = Connections
    BY <1>3 DEF Listen, Connections
  <2>4. QED
    BY <2>1, <2>2, <2>3 DEF Lifecycle!Next, Lifecycle!Listen
<1>4. ASSUME NEW callers \in SUBSET Closers, CloseOpen(callers)
      PROVE  [Lifecycle!Next]_(Lifecycle!vars)
  <2>1. Js /\ "CLOSED" \notin state
    BY <1>4 DEF CloseOpen
  <2>2. CASE "CLOSING" \in state
    <3>1. UNCHANGED <<state, conn>>
      BY <1>4, <2>2 DEF CloseOpen
    <3>2. QED
      BY <3>1, SamePhase DEF Connections
  <2>3. CASE "CLOSING" \notin state /\ Live
    <3>1. state' = StopListening /\ DropBacklog
      BY <1>4, <2>3 DEF CloseOpen
    <3>2. Phase \in {"listening", "failing"}
      BY <1>2, <2>1, <2>3 DEF HandleGuarded, Phase
    <3>3. Phase' = "closing"
      BY <2>1, <3>1 DEF StopListening, Phase
    <3>4. Connections' = Connections
      BY <3>1 DEF DropBacklog, Connections
    <3>5. QED
      BY <3>2, <3>3, <3>4 DEF Lifecycle!Next, Lifecycle!Close
  <2>4. CASE "CLOSING" \notin state /\ ~Live
    <3>1. /\ CloseMaybe(StopListening, handle, Connections) /\ handle = NoHandle
          /\ UNCHANGED conn
      BY <1>4, <2>4 DEF CloseOpen, Live
    <3>2. /\ "BINDING" \notin state /\ "BOUND" \notin state /\ Connections = {}
      BY <1>2, <2>1, <2>4 DEF HandleGuarded, FlagsAgree
    <3>3. Phase = "idle"
      BY <2>1, <2>4, <3>2 DEF Phase
    <3>4. "CLOSED" \in state'
      BY <2>1, <3>1, <3>2 DEF CloseMaybe, StopListening
    <3>5. Phase' = "closed" /\ Connections' = Connections
      BY <3>1, <3>4 DEF Phase, Connections
    <3>6. QED
      BY <3>2, <3>3, <3>5 DEF Lifecycle!Next, Lifecycle!Close
  <2>5. QED
    BY <2>2, <2>3, <2>4
<1>5. CASE Ref \/ Unref \/ RunJob \/ (\E c \in Closers : CloseClosed(c))
  <2>1. /\ \A f \in {"CLOSED", "CLOSING", "BOUND", "BINDING"} : f \in state' <=> f \in state
        /\ Connections' = Connections
    BY <1>5 DEF Ref, Unref, RunJob, CloseClosed, Connections
  <2>2. QED
    BY <2>1, SamePhase
<1>6. CASE Teardown \/ DropClose
  <2>1. state' = state /\ Connections' = Connections
    BY <1>6 DEF Teardown, DropBacklog, DropClose, Connections
  <2>2. QED
    BY <2>1, SamePhase
<1>7. ASSUME NEW c \in Conns, OnConnection(c)
      PROVE  [Lifecycle!Next]_(Lifecycle!vars)
  <2>1. "BOUND" \in state
    BY <1>2, <1>7 DEF OnConnection, Incoming, Loop, ListenersBound
  <2>2. Phase = "listening"
    BY <1>2, <1>7, <2>1 DEF Phase, FlagsAgree, HandleGuarded, OnConnection, Incoming, Loop
  <2>3. Connections' = Connections \cup {c} /\ Phase' = Phase
    BY <1>2, <1>7 DEF OnConnection, Connections, TypeOK, Phase
  <2>4. QED
    BY <2>2, <2>3 DEF Lifecycle!Next, Lifecycle!Accept
<1>8. ASSUME NEW c \in Conns,
             Arrive(c) \/ OnConnectionRejected(c) \/ OnConnectionError(c)
               \/ OnConnectionThrows(c)
      PROVE  [Lifecycle!Next]_(Lifecycle!vars)
  <2>1. conn[c] \in {"new", "backlog"} /\ state' = state
    BY <1>8 DEF Arrive, Incoming, OnConnectionRejected, OnConnectionError,
       OnConnectionThrows
  <2>2. PICK s \in {"backlog", "gone", "parked"} : conn' = [conn EXCEPT ![c] = s]
    BY <1>8 DEF Arrive, OnConnectionRejected, OnConnectionError, OnConnectionThrows
  <2>3. Connections' = Connections
    BY <1>2, <2>1, <2>2 DEF Connections, TypeOK
  <2>4. QED
    BY <2>1, <2>3, SamePhase
<1>9. ASSUME NEW c \in Conns, ConnectionClosed(c)
      PROVE  [Lifecycle!Next]_(Lifecycle!vars)
  <2>1. /\ c \in Connections /\ Connections' = Connections \ {c}
        /\ CloseMaybe(state, handle, Connections \ {c})
    BY <1>2, <1>9 DEF ConnectionClosed, Connections, TypeOK
  <2>2. CASE state' = state
    BY <2>1, <2>2 DEF Phase, Lifecycle!Next, Lifecycle!End
  <2>3. CASE state' # state
    <3>1. /\ "CLOSING" \in state /\ "CLOSED" \notin state /\ Connections \ {c} = {}
          /\ "CLOSED" \in state'
      BY <2>1, <2>3 DEF CloseMaybe
    <3>2. Phase = "closing" /\ Phase' = "closed"
      BY <3>1 DEF Phase
    <3>3. QED
      BY <2>1, <3>1, <3>2 DEF Lifecycle!Next, Lifecycle!End
  <2>4. QED
    BY <2>2, <2>3
<1>10. CASE OnClose
  <2> DEFINE st == state \ {"BINDING", "BOUND"}
  <2>1. /\ Js /\ Live /\ handle.uv = "closing" /\ UNCHANGED conn
        /\ state' = st \/ CloseMaybe(st, NoHandle, Connections)
    BY <1>10 DEF OnClose, Loop
  <2>2. /\ "BOUND" \notin state /\ "CLOSED" \notin state
        /\ "BINDING" \in state \/ "CLOSING" \in state
    BY <1>2, <2>1 DEF HandleGuarded, ListenersBound, TypeOK
  <2>3. Connections' = Connections
    BY <2>1 DEF Connections
  <2>4. CASE "CLOSING" \in state
    <3>1. Phase = "closing" /\ st = state
      BY <1>2, <2>2, <2>4 DEF Phase, FlagsAgree
    <3>2. \/ state' = state
          \/ "CLOSED" \in state' /\ Connections = {}
      BY <2>1, <3>1 DEF CloseMaybe
    <3>3. QED
      BY <2>3, <3>1, <3>2 DEF Phase, Lifecycle!Next, Lifecycle!Closed, Lifecycle!vars
  <2>5. CASE "CLOSING" \notin state
    <3>1. Phase = "failing"
      BY <2>2, <2>5 DEF Phase
    <3>2. state' = st
      BY <2>1, <2>5 DEF CloseMaybe
    <3>3. Phase' = "idle"
      BY <2>2, <2>5, <3>2 DEF Phase
    <3>4. QED
      BY <2>3, <3>1, <3>3 DEF Lifecycle!Next, Lifecycle!Recover
  <2>6. QED
    BY <2>4, <2>5
<1>11. CASE AfterError
  <2>1. CloseMaybe(state, handle, Connections) /\ Connections' = Connections
    BY <1>11 DEF AfterError, Connections
  <2>2. CASE state' = state
    BY <2>1, <2>2, SamePhase
  <2>3. CASE state' # state
    <3>1. /\ "CLOSING" \in state /\ "CLOSED" \notin state /\ Connections = {}
          /\ "CLOSED" \in state'
      BY <2>1, <2>3 DEF CloseMaybe
    <3>2. Phase = "closing" /\ Phase' = "closed"
      BY <3>1 DEF Phase
    <3>3. QED
      BY <2>1, <3>1, <3>2 DEF Lifecycle!Next, Lifecycle!Closed
  <2>4. QED
    BY <2>2, <2>3
<1>12. CASE ErrorThrows \/ UNCHANGED vars
  <2>1. UNCHANGED <<state, conn>>
    BY <1>12 DEF ErrorThrows, vars
  <2>2. QED
    BY <2>1, SamePhase DEF Connections
<1>13. CASE User
  BY <1>3, <1>4, <1>5, <1>13 DEF User
<1>14. CASE Callback
  BY <1>6, <1>7, <1>8, <1>9, <1>10, <1>11, <1>12, <1>14 DEF Callback
<1>15. QED
  BY <1>1, <1>5, <1>6, <1>12, <1>13, <1>14 DEF Next

(***************************************************************************)
(* A server implements the life cycle index.d.ts promises: connections     *)
(* only between listen() and close(), closed when the last one has ended.  *)
(***************************************************************************)
THEOREM ServerRefines == Spec => ImplementsLifecycle
<1>1. Init => Lifecycle!Init
  BY DEF Init, Lifecycle!Init, Phase, Is, Connections
<1>2. QED
  BY <1>1, StepRefines, ServerInvariant, PTL
     DEF Spec, ImplementsLifecycle, Lifecycle!Spec
=============================================================================
