-------------------------- MODULE MCPipeArguments --------------------------
(***************************************************************************)
(* The calls of PipeArguments for TLC: every overload with each argument   *)
(* present, absent, at its limits, past them and of another type.          *)
(***************************************************************************)
EXTENDS PipeArguments

\* Characters of one to three bytes, up to and past what fits.
Paths ==
  {Text(n, w, FALSE) : n \in {0, 1, MaxPath \div 3, MaxPath \div 3 + 1, MaxPath,
                              MaxPath + 1, MaxPath + 2},
                       w \in 1..3}
    \cup {Text(2, 1, TRUE)}

\* The last two are 0 and 1 in 32 bits.
Integers32 ==
  {Number(v) : v \in {-1, 0, 1, MaxInt, MaxInt + 1, 2 * MaxInt + 2, 2 * MaxInt + 3}}

Numbers == Integers32 \cup {NaN}

Path == Text(1, 1, FALSE)

ListenOptions ==
  {[NoOptions EXCEPT !.path = p, !.backlog = b, !.ownerOnly = o] :
     p \in {Absent, Path, Text(0, 1, FALSE), Text(2, 1, TRUE)},
     b \in {Absent, Null, Number(0), Number(2), NaN, Boolean(FALSE)},
     o \in {Absent, Boolean(TRUE), Boolean(FALSE), Number(0)}}

PipeOptions ==
  {[NoOptions EXCEPT !.path = p, !.fd = f, !.readBufferSize = s] :
     p \in {Absent, Path, Number(0)}, f \in {Absent, Number(0), Path},
     s \in Numbers \cup {Absent, Null}}

Shape(method, a1, a2, a3, a4) == [method |-> method, args |-> <<a1, a2, a3, a4>>]

Callbacks == {Absent, Callback}
Targets == {Target("buffer"), Target("forged"), Target("none")}
Other == {NoOptions, [NoOptions EXCEPT !.path = Path, !.fd = Number(2)]}

MCShapes ==
  {Shape("connect", Paths \cup PipeOptions \cup {Absent, Number(1)}, Other \cup Callbacks,
         Callbacks, {Absent}),
   Shape("open", Numbers \cup PipeOptions \cup {Absent, Path}, Other \cup Callbacks,
         Callbacks, {Absent}),
   Shape("listen", Paths \cup {Absent, Number(1)},
         Numbers \cup Callbacks \cup {Null, Boolean(FALSE)},
         {o \in ListenOptions : o.path = Absent} \cup Callbacks \cup {Null}, Callbacks),
   Shape("listen", ListenOptions, Callbacks \cup {Number(2)}, Callbacks, Callbacks),
   Shape("write", Targets \cup Callbacks \cup {Path}, Targets \cup Callbacks,
         Callbacks, {Absent}),
   Shape("Pipe", Paths \cup Numbers, PipeOptions \cup {Absent}, {Absent}, {Absent}),
   Shape("Pipe", PipeOptions \cup {Absent}, {Absent}, {Absent}, {Absent}),
   Shape("Server", PipeOptions \cup Callbacks, Callbacks, {Absent}, {Absent}),
   Shape("createConnection", Paths, PipeOptions \cup Callbacks, Callbacks, {Absent}),
   Shape("createConnection", PipeOptions, Callbacks, {Absent}, {Absent}),
   Shape("createConnection", Paths, Paths \cup Numbers \cup {Null, Boolean(TRUE)}, Callbacks,
         {Absent})}
=============================================================================
