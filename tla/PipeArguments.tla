--------------------------- MODULE PipeArguments ---------------------------
(***************************************************************************)
(* How a call is read: the overloads of the constructors, connect, open,   *)
(* listen, write and createConnection, the validation of what they take,   *)
(* and its conversion by the binding.  A behaviour is one call on an       *)
(* object in some state.  The lengths and integers of the code are scaled  *)
(* down; the relations between them are the code's.                        *)
(***************************************************************************)
EXTENDS Integers, Sequences, FiniteSets

CONSTANTS
  MaxPath,  \* constants.path.MAX_LENGTH
  MaxInt,   \* 0x7fffffff
  Shapes    \* bound: a method and the values its arguments take, many times over

ASSUME ArgumentsAssumption == MaxPath \in Nat \ {0} /\ MaxInt \in Nat \ {0}

VARIABLES
  call,    \* the call: its method and its arguments, padded with undefined
  state,   \* the object: "new", "busy" (connecting, bound, ...) or "closing"
  handle,  \* whether the object has a native handle
  queued,  \* whether the call put an entry on _handleQueue
  result   \* how the call was read, and whether it was accepted

vars == <<call, state, handle, queued, result>>

-----------------------------------------------------------------------------
(* JavaScript values; typeof null is not "object" here, as every test for  *)
(* an object excludes it.                                                  *)
Absent == [type |-> "undefined"]
Null == [type |-> "null"]
Callback == [type |-> "function"]
Boolean(b) == [type |-> "boolean", value |-> b]
Number(v) == [type |-> "number", integer |-> TRUE, value |-> v]
NaN == [type |-> "number", integer |-> FALSE]
\* A string of equally wide characters, of which the first may be NUL.
Text(n, bytes, nul) ==
  [type |-> "string", chars |-> n, width |-> bytes, nul |-> nul]
\* A target of write(): an ArrayBuffer, something else, or nothing behind
\* Symbol.for('bare.ipc.handle').
Target(native) == [type |-> "object", native |-> native]

OptionNames == {"path", "fd", "backlog", "ownerOnly", "readBufferSize"}
NoOptions == [n \in OptionNames \cup {"type"} |-> IF n = "type" THEN "object" ELSE Absent]

IsFunction(v) == v.type = "function"
IsObject(v) == v.type = "object"
Default(v, d) == IF v = Absent THEN d ELSE v
defaultTo(v, d) == IF v \in {Absent, Null} THEN d ELSE v

\* 511 and 65536.
DefaultBacklog == Number(MaxInt)
DefaultSize == Number(1)

-----------------------------------------------------------------------------
(* The overloads: what a call takes its arguments for.                     *)

\* The second argument taken for the callback whatever it is.
OverloadedSecond(a, name) ==
  [n \in {name, "callback"} |->
     IF n = "callback" THEN Default(a[2], a[3])
     ELSE IF IsObject(a[1]) THEN a[1][name] ELSE a[1]]

\* connect and open, which differ in the name of the option.
Overloaded(a, name) ==
  [n \in {name, "callback"} |->
     IF n = "callback" THEN IF IsFunction(a[2]) THEN a[2] ELSE a[3]
     ELSE IF IsObject(a[1]) THEN a[1][name] ELSE a[1]]

\* A falsy backlog of the options gives way to the default.
BacklogOrDefault(v) ==
  IF v \in {Absent, Null, NaN, Boolean(FALSE)} THEN DefaultBacklog ELSE v

\* The backlog of the options, if they are given in place of the path.
BacklogOption(v) == defaultTo(v, DefaultBacklog)

ListenArguments(a) ==
  LET opts == IF IsObject(a[1]) THEN a[1] ELSE IF IsObject(a[3]) THEN a[3] ELSE NoOptions
      backlog == IF IsObject(a[1]) THEN BacklogOption(opts.backlog)
                 ELSE IF IsFunction(a[2]) THEN DefaultBacklog
                 ELSE Default(a[2], DefaultBacklog)
  IN  [path |-> IF IsObject(a[1]) THEN opts.path ELSE a[1],
       backlog |-> IF backlog \in {Null, Number(0)} THEN DefaultBacklog ELSE backlog,
       ownerOnly |-> Default(opts.ownerOnly, Boolean(FALSE)),
       callback |-> IF IsFunction(a[2]) THEN a[2]
                    ELSE IF IsFunction(a[3]) THEN a[3] ELSE a[4]]

\* write(), after the chunk.
WriteArguments(a) ==
  LET none == [encoding |-> Absent, handle |-> Absent, callback |-> Absent]
  IN  IF IsFunction(a[1]) THEN [none EXCEPT !.callback = a[1]]
      ELSE IF IsObject(a[1])
      THEN [none EXCEPT !.handle = a[1],
                        !.callback = IF IsFunction(a[2]) THEN a[2] ELSE a[3]]
      ELSE IF IsFunction(a[2]) THEN [none EXCEPT !.encoding = a[1], !.callback = a[2]]
      ELSE [encoding |-> a[1], handle |-> a[2], callback |-> a[3]]

ConstructorArguments(a) ==
  LET opts == IF IsObject(a[1]) THEN a[1] ELSE Default(a[2], NoOptions)
  IN  [path |-> IF a[1].type = "string" THEN a[1] ELSE Absent,
       fd |-> IF a[1].type = "number" THEN a[1] ELSE Absent,
       readBufferSize |-> Default(opts.readBufferSize, DefaultSize)]

ServerArguments(a) ==
  LET opts == IF IsFunction(a[1]) THEN NoOptions ELSE Default(a[1], NoOptions)
  IN  [readBufferSize |-> Default(opts.readBufferSize, DefaultSize),
       callback |-> IF IsFunction(a[1]) THEN a[1] ELSE a[2]]

\* What createConnection() passes to the constructor, and on to connect().
ConnectionOptions(a) ==
  IF IsObject(a[1]) THEN a[1] ELSE IF IsFunction(a[2]) THEN NoOptions ELSE a[2]

\* createConnection(): its own overloads, then the constructor's and connect's.
ConnectionArguments(a) ==
  LET opts == ConnectionOptions(a)
      path == IF IsObject(a[1]) THEN opts.path ELSE a[1]
      cb == IF IsFunction(a[2]) THEN a[2] ELSE a[3]
      connect == Overloaded(<<path, Default(opts, NoOptions), cb>>, "path")
  IN  [path |-> connect.path, callback |-> connect.callback,
       readBufferSize |-> ConstructorArguments(<<opts, Absent>>).readBufferSize]

-----------------------------------------------------------------------------
(* Validation.                                                             *)

validateInteger(v, min) == v.type = "number" /\ v.integer /\ v.value \in min..MaxInt

\* A path measured in characters.
validatePathCharacters(v) == v.type = "string" /\ v.chars <= MaxPath

validatePath(v) == v.type = "string" /\ v.chars * v.width <= MaxPath

validateFd(v) == validateInteger(v, 0)

validateListen(t) ==
  /\ validatePath(t.path)
  /\ validateInteger(t.backlog, 0)
  /\ t.ownerOnly.type = "boolean"
  /\ t.ownerOnly.value => t.path.chars > 0 /\ ~t.path.nul

toIPCHandle(target) == target.native = "buffer"

-----------------------------------------------------------------------------
(* What the binding makes of the values.                                   *)

BufferLength == MaxPath + 1

\* js_get_value_string_utf8: the bytes of the whole characters that fit.
Written(v) ==
  LET fit == BufferLength \div v.width
  IN  (IF v.chars <= fit THEN v.chars ELSE fit) * v.width

\* bare_pipe__get_path: the path is whole and leaves room for its terminator.
PathReaches(v) ==
  Written(v) # BufferLength /\ Written(v) = v.chars * v.width

\* js_get_value_uint32 and the cast to int, or js_get_value_int32.
AsInt(v) ==
  LET bits == v % (2 * (MaxInt + 1))
  IN  IF bits > MaxInt THEN bits - 2 * (MaxInt + 1) ELSE bits

-----------------------------------------------------------------------------
(* The calls.                                                              *)
Methods == {"connect", "open", "listen", "write", "Pipe", "Server", "createConnection"}

Types == {"undefined", "null", "function", "boolean", "number", "string", "object"}

\* A value that is no object.
IsPlain(v) ==
  \/ v \in {Absent, Null, Callback, Boolean(TRUE), Boolean(FALSE), NaN}
  \/ v.type = "number" /\ v.integer = TRUE /\ v.value \in Int
  \/ v.type = "string" /\ v.chars \in Nat /\ v.width \in Nat \ {0} /\ v.nul \in BOOLEAN

\* What a call may be given in a place: a callback and nothing else in the last
\* one, an object where no overload takes a value without one.
TypesAt(method, i) ==
  CASE <<method, i>> \in {<<"connect", 3>>, <<"open", 3>>, <<"listen", 4>>, <<"write", 3>>,
                          <<"Server", 2>>, <<"createConnection", 3>>} ->
         {"undefined", "function"}
    [] <<method, i>> \in {<<"Server", 1>>, <<"write", 2>>} ->
         {"undefined", "function", "object"}
    [] <<method, i>> = <<"Pipe", 2>> -> {"undefined", "object"}
    [] OTHER -> Types

\* No option is an object, and write() has none.
IsArgument(method, i, v) ==
  /\ v.type \in TypesAt(method, i)
  /\ IF IsObject(v) THEN method # "write" => \A n \in OptionNames : IsPlain(v[n])
                    ELSE IsPlain(v)

ASSUME ShapesAssumption ==
  \A shape \in Shapes :
    /\ shape.method \in Methods
    /\ \A i \in 1..4 : \A v \in shape.args[i] : IsArgument(shape.method, i, v)

Waiting == [taken |-> Null, ok |-> FALSE]

Init ==
  /\ \E shape \in Shapes : \E w \in shape.args[1], x \in shape.args[2],
                             y \in shape.args[3], z \in shape.args[4] :
       call = [method |-> shape.method, args |-> <<w, x, y, z>>]
  /\ state \in IF call.method \in {"Pipe", "Server", "createConnection"}
               THEN {"new"} ELSE {"new", "busy", "closing"}
  /\ handle = (call.method \in {"connect", "open", "write"} \/ state # "new")
  /\ queued = FALSE
  /\ result = Waiting

\* The statements of a call in their order: a check, which throws when it does
\* not hold, and a statement that leaves something behind.
Check(holds) == [holds |-> holds, does |-> "nothing"]
Do(effect) == [holds |-> TRUE, does |-> effect]

Returns(body) == \A i \in DOMAIN body : body[i].holds

\* What is done before the first check that throws.
Done(body) ==
  {body[i].does : i \in {j \in DOMAIN body : \A k \in 1..j : body[k].holds}}

\* A connection that fails after it began is reported later: see Pipe.
connectBody(t, fresh) == <<Check(fresh), Check(validatePath(t.path)), Do("begin")>>

openBody(t, fresh) == <<Check(fresh), Check(validateFd(t.fd)), Do("begin")>>

\* A listen() that marks the server before it validates its arguments.
listenBodyMarked(t) ==
  <<Check(state = "new"), Do("begin"), Check(validateListen(t)), Do("handle")>>

listenBody(t) ==
  <<Check(state = "new"), Check(validateListen(t)), Do("begin"), Do("handle")>>

\* write() up to super.write(), which PipeIpc continues.
writeBody(t) ==
  <<Check(t.handle = Absent \/ toIPCHandle(t.handle)),
    Do(IF state = "closing" THEN "nothing" ELSE "queue")>>

\* The constructor makes the native handle before it opens or connects it.
constructorBody(t) ==
  <<Check(validateInteger(t.readBufferSize, 1)), Do("handle")>>
    \o (IF t.fd # Absent THEN openBody(t, TRUE)
        ELSE IF t.path # Absent THEN connectBody(t, TRUE) ELSE <<>>)

\* connect() on the pipe of the constructor, which may have begun already.
connectionBody(t, constructed) ==
  constructorBody(constructed)
    \o connectBody(t, constructed.path = Absent /\ constructed.fd = Absent)

serverBody(t) == <<Check(validateInteger(t.readBufferSize, 1))>>

Reads(method, t, ok) ==
  /\ call.method = method /\ result = Waiting
  /\ result' = [taken |-> t, ok |-> ok]
  /\ UNCHANGED call

Perform(method, t, body) ==
  /\ Reads(method, t, Returns(body))
  /\ state' = IF "begin" \in Done(body) THEN "busy" ELSE state
  /\ handle' = (handle \/ "handle" \in Done(body))
  /\ queued' = (queued \/ "queue" \in Done(body))

Connect ==
  LET t == Overloaded(call.args, "path")
  IN  Perform("connect", t, connectBody(t, state = "new"))

Open ==
  LET t == Overloaded(call.args, "fd")
  IN  Perform("open", t, openBody(t, state = "new"))

Listen ==
  LET t == ListenArguments(call.args) IN Perform("listen", t, listenBody(t))

Write ==
  LET t == WriteArguments(call.args) IN Perform("write", t, writeBody(t))

NewPipe ==
  LET t == ConstructorArguments(call.args) IN Perform("Pipe", t, constructorBody(t))

createConnection ==
  LET t == ConnectionArguments(call.args)
      constructed == ConstructorArguments(<<ConnectionOptions(call.args), Absent>>)
  IN  Perform("createConnection", t, connectionBody(t, constructed))

\* The constructor of a server, and createServer.
NewServer ==
  LET t == ServerArguments(call.args) IN Perform("Server", t, serverBody(t))

Next ==
  Connect \/ Open \/ Listen \/ Write \/ NewPipe \/ createConnection \/ NewServer

Spec == Init /\ [][Next]_vars

-----------------------------------------------------------------------------
(* Properties.                                                             *)

(***************************************************************************)
(* The overloads as index.d.ts declares them: the parameters in order, of  *)
(* which so many are required, and the options that a method reads.        *)
(***************************************************************************)
Sig(required, roles) == [required |-> required, roles |-> roles]

Signatures ==
  [connect |-> {Sig(1, <<"path", "opts", "callback">>), Sig(2, <<"path", "callback">>),
                Sig(1, <<"opts", "callback">>)},
   open |-> {Sig(1, <<"fd", "opts", "callback">>), Sig(2, <<"fd", "callback">>),
             Sig(1, <<"opts", "callback">>)},
   listen |-> {Sig(1, <<"path", "backlog", "opts", "callback">>),
               Sig(3, <<"path", "backlog", "callback">>),
               Sig(2, <<"path", "callback">>), Sig(1, <<"opts", "callback">>)},
   write |-> {Sig(1, <<"encoding", "handle", "callback">>),
              Sig(1, <<"encoding", "callback">>),
              Sig(0, <<"handle", "callback">>), Sig(0, <<"callback">>)},
   Pipe |-> {Sig(1, <<"path", "opts">>), Sig(1, <<"fd", "opts">>), Sig(0, <<"opts">>)},
   Server |-> {Sig(0, <<"opts", "callback">>), Sig(1, <<"callback">>)},
   createConnection |-> {Sig(1, <<"path", "opts", "callback">>),
                         Sig(2, <<"path", "callback">>), Sig(1, <<"opts", "callback">>)}]

TypeOK ==
  /\ call.method \in DOMAIN Signatures /\ Len(call.args) = 4
  /\ state \in {"new", "busy", "closing"}
  /\ handle \in BOOLEAN /\ queued \in BOOLEAN
  /\ result.ok \in BOOLEAN
  /\ result # Waiting /\ "callback" \in DOMAIN result.taken
       => result.taken.callback \in {Absent, Callback}

OptionsOf ==
  [connect |-> {"path"}, open |-> {"fd"}, listen |-> {"path", "backlog", "ownerOnly"},
   write |-> {}, Pipe |-> {"readBufferSize"}, Server |-> {"readBufferSize"},
   createConnection |-> {"path", "readBufferSize"}]

TypeOf(role) ==
  CASE role \in {"path", "encoding"} -> "string"
    [] role \in {"fd", "backlog"} -> "number"
    [] role \in {"opts", "handle"} -> "object"
    [] role = "callback" -> "function"

Fits(sig, args) ==
  \A i \in DOMAIN args :
    \/ i \in DOMAIN sig.roles /\ args[i].type = TypeOf(sig.roles[i])
    \/ i > sig.required /\ args[i] = Absent

\* The argument of that name, from its own place or else from the options.
Given(sig, name) ==
  LET at(role) == {i \in DOMAIN sig.roles : sig.roles[i] = role /\ i \in DOMAIN call.args}
      inPlace == IF at(name) # {} THEN call.args[CHOOSE i \in at(name) : TRUE] ELSE Absent
      opts == IF at("opts") # {} THEN call.args[CHOOSE i \in at("opts") : TRUE] ELSE Absent
  IN  IF inPlace = Absent /\ opts # Absent /\ name \in OptionsOf[call.method]
      THEN opts[name] ELSE inPlace

\* What stands in for an argument that is not there; test.js "a zero backlog
\* falls back to the default".
OrDefault(name, v) ==
  CASE name = "backlog" /\ v \in {Absent, Null, Number(0)} -> DefaultBacklog
    [] name = "ownerOnly" /\ v = Absent -> Boolean(FALSE)
    [] name = "readBufferSize" /\ v = Absent -> DefaultSize
    [] OTHER -> v

\* listen(path, undefined, { backlog }).
LeavesBacklogToOptions ==
  /\ call.method = "listen" /\ call.args[1].type = "string"
  /\ call.args[2] = Absent /\ IsObject(call.args[3]) /\ call.args[3].backlog # Absent

(***************************************************************************)
(* A call is taken for what the overload says that it fits: no argument is *)
(* dropped, taken for another, or replaced by a default, of all ways to    *)
(* leave optional ones out or to give them in the options (connect, open,  *)
(* listen, write, the constructors and createConnection).  One call does   *)
(* lose an argument: listen(path, undefined, { backlog }) listens with the *)
(* default, where index.d.ts 183 says that the options may give it.        *)
(***************************************************************************)
AsDeclared ==
  result # Waiting =>
    \A sig \in Signatures[call.method] :
      Fits(sig, call.args) =>
        \A n \in DOMAIN result.taken :
          \/ result.taken[n] = OrDefault(n, Given(sig, n))
          \/ /\ n = "backlog" /\ LeavesBacklogToOptions
             /\ result.taken[n] = DefaultBacklog

\* The value that reaches libuv is the one the caller gave.
Reaches(name, v) ==
  CASE name = "path" -> v.type = "string" /\ PathReaches(v)
    [] name \in {"fd", "backlog"} ->
         v.type = "number" /\ v.integer /\ v.value >= 0 /\ AsInt(v.value) = v.value
    [] name = "readBufferSize" ->
         v.type = "number" /\ v.integer /\ v.value > 0 /\ AsInt(v.value) = v.value
    [] name = "ownerOnly" -> v.type = "boolean"
    [] name = "handle" -> v.type = "object" /\ v.native = "buffer"
    [] OTHER -> TRUE

\* createConnection() with a path or a descriptor where an overload has its
\* options or its callback: the constructor takes it, and begins.
BeginsInConstructor ==
  /\ call.method = "createConnection" /\ ~IsObject(call.args[1])
  /\ call.args[2].type \in {"string", "number"}

(***************************************************************************)
(* The validation in JavaScript refuses exactly what the binding could not *)
(* take as it is: a path cut short or without room for its terminator, an  *)
(* integer that wraps, a handle that is none; and an owner for a socket    *)
(* without a file (validate..., toIPCHandle; bare_pipe__get_path).  It     *)
(* begins nothing twice, createConnection() included.                      *)
(***************************************************************************)
ValidatedExactly ==
  [][LET t == result'.taken
         optional == IF call.method = "Pipe" THEN {"path", "fd"} ELSE {"handle"}
     IN  result'.ok <=>
           /\ call.method \in {"connect", "open", "listen"} => state = "new"
           /\ ~BeginsInConstructor
           /\ \A n \in DOMAIN t : Reaches(n, t[n]) \/ (n \in optional /\ t[n] = Absent)
           /\ "ownerOnly" \in DOMAIN t /\ t.ownerOnly = Boolean(TRUE)
                => t.path.chars # 0 /\ ~t.path.nul]_vars

(***************************************************************************)
(* No call does anything before its last check: one that throws leaves the *)
(* object as it was, so that a later one can succeed (test.js "connect     *)
(* after a rejected path", "listening still works after a rejected         *)
(* backlog").  A constructor that throws may leave its native handle to    *)
(* the teardown; a pipe that is connecting is left only by a call that no  *)
(* overload takes.                                                         *)
(***************************************************************************)
RejectedLeavesNothing ==
  [][~result'.ok =>
       /\ UNCHANGED queued
       /\ ~BeginsInConstructor => UNCHANGED state
       /\ call.method \notin {"Pipe", "createConnection"} => UNCHANGED handle]_vars
=============================================================================
