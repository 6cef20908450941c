------------------------ MODULE PipeArgumentsProofs ------------------------
(***************************************************************************)
(* Proofs about PipeArguments: a refused call leaves nothing behind, every *)
(* overload is read as it is declared, and the validation agrees with the  *)
(* conversion, for every size of the buffer and of an integer.             *)
(***************************************************************************)
EXTENDS PipeArguments, TLAPS

-----------------------------------------------------------------------------
(* The statements of a call.                                               *)

Effects == {"nothing", "begin", "handle", "queue"}

Statements == [holds : BOOLEAN, does : Effects]

\* What is done of two bodies, the second of which runs if the first returns.
LEMMA BodyOfTwo ==
  ASSUME NEW s \in Seq(Statements), NEW t \in Seq(Statements)
  PROVE  /\ Returns(s \o t) <=> Returns(s) /\ Returns(t)
         /\ \A e \in Done(s \o t) : e \in Done(s) \/ (Returns(s) /\ e \in Done(t))
<1>1. /\ Len(s) \in Nat /\ Len(t) \in Nat /\ DOMAIN (s \o t) = 1..(Len(s) + Len(t))
      /\ DOMAIN s = 1..Len(s) /\ DOMAIN t = 1..Len(t)
      /\ \A i \in 1..Len(s) : (s \o t)[i] = s[i]
      /\ \A i \in 1..Len(t) : Len(s) + i \in DOMAIN (s \o t) /\ (s \o t)[Len(s) + i] = t[i]
  OBVIOUS
<1>2. ASSUME NEW i \in DOMAIN (s \o t), i \notin DOMAIN s
      PROVE  i - Len(s) \in DOMAIN t /\ (s \o t)[i] = t[i - Len(s)]
  BY <1>1, <1>2
<1>3. Returns(s \o t) <=> Returns(s) /\ Returns(t)
  <2>1. ASSUME Returns(s \o t) PROVE Returns(s) /\ Returns(t)
    <3>1. ASSUME NEW i \in DOMAIN s PROVE s[i].holds
      <4>1. i \in DOMAIN (s \o t) /\ (s \o t)[i] = s[i]
        BY <1>1
      <4>2. QED
        BY <2>1, <4>1 DEF Returns
    <3>2. ASSUME NEW i \in DOMAIN t PROVE t[i].holds
      <4>1. Len(s) + i \in DOMAIN (s \o t) /\ (s \o t)[Len(s) + i] = t[i]
        BY <1>1
      <4>2. QED
        BY <2>1, <4>1 DEF Returns
    <3>3. QED
      BY <3>1, <3>2 DEF Returns
  <2>2. ASSUME Returns(s), Returns(t), NEW i \in DOMAIN (s \o t) PROVE (s \o t)[i].holds
    <3>1. CASE i \in DOMAIN s
      BY <1>1, <2>2, <3>1 DEF Returns
    <3>2. CASE i \notin DOMAIN s
      BY <1>2, <2>2, <3>2 DEF Returns
    <3>3. QED
      BY <3>1, <3>2
  <2>3. QED
    BY <2>1, <2>2 DEF Returns
<1>4. ASSUME NEW e \in Done(s \o t)
      PROVE  e \in Done(s) \/ (Returns(s) /\ e \in Done(t))
  <2>1. PICK i \in DOMAIN (s \o t) :
          (s \o t)[i].does = e /\ \A k \in 1..i : (s \o t)[k].holds
    BY <1>4 DEF Done
  <2>2. CASE i \in DOMAIN s
    <3>1. s[i].does = e /\ \A k \in 1..i : s[k].holds
      BY <1>1, <2>1, <2>2
    <3>2. QED
      BY <2>2, <3>1 DEF Done
  <2>3. CASE i \notin DOMAIN s
    <3>1. Returns(s)
      BY <1>1, <2>1, <2>3 DEF Returns
    <3>2. PICK j \in DOMAIN t : i = Len(s) + j /\ t[j].does = e
      BY <1>1, <1>2, <2>1, <2>3
    <3>3. ASSUME NEW k \in 1..j PROVE t[k].holds
      <4>1. Len(s) + k \in 1..i /\ k \in 1..Len(t)
        BY <1>1, <3>2
      <4>2. QED
        BY <1>1, <2>1, <4>1
    <3>4. QED
      BY <3>1, <3>2, <3>3 DEF Done
  <2>4. QED
    BY <2>2, <2>3
<1>5. QED
  BY <1>3, <1>4

\* What a statement holds and does.
LEMMA StatementIs ==
  /\ \A p : Check(p).holds = p /\ Check(p).does = "nothing"
  /\ \A e : Do(e).holds = TRUE /\ Do(e).does = e
  /\ \A p \in BOOLEAN : Check(p) \in Statements
  /\ \A e \in Effects : Do(e) \in Statements
<1>1. "nothing" \in Effects /\ TRUE \in BOOLEAN
  BY DEF Effects
<1>2. ASSUME NEW p \in BOOLEAN PROVE Check(p) \in Statements
  BY <1>1 DEF Check, Statements
<1>3. ASSUME NEW e \in Effects PROVE Do(e) \in Statements
  BY <1>1 DEF Do, Statements
<1>4. ASSUME NEW p PROVE Check(p).holds = p /\ Check(p).does = "nothing"
  BY DEF Check
<1>5. ASSUME NEW e PROVE Do(e).holds = TRUE /\ Do(e).does = e
  BY DEF Do
<1>6. QED
  BY <1>2, <1>3, <1>4, <1>5

\* A body that checks before it does anything.
LEMMA CheckedOnce ==
  ASSUME NEW p \in BOOLEAN, NEW effect \in Effects
  PROVE  LET body == <<Check(p), Do(effect)>>
         IN  /\ body \in Seq(Statements)
             /\ Returns(body) <=> p
             /\ \A e \in Done(body) : e = "nothing" \/ (p /\ e = effect)
<1>1. PICK body : body = <<Check(p), Do(effect)>>
  OBVIOUS
<1>2. /\ body \in Seq(Statements) /\ DOMAIN body = 1..2
      /\ body[1].holds = p /\ body[1].does = "nothing"
      /\ body[2].holds = TRUE /\ body[2].does = effect
  <2>1. PICK c, d : c = Check(p) /\ d = Do(effect)
    OBVIOUS
  <2>2. body = <<c, d>> /\ c \in Statements /\ d \in Statements
    BY <1>1, <2>1, StatementIs
  <2>3. body \in Seq(Statements) /\ DOMAIN body = 1..2 /\ body[1] = c /\ body[2] = d
    BY <2>2
  <2>4. QED
    BY <2>1, <2>3, StatementIs
<1>3. \A e \in Done(body) : e = "nothing" \/ (p /\ e = effect)
  <2>1. SUFFICES ASSUME NEW i \in 1..2, \A k \in 1..i : body[k].holds
                 PROVE  body[i].does = "nothing" \/ (p /\ body[i].does = effect)
    BY <1>2 DEF Done
  <2>2. QED
    BY <1>2, <2>1
<1>4. QED
  BY <1>1, <1>2, <1>3 DEF Returns

LEMMA CheckedTwice ==
  ASSUME NEW p \in BOOLEAN, NEW q \in BOOLEAN, NEW effect \in Effects
  PROVE  LET body == <<Check(p), Check(q), Do(effect)>>
         IN  /\ body \in Seq(Statements)
             /\ Returns(body) <=> p /\ q
             /\ \A e \in Done(body) : e = "nothing" \/ (p /\ q /\ e = effect)
<1>1. PICK body : body = <<Check(p), Check(q), Do(effect)>>
  OBVIOUS
<1>2. /\ body \in Seq(Statements) /\ DOMAIN body = 1..3
      /\ body[1].holds = p /\ body[1].does = "nothing"
      /\ body[2].holds = q /\ body[2].does = "nothing"
      /\ body[3].holds = TRUE /\ body[3].does = effect
  <2>1. PICK c, k, d : c = Check(p) /\ k = Check(q) /\ d = Do(effect)
    OBVIOUS
  <2>2. body = <<c, k, d>> /\ c \in Statements /\ k \in Statements /\ d \in Statements
    BY <1>1, <2>1, StatementIs
  <2>3. /\ body \in Seq(Statements) /\ DOMAIN body = 1..3
        /\ body[1] = c /\ body[2] = k /\ body[3] = d
    BY <2>2
  <2>4. QED
    BY <2>1, <2>3, StatementIs
<1>3. \A e \in Done(body) : e = "nothing" \/ (p /\ q /\ e = effect)
  <2>1. SUFFICES ASSUME NEW i \in 1..3, \A k \in 1..i : body[k].holds
                 PROVE  body[i].does = "nothing" \/ (p /\ q /\ body[i].does = effect)
    BY <1>2 DEF Done
  <2>2. QED
    BY <1>2, <2>1
<1>4. QED
  BY <1>1, <1>2, <1>3 DEF Returns

\* connect() and open(), whose last statement begins.
LEMMA Beginning ==
  ASSUME NEW t, NEW fresh \in BOOLEAN
  PROVE  /\ connectBody(t, fresh) \in Seq(Statements)
         /\ openBody(t, fresh) \in Seq(Statements)
         /\ Returns(connectBody(t, fresh)) <=> fresh /\ validatePath(t.path)
         /\ Returns(openBody(t, fresh)) <=> fresh /\ validateFd(t.fd)
         /\ \A e \in Done(connectBody(t, fresh)) :
              e = "nothing" \/ (Returns(connectBody(t, fresh)) /\ e = "begin")
         /\ \A e \in Done(openBody(t, fresh)) :
              e = "nothing" \/ (Returns(openBody(t, fresh)) /\ e = "begin")
<1>1. validatePath(t.path) \in BOOLEAN /\ validateFd(t.fd) \in BOOLEAN
  BY DEF validatePath, validateFd, validateInteger
<1>2. PICK p, q : p = validatePath(t.path) /\ q = validateFd(t.fd)
  OBVIOUS
<1>3. /\ connectBody(t, fresh) = <<Check(fresh), Check(p), Do("begin")>>
      /\ openBody(t, fresh) = <<Check(fresh), Check(q), Do("begin")>>
  BY <1>2 DEF connectBody, openBody
<1>4. "begin" \in Effects /\ p \in BOOLEAN /\ q \in BOOLEAN
  BY <1>1, <1>2 DEF Effects
<1>5. /\ connectBody(t, fresh) \in Seq(Statements)
      /\ Returns(connectBody(t, fresh)) <=> fresh /\ p
      /\ \A e \in Done(connectBody(t, fresh)) : e = "nothing" \/ (fresh /\ p /\ e = "begin")
  BY <1>3, <1>4, CheckedTwice
<1>6. /\ openBody(t, fresh) \in Seq(Statements)
      /\ Returns(openBody(t, fresh)) <=> fresh /\ q
      /\ \A e \in Done(openBody(t, fresh)) : e = "nothing" \/ (fresh /\ q /\ e = "begin")
  BY <1>3, <1>4, CheckedTwice
<1>7. QED
  BY <1>2, <1>5, <1>6

\* listen(), which makes its handle after everything else.
LEMMA Listening ==
  ASSUME NEW t
  PROVE  /\ Returns(listenBody(t)) <=> state = "new" /\ validateListen(t)
         /\ \A e \in Done(listenBody(t)) : e = "nothing" \/ Returns(listenBody(t))
<1>1. PICK p, q, body : p = (state = "new") /\ q = validateListen(t) /\ body = listenBody(t)
  OBVIOUS
<1>2. p \in BOOLEAN /\ q \in BOOLEAN
  BY <1>1 DEF validateListen
<1>3. body = <<Check(p), Check(q), Do("begin"), Do("handle")>>
  BY <1>1 DEF listenBody
<1>4. /\ DOMAIN body = 1..4
      /\ body[1].holds = p /\ body[1].does = "nothing"
      /\ body[2].holds = q /\ body[2].does = "nothing"
      /\ body[3].holds = TRUE /\ body[4].holds = TRUE
  BY <1>3 DEF Check, Do
<1>5. Returns(body) <=> p /\ q
  BY <1>2, <1>4 DEF Returns
<1>6. ASSUME NEW e \in Done(body) PROVE e = "nothing" \/ Returns(body)
  <2>1. PICK i \in 1..4 : body[i].does = e /\ \A k \in 1..i : body[k].holds
    BY <1>4, <1>6 DEF Done
  <2>2. QED
    BY <1>2, <1>4, <1>5, <2>1
<1>7. QED
  BY <1>1, <1>5, <1>6

\* write(), which queues the handle that it checked.
LEMMA Writing ==
  ASSUME NEW t
  PROVE  /\ Returns(writeBody(t)) <=> t.handle = Absent \/ toIPCHandle(t.handle)
         /\ \A e \in Done(writeBody(t)) :
              e = "nothing" \/ (Returns(writeBody(t)) /\ e = "queue")
<1>1. PICK p, effect : /\ p = (t.handle = Absent \/ toIPCHandle(t.handle))
                       /\ effect = IF state = "closing" THEN "nothing" ELSE "queue"
  OBVIOUS
<1>2. p \in BOOLEAN /\ effect \in Effects /\ effect \in {"nothing", "queue"}
  <2>1. (t.handle = Absent \/ toIPCHandle(t.handle)) \in BOOLEAN
    BY DEF toIPCHandle
  <2>2. QED
    BY <1>1, <2>1 DEF Effects
<1>3. writeBody(t) = <<Check(p), Do(effect)>>
  BY <1>1 DEF writeBody
<1>4. /\ Returns(writeBody(t)) <=> p
      /\ \A e \in Done(writeBody(t)) : e = "nothing" \/ (p /\ e = effect)
  BY <1>2, <1>3, CheckedOnce
<1>5. QED
  BY <1>1, <1>2, <1>4

\* The constructor, which makes its handle before it connects or opens it.
LEMMA Constructing ==
  ASSUME NEW t
  PROVE  /\ constructorBody(t) \in Seq(Statements)
         /\ Returns(constructorBody(t)) <=>
              /\ validateInteger(t.readBufferSize, 1)
              /\ IF t.fd # Absent THEN validateFd(t.fd)
                 ELSE t.path # Absent => validatePath(t.path)
         /\ \A e \in Done(constructorBody(t)) :
              \/ e \in {"nothing", "handle"}
              \/ /\ Returns(constructorBody(t)) /\ e = "begin"
                 /\ t.fd # Absent \/ t.path # Absent
<1> DEFINE begin == IF t.fd # Absent THEN openBody(t, TRUE)
                    ELSE IF t.path # Absent THEN connectBody(t, TRUE) ELSE <<>>
           make == <<Check(validateInteger(t.readBufferSize, 1)), Do("handle")>>
<1>1. constructorBody(t) = make \o begin
  BY DEF constructorBody
<1>2. /\ make \in Seq(Statements)
      /\ Returns(make) <=> validateInteger(t.readBufferSize, 1)
      /\ \A e \in Done(make) : e \in {"nothing", "handle"}
  <2>1. PICK p : p = validateInteger(t.readBufferSize, 1)
    OBVIOUS
  <2>2. p \in BOOLEAN /\ "handle" \in Effects
    <3>1. validateInteger(t.readBufferSize, 1) \in BOOLEAN
      BY DEF validateInteger
    <3>2. QED
      BY <2>1, <3>1 DEF Effects
  <2>3. make = <<Check(p), Do("handle")>>
    BY <2>1
  <2> HIDE DEF make
  <2>4. QED
    BY <2>1, <2>2, <2>3, CheckedOnce
<1> HIDE DEF make
<1>3. /\ begin \in Seq(Statements)
      /\ Returns(begin) <=> IF t.fd # Absent THEN validateFd(t.fd)
                            ELSE t.path # Absent => validatePath(t.path)
      /\ \A e \in Done(begin) :
           e = "nothing" \/ (/\ Returns(begin) /\ e = "begin"
                             /\ t.fd # Absent \/ t.path # Absent)
  <2>1. CASE t.fd # Absent
    BY <2>1, Beginning
  <2>2. CASE t.fd = Absent /\ t.path # Absent
    BY <2>2, Beginning
  <2>3. CASE t.fd = Absent /\ t.path = Absent
    <3>1. begin = <<>>
      BY <2>3
    <3>2. <<>> \in Seq(Statements) /\ Returns(<<>>) /\ Done(<<>>) = {}
      BY DEF Returns, Done
    <3>3. QED
      BY <2>3, <3>1, <3>2
  <2>4. QED
    BY <2>1, <2>2, <2>3
<1> HIDE DEF begin
<1>4. /\ make \o begin \in Seq(Statements)
      /\ Returns(make \o begin) <=> Returns(make) /\ Returns(begin)
      /\ \A e \in Done(make \o begin) : e \in Done(make) \/ (Returns(make) /\ e \in Done(begin))
  BY <1>2, <1>3, BodyOfTwo
<1>5. QED
  BY <1>1, <1>2, <1>3, <1>4

\* createConnection(), which connects the pipe that it constructed.
LEMMA Connecting ==
  ASSUME NEW t, NEW c
  PROVE  /\ Returns(connectionBody(t, c)) <=>
              /\ c.path = Absent /\ c.fd = Absent
              /\ validateInteger(c.readBufferSize, 1) /\ validatePath(t.path)
         /\ \A e \in Done(connectionBody(t, c)) :
              \/ e \in {"nothing", "handle"}
              \/ e = "begin" /\ (Returns(connectionBody(t, c))
                                   \/ c.fd # Absent \/ c.path # Absent)
<1> DEFINE fresh == c.path = Absent /\ c.fd = Absent
<1>1. fresh \in BOOLEAN
  OBVIOUS
<1>2. connectionBody(t, c) = constructorBody(c) \o connectBody(t, fresh)
  BY DEF connectionBody
<1>3. /\ connectBody(t, fresh) \in Seq(Statements)
      /\ Returns(connectBody(t, fresh)) <=> fresh /\ validatePath(t.path)
      /\ \A e \in Done(connectBody(t, fresh)) :
           e = "nothing" \/ (Returns(connectBody(t, fresh)) /\ e = "begin")
  BY <1>1, Beginning
<1>4. /\ constructorBody(c) \in Seq(Statements)
      /\ fresh => (Returns(constructorBody(c)) <=> validateInteger(c.readBufferSize, 1))
      /\ \A e \in Done(constructorBody(c)) :
           e \in {"nothing", "handle"} \/ (e = "begin" /\ (c.fd # Absent \/ c.path # Absent))
  BY Constructing
<1> HIDE DEF fresh
<1>5. /\ Returns(connectionBody(t, c))
           <=> Returns(constructorBody(c)) /\ Returns(connectBody(t, fresh))
      /\ \A e \in Done(connectionBody(t, c)) :
           \/ e \in Done(constructorBody(c))
           \/ Returns(constructorBody(c)) /\ e \in Done(connectBody(t, fresh))
  BY <1>2, <1>3, <1>4, BodyOfTwo
<1>6. QED
  BY <1>3, <1>4, <1>5 DEF fresh

\* The type of a value that is not there, and of the options that are not.
LEMMA AbsentIs == Absent.type = "undefined" /\ NoOptions.type = "object"
                    /\ \A n \in OptionNames : NoOptions[n] = Absent
<1>1. Absent.type = "undefined"
  BY DEF Absent
<1>2. /\ "type" \in OptionNames \cup {"type"}
      /\ \A n \in OptionNames : n \in OptionNames \cup {"type"} /\ n # "type"
  BY DEF OptionNames
<1>3. NoOptions["type"] = "object" /\ \A n \in OptionNames : NoOptions[n] = Absent
  BY <1>2 DEF NoOptions
<1>4. QED
  BY <1>1, <1>3

\* The constructor of createConnection() begins when it is given a path or a
\* descriptor where its options should be.
LEMMA ConstructedIs ==
  ASSUME NEW a
  PROVE  LET c == ConstructorArguments(<<ConnectionOptions(a), Absent>>)
         IN  /\ (c.path # Absent \/ c.fd # Absent)
                  <=> ~IsObject(a[1]) /\ a[2].type \in {"string", "number"}
             /\ c.readBufferSize = ConnectionArguments(a).readBufferSize
<1> DEFINE opts == ConnectionOptions(a)
           b == <<opts, Absent>>
           c == ConstructorArguments(b)
<1>1. b[1] = opts
  OBVIOUS
<1> HIDE DEF b
<1>2. /\ c.path = (IF b[1].type = "string" THEN b[1] ELSE Absent)
      /\ c.fd = (IF b[1].type = "number" THEN b[1] ELSE Absent)
  BY DEF ConstructorArguments
<1> HIDE DEF c
<1>3. (c.path # Absent \/ c.fd # Absent) <=> opts.type \in {"string", "number"}
  BY <1>1, <1>2, AbsentIs
<1>4. opts.type \in {"string", "number"}
        <=> ~IsObject(a[1]) /\ a[2].type \in {"string", "number"}
  BY AbsentIs DEF ConnectionOptions, IsObject, IsFunction
<1>5. c.readBufferSize = ConnectionArguments(a).readBufferSize
  BY DEF ConnectionArguments, b, c
<1>6. QED
  BY <1>3, <1>4, <1>5 DEF b, c

-----------------------------------------------------------------------------
\* The bytes of the whole characters that fit in a buffer.
LEMMA Fitting ==
  ASSUME NEW b \in Nat, NEW w \in Nat \ {0}, NEW c \in Nat
  PROVE  /\ b \div w \in Nat /\ (b \div w) * w <= b
         /\ c * w <= b => c <= b \div w
<1>1. PICK q, r : q = b \div w /\ r = b % w
  OBVIOUS
<1>2. q \in Nat /\ r \in 0..(w - 1) /\ b = w * q + r
  BY <1>1
<1>3. q * w = w * q /\ q * w <= b
  BY <1>2
<1>4. ASSUME c * w <= b, c > q PROVE FALSE
  <2>1. c >= q + 1
    BY <1>2, <1>4
  <2>2. c * w >= (q + 1) * w
    BY <1>2, <2>1
  <2>3. (q + 1) * w = q * w + w
    BY <1>2
  <2>4. QED
    BY <1>2, <1>3, <1>4, <2>2, <2>3
<1>5. QED
  BY <1>1, <1>2, <1>3, <1>4

(***************************************************************************)
(* validatePath accepts the paths that reach libuv whole, for a buffer of  *)
(* any length and characters of any width (bare_pipe__get_path).           *)
(***************************************************************************)
THEOREM PathExactly ==
  ASSUME NEW v, v.type = "string", v.chars \in Nat, v.width \in Nat \ {0}
  PROVE  validatePath(v) <=> Reaches("path", v)
<1> DEFINE fit == BufferLength \div v.width
<1>1. MaxPath \in Nat /\ BufferLength = MaxPath + 1
  BY ArgumentsAssumption DEF BufferLength
<1>2. /\ fit \in Nat /\ fit * v.width <= BufferLength
      /\ v.chars * v.width <= BufferLength => v.chars <= fit
  <2>1. PICK b, w, c : b = BufferLength /\ w = v.width /\ c = v.chars
    OBVIOUS
  <2>2. b \in Nat /\ w \in Nat \ {0} /\ c \in Nat
    BY <1>1, <2>1
  <2>3. b \div w \in Nat /\ (b \div w) * w <= b /\ (c * w <= b => c <= b \div w)
    BY <2>2, Fitting
  <2>4. QED
    BY <2>1, <2>3
<1>3. Reaches("path", v) <=> PathReaches(v)
  BY DEF Reaches
<1>4. PICK f, w, c : f = fit /\ w = v.width /\ c = v.chars
  OBVIOUS
<1>5. /\ f \in Nat /\ w \in Nat \ {0} /\ c \in Nat
      /\ f * w <= BufferLength
      /\ c * w <= BufferLength => c <= f
      /\ Written(v) = (IF c <= f THEN c ELSE f) * w
  BY <1>2, <1>4 DEF Written
<1>6. validatePath(v) <=> c * w <= MaxPath
  BY <1>4 DEF validatePath
<1>7. PathReaches(v) <=> Written(v) # BufferLength /\ Written(v) = c * w
  BY <1>4 DEF PathReaches
<1> HIDE DEF fit
<1>8. CASE c <= f
  <2>1. Written(v) = c * w /\ c * w \in Nat /\ c * w <= f * w
    BY <1>5, <1>8
  <2>2. f * w \in Nat
    BY <1>5
  <2>3. QED
    BY <1>1, <1>3, <1>5, <1>6, <1>7, <2>1, <2>2
<1>9. CASE c > f
  <2>1. Written(v) = f * w /\ f * w \in Nat /\ c * w \in Nat
    BY <1>5, <1>9
  <2>2. c * w >= (f + 1) * w /\ (f + 1) * w = f * w + w
    BY <1>5, <1>9
  <2>3. c * w # f * w
    BY <1>5, <2>1, <2>2
  <2>4. ~(c * w <= MaxPath)
    BY <1>1, <1>5, <1>9, <2>1
  <2>5. QED
    BY <1>3, <1>6, <1>7, <2>1, <2>3, <2>4
<1>10. QED
  BY <1>5, <1>8, <1>9

(***************************************************************************)
(* validateFd and the validation of the backlog and of the size accept the *)
(* integers that do not wrap, for integers of any width.                   *)
(***************************************************************************)
THEOREM IntegerExactly ==
  ASSUME NEW v, v.type = "number", v.integer \in BOOLEAN, v.integer => v.value \in Int
  PROVE  /\ validateInteger(v, 0) <=> Reaches("backlog", v)
         /\ validateInteger(v, 1) <=> Reaches("readBufferSize", v)
<1>1. CASE ~v.integer
  BY <1>1 DEF validateInteger, Reaches
<1>2. CASE v.integer
  <2>1. PICK x \in Int : x = v.value
    BY <1>2
  <2>2. PICK m : m = MaxInt + 1
    OBVIOUS
  <2>3. m \in Nat /\ m >= 2 /\ MaxInt = m - 1
    BY <2>2, ArgumentsAssumption
  <2>4. x % (2 * m) \in 0..(2 * m - 1)
    BY <2>3
  <2>5. AsInt(x) <= MaxInt
    BY <2>2, <2>3, <2>4 DEF AsInt
  <2>6. ASSUME x >= 0, x <= MaxInt PROVE AsInt(x) = x
    <3>1. x % (2 * m) = x
      BY <2>3, <2>6
    <3>2. QED
      BY <2>2, <2>3, <2>6, <3>1 DEF AsInt
  <2>7. QED
    BY <1>2, <2>1, <2>3, <2>5, <2>6, ArgumentsAssumption DEF validateInteger, Reaches
<1>3. QED
  BY <1>1, <1>2

-----------------------------------------------------------------------------
(* How a call is read.                                                     *)

\* The reading of a call by its method.
Taking(method, a) ==
  CASE method = "connect" -> Overloaded(a, "path")
    [] method = "open" -> Overloaded(a, "fd")
    [] method = "listen" -> ListenArguments(a)
    [] method = "write" -> WriteArguments(a)
    [] method = "Pipe" -> ConstructorArguments(a)
    [] method = "Server" -> ServerArguments(a)
    [] method = "createConnection" -> ConnectionArguments(a)

\* The call is one of those the shapes describe.
CallOK ==
  /\ call.method \in Methods
  /\ DOMAIN call.args = 1..4 /\ Len(call.args) = 4
  /\ \A i \in 1..4 : IsArgument(call.method, i, call.args[i])

\* A call that returned was read by its own method.
Returned ==
  result # Waiting => result.taken = Taking(call.method, call.args)

ReadInv ==
  /\ CallOK
  /\ state \in {"new", "busy", "closing"} /\ handle \in BOOLEAN /\ queued \in BOOLEAN
  /\ result.ok \in BOOLEAN
  /\ Returned

LEMMA InitReadInv == Init => ReadInv
<1> SUFFICES ASSUME Init PROVE ReadInv
  OBVIOUS
<1>1. PICK shape \in Shapes :
        \E w \in shape.args[1], x \in shape.args[2],
           y \in shape.args[3], z \in shape.args[4] :
          call = [method |-> shape.method, args |-> <<w, x, y, z>>]
  BY DEF Init
<1>2. PICK w \in shape.args[1], x \in shape.args[2],
           y \in shape.args[3], z \in shape.args[4] :
        call = [method |-> shape.method, args |-> <<w, x, y, z>>]
  BY <1>1
<1>3. /\ call.method = shape.method /\ DOMAIN call.args = 1..4 /\ Len(call.args) = 4
      /\ call.args[1] \in shape.args[1] /\ call.args[2] \in shape.args[2]
      /\ call.args[3] \in shape.args[3] /\ call.args[4] \in shape.args[4]
  BY <1>2
<1>4. ASSUME NEW i \in 1..4 PROVE call.args[i] \in shape.args[i]
  BY <1>3
<1>5. CallOK
  BY <1>3, <1>4, ShapesAssumption DEF CallOK
<1>6. state \in {"new", "busy", "closing"} /\ handle \in BOOLEAN /\ queued = FALSE
  BY DEF Init
<1>7. result = Waiting /\ result.ok = FALSE
  BY DEF Init, Waiting
<1>8. QED
  BY <1>5, <1>6, <1>7 DEF ReadInv, Returned

\* Every action performs the body of its method.
LEMMA StepReads ==
  ASSUME ReadInv, Next
  PROVE  /\ UNCHANGED call /\ result = Waiting
         /\ result'.taken = Taking(call.method, call.args) /\ result'.ok \in BOOLEAN
         /\ state' \in {"new", "busy", "closing"}
         /\ handle' \in BOOLEAN /\ queued' \in BOOLEAN
<1>1. state \in {"new", "busy", "closing"} /\ handle \in BOOLEAN /\ queued \in BOOLEAN
  BY DEF ReadInv
<1>2. PICK method, body : /\ method \in Methods
                          /\ Perform(method, Taking(method, call.args), body)
  BY DEF Next, Connect, Open, Listen, Write, NewPipe, createConnection, NewServer,
         Methods, Taking
<1>3. /\ UNCHANGED call /\ result = Waiting /\ call.method = method
      /\ result'.taken = Taking(method, call.args) /\ result'.ok = Returns(body)
  BY <1>2 DEF Perform, Reads
<1>4. Returns(body) \in BOOLEAN
  BY DEF Returns
<1>5. state' \in {"new", "busy", "closing"} /\ handle' \in BOOLEAN /\ queued' \in BOOLEAN
  BY <1>1, <1>2 DEF Perform
<1>6. QED
  BY <1>3, <1>4, <1>5

\* An action reads a call once, so that a call is read as its method says.
THEOREM SpecReadInv == Spec => []ReadInv
<1>1. Init => ReadInv
  BY InitReadInv
<1>2. ReadInv /\ [Next]_vars => ReadInv'
  <2>1. ASSUME ReadInv, Next PROVE ReadInv'
    BY <2>1, StepReads DEF ReadInv, CallOK, Returned
  <2>2. ASSUME ReadInv, UNCHANGED vars PROVE ReadInv'
    BY <2>2 DEF vars, ReadInv, CallOK, Returned
  <2>3. QED
    BY <2>1, <2>2
<1>3. QED
  BY <1>1, <1>2, PTL DEF Spec

-----------------------------------------------------------------------------
(* A call that throws.                                                     *)

\* What a call leaves that throws before it did anything.
LEMMA NothingDone ==
  ASSUME ReadInv, NEW method, NEW t, NEW body, Perform(method, t, body),
         ~result'.ok, \A e \in Done(body) : e = "nothing" \/ Returns(body)
  PROVE  UNCHANGED <<state, handle, queued>>
<1>1. ~Returns(body)
  BY DEF Perform, Reads
<1>2. "begin" \notin Done(body) /\ "handle" \notin Done(body) /\ "queue" \notin Done(body)
  BY <1>1
<1>3. QED
  BY <1>2 DEF Perform, ReadInv

(***************************************************************************)
(* No call does anything before its last check but make the native handle  *)
(* of a new pipe: one that throws leaves its object as it was, whatever    *)
(* the calls.                                                              *)
(***************************************************************************)
THEOREM RefusedLeavesNothing == Spec => RejectedLeavesNothing
<1> DEFINE Kept == /\ UNCHANGED queued
                   /\ ~BeginsInConstructor => UNCHANGED state
                   /\ call.method \notin {"Pipe", "createConnection"} => UNCHANGED handle
<1>1. ASSUME ReadInv, Next, ~result'.ok PROVE Kept
  <2>1. CASE Connect
    <3> DEFINE t == Overloaded(call.args, "path")
    <3>1. Perform("connect", t, connectBody(t, state = "new"))
      BY <2>1 DEF Connect
    <3>2. (state = "new") \in BOOLEAN
      OBVIOUS
    <3> HIDE DEF t
    <3>3. \A e \in Done(connectBody(t, state = "new")) :
            e = "nothing" \/ Returns(connectBody(t, state = "new"))
      BY <3>2, Beginning
    <3>4. QED
      BY <1>1, <3>1, <3>3, NothingDone
  <2>2. CASE Open
    <3> DEFINE t == Overloaded(call.args, "fd")
    <3>1. Perform("open", t, openBody(t, state = "new"))
      BY <2>2 DEF Open
    <3>2. (state = "new") \in BOOLEAN
      OBVIOUS
    <3> HIDE DEF t
    <3>3. \A e \in Done(openBody(t, state = "new")) :
            e = "nothing" \/ Returns(openBody(t, state = "new"))
      BY <3>2, Beginning
    <3>4. QED
      BY <1>1, <3>1, <3>3, NothingDone
  <2>3. CASE Listen
    <3>1. PICK t : Perform("listen", t, listenBody(t))
      BY <2>3 DEF Listen
    <3>2. QED
      BY <1>1, <3>1, Listening, NothingDone
  <2>4. CASE Write
    <3>1. PICK t : Perform("write", t, writeBody(t))
      BY <2>4 DEF Write
    <3>2. QED
      BY <1>1, <3>1, Writing, NothingDone
  <2>5. CASE NewPipe
    <3>1. PICK t : Perform("Pipe", t, constructorBody(t))
      BY <2>5 DEF NewPipe
    <3>2. call.method = "Pipe" /\ ~Returns(constructorBody(t))
      BY <1>1, <3>1 DEF Perform, Reads
    <3>3. \A e \in Done(constructorBody(t)) : e \in {"nothing", "handle"}
      BY <3>2, Constructing
    <3>4. "begin" \notin Done(constructorBody(t)) /\ "queue" \notin Done(constructorBody(t))
      BY <3>3
    <3>5. UNCHANGED <<state, queued>>
      BY <1>1, <3>1, <3>4 DEF Perform, ReadInv
    <3>6. QED
      BY <3>2, <3>5
  <2>6. CASE createConnection
    <3> DEFINE t == ConnectionArguments(call.args)
               c == ConstructorArguments(<<ConnectionOptions(call.args), Absent>>)
               body == connectionBody(t, c)
    <3>1. Perform("createConnection", t, body)
      BY <2>6 DEF createConnection
    <3>2. (c.path # Absent \/ c.fd # Absent)
            <=> ~IsObject(call.args[1]) /\ call.args[2].type \in {"string", "number"}
      BY ConstructedIs
    <3> HIDE DEF t, c
    <3>3. \A e \in Done(body) :
            \/ e \in {"nothing", "handle"}
            \/ e = "begin" /\ (Returns(body) \/ c.fd # Absent \/ c.path # Absent)
      BY Connecting
    <3> HIDE DEF body
    <3>4. call.method = "createConnection" /\ ~Returns(body)
      BY <1>1, <3>1 DEF Perform, Reads
    <3>5. "queue" \notin Done(body)
      BY <3>3
    <3>6. ~BeginsInConstructor => "begin" \notin Done(body)
      BY <3>2, <3>3, <3>4 DEF BeginsInConstructor
    <3>7. UNCHANGED queued /\ (~BeginsInConstructor => UNCHANGED state)
      BY <1>1, <3>1, <3>5, <3>6 DEF Perform, ReadInv
    <3>8. QED
      BY <3>4, <3>7
  <2>7. CASE NewServer
    <3>1. PICK t : Perform("Server", t, serverBody(t))
      BY <2>7 DEF NewServer
    <3>2. \A e \in Done(serverBody(t)) : e = "nothing"
      BY StatementIs DEF Done, serverBody
    <3>3. QED
      BY <1>1, <3>1, <3>2, NothingDone
  <2>8. QED
    BY <1>1, <2>1, <2>2, <2>3, <2>4, <2>5, <2>6, <2>7 DEF Next
<1>2. ReadInv /\ [Next]_vars => [~result'.ok => Kept]_vars
  <2>1. SUFFICES ASSUME ReadInv, Next, ~result'.ok PROVE Kept
    BY DEF vars
  <2>2. QED
    BY <1>1, <2>1
<1>3. [][~result'.ok => Kept]_vars <=> RejectedLeavesNothing
  BY DEF RejectedLeavesNothing
<1>4. QED
  BY <1>2, <1>3, SpecReadInv, PTL DEF Spec

-----------------------------------------------------------------------------
(* The values of a call.                                                   *)

\* The type tells nothing and a callback from the rest.
LEMMA PlainIs ==
  ASSUME NEW v, IsPlain(v)
  PROVE  /\ v.type = "undefined" => v = Absent
         /\ v.type = "function" => v = Callback
         /\ v.type = "boolean" => v \in {Boolean(TRUE), Boolean(FALSE)}
         /\ v.type # "object"
         /\ v.type = "string" => v.chars \in Nat /\ v.width \in Nat \ {0}
         /\ v.type = "number" => v.integer \in BOOLEAN /\ (v.integer => v.value \in Int)
<1>1. CASE v \in {Absent, Null, Callback, Boolean(TRUE), Boolean(FALSE), NaN}
  <2>1. CASE v = Absent
    BY <2>1 DEF Absent
  <2>2. CASE v = Null
    BY <2>2 DEF Null
  <2>3. CASE v = Callback
    BY <2>3 DEF Callback
  <2>4. CASE v \in {Boolean(TRUE), Boolean(FALSE)}
    <3>1. v.type = "boolean"
      BY <2>4 DEF Boolean
    <3>2. QED
      BY <2>4, <3>1
  <2>5. CASE v = NaN
    BY <2>5 DEF NaN
  <2>6. QED
    BY <1>1, <2>1, <2>2, <2>3, <2>4, <2>5
<1>2. CASE v.type = "number" /\ v.integer = TRUE /\ v.value \in Int
  BY <1>2
<1>3. CASE v.type = "string" /\ v.chars \in Nat /\ v.width \in Nat \ {0} /\ v.nul \in BOOLEAN
  BY <1>3
<1>4. QED
  BY <1>1, <1>2, <1>3 DEF IsPlain

\* An object is none of them.
LEMMA ArgumentIs ==
  ASSUME CallOK, NEW i \in 1..4
  PROVE  /\ call.args[i].type \in TypesAt(call.method, i)
         /\ call.args[i].type = "undefined" => call.args[i] = Absent
         /\ call.args[i].type = "function" => call.args[i] = Callback
<1>1. IsArgument(call.method, i, call.args[i])
  BY DEF CallOK
<1>2. CASE IsObject(call.args[i])
  BY <1>1, <1>2 DEF IsArgument, IsObject
<1>3. CASE ~IsObject(call.args[i])
  BY <1>1, <1>3, PlainIs DEF IsArgument
<1>4. QED
  BY <1>2, <1>3

\* Where nothing but a callback may be given.
LEMMA LastIsCallback ==
  ASSUME CallOK
  PROVE  /\ call.method \in {"connect", "open", "write", "createConnection"}
              => call.args[3] \in {Absent, Callback}
         /\ call.method = "listen" => call.args[4] \in {Absent, Callback}
         /\ call.method = "Server" => call.args[2] \in {Absent, Callback}
<1>1. ASSUME NEW i \in 1..4, call.args[i].type \in {"undefined", "function"}
      PROVE  call.args[i] \in {Absent, Callback}
  BY <1>1, ArgumentIs
<1>2. CASE call.method \in {"connect", "open", "write", "createConnection"}
  <2>1. TypesAt(call.method, 3) = {"undefined", "function"}
    BY <1>2 DEF TypesAt
  <2>2. call.args[3] \in {Absent, Callback}
    BY <1>1, <2>1, ArgumentIs
  <2>3. QED
    BY <1>2, <2>2
<1>3. CASE call.method = "listen"
  <2>1. TypesAt(call.method, 4) = {"undefined", "function"}
    BY <1>3 DEF TypesAt
  <2>2. call.args[4] \in {Absent, Callback}
    BY <1>1, <2>1, ArgumentIs
  <2>3. QED
    BY <1>3, <2>2
<1>4. CASE call.method = "Server"
  <2>1. TypesAt(call.method, 2) = {"undefined", "function"}
    BY <1>4 DEF TypesAt
  <2>2. call.args[2] \in {Absent, Callback}
    BY <1>1, <2>1, ArgumentIs
  <2>3. QED
    BY <1>4, <2>2
<1>5. QED
  BY <1>2, <1>3, <1>4

\* What a call takes for its callback is one, or nothing.
LEMMA CallbackTaken ==
  ASSUME CallOK, "callback" \in DOMAIN Taking(call.method, call.args)
  PROVE  Taking(call.method, call.args).callback \in {Absent, Callback}
<1> DEFINE a == call.args
           Goal == Taking(call.method, a).callback \in {Absent, Callback}
<1>1. \A i \in 1..4 : IsFunction(a[i]) => a[i] = Callback
  BY ArgumentIs DEF IsFunction
<1>2. 1 \in 1..4 /\ 2 \in 1..4 /\ 3 \in 1..4 /\ 4 \in 1..4
  OBVIOUS
<1> HIDE DEF a
<1>3. CASE call.method = "connect"
  <2>1. a[3] \in {Absent, Callback}
    BY <1>3, LastIsCallback DEF a
  <2>2. Overloaded(a, "path").callback \in {Absent, Callback}
    BY <1>1, <1>2, <2>1 DEF Overloaded
  <2>3. QED
    BY <1>3, <2>2 DEF Taking, a
<1>4. CASE call.method = "open"
  <2>1. a[3] \in {Absent, Callback}
    BY <1>4, LastIsCallback DEF a
  <2>2. Overloaded(a, "fd").callback \in {Absent, Callback}
    BY <1>1, <1>2, <2>1 DEF Overloaded
  <2>3. QED
    BY <1>4, <2>2 DEF Taking, a
<1>5. CASE call.method = "listen"
  <2>1. a[4] \in {Absent, Callback}
    BY <1>5, LastIsCallback DEF a
  <2>2. ListenArguments(a).callback \in {Absent, Callback}
    BY <1>1, <1>2, <2>1 DEF ListenArguments
  <2>3. QED
    BY <1>5, <2>2 DEF Taking, a
<1>6. CASE call.method = "write"
  <2>1. a[3] \in {Absent, Callback}
    BY <1>6, LastIsCallback DEF a
  <2>2. WriteArguments(a).callback \in {Absent, Callback}
    BY <1>1, <1>2, <2>1 DEF WriteArguments
  <2>3. QED
    BY <1>6, <2>2 DEF Taking, a
<1>7. CASE call.method = "Pipe"
  <2>1. DOMAIN ConstructorArguments(a) = {"path", "fd", "readBufferSize"}
    BY DEF ConstructorArguments
  <2>2. Taking(call.method, call.args) = ConstructorArguments(a)
    BY <1>7 DEF Taking, a
  <2>3. QED
    BY <2>1, <2>2
<1>8. CASE call.method = "Server"
  <2>1. a[2] \in {Absent, Callback}
    BY <1>8, LastIsCallback DEF a
  <2>2. ServerArguments(a).callback \in {Absent, Callback}
    BY <1>1, <1>2, <2>1 DEF ServerArguments
  <2>3. QED
    BY <1>8, <2>2 DEF Taking, a
<1>9. CASE call.method = "createConnection"
  <2>1. a[3] \in {Absent, Callback}
    BY <1>9, LastIsCallback DEF a
  <2> DEFINE opts == IF IsObject(a[1]) THEN a[1]
                     ELSE IF IsFunction(a[2]) THEN NoOptions ELSE a[2]
             path == IF IsObject(a[1]) THEN a[1].path ELSE a[1]
             cb == IF IsFunction(a[2]) THEN a[2] ELSE a[3]
             b == <<path, Default(opts, NoOptions), cb>>
  <2>2. cb \in {Absent, Callback}
    BY <1>1, <1>2, <2>1
  <2>3. ~IsFunction(Default(opts, NoOptions))
    BY AbsentIs DEF Default, IsFunction, IsObject
  <2>4. b[2] = Default(opts, NoOptions) /\ b[3] = cb
    OBVIOUS
  <2>5. ConnectionArguments(a).callback = Overloaded(b, "path").callback
    <3>1. path = IF IsObject(a[1]) THEN opts.path ELSE a[1]
      OBVIOUS
    <3>2. QED
      BY <3>1 DEF ConnectionArguments, ConnectionOptions
  <2> HIDE DEF b, cb, opts
  <2>6. Overloaded(b, "path").callback = cb
    BY <2>3, <2>4 DEF Overloaded
  <2>7. QED
    BY <1>9, <2>2, <2>5, <2>6 DEF Taking, a
<1>10. QED
  BY <1>3, <1>4, <1>5, <1>6, <1>7, <1>8, <1>9 DEF CallOK, Methods, a

(***************************************************************************)
(* The types of module PipeArguments, and that a call never takes anything *)
(* but a callback for its callback, whatever calls are made.               *)
(***************************************************************************)
THEOREM ArgumentTypes == Spec => []TypeOK
<1>1. ReadInv => TypeOK
  <2>1. SUFFICES ASSUME ReadInv PROVE TypeOK
    OBVIOUS
  <2>2. call.method \in DOMAIN Signatures
    BY <2>1 DEF ReadInv, CallOK, Methods, Signatures
  <2>3. ASSUME result # Waiting, "callback" \in DOMAIN result.taken
        PROVE  result.taken.callback \in {Absent, Callback}
    BY <2>1, <2>3, CallbackTaken DEF ReadInv, Returned
  <2>4. QED
    BY <2>1, <2>2, <2>3 DEF ReadInv, CallOK, TypeOK
<1>2. QED
  BY <1>1, SpecReadInv, PTL

-----------------------------------------------------------------------------
(* The overloads.                                                          *)

\* An option, of options that need not be there.
Option(v, n) == IF v # Absent THEN v[n] ELSE Absent

\* An argument in a place that an overload has.
Suits(v, i, required, role) ==
  v.type = TypeOf(role) \/ (i > required /\ v = Absent)

\* A parameter that is no option.
LEMMA NoOption ==
  ASSUME CallOK
  PROVE  "opts" \notin OptionsOf[call.method] /\ "callback" \notin OptionsOf[call.method]
BY DEF CallOK, Methods, OptionsOf

\* The argument of an overload that differs from the others by its role.
LEMMA GivenIs ==
  ASSUME CallOK, NEW sig, NEW N \in 1..4, DOMAIN sig.roles = 1..N,
         \A i, j \in 1..N : sig.roles[i] = sig.roles[j] => i = j
  PROVE  /\ \A i, j \in 1..N : sig.roles[j] = "opts" =>
              Given(sig, sig.roles[i]) =
                IF call.args[i] = Absent /\ sig.roles[i] \in OptionsOf[call.method]
                THEN Option(call.args[j], sig.roles[i]) ELSE call.args[i]
         /\ (\A j \in 1..N : sig.roles[j] # "opts")
              => \A i \in 1..N : Given(sig, sig.roles[i]) = call.args[i]
         /\ \A n : (\A j \in 1..N : sig.roles[j] # n) =>
              /\ \A i \in 1..N : sig.roles[i] = "opts" =>
                   Given(sig, n) = IF n \in OptionsOf[call.method]
                                   THEN Option(call.args[i], n) ELSE Absent
              /\ (\A i \in 1..N : sig.roles[i] # "opts") => Given(sig, n) = Absent
<1> DEFINE at(role) == {i \in DOMAIN sig.roles : sig.roles[i] = role /\ i \in DOMAIN call.args}
           arg(role) == IF at(role) # {} THEN call.args[CHOOSE i \in at(role) : TRUE] ELSE Absent
<1>1. ASSUME NEW role PROVE at(role) = {i \in 1..N : sig.roles[i] = role}
  <2>1. DOMAIN sig.roles = 1..N /\ \A i \in 1..N : i \in DOMAIN call.args
    BY DEF CallOK
  <2>2. QED
    BY <2>1
<1>2. ASSUME NEW n
      PROVE  Given(sig, n) = IF arg(n) = Absent /\ n \in OptionsOf[call.method]
                             THEN Option(arg("opts"), n) ELSE arg(n)
  BY DEF Given, Option
<1> HIDE DEF at
<1>3. ASSUME NEW i \in 1..N PROVE arg(sig.roles[i]) = call.args[i]
  <2>1. at(sig.roles[i]) = {j \in 1..N : sig.roles[j] = sig.roles[i]}
    BY <1>1
  <2>2. \A j \in 1..N : sig.roles[j] = sig.roles[i] <=> j = i
    OBVIOUS
  <2>3. at(sig.roles[i]) = {i}
    BY <2>1, <2>2
  <2>4. (CHOOSE j \in {i} : TRUE) = i /\ {i} # {}
    OBVIOUS
  <2>5. QED
    BY <2>3, <2>4
<1>4. ASSUME NEW n, \A j \in 1..N : sig.roles[j] # n PROVE arg(n) = Absent
  <2>1. at(n) = {}
    BY <1>1, <1>4
  <2>2. QED
    BY <2>1
<1> HIDE DEF arg
<1>5. ASSUME NEW i \in 1..N, NEW j \in 1..N, sig.roles[j] = "opts"
      PROVE  Given(sig, sig.roles[i]) =
               IF call.args[i] = Absent /\ sig.roles[i] \in OptionsOf[call.method]
               THEN Option(call.args[j], sig.roles[i]) ELSE call.args[i]
  <2>1. arg("opts") = call.args[j]
    BY <1>3, <1>5
  <2>2. QED
    BY <1>2, <1>3, <2>1
<1>6. ASSUME \A j \in 1..N : sig.roles[j] # "opts", NEW i \in 1..N
      PROVE  Given(sig, sig.roles[i]) = call.args[i]
  <2>1. arg("opts") = Absent
    BY <1>4, <1>6
  <2>2. QED
    BY <1>2, <1>3, <2>1 DEF Option
<1>7. ASSUME NEW n, \A j \in 1..N : sig.roles[j] # n
      PROVE  /\ \A i \in 1..N : sig.roles[i] = "opts" =>
                  Given(sig, n) = IF n \in OptionsOf[call.method]
                                  THEN Option(call.args[i], n) ELSE Absent
             /\ (\A i \in 1..N : sig.roles[i] # "opts") => Given(sig, n) = Absent
  <2>1. arg(n) = Absent
    BY <1>4, <1>7
  <2>2. ASSUME NEW i \in 1..N, sig.roles[i] = "opts"
        PROVE  Given(sig, n) = IF n \in OptionsOf[call.method]
                               THEN Option(call.args[i], n) ELSE Absent
    <3>1. arg("opts") = call.args[i]
      BY <1>3, <2>2
    <3>2. QED
      BY <1>2, <2>1, <3>1
  <2>3. ASSUME \A i \in 1..N : sig.roles[i] # "opts" PROVE Given(sig, n) = Absent
    <3>1. arg("opts") = Absent
      BY <1>4, <2>3
    <3>2. QED
      BY <1>2, <2>1, <3>1 DEF Option
  <2>4. QED
    BY <2>2, <2>3
<1>8. QED
  BY <1>5, <1>6, <1>7

\* The arguments of a call that fits an overload.
LEMMA FitsIs ==
  ASSUME CallOK, NEW sig, NEW N \in 1..4, DOMAIN sig.roles = 1..N,
         Fits(sig, call.args), NEW i \in 1..4
  PROVE  IF i <= N THEN Suits(call.args[i], i, sig.required, sig.roles[i])
         ELSE call.args[i] = Absent
BY DEF CallOK, Fits, Suits

\* An overload of one, two, three or four parameters.
LEMMA OfOne ==
  ASSUME CallOK, NEW r, NEW x, Fits(Sig(r, <<x>>), call.args)
  PROVE  /\ Suits(call.args[1], 1, r, x)
         /\ call.args[2] = Absent /\ call.args[3] = Absent /\ call.args[4] = Absent
         /\ Given(Sig(r, <<x>>), x) = call.args[1]
         /\ \A n : n # x => Given(Sig(r, <<x>>), n) =
              IF n \in OptionsOf[call.method] /\ x = "opts"
              THEN Option(call.args[1], n) ELSE Absent
<1>1. PICK sig : sig = Sig(r, <<x>>)
  OBVIOUS
<1>2. /\ sig.required = r /\ DOMAIN sig.roles = 1..1 /\ sig.roles[1] = x
      /\ \A i, j \in 1..1 : sig.roles[i] = sig.roles[j] => i = j
      /\ Fits(sig, call.args)
  BY <1>1 DEF Sig
<1>3. 1 \in 1..4 /\ 2 \in 1..4 /\ 3 \in 1..4 /\ 4 \in 1..4
  OBVIOUS
<1>4. \A i \in 1..4 : IF i <= 1 THEN Suits(call.args[i], i, sig.required, sig.roles[i])
                      ELSE call.args[i] = Absent
  BY <1>2, <1>3, FitsIs
<1>5. Given(sig, sig.roles[1]) = call.args[1]
  BY <1>2, <1>3, GivenIs, NoOption
<1>6. ASSUME NEW n, n # x
      PROVE  Given(sig, n) = IF n \in OptionsOf[call.method] /\ x = "opts"
                             THEN Option(call.args[1], n) ELSE Absent
  <2>1. \A j \in 1..1 : sig.roles[j] # n
    BY <1>2, <1>6
  <2>2. /\ \A i \in 1..1 : sig.roles[i] = "opts" =>
             Given(sig, n) = IF n \in OptionsOf[call.method]
                             THEN Option(call.args[i], n) ELSE Absent
        /\ (\A i \in 1..1 : sig.roles[i] # "opts") => Given(sig, n) = Absent
    BY <1>2, <1>3, <2>1, GivenIs
  <2>3. QED
    BY <1>2, <2>2
<1>7. QED
  BY <1>1, <1>2, <1>3, <1>4, <1>5, <1>6

LEMMA OfTwo ==
  ASSUME CallOK, NEW r, NEW x, NEW y, x # y, Fits(Sig(r, <<x, y>>), call.args),
         "opts" \in {x, y} => /\ x = "opts" \/ (x \in {"path", "fd"} /\ r = 1)
                              /\ y \in {"opts", "callback"}
  PROVE  /\ Suits(call.args[1], 1, r, x) /\ Suits(call.args[2], 2, r, y)
         /\ call.args[3] = Absent /\ call.args[4] = Absent
         /\ Given(Sig(r, <<x, y>>), x) = call.args[1]
         /\ Given(Sig(r, <<x, y>>), y) = call.args[2]
         /\ \A n : n \notin {x, y} => Given(Sig(r, <<x, y>>), n) =
              IF n \in OptionsOf[call.method] /\ "opts" \in {x, y}
              THEN Option(IF x = "opts" THEN call.args[1] ELSE call.args[2], n)
              ELSE Absent
<1>1. PICK sig : sig = Sig(r, <<x, y>>)
  OBVIOUS
<1>2. /\ sig.required = r /\ DOMAIN sig.roles = 1..2
      /\ sig.roles[1] = x /\ sig.roles[2] = y
      /\ \A i, j \in 1..2 : sig.roles[i] = sig.roles[j] => i = j
      /\ Fits(sig, call.args)
  BY <1>1 DEF Sig
<1>3. 1 \in 1..4 /\ 2 \in 1..4 /\ 3 \in 1..4 /\ 4 \in 1..4
  OBVIOUS
<1>4. \A i \in 1..4 : IF i <= 2 THEN Suits(call.args[i], i, sig.required, sig.roles[i])
                      ELSE call.args[i] = Absent
  BY <1>2, <1>3, FitsIs
<1>5. Given(sig, sig.roles[1]) = call.args[1] /\ Given(sig, sig.roles[2]) = call.args[2]
  <2>1. CASE "opts" \notin {x, y}
    BY <1>2, <1>3, <2>1, GivenIs
  <2>2. CASE "opts" \in {x, y}
    <3>1. /\ x \in {"path", "fd"} => call.args[1] # Absent
          /\ y \notin OptionsOf[call.method]
          /\ "opts" \notin OptionsOf[call.method]
      BY <1>2, <1>3, <1>4, <2>2, AbsentIs, NoOption DEF Suits, TypeOf
    <3>2. PICK j \in 1..2 : sig.roles[j] = "opts"
      BY <1>2, <2>2
    <3>3. \A i \in 1..2 :
            Given(sig, sig.roles[i]) =
              IF call.args[i] = Absent /\ sig.roles[i] \in OptionsOf[call.method]
              THEN Option(call.args[j], sig.roles[i]) ELSE call.args[i]
      BY <1>2, <1>3, <3>2, GivenIs
    <3>4. QED
      BY <1>2, <2>2, <3>1, <3>3
  <2>3. QED
    BY <2>1, <2>2
<1>6. ASSUME NEW n, n \notin {x, y}
      PROVE  Given(sig, n) =
               IF n \in OptionsOf[call.method] /\ "opts" \in {x, y}
               THEN Option(IF x = "opts" THEN call.args[1] ELSE call.args[2], n)
               ELSE Absent
  <2>1. \A j \in 1..2 : sig.roles[j] # n
    BY <1>2, <1>6
  <2>2. /\ \A i \in 1..2 : sig.roles[i] = "opts" =>
             Given(sig, n) = IF n \in OptionsOf[call.method]
                             THEN Option(call.args[i], n) ELSE Absent
        /\ (\A i \in 1..2 : sig.roles[i] # "opts") => Given(sig, n) = Absent
    BY <1>2, <1>3, <2>1, GivenIs
  <2>3. QED
    BY <1>2, <2>2
<1>7. QED
  BY <1>1, <1>2, <1>3, <1>4, <1>5, <1>6

LEMMA OfThree ==
  ASSUME CallOK, NEW r, NEW x, NEW y, NEW z, x # y, x # z, y # z,
         Fits(Sig(r, <<x, y, z>>), call.args),
         "opts" \in {x, y, z}
           => x \in {"path", "fd"} /\ r = 1 /\ y = "opts" /\ z = "callback"
  PROVE  /\ Suits(call.args[1], 1, r, x) /\ Suits(call.args[2], 2, r, y)
         /\ Suits(call.args[3], 3, r, z) /\ call.args[4] = Absent
         /\ Given(Sig(r, <<x, y, z>>), x) = call.args[1]
         /\ Given(Sig(r, <<x, y, z>>), y) = call.args[2]
         /\ Given(Sig(r, <<x, y, z>>), z) = call.args[3]
         /\ \A n : n \notin {x, y, z} => Given(Sig(r, <<x, y, z>>), n) =
              IF n \in OptionsOf[call.method] /\ "opts" \in {x, y, z}
              THEN Option(IF x = "opts" THEN call.args[1]
                          ELSE IF y = "opts" THEN call.args[2] ELSE call.args[3], n)
              ELSE Absent
<1>1. PICK sig : sig = Sig(r, <<x, y, z>>)
  OBVIOUS
<1>2. /\ sig.required = r /\ DOMAIN sig.roles = 1..3
      /\ sig.roles[1] = x /\ sig.roles[2] = y /\ sig.roles[3] = z
      /\ \A i, j \in 1..3 : sig.roles[i] = sig.roles[j] => i = j
      /\ Fits(sig, call.args)
  BY <1>1 DEF Sig
<1>3. 1 \in 1..4 /\ 2 \in 1..4 /\ 3 \in 1..4 /\ 4 \in 1..4
  OBVIOUS
<1>4. \A i \in 1..4 : IF i <= 3 THEN Suits(call.args[i], i, sig.required, sig.roles[i])
                      ELSE call.args[i] = Absent
  BY <1>2, <1>3, FitsIs
<1>5. \A i \in 1..3 : Given(sig, sig.roles[i]) = call.args[i]
  <2>1. CASE "opts" \notin {x, y, z}
    BY <1>2, <1>3, <2>1, GivenIs
  <2>2. CASE "opts" \in {x, y, z}
    <3>1. /\ call.args[1] # Absent
          /\ y \notin OptionsOf[call.method] /\ z \notin OptionsOf[call.method]
      BY <1>2, <1>3, <1>4, <2>2, AbsentIs, NoOption DEF Suits, TypeOf
    <3>2. \A i \in 1..3 :
            Given(sig, sig.roles[i]) =
              IF call.args[i] = Absent /\ sig.roles[i] \in OptionsOf[call.method]
              THEN Option(call.args[2], sig.roles[i]) ELSE call.args[i]
      BY <1>2, <1>3, <2>2, GivenIs
    <3>3. QED
      BY <1>2, <3>1, <3>2
  <2>3. QED
    BY <2>1, <2>2
<1>6. ASSUME NEW n, n \notin {x, y, z}
      PROVE  Given(sig, n) =
               IF n \in OptionsOf[call.method] /\ "opts" \in {x, y, z}
               THEN Option(IF x = "opts" THEN call.args[1]
                           ELSE IF y = "opts" THEN call.args[2] ELSE call.args[3], n)
               ELSE Absent
  <2>1. \A j \in 1..3 : sig.roles[j] # n
    BY <1>2, <1>6
  <2>2. /\ \A i \in 1..3 : sig.roles[i] = "opts" =>
             Given(sig, n) = IF n \in OptionsOf[call.method]
                             THEN Option(call.args[i], n) ELSE Absent
        /\ (\A i \in 1..3 : sig.roles[i] # "opts") => Given(sig, n) = Absent
    BY <1>2, <1>3, <2>1, GivenIs
  <2>3. QED
    BY <1>2, <2>2
<1>7. QED
  BY <1>1, <1>2, <1>3, <1>4, <1>5, <1>6

\* The one overload of four parameters.
LEMMA OfFour ==
  ASSUME CallOK,
         Fits(Sig(1, <<"path", "backlog", "opts", "callback">>), call.args)
  PROVE  /\ Suits(call.args[1], 1, 1, "path") /\ Suits(call.args[2], 2, 1, "backlog")
         /\ Suits(call.args[3], 3, 1, "opts") /\ Suits(call.args[4], 4, 1, "callback")
         /\ LET sig == Sig(1, <<"path", "backlog", "opts", "callback">>)
            IN  /\ Given(sig, "path") = call.args[1]
                /\ "backlog" \in OptionsOf[call.method] => Given(sig, "backlog") =
                     IF call.args[2] = Absent
                     THEN Option(call.args[3], "backlog") ELSE call.args[2]
                /\ Given(sig, "callback") = call.args[4]
                /\ Given(sig, "ownerOnly") =
                     IF "ownerOnly" \in OptionsOf[call.method]
                     THEN Option(call.args[3], "ownerOnly") ELSE Absent
<1>1. PICK sig : sig = Sig(1, <<"path", "backlog", "opts", "callback">>)
  OBVIOUS
<1>2. /\ sig.required = 1 /\ DOMAIN sig.roles = 1..4
      /\ sig.roles[1] = "path" /\ sig.roles[2] = "backlog"
      /\ sig.roles[3] = "opts" /\ sig.roles[4] = "callback"
      /\ \A i, j \in 1..4 : sig.roles[i] = sig.roles[j] => i = j
      /\ Fits(sig, call.args)
  BY <1>1 DEF Sig
<1>3. 4 \in 1..4 /\ 1 \in 1..4 /\ 2 \in 1..4 /\ 3 \in 1..4
  OBVIOUS
<1>4. \A i \in 1..4 : IF i <= 4 THEN Suits(call.args[i], i, sig.required, sig.roles[i])
                      ELSE call.args[i] = Absent
  BY <1>2, <1>3, FitsIs
<1>5. \A i \in 1..4 :
        Given(sig, sig.roles[i]) =
          IF call.args[i] = Absent /\ sig.roles[i] \in OptionsOf[call.method]
          THEN Option(call.args[3], sig.roles[i]) ELSE call.args[i]
  BY <1>2, <1>3, GivenIs
<1>9. call.args[1] # Absent /\ "callback" \notin OptionsOf[call.method]
  BY <1>2, <1>3, <1>4, AbsentIs, NoOption DEF Suits, TypeOf
<1>6. \A j \in 1..4 : sig.roles[j] # "ownerOnly"
  BY <1>2
<1>7. \A i \in 1..4 : sig.roles[i] = "opts" =>
        Given(sig, "ownerOnly") = IF "ownerOnly" \in OptionsOf[call.method]
                                  THEN Option(call.args[i], "ownerOnly") ELSE Absent
  BY <1>2, <1>3, <1>6, GivenIs
<1>8. QED
  BY <1>1, <1>2, <1>3, <1>4, <1>5, <1>7, <1>9

\* What suits a place by the name of its role.
LEMMA SuitsIs ==
  ASSUME NEW v, NEW i, NEW r, NEW role, Suits(v, i, r, role)
  PROVE  /\ role \in {"path", "encoding"} => v.type = "string" \/ (i > r /\ v = Absent)
         /\ role \in {"fd", "backlog"} => v.type = "number" \/ (i > r /\ v = Absent)
         /\ role \in {"opts", "handle"} => v.type = "object" \/ (i > r /\ v = Absent)
         /\ role = "callback" => v.type = "function" \/ (i > r /\ v = Absent)
BY DEF Suits, TypeOf

\* The names of arguments that no default stands in for.
LEMMA NoDefault ==
  ASSUME NEW n, n \notin {"backlog", "ownerOnly", "readBufferSize"}, NEW v
  PROVE  OrDefault(n, v) = v
BY DEF OrDefault

\* connect and open.
LEMMA OverloadedAsDeclared ==
  ASSUME CallOK, NEW name \in {"path", "fd"}, name \in OptionsOf[call.method],
         NEW sig \in {Sig(1, <<name, "opts", "callback">>), Sig(2, <<name, "callback">>),
                      Sig(1, <<"opts", "callback">>)},
         Fits(sig, call.args), NEW n \in DOMAIN Overloaded(call.args, name)
  PROVE  Overloaded(call.args, name)[n] = OrDefault(n, Given(sig, n))
<1> DEFINE a == call.args
<1>1. n \in {name, "callback"} /\ name # "opts" /\ name # "callback"
  BY DEF Overloaded
<1>2. OrDefault(n, Given(sig, n)) = Given(sig, n)
  BY <1>1, NoDefault
<1>3. /\ Overloaded(a, name)[name] = (IF IsObject(a[1]) THEN a[1][name] ELSE a[1])
      /\ Overloaded(a, name)["callback"] = (IF IsFunction(a[2]) THEN a[2] ELSE a[3])
  BY <1>1 DEF Overloaded
<1>4. Absent.type = "undefined"
  BY DEF Absent
<1> HIDE DEF a
<1>5. CASE sig = Sig(1, <<name, "opts", "callback">>)
  <2>1. /\ Suits(a[1], 1, 1, name) /\ Suits(a[2], 2, 1, "opts")
        /\ Given(sig, name) = a[1] /\ Given(sig, "callback") = a[3]
    BY <1>1, <1>5, OfThree DEF a
  <2>2. ~IsObject(a[1]) /\ ~IsFunction(a[2])
    BY <1>4, <2>1, SuitsIs DEF IsObject, IsFunction
  <2>3. QED
    BY <1>1, <1>2, <1>3, <2>1, <2>2 DEF a
<1>6. CASE sig = Sig(2, <<name, "callback">>)
  <2>1. /\ Suits(a[1], 1, 2, name) /\ Suits(a[2], 2, 2, "callback")
        /\ Given(sig, name) = a[1] /\ Given(sig, "callback") = a[2]
    BY <1>1, <1>6, OfTwo DEF a
  <2>2. ~IsObject(a[1]) /\ IsFunction(a[2])
    BY <1>4, <2>1, SuitsIs DEF IsObject, IsFunction
  <2>3. QED
    BY <1>1, <1>2, <1>3, <2>1, <2>2 DEF a
<1>7. CASE sig = Sig(1, <<"opts", "callback">>)
  <2>1. /\ Suits(a[1], 1, 1, "opts") /\ Suits(a[2], 2, 1, "callback") /\ a[3] = Absent
        /\ Given(sig, name) = Option(a[1], name) /\ Given(sig, "callback") = a[2]
    BY <1>1, <1>7, OfTwo DEF a
  <2>2. IsObject(a[1]) /\ a[1] # Absent /\ (IsFunction(a[2]) \/ a[2] = Absent)
    BY <1>4, <2>1, SuitsIs DEF IsObject, IsFunction
  <2>3. QED
    BY <1>1, <1>2, <1>3, <2>1, <2>2 DEF a, Option
<1>8. QED
  BY <1>5, <1>6, <1>7

LEMMA ListenAsDeclared ==
  ASSUME CallOK, call.method = "listen", NEW sig \in Signatures["listen"],
         Fits(sig, call.args), NEW n \in DOMAIN ListenArguments(call.args),
         n = "backlog" => ~LeavesBacklogToOptions
  PROVE  ListenArguments(call.args)[n] = OrDefault(n, Given(sig, n))
<1> DEFINE a == call.args
           t == ListenArguments(a)
           opts == IF IsObject(a[1]) THEN a[1] ELSE IF IsObject(a[3]) THEN a[3] ELSE NoOptions
           backlog == IF IsObject(a[1]) THEN BacklogOption(opts.backlog)
                      ELSE IF IsFunction(a[2]) THEN DefaultBacklog
                      ELSE Default(a[2], DefaultBacklog)
<1>1. n \in {"path", "backlog", "ownerOnly", "callback"}
  BY DEF ListenArguments
<1>2. /\ t["path"] = (IF IsObject(a[1]) THEN opts.path ELSE a[1])
      /\ t["backlog"] = (IF backlog \in {Null, Number(0)} THEN DefaultBacklog ELSE backlog)
      /\ t["ownerOnly"] = Default(opts.ownerOnly, Boolean(FALSE))
      /\ t["callback"] = (IF IsFunction(a[2]) THEN a[2]
                          ELSE IF IsFunction(a[3]) THEN a[3] ELSE a[4])
  BY DEF ListenArguments
<1>3. \A v : /\ OrDefault("path", v) = v /\ OrDefault("callback", v) = v
             /\ OrDefault("ownerOnly", v) = Default(v, Boolean(FALSE))
             /\ OrDefault("backlog", v) =
                  IF v \in {Absent, Null, Number(0)} THEN DefaultBacklog ELSE v
  BY DEF OrDefault, Default
<1>4. Absent.type = "undefined" /\ NoOptions.ownerOnly = Absent
  BY AbsentIs DEF OptionNames
<1>5. /\ "path" \in OptionsOf["listen"] /\ "backlog" \in OptionsOf["listen"]
      /\ "ownerOnly" \in OptionsOf["listen"]
  BY DEF OptionsOf
<1>6. sig \in {Sig(1, <<"path", "backlog", "opts", "callback">>),
               Sig(3, <<"path", "backlog", "callback">>),
               Sig(2, <<"path", "callback">>), Sig(1, <<"opts", "callback">>)}
  BY DEF Signatures
<1> SUFFICES /\ t["path"] = Given(sig, "path") /\ t["callback"] = Given(sig, "callback")
             /\ t["ownerOnly"] = Default(Given(sig, "ownerOnly"), Boolean(FALSE))
             /\ ~LeavesBacklogToOptions
                  => t["backlog"] = IF Given(sig, "backlog") \in {Absent, Null, Number(0)}
                                    THEN DefaultBacklog ELSE Given(sig, "backlog")
  BY <1>1, <1>3, ZenonT(60)
<1>7. CASE ~IsObject(a[1]) /\ ~IsFunction(a[2])
  <2>1. backlog = Default(a[2], DefaultBacklog)
    BY <1>7
  <2>2. t["backlog"] = IF a[2] \in {Absent, Null, Number(0)} THEN DefaultBacklog ELSE a[2]
    BY <1>2, <2>1 DEF Default
  <2> HIDE DEF a, t
  <2>3. CASE sig = Sig(1, <<"path", "backlog", "opts", "callback">>)
    <3>1. /\ Suits(a[1], 1, 1, "path") /\ Suits(a[3], 3, 1, "opts")
          /\ Given(sig, "path") = a[1] /\ Given(sig, "callback") = a[4]
          /\ Given(sig, "backlog") = IF a[2] = Absent THEN Option(a[3], "backlog") ELSE a[2]
          /\ Given(sig, "ownerOnly") = Option(a[3], "ownerOnly")
      BY <1>5, <2>3, OfFour DEF a
    <3>2. ~IsFunction(a[3]) /\ (IsObject(a[3]) <=> a[3] # Absent)
      BY <1>4, <3>1, SuitsIs DEF IsObject, IsFunction
    <3>3. t["ownerOnly"] = Default(Option(a[3], "ownerOnly"), Boolean(FALSE))
      BY <1>2, <1>4, <1>7, <3>2 DEF Option
    <3>4. ~LeavesBacklogToOptions => Given(sig, "backlog") = a[2]
      <4>1. a[1].type = "string"
        BY <3>1, SuitsIs
      <4>2. ~LeavesBacklogToOptions /\ a[2] = Absent => Option(a[3], "backlog") = Absent
        BY <3>2, <4>1 DEF LeavesBacklogToOptions, Option, a
      <4>3. QED
        BY <3>1, <4>2
    <3>5. QED
      BY <1>2, <1>7, <2>2, <3>1, <3>2, <3>3, <3>4
  <2>4. CASE sig = Sig(3, <<"path", "backlog", "callback">>)
    <3>1. /\ Suits(a[3], 3, 3, "callback") /\ Given(sig, "path") = a[1]
          /\ Given(sig, "backlog") = a[2] /\ Given(sig, "callback") = a[3]
          /\ Given(sig, "ownerOnly") = Absent
      BY <1>5, <2>4, OfThree DEF a
    <3>2. IsFunction(a[3]) /\ ~IsObject(a[3])
      BY <3>1, SuitsIs DEF IsObject, IsFunction
    <3>3. QED
      BY <1>2, <1>4, <1>7, <2>2, <3>1, <3>2
  <2>5. CASE sig = Sig(2, <<"path", "callback">>)
    <3>1. Suits(a[2], 2, 2, "callback")
      BY <1>5, <2>5, OfTwo DEF a
    <3>2. IsFunction(a[2])
      BY <3>1, SuitsIs DEF IsFunction
    <3>3. QED
      BY <1>7, <3>2
  <2>6. CASE sig = Sig(1, <<"opts", "callback">>)
    <3>1. Suits(a[1], 1, 1, "opts")
      BY <1>5, <2>6, OfTwo DEF a
    <3>2. IsObject(a[1])
      BY <3>1, SuitsIs DEF IsObject
    <3>3. QED
      BY <1>7, <3>2
  <2>7. QED
    BY <1>6, <2>3, <2>4, <2>5, <2>6
<1>8. CASE ~IsObject(a[1]) /\ IsFunction(a[2])
  <2>1. backlog = DefaultBacklog /\ t["backlog"] = DefaultBacklog
    BY <1>2, <1>8
  <2> HIDE DEF a, t
  <2>2. sig = Sig(2, <<"path", "callback">>)
    <3>1. ~Suits(a[2], 2, 1, "backlog") /\ ~Suits(a[2], 2, 3, "backlog")
      BY <1>4, <1>8, SuitsIs DEF IsFunction
    <3>2. ~Suits(a[1], 1, 1, "opts")
      BY <1>8, SuitsIs DEF IsObject
    <3>3. ASSUME sig = Sig(1, <<"path", "backlog", "opts", "callback">>) PROVE FALSE
      BY <3>1, <3>3, OfFour DEF a
    <3>4. ASSUME sig = Sig(3, <<"path", "backlog", "callback">>) PROVE FALSE
      BY <3>1, <3>4, OfThree DEF a
    <3>5. ASSUME sig = Sig(1, <<"opts", "callback">>) PROVE FALSE
      BY <3>2, <3>5, OfTwo DEF a
    <3>6. QED
      BY <1>6, <3>3, <3>4, <3>5
  <2>3. /\ Given(sig, "path") = a[1] /\ Given(sig, "callback") = a[2] /\ a[3] = Absent
        /\ Given(sig, "ownerOnly") = Absent /\ Given(sig, "backlog") = Absent
    BY <2>2, OfTwo DEF a
  <2>4. ~IsObject(a[3])
    BY <1>4, <2>3 DEF IsObject
  <2>5. QED
    BY <1>2, <1>4, <1>8, <2>1, <2>3, <2>4
<1>9. CASE IsObject(a[1])
  <2>1. backlog = BacklogOption(a[1].backlog)
    BY <1>9
  <2>2. t["backlog"] = IF a[1].backlog \in {Absent, Null, Number(0)}
                       THEN DefaultBacklog ELSE a[1].backlog
    BY <1>2, <2>1 DEF BacklogOption, defaultTo
  <2> HIDE DEF a, t
  <2>3. sig = Sig(1, <<"opts", "callback">>)
    <3>1. ~Suits(a[1], 1, 1, "path") /\ ~Suits(a[1], 1, 2, "path") /\ ~Suits(a[1], 1, 3, "path")
      BY <1>4, <1>9, SuitsIs DEF IsObject
    <3>2. ASSUME sig = Sig(1, <<"path", "backlog", "opts", "callback">>) PROVE FALSE
      BY <3>1, <3>2, OfFour DEF a
    <3>3. ASSUME sig = Sig(3, <<"path", "backlog", "callback">>) PROVE FALSE
      BY <3>1, <3>3, OfThree DEF a
    <3>4. ASSUME sig = Sig(2, <<"path", "callback">>) PROVE FALSE
      BY <3>1, <3>4, OfTwo DEF a
    <3>5. QED
      BY <1>6, <3>2, <3>3, <3>4
  <2>4. /\ Suits(a[2], 2, 1, "callback") /\ a[3] = Absent /\ a[4] = Absent
        /\ Given(sig, "callback") = a[2]
        /\ Given(sig, "path") = Option(a[1], "path")
        /\ Given(sig, "backlog") = Option(a[1], "backlog")
        /\ Given(sig, "ownerOnly") = Option(a[1], "ownerOnly")
    BY <1>5, <2>3, OfTwo DEF a
  <2>5. a[1] # Absent /\ ~IsFunction(a[3]) /\ (IsFunction(a[2]) \/ a[2] = Absent)
    BY <1>4, <1>9, <2>4, SuitsIs DEF IsObject, IsFunction
  <2>6. QED
    BY <1>2, <1>9, <2>2, <2>4, <2>5 DEF Option
<1>10. QED
  BY <1>7, <1>8, <1>9

LEMMA WriteAsDeclared ==
  ASSUME CallOK, call.method = "write", NEW sig \in Signatures["write"],
         Fits(sig, call.args), NEW n \in DOMAIN WriteArguments(call.args)
  PROVE  WriteArguments(call.args)[n] = OrDefault(n, Given(sig, n))
<1> DEFINE a == call.args
           t == WriteArguments(a)
<1>1. n \in {"encoding", "handle", "callback"}
  BY DEF WriteArguments
<1>2. Absent.type = "undefined"
  BY DEF Absent
<1>3. OrDefault(n, Given(sig, n)) = Given(sig, n)
  BY <1>1, NoDefault
<1>4. OptionsOf["write"] = {}
  BY DEF OptionsOf
<1>5. sig \in {Sig(1, <<"encoding", "handle", "callback">>), Sig(1, <<"encoding", "callback">>),
               Sig(0, <<"handle", "callback">>), Sig(0, <<"callback">>)}
  BY DEF Signatures
<1>6. /\ IsFunction(a[1]) =>
           t["encoding"] = Absent /\ t["handle"] = Absent /\ t["callback"] = a[1]
      /\ IsObject(a[1]) =>
           /\ t["encoding"] = Absent /\ t["handle"] = a[1]
           /\ t["callback"] = IF IsFunction(a[2]) THEN a[2] ELSE a[3]
      /\ ~IsFunction(a[1]) /\ ~IsObject(a[1]) /\ IsFunction(a[2]) =>
           t["encoding"] = a[1] /\ t["handle"] = Absent /\ t["callback"] = a[2]
      /\ ~IsFunction(a[1]) /\ ~IsObject(a[1]) /\ ~IsFunction(a[2]) =>
           t["encoding"] = a[1] /\ t["handle"] = a[2] /\ t["callback"] = a[3]
  BY DEF WriteArguments, IsFunction, IsObject
<1> SUFFICES /\ t["encoding"] = Given(sig, "encoding") /\ t["handle"] = Given(sig, "handle")
             /\ t["callback"] = Given(sig, "callback")
  BY <1>1, <1>3
<1> HIDE DEF a, t
<1>7. CASE sig = Sig(1, <<"encoding", "handle", "callback">>)
  <2>1. /\ Suits(a[1], 1, 1, "encoding") /\ Suits(a[2], 2, 1, "handle")
        /\ Given(sig, "encoding") = a[1] /\ Given(sig, "handle") = a[2]
        /\ Given(sig, "callback") = a[3]
    BY <1>7, OfThree DEF a
  <2>2. ~IsFunction(a[1]) /\ ~IsObject(a[1]) /\ ~IsFunction(a[2])
    BY <1>2, <2>1, SuitsIs DEF IsFunction, IsObject
  <2>3. QED
    BY <1>6, <2>1, <2>2
<1>8. CASE sig = Sig(1, <<"encoding", "callback">>)
  <2>1. /\ Suits(a[1], 1, 1, "encoding") /\ Suits(a[2], 2, 1, "callback") /\ a[3] = Absent
        /\ Given(sig, "encoding") = a[1] /\ Given(sig, "callback") = a[2]
        /\ Given(sig, "handle") = Absent
    BY <1>4, <1>8, OfTwo DEF a
  <2>2. ~IsFunction(a[1]) /\ ~IsObject(a[1]) /\ (IsFunction(a[2]) \/ a[2] = Absent)
    BY <1>2, <2>1, SuitsIs DEF IsFunction, IsObject
  <2>3. QED
    BY <1>6, <2>1, <2>2
<1>9. CASE sig = Sig(0, <<"handle", "callback">>)
  <2>1. /\ Suits(a[1], 1, 0, "handle") /\ Suits(a[2], 2, 0, "callback") /\ a[3] = Absent
        /\ Given(sig, "handle") = a[1] /\ Given(sig, "callback") = a[2]
        /\ Given(sig, "encoding") = Absent
    BY <1>4, <1>9, OfTwo DEF a
  <2>2. /\ (IsObject(a[1]) /\ ~IsFunction(a[1])) \/ a[1] = Absent
        /\ IsFunction(a[2]) \/ a[2] = Absent
    BY <1>2, <2>1, SuitsIs DEF IsFunction, IsObject
  <2>3. a[1] = Absent => ~IsFunction(a[1]) /\ ~IsObject(a[1])
    BY <1>2 DEF IsFunction, IsObject
  <2>4. QED
    BY <1>6, <2>1, <2>2, <2>3
<1>10. CASE sig = Sig(0, <<"callback">>)
  <2>1. /\ Suits(a[1], 1, 0, "callback") /\ a[2] = Absent /\ a[3] = Absent
        /\ Given(sig, "callback") = a[1]
        /\ Given(sig, "handle") = Absent /\ Given(sig, "encoding") = Absent
    BY <1>4, <1>10, OfOne DEF a
  <2>2. IsFunction(a[1]) \/ a[1] = Absent
    BY <2>1, SuitsIs DEF IsFunction
  <2>3. /\ a[1] = Absent => ~IsFunction(a[1]) /\ ~IsObject(a[1])
        /\ ~IsFunction(a[2])
    BY <1>2, <2>1 DEF IsFunction, IsObject
  <2>4. QED
    BY <1>6, <2>1, <2>2, <2>3
<1>11. QED
  BY <1>5, <1>7, <1>8, <1>9, <1>10

LEMMA ConstructorAsDeclared ==
  ASSUME CallOK, call.method = "Pipe", NEW sig \in Signatures["Pipe"],
         Fits(sig, call.args), NEW n \in DOMAIN ConstructorArguments(call.args)
  PROVE  ConstructorArguments(call.args)[n] = OrDefault(n, Given(sig, n))
<1> DEFINE a == call.args
           t == ConstructorArguments(a)
           opts == IF IsObject(a[1]) THEN a[1] ELSE Default(a[2], NoOptions)
<1>1. n \in {"path", "fd", "readBufferSize"}
  BY DEF ConstructorArguments
<1>2. /\ t["path"] = (IF a[1].type = "string" THEN a[1] ELSE Absent)
      /\ t["fd"] = (IF a[1].type = "number" THEN a[1] ELSE Absent)
      /\ t["readBufferSize"] = Default(opts.readBufferSize, DefaultSize)
  BY DEF ConstructorArguments
<1>3. Absent.type = "undefined" /\ NoOptions.readBufferSize = Absent
  BY AbsentIs DEF OptionNames
<1>4. \A v : /\ OrDefault("path", v) = v /\ OrDefault("fd", v) = v
             /\ OrDefault("readBufferSize", v) = Default(v, DefaultSize)
  BY DEF OrDefault, Default
<1>5. OptionsOf["Pipe"] = {"readBufferSize"}
  BY DEF OptionsOf
<1>6. sig \in {Sig(1, <<"path", "opts">>), Sig(1, <<"fd", "opts">>), Sig(0, <<"opts">>)}
  BY DEF Signatures
<1> SUFFICES /\ t["path"] = Given(sig, "path") /\ t["fd"] = Given(sig, "fd")
             /\ t["readBufferSize"] = Default(Given(sig, "readBufferSize"), DefaultSize)
  BY <1>1, <1>4
<1> HIDE DEF a, t
<1>7. ASSUME opts = Default(a[2], NoOptions)
      PROVE  t["readBufferSize"] = Default(Option(a[2], "readBufferSize"), DefaultSize)
  BY <1>2, <1>3, <1>7 DEF Default, Option
<1>8. CASE sig = Sig(1, <<"path", "opts">>)
  <2>1. /\ Suits(a[1], 1, 1, "path") /\ Given(sig, "path") = a[1] /\ Given(sig, "fd") = Absent
        /\ Given(sig, "readBufferSize") = Option(a[2], "readBufferSize")
    BY <1>5, <1>8, OfTwo DEF a
  <2>2. a[1].type = "string"
    BY <1>3, <2>1, SuitsIs
  <2>3. opts = Default(a[2], NoOptions)
    BY <2>2 DEF IsObject
  <2>4. QED
    BY <1>2, <1>7, <2>1, <2>2, <2>3
<1>9. CASE sig = Sig(1, <<"fd", "opts">>)
  <2>1. /\ Suits(a[1], 1, 1, "fd") /\ Given(sig, "fd") = a[1] /\ Given(sig, "path") = Absent
        /\ Given(sig, "readBufferSize") = Option(a[2], "readBufferSize")
    BY <1>5, <1>9, OfTwo DEF a
  <2>2. a[1].type = "number"
    BY <1>3, <2>1, SuitsIs
  <2>3. opts = Default(a[2], NoOptions)
    BY <2>2 DEF IsObject
  <2>4. QED
    BY <1>2, <1>7, <2>1, <2>2, <2>3
<1>10. CASE sig = Sig(0, <<"opts">>)
  <2>1. /\ Suits(a[1], 1, 0, "opts") /\ Given(sig, "fd") = Absent /\ Given(sig, "path") = Absent
        /\ Given(sig, "readBufferSize") = Option(a[1], "readBufferSize") /\ a[2] = Absent
    BY <1>5, <1>10, OfOne DEF a
  <2>2. /\ a[1].type = "object" \/ a[1] = Absent
        /\ a[1].type # "string" /\ a[1].type # "number"
    BY <1>3, <2>1, SuitsIs
  <2>3. CASE a[1].type = "object"
    <3>1. opts = a[1] /\ a[1] # Absent
      BY <1>3, <2>3 DEF IsObject
    <3>2. QED
      BY <1>2, <2>1, <2>2, <3>1 DEF Option
  <2>4. CASE a[1] = Absent
    <3>1. opts = NoOptions
      BY <1>3, <2>1, <2>4 DEF IsObject, Default
    <3>2. QED
      BY <1>2, <1>3, <2>1, <2>2, <2>4, <3>1 DEF Option
  <2>5. QED
    BY <2>2, <2>3, <2>4
<1>11. QED
  BY <1>6, <1>8, <1>9, <1>10

LEMMA ServerAsDeclared ==
  ASSUME CallOK, call.method = "Server", NEW sig \in Signatures["Server"],
         Fits(sig, call.args), NEW n \in DOMAIN ServerArguments(call.args)
  PROVE  ServerArguments(call.args)[n] = OrDefault(n, Given(sig, n))
<1> DEFINE a == call.args
           t == ServerArguments(a)
           opts == IF IsFunction(a[1]) THEN NoOptions ELSE Default(a[1], NoOptions)
<1>1. n \in {"readBufferSize", "callback"}
  BY DEF ServerArguments
<1>2. /\ t["readBufferSize"] = Default(opts.readBufferSize, DefaultSize)
      /\ t["callback"] = (IF IsFunction(a[1]) THEN a[1] ELSE a[2])
  BY DEF ServerArguments
<1>3. Absent.type = "undefined" /\ NoOptions.readBufferSize = Absent
  BY AbsentIs DEF OptionNames
<1>4. \A v : /\ OrDefault("callback", v) = v
             /\ OrDefault("readBufferSize", v) = Default(v, DefaultSize)
  BY DEF OrDefault, Default
<1>5. OptionsOf["Server"] = {"readBufferSize"}
  BY DEF OptionsOf
<1>6. sig \in {Sig(0, <<"opts", "callback">>), Sig(1, <<"callback">>)}
  BY DEF Signatures
<1> SUFFICES /\ t["callback"] = Given(sig, "callback")
             /\ t["readBufferSize"] = Default(Given(sig, "readBufferSize"), DefaultSize)
  BY <1>1, <1>4
<1> HIDE DEF a, t
<1>7. CASE sig = Sig(0, <<"opts", "callback">>)
  <2>1. /\ Suits(a[1], 1, 0, "opts") /\ Given(sig, "callback") = a[2]
        /\ Given(sig, "readBufferSize") = Option(a[1], "readBufferSize")
    BY <1>5, <1>7, OfTwo DEF a
  <2>2. ~IsFunction(a[1])
    BY <1>3, <2>1, SuitsIs DEF IsFunction
  <2>3. QED
    BY <1>2, <1>3, <2>1, <2>2 DEF Default, Option
<1>8. CASE sig = Sig(1, <<"callback">>)
  <2>1. /\ Suits(a[1], 1, 1, "callback") /\ Given(sig, "callback") = a[1]
        /\ Given(sig, "readBufferSize") = Absent
    BY <1>5, <1>8, OfOne DEF a
  <2>2. IsFunction(a[1])
    BY <2>1, SuitsIs DEF IsFunction
  <2>3. QED
    BY <1>2, <1>3, <2>1, <2>2
<1>9. QED
  BY <1>6, <1>7, <1>8

LEMMA ConnectionAsDeclared ==
  ASSUME CallOK, call.method = "createConnection", NEW sig \in Signatures["createConnection"],
         Fits(sig, call.args), NEW n \in DOMAIN ConnectionArguments(call.args)
  PROVE  ConnectionArguments(call.args)[n] = OrDefault(n, Given(sig, n))
<1> DEFINE a == call.args
           t == ConnectionArguments(a)
           opts == IF IsObject(a[1]) THEN a[1]
                   ELSE IF IsFunction(a[2]) THEN NoOptions ELSE a[2]
           path == IF IsObject(a[1]) THEN opts.path ELSE a[1]
           cb == IF IsFunction(a[2]) THEN a[2] ELSE a[3]
           b == <<path, Default(opts, NoOptions), cb>>
           c == <<opts, Absent>>
           options == IF IsObject(c[1]) THEN c[1] ELSE Default(c[2], NoOptions)
<1>1. n \in {"path", "callback", "readBufferSize"}
  BY DEF ConnectionArguments, ConnectionOptions
<1>2. /\ t["path"] = Overloaded(b, "path").path
      /\ t["callback"] = Overloaded(b, "path").callback
      /\ t["readBufferSize"] = ConstructorArguments(c).readBufferSize
  BY DEF ConnectionArguments, ConnectionOptions
<1>3. Absent.type = "undefined" /\ NoOptions.type = "object" /\ NoOptions.readBufferSize = Absent
  BY AbsentIs DEF OptionNames
<1>4. \A v : /\ OrDefault("path", v) = v /\ OrDefault("callback", v) = v
             /\ OrDefault("readBufferSize", v) = Default(v, DefaultSize)
  BY DEF OrDefault, Default
<1>5. "path" \in OptionsOf["createConnection"] /\ "readBufferSize" \in OptionsOf["createConnection"]
  BY DEF OptionsOf
<1>6. sig \in {Sig(1, <<"path", "opts", "callback">>), Sig(2, <<"path", "callback">>),
               Sig(1, <<"opts", "callback">>)}
  BY DEF Signatures
<1> SUFFICES /\ t["path"] = Given(sig, "path") /\ t["callback"] = Given(sig, "callback")
             /\ t["readBufferSize"] = Default(Given(sig, "readBufferSize"), DefaultSize)
  BY <1>1, <1>4
<1>7. /\ b[1] = path /\ b[2] = Default(opts, NoOptions) /\ b[3] = cb
      /\ c[1] = opts /\ c[2] = Absent
  OBVIOUS
<1>8. IsObject(a[1]) => ~IsObject(a[1].path)
  <2>1. 1 \in 1..4 /\ IsArgument("createConnection", 1, call.args[1]) /\ "path" \in OptionNames
    BY DEF CallOK, OptionNames
  <2>2. IsObject(a[1]) => IsPlain(a[1]["path"])
    BY <2>1 DEF IsArgument
  <2>3. QED
    BY <2>2, PlainIs DEF IsObject
<1> HIDE DEF a, t, b, c
<1>9. t["readBufferSize"] =
        Default((IF IsObject(opts) THEN opts ELSE NoOptions).readBufferSize, DefaultSize)
  <2>1. options = IF IsObject(opts) THEN opts ELSE NoOptions
    BY <1>7 DEF Default
  <2>2. ConstructorArguments(c).readBufferSize = Default(options.readBufferSize, DefaultSize)
    BY DEF ConstructorArguments
  <2>3. QED
    BY <1>2, <2>1, <2>2
<1>10. /\ t["path"] = IF IsObject(path) THEN path.path ELSE path
       /\ t["callback"] = IF IsFunction(Default(opts, NoOptions)) THEN Default(opts, NoOptions)
                          ELSE cb
  BY <1>2, <1>7 DEF Overloaded
<1>11. ~IsFunction(Default(opts, NoOptions))
  BY <1>3 DEF Default, IsFunction, IsObject
<1>12. CASE sig = Sig(1, <<"path", "opts", "callback">>)
  <2>1. /\ Suits(a[1], 1, 1, "path") /\ Suits(a[2], 2, 1, "opts")
        /\ Given(sig, "path") = a[1] /\ Given(sig, "callback") = a[3]
        /\ Given(sig, "readBufferSize") = Option(a[2], "readBufferSize")
    BY <1>5, <1>12, OfThree DEF a
  <2>2. ~IsObject(a[1]) /\ ~IsFunction(a[2]) /\ (IsObject(a[2]) <=> a[2] # Absent)
    BY <1>3, <2>1, SuitsIs DEF IsObject, IsFunction
  <2>3. opts = a[2] /\ path = a[1] /\ cb = a[3]
    BY <2>2
  <2>4. QED
    BY <1>3, <1>9, <1>10, <1>11, <2>1, <2>2, <2>3 DEF Option
<1>13. CASE sig = Sig(2, <<"path", "callback">>)
  <2>1. /\ Suits(a[1], 1, 2, "path") /\ Suits(a[2], 2, 2, "callback")
        /\ Given(sig, "path") = a[1] /\ Given(sig, "callback") = a[2]
        /\ Given(sig, "readBufferSize") = Absent
    BY <1>5, <1>13, OfTwo DEF a
  <2>2. ~IsObject(a[1]) /\ IsFunction(a[2])
    BY <1>3, <2>1, SuitsIs DEF IsObject, IsFunction
  <2>3. opts = NoOptions /\ path = a[1] /\ cb = a[2]
    BY <2>2
  <2>4. QED
    BY <1>3, <1>9, <1>10, <1>11, <2>1, <2>2, <2>3 DEF IsObject
<1>14. CASE sig = Sig(1, <<"opts", "callback">>)
  <2>1. /\ Suits(a[1], 1, 1, "opts") /\ Suits(a[2], 2, 1, "callback") /\ a[3] = Absent
        /\ Given(sig, "path") = Option(a[1], "path") /\ Given(sig, "callback") = a[2]
        /\ Given(sig, "readBufferSize") = Option(a[1], "readBufferSize")
    BY <1>5, <1>14, OfTwo DEF a
  <2>2. IsObject(a[1]) /\ a[1] # Absent /\ (IsFunction(a[2]) \/ a[2] = Absent)
    BY <1>3, <2>1, SuitsIs DEF IsObject, IsFunction
  <2>3. opts = a[1] /\ path = a[1].path /\ cb = a[2]
    BY <2>1, <2>2
  <2>4. QED
    BY <1>3, <1>8, <1>9, <1>10, <1>11, <2>1, <2>2, <2>3 DEF Option
<1>15. QED
  BY <1>6, <1>12, <1>13, <1>14

\* listen() looks for a backlog in the options only in place of the path.
LEMMA BacklogIsLost ==
  ASSUME LeavesBacklogToOptions
  PROVE  ListenArguments(call.args).backlog = DefaultBacklog
<1> DEFINE a == call.args
<1>1. ~IsObject(a[1]) /\ ~IsFunction(a[2]) /\ a[2] = Absent
  BY AbsentIs DEF LeavesBacklogToOptions, IsObject, IsFunction
<1>2. Default(a[2], DefaultBacklog) = DefaultBacklog
  BY <1>1 DEF Default
<1>3. QED
  BY <1>1, <1>2 DEF ListenArguments

(***************************************************************************)
(* Every overload that index.d.ts declares is read as it declares it, for  *)
(* whatever values: no argument is dropped, taken for another or replaced  *)
(* by a default in its stead, but the backlog that listen(path, undefined, *)
(* { backlog }) leaves to the options, which is the default.               *)
(***************************************************************************)
THEOREM ReadAsDeclared == Spec => []AsDeclared
<1>1. ReadInv => AsDeclared
  <2>10. LeavesBacklogToOptions => Taking(call.method, call.args)["backlog"] = DefaultBacklog
    BY BacklogIsLost DEF LeavesBacklogToOptions, Taking
  <2>1. SUFFICES ASSUME CallOK, NEW sig \in Signatures[call.method], Fits(sig, call.args),
                        NEW n \in DOMAIN Taking(call.method, call.args),
                        n = "backlog" => ~LeavesBacklogToOptions
                 PROVE  Taking(call.method, call.args)[n] = OrDefault(n, Given(sig, n))
    BY <2>10 DEF ReadInv, Returned, AsDeclared
  <2>2. CASE call.method = "connect"
    <3>1. sig \in {Sig(1, <<"path", "opts", "callback">>), Sig(2, <<"path", "callback">>),
                   Sig(1, <<"opts", "callback">>)}
      BY <2>1, <2>2 DEF Signatures
    <3>2. "path" \in {"path", "fd"} /\ "path" \in OptionsOf[call.method]
      BY <2>2 DEF OptionsOf
    <3>3. Taking(call.method, call.args) = Overloaded(call.args, "path")
      BY <2>2 DEF Taking
    <3>4. QED
      BY <2>1, <3>1, <3>2, <3>3, OverloadedAsDeclared
  <2>3. CASE call.method = "open"
    <3>1. sig \in {Sig(1, <<"fd", "opts", "callback">>), Sig(2, <<"fd", "callback">>),
                   Sig(1, <<"opts", "callback">>)}
      BY <2>1, <2>3 DEF Signatures
    <3>2. "fd" \in {"path", "fd"} /\ "fd" \in OptionsOf[call.method]
      BY <2>3 DEF OptionsOf
    <3>3. Taking(call.method, call.args) = Overloaded(call.args, "fd")
      BY <2>3 DEF Taking
    <3>4. QED
      BY <2>1, <3>1, <3>2, <3>3, OverloadedAsDeclared
  <2>4. CASE call.method = "listen"
    BY <2>1, <2>4, ListenAsDeclared DEF Taking
  <2>5. CASE call.method = "write"
    BY <2>1, <2>5, WriteAsDeclared DEF Taking
  <2>6. CASE call.method = "Pipe"
    BY <2>1, <2>6, ConstructorAsDeclared DEF Taking
  <2>7. CASE call.method = "Server"
    BY <2>1, <2>7, ServerAsDeclared DEF Taking
  <2>8. CASE call.method = "createConnection"
    BY <2>1, <2>8, ConnectionAsDeclared DEF Taking
  <2>9. QED
    BY <2>1, <2>2, <2>3, <2>4, <2>5, <2>6, <2>7, <2>8 DEF CallOK, Methods
<1>2. QED
  BY <1>1, SpecReadInv, PTL

-----------------------------------------------------------------------------
(* The validation.                                                         *)

\* A value that a call can be given, and any of its options.
Value(v) == IsObject(v) \/ IsPlain(v)

LEMMA ArgumentValue ==
  ASSUME CallOK, NEW i \in 1..4
  PROVE  /\ Value(call.args[i])
         /\ call.method # "write" /\ IsObject(call.args[i])
              => \A n \in OptionNames : IsPlain(call.args[i][n])
BY DEF CallOK, IsArgument, Value

\* The values that stand in for the ones that are not there.
LEMMA DefaultsPlain ==
  /\ IsPlain(Absent) /\ IsPlain(DefaultBacklog) /\ IsPlain(DefaultSize)
  /\ IsPlain(Boolean(FALSE)) /\ \A n \in OptionNames : IsPlain(NoOptions[n])
<1>1. IsPlain(Absent) /\ IsPlain(Boolean(FALSE))
  BY DEF IsPlain
<1>2. IsPlain(DefaultBacklog)
  BY ArgumentsAssumption DEF IsPlain, DefaultBacklog, Number
<1>3. IsPlain(DefaultSize)
  BY DEF IsPlain, DefaultSize, Number
<1>4. QED
  BY <1>1, <1>2, <1>3, AbsentIs

\* validatePath, validateFd and validateInteger of any value at all.
LEMMA ValidExactly ==
  ASSUME NEW v, Value(v)
  PROVE  /\ validatePath(v) <=> Reaches("path", v)
         /\ validateFd(v) <=> Reaches("fd", v)
         /\ validateInteger(v, 0) <=> Reaches("backlog", v)
         /\ validateInteger(v, 1) <=> Reaches("readBufferSize", v)
<1>1. validatePath(v) <=> Reaches("path", v)
  <2>1. CASE v.type = "string"
    <3>1. v.chars \in Nat /\ v.width \in Nat \ {0}
      BY <2>1, PlainIs DEF Value, IsObject
    <3>2. QED
      BY <2>1, <3>1, PathExactly
  <2>2. CASE v.type # "string"
    BY <2>2 DEF validatePath, Reaches
  <2>3. QED
    BY <2>1, <2>2
<1>2. /\ validateInteger(v, 0) <=> Reaches("backlog", v)
      /\ validateInteger(v, 1) <=> Reaches("readBufferSize", v)
  <2>1. CASE v.type = "number"
    <3>1. v.integer \in BOOLEAN /\ (v.integer => v.value \in Int)
      BY <2>1, PlainIs DEF Value, IsObject
    <3>2. QED
      BY <2>1, <3>1, IntegerExactly
  <2>2. CASE v.type # "number"
    BY <2>2 DEF validateInteger, Reaches
  <2>3. QED
    BY <2>1, <2>2
<1>3. Reaches("fd", v) <=> Reaches("backlog", v)
  BY DEF Reaches
<1>4. QED
  BY <1>1, <1>2, <1>3 DEF validateFd

\* The values that the binding is not given, or that it takes as they are.
LEMMA OthersReach ==
  ASSUME NEW v
  PROVE  /\ Reaches("callback", v) /\ Reaches("encoding", v)
         /\ Reaches("ownerOnly", v) <=> v.type = "boolean"
         /\ Reaches("handle", v) <=> v.type = "object" /\ v.native = "buffer"
BY DEF Reaches

\* Everything a call was taken for reaches libuv as it is.
Optional == IF call.method = "Pipe" THEN {"path", "fd"} ELSE {"handle"}

Whole(t) ==
  /\ \A n \in DOMAIN t : Reaches(n, t[n]) \/ (n \in Optional /\ t[n] = Absent)
  /\ "ownerOnly" \in DOMAIN t /\ t.ownerOnly = Boolean(TRUE)
       => t.path.chars # 0 /\ ~t.path.nul

LEMMA OverloadedWhole ==
  ASSUME CallOK, NEW name \in {"path", "fd"},
         call.method \in {"connect", "open"}
  PROVE  LET t == Overloaded(call.args, name)
         IN  /\ Whole(t) <=> Reaches(name, t[name])
             /\ Value(t[name])
<1> DEFINE t == Overloaded(call.args, name)
<1>1. DOMAIN t = {name, "callback"} /\ name # "callback" /\ "ownerOnly" \notin DOMAIN t
  BY DEF Overloaded
<1>2. t[name] = IF IsObject(call.args[1]) THEN call.args[1][name] ELSE call.args[1]
  BY DEF Overloaded
<1>3. name \notin Optional /\ "callback" \notin Optional
  BY DEF Optional
<1>4. Value(t[name])
  <2>1. name \in OptionNames /\ 1 \in 1..4 /\ call.method # "write"
    BY DEF OptionNames
  <2>2. Value(call.args[1]) /\ (IsObject(call.args[1]) => IsPlain(call.args[1][name]))
    BY <2>1, ArgumentValue
  <2>3. QED
    BY <1>2, <2>2 DEF Value
<1>5. QED
  BY <1>1, <1>3, <1>4, OthersReach DEF Whole

LEMMA ListenWhole ==
  ASSUME CallOK, call.method = "listen"
  PROVE  LET t == ListenArguments(call.args)
         IN  Whole(t) <=> validateListen(t)
<1> DEFINE a == call.args
           opts == IF IsObject(a[1]) THEN a[1] ELSE IF IsObject(a[3]) THEN a[3] ELSE NoOptions
           backlog == IF IsObject(a[1]) THEN BacklogOption(opts.backlog)
                      ELSE IF IsFunction(a[2]) THEN DefaultBacklog
                      ELSE Default(a[2], DefaultBacklog)
           t == ListenArguments(a)
<1>1. /\ DOMAIN t = {"path", "backlog", "ownerOnly", "callback"}
      /\ "path" \notin Optional /\ "backlog" \notin Optional /\ "ownerOnly" \notin Optional
  BY DEF ListenArguments, Optional
<1>2. /\ t["path"] = (IF IsObject(a[1]) THEN opts.path ELSE a[1])
      /\ t["backlog"] = (IF backlog \in {Null, Number(0)} THEN DefaultBacklog ELSE backlog)
      /\ t["ownerOnly"] = Default(opts.ownerOnly, Boolean(FALSE))
  BY DEF ListenArguments
<1>3. \A i \in 1..4 : /\ Value(a[i])
                      /\ IsObject(a[i]) => \A n \in OptionNames : IsPlain(a[i][n])
  BY ArgumentValue
<1>4. 1 \in 1..4 /\ 2 \in 1..4 /\ 3 \in 1..4
  OBVIOUS
<1> HIDE DEF a, t
<1>5. \A n \in OptionNames : IsPlain(opts[n])
  BY <1>3, <1>4, DefaultsPlain
<1>6. IsPlain(opts.path) /\ IsPlain(opts.backlog) /\ IsPlain(opts.ownerOnly)
  BY <1>5 DEF OptionNames
<1> HIDE DEF opts
<1>7. Value(t["path"])
  BY <1>2, <1>3, <1>4, <1>6 DEF Value
<1>8. Value(backlog) /\ Value(t["backlog"])
  <2>1. Value(DefaultBacklog) /\ Value(BacklogOption(opts.backlog))
    BY <1>6, DefaultsPlain DEF Value, BacklogOption, defaultTo
  <2>2. Value(Default(a[2], DefaultBacklog))
    BY <1>3, <1>4, <2>1 DEF Default
  <2>3. QED
    BY <1>2, <2>1, <2>2
<1> HIDE DEF backlog
<1>9. IsPlain(t["ownerOnly"])
  BY <1>2, <1>6, DefaultsPlain DEF Default
<1>10. t["ownerOnly"].type = "boolean" =>
         (t["ownerOnly"].value <=> t["ownerOnly"] = Boolean(TRUE))
  <2>1. Boolean(TRUE).value = TRUE /\ Boolean(FALSE).value = FALSE
    BY DEF Boolean
  <2>2. t["ownerOnly"].type = "boolean" => t["ownerOnly"] \in {Boolean(TRUE), Boolean(FALSE)}
    BY <1>9, PlainIs
  <2>3. QED
    BY <2>1, <2>2
<1>11. t["path"].type = "string" => (t["path"].chars > 0 <=> t["path"].chars # 0)
  <2>1. t["path"].type = "string" => t["path"].chars \in Nat
    BY <1>7, PlainIs DEF Value, IsObject
  <2>2. QED
    BY <2>1
<1>12. /\ validatePath(t["path"]) <=> Reaches("path", t["path"])
       /\ validateInteger(t["backlog"], 0) <=> Reaches("backlog", t["backlog"])
       /\ validatePath(t["path"]) => t["path"].type = "string"
  BY <1>7, <1>8, ValidExactly DEF validatePath
<1>13. Whole(t) <=> /\ Reaches("path", t["path"]) /\ Reaches("backlog", t["backlog"])
                    /\ t["ownerOnly"].type = "boolean"
                    /\ t["ownerOnly"] = Boolean(TRUE) => t["path"].chars # 0 /\ ~t["path"].nul
  BY <1>1, OthersReach DEF Whole
<1>14. validateListen(t) <=> /\ validatePath(t["path"]) /\ validateInteger(t["backlog"], 0)
                             /\ t["ownerOnly"].type = "boolean"
                             /\ t["ownerOnly"].value => t["path"].chars > 0 /\ ~t["path"].nul
  BY DEF validateListen
<1>15. Whole(t) <=> validateListen(t)
  BY <1>10, <1>11, <1>12, <1>13, <1>14
<1>16. QED
  BY <1>15 DEF t, a

LEMMA WriteWhole ==
  ASSUME CallOK, call.method = "write"
  PROVE  LET t == WriteArguments(call.args)
         IN  Whole(t) <=> (t.handle = Absent \/ toIPCHandle(t.handle))
<1> DEFINE a == call.args
           t == WriteArguments(a)
<1>1. DOMAIN t = {"encoding", "handle", "callback"} /\ Optional = {"handle"}
  BY DEF WriteArguments, Optional
<1>2. t["handle"] = Absent \/ t["handle"].type = "object"
  <2>1. t["handle"] = Absent \/ (t["handle"] = a[1] /\ IsObject(a[1]))
          \/ (t["handle"] = a[2] /\ ~IsFunction(a[2]))
    BY DEF WriteArguments
  <2>2. TypesAt("write", 2) = {"undefined", "function", "object"}
    BY DEF TypesAt
  <2>3. a[2].type \in {"undefined", "function", "object"}
          /\ (a[2].type = "undefined" => a[2] = Absent)
    BY <2>2, ArgumentIs
  <2>4. QED
    BY <2>1, <2>3 DEF IsObject, IsFunction
<1> HIDE DEF a, t
<1>3. Whole(t) <=> Reaches("handle", t["handle"]) \/ t["handle"] = Absent
  BY <1>1, OthersReach DEF Whole
<1>4. Whole(t) <=> (t.handle = Absent \/ toIPCHandle(t.handle))
  BY <1>2, <1>3, OthersReach DEF toIPCHandle
<1>5. QED
  BY <1>4 DEF t, a

\* The options of a constructor, and the size they give or leave out.
LEMMA SizeValue ==
  ASSUME NEW opts, opts = NoOptions \/ \A n \in OptionNames : IsPlain(opts[n])
  PROVE  Value(Default(opts.readBufferSize, DefaultSize))
<1>1. IsPlain(opts.readBufferSize)
  BY DefaultsPlain DEF OptionNames
<1>2. QED
  BY <1>1, DefaultsPlain DEF Default, Value

LEMMA ConstructorWhole ==
  ASSUME CallOK, call.method = "Pipe"
  PROVE  LET t == ConstructorArguments(call.args)
         IN  Whole(t) <=> /\ validateInteger(t.readBufferSize, 1)
                          /\ t.path # Absent => validatePath(t.path)
                          /\ t.fd # Absent => validateFd(t.fd)
<1> DEFINE a == call.args
           opts == IF IsObject(a[1]) THEN a[1] ELSE Default(a[2], NoOptions)
           t == ConstructorArguments(a)
<1>1. /\ DOMAIN t = {"path", "fd", "readBufferSize"} /\ "ownerOnly" \notin DOMAIN t
      /\ Optional = {"path", "fd"}
  BY DEF ConstructorArguments, Optional
<1>2. /\ t["path"] = (IF a[1].type = "string" THEN a[1] ELSE Absent)
      /\ t["fd"] = (IF a[1].type = "number" THEN a[1] ELSE Absent)
      /\ t["readBufferSize"] = Default(opts.readBufferSize, DefaultSize)
  BY DEF ConstructorArguments
<1>3. \A i \in 1..2 : /\ Value(a[i])
                      /\ IsObject(a[i]) => \A n \in OptionNames : IsPlain(a[i][n])
  BY ArgumentValue
<1>4. IsObject(a[2]) \/ a[2] = Absent
  <2>1. TypesAt("Pipe", 2) = {"undefined", "object"}
    BY DEF TypesAt
  <2>2. QED
    BY <2>1, ArgumentIs DEF IsObject
<1> HIDE DEF a, t
<1>5. opts = NoOptions \/ \A n \in OptionNames : IsPlain(opts[n])
  BY <1>3, <1>4 DEF Default
<1> HIDE DEF opts
<1>6. Value(t["readBufferSize"])
  BY <1>2, <1>5, SizeValue
<1>7. Value(t["path"]) /\ Value(t["fd"])
  BY <1>2, <1>3, DefaultsPlain DEF Value
<1>8. Whole(t) <=> /\ Reaches("readBufferSize", t["readBufferSize"])
                   /\ Reaches("path", t["path"]) \/ t["path"] = Absent
                   /\ Reaches("fd", t["fd"]) \/ t["fd"] = Absent
  BY <1>1 DEF Whole
<1>9. Whole(t) <=> /\ validateInteger(t["readBufferSize"], 1)
                   /\ t["path"] # Absent => validatePath(t["path"])
                   /\ t["fd"] # Absent => validateFd(t["fd"])
  BY <1>6, <1>7, <1>8, ValidExactly
<1>10. QED
  BY <1>9 DEF t, a

LEMMA ServerWhole ==
  ASSUME CallOK, call.method = "Server"
  PROVE  LET t == ServerArguments(call.args)
         IN  Whole(t) <=> validateInteger(t.readBufferSize, 1)
<1> DEFINE a == call.args
           opts == IF IsFunction(a[1]) THEN NoOptions ELSE Default(a[1], NoOptions)
           t == ServerArguments(a)
<1>1. /\ DOMAIN t = {"readBufferSize", "callback"} /\ "ownerOnly" \notin DOMAIN t
      /\ "readBufferSize" \notin Optional
      /\ t["readBufferSize"] = Default(opts.readBufferSize, DefaultSize)
  BY DEF ServerArguments, Optional
<1>2. IsObject(a[1]) => \A n \in OptionNames : IsPlain(a[1][n])
  BY ArgumentValue
<1>3. IsObject(a[1]) \/ IsFunction(a[1]) \/ a[1] = Absent
  <2>1. TypesAt("Server", 1) = {"undefined", "function", "object"}
    BY DEF TypesAt
  <2>2. QED
    BY <2>1, ArgumentIs DEF IsObject, IsFunction
<1> HIDE DEF a, t
<1>4. opts = NoOptions \/ \A n \in OptionNames : IsPlain(opts[n])
  BY <1>2, <1>3 DEF Default
<1> HIDE DEF opts
<1>5. Value(t["readBufferSize"])
  BY <1>1, <1>4, SizeValue
<1>6. Whole(t) <=> Reaches("readBufferSize", t["readBufferSize"])
  BY <1>1, OthersReach DEF Whole
<1>7. Whole(t) <=> validateInteger(t["readBufferSize"], 1)
  BY <1>5, <1>6, ValidExactly
<1>8. QED
  BY <1>7 DEF t, a

LEMMA ConnectionWhole ==
  ASSUME CallOK, call.method = "createConnection"
  PROVE  LET t == ConnectionArguments(call.args)
         IN  Whole(t) <=> validateInteger(t.readBufferSize, 1) /\ validatePath(t.path)
<1> DEFINE a == call.args
           opts == IF IsObject(a[1]) THEN a[1]
                   ELSE IF IsFunction(a[2]) THEN NoOptions ELSE a[2]
           path == IF IsObject(a[1]) THEN opts.path ELSE a[1]
           cb == IF IsFunction(a[2]) THEN a[2] ELSE a[3]
           b == <<path, Default(opts, NoOptions), cb>>
           c == <<opts, Absent>>
           options == IF IsObject(c[1]) THEN c[1] ELSE Default(c[2], NoOptions)
           t == ConnectionArguments(a)
<1>1. /\ DOMAIN t = {"path", "callback", "readBufferSize"} /\ "ownerOnly" \notin DOMAIN t
      /\ "path" \notin Optional /\ "readBufferSize" \notin Optional
      /\ t["path"] = Overloaded(b, "path").path
      /\ t["readBufferSize"] = ConstructorArguments(c).readBufferSize
  BY DEF ConnectionArguments, ConnectionOptions, Optional
<1>2. b[1] = path /\ c[1] = opts /\ c[2] = Absent
  OBVIOUS
<1>3. \A i \in 1..2 : /\ Value(a[i])
                      /\ IsObject(a[i]) => \A n \in OptionNames : IsPlain(a[i][n])
  BY ArgumentValue
<1>4. "path" \in OptionNames
  BY DEF OptionNames
<1> HIDE DEF a, b, c, t
<1>5. Value(path) /\ ~(IsObject(a[1]) /\ IsObject(path))
  <2>1. CASE IsObject(a[1])
    <3>1. path = a[1].path /\ IsPlain(a[1].path)
      BY <1>3, <1>4, <2>1
    <3>2. QED
      BY <3>1, PlainIs DEF Value, IsObject
  <2>2. CASE ~IsObject(a[1])
    BY <1>3, <2>2
  <2>3. QED
    BY <2>1, <2>2
<1>6. t["path"] = path
  <2>1. Overloaded(b, "path").path = IF IsObject(path) THEN path.path ELSE path
    BY <1>2 DEF Overloaded
  <2>2. ~IsObject(path)
    BY <1>5
  <2>3. QED
    BY <1>1, <2>1, <2>2
<1>7. options = NoOptions \/ \A n \in OptionNames : IsPlain(options[n])
  <2>1. options = IF IsObject(opts) THEN opts ELSE NoOptions
    BY <1>2 DEF Default
  <2>2. IsObject(opts) => opts = NoOptions \/ \A n \in OptionNames : IsPlain(opts[n])
    BY <1>3
  <2>3. QED
    BY <2>1, <2>2
<1>8. t["readBufferSize"] = Default(options.readBufferSize, DefaultSize)
  <2>1. ConstructorArguments(c).readBufferSize = Default(options.readBufferSize, DefaultSize)
    BY DEF ConstructorArguments
  <2>2. QED
    BY <1>1, <2>1
<1> HIDE DEF options, path
<1>9. Value(t["readBufferSize"]) /\ Value(t["path"])
  BY <1>5, <1>6, <1>7, <1>8, SizeValue
<1>10. Whole(t) <=> Reaches("readBufferSize", t["readBufferSize"]) /\ Reaches("path", t["path"])
  BY <1>1, OthersReach DEF Whole
<1>11. Whole(t) <=> validateInteger(t["readBufferSize"], 1) /\ validatePath(t["path"])
  BY <1>9, <1>10, ValidExactly
<1>12. QED
  BY <1>11 DEF t, a

\* An action accepts what reaches libuv whole, of an object that may begin, and
\* begins once.
LEMMA StepExact ==
  ASSUME CallOK, Next
  PROVE  result'.ok <=> /\ call.method \in {"connect", "open", "listen"} => state = "new"
                        /\ ~BeginsInConstructor
                        /\ Whole(result'.taken)
<1> DEFINE Goal == result'.ok <=>
                     /\ call.method \in {"connect", "open", "listen"} => state = "new"
                     /\ ~BeginsInConstructor
                     /\ Whole(result'.taken)
<1>1. ASSUME NEW method, NEW t, NEW body, Perform(method, t, body)
      PROVE  call.method = method /\ result'.taken = t /\ (result'.ok <=> Returns(body))
  BY <1>1 DEF Perform, Reads
<1>2. call.method # "createConnection" => ~BeginsInConstructor
  BY DEF BeginsInConstructor
<1>3. CASE Connect
  <2> DEFINE t == Overloaded(call.args, "path")
             body == connectBody(t, state = "new")
  <2>1. Perform("connect", t, body)
    BY <1>3 DEF Connect
  <2>2. call.method = "connect" /\ result'.taken = t /\ (result'.ok <=> Returns(body))
    BY <1>1, <2>1
  <2>3. (Whole(t) <=> Reaches("path", t["path"])) /\ Value(t["path"])
    BY <2>2, OverloadedWhole
  <2>4. (state = "new") \in BOOLEAN
    OBVIOUS
  <2> HIDE DEF t
  <2>5. Returns(body) <=> state = "new" /\ validatePath(t.path)
    BY <2>4, Beginning
  <2> HIDE DEF body
  <2>6. Whole(t) <=> validatePath(t.path)
    BY <2>3, ValidExactly
  <2>7. QED
    BY <1>2, <2>2, <2>5, <2>6
<1>4. CASE Open
  <2> DEFINE t == Overloaded(call.args, "fd")
             body == openBody(t, state = "new")
  <2>1. Perform("open", t, body)
    BY <1>4 DEF Open
  <2>2. call.method = "open" /\ result'.taken = t /\ (result'.ok <=> Returns(body))
    BY <1>1, <2>1
  <2>3. (Whole(t) <=> Reaches("fd", t["fd"])) /\ Value(t["fd"])
    BY <2>2, OverloadedWhole
  <2>4. (state = "new") \in BOOLEAN
    OBVIOUS
  <2> HIDE DEF t
  <2>5. Returns(body) <=> state = "new" /\ validateFd(t.fd)
    BY <2>4, Beginning
  <2> HIDE DEF body
  <2>6. Whole(t) <=> validateFd(t.fd)
    BY <2>3, ValidExactly
  <2>7. QED
    BY <1>2, <2>2, <2>5, <2>6
<1>5. CASE Listen
  <2> DEFINE t == ListenArguments(call.args)
  <2>1. Perform("listen", t, listenBody(t))
    BY <1>5 DEF Listen
  <2>2. /\ call.method = "listen" /\ result'.taken = t
        /\ result'.ok <=> Returns(listenBody(t))
    BY <1>1, <2>1
  <2>3. Whole(t) <=> validateListen(t)
    BY <2>2, ListenWhole
  <2> HIDE DEF t
  <2>4. Returns(listenBody(t)) <=> state = "new" /\ validateListen(t)
    BY Listening
  <2>5. QED
    BY <1>2, <2>2, <2>3, <2>4
<1>6. CASE Write
  <2> DEFINE t == WriteArguments(call.args)
             ok == t.handle = Absent \/ toIPCHandle(t.handle)
  <2>1. Perform("write", t, writeBody(t))
    BY <1>6 DEF Write
  <2>2. /\ call.method = "write" /\ result'.taken = t
        /\ result'.ok <=> Returns(writeBody(t))
    BY <1>1, <2>1
  <2>3. Whole(t) <=> ok
    BY <2>2, WriteWhole
  <2> HIDE DEF t
  <2>4. Returns(writeBody(t)) <=> ok
    BY Writing
  <2>5. QED
    BY <1>2, <2>2, <2>3, <2>4
<1>7. CASE NewPipe
  <2> DEFINE t == ConstructorArguments(call.args)
             valid == /\ t.path # Absent => validatePath(t.path)
                      /\ t.fd # Absent => validateFd(t.fd)
  <2>1. Perform("Pipe", t, constructorBody(t))
    BY <1>7 DEF NewPipe
  <2>2. /\ call.method = "Pipe" /\ result'.taken = t
        /\ result'.ok <=> Returns(constructorBody(t))
    BY <1>1, <2>1
  <2>3. Whole(t) <=> validateInteger(t.readBufferSize, 1) /\ valid
    BY <2>2, ConstructorWhole
  <2>4. t.fd = Absent \/ t.path = Absent
    BY DEF ConstructorArguments
  <2> HIDE DEF t
  <2>5. Returns(constructorBody(t)) <=> validateInteger(t.readBufferSize, 1) /\ valid
    BY <2>4, Constructing
  <2> HIDE DEF valid
  <2>6. QED
    BY <1>2, <2>2, <2>3, <2>5
<1>8. CASE createConnection
  <2> DEFINE t == ConnectionArguments(call.args)
             c == ConstructorArguments(<<ConnectionOptions(call.args), Absent>>)
             body == connectionBody(t, c)
  <2>1. Perform("createConnection", t, body)
    BY <1>8 DEF createConnection
  <2>2. /\ call.method = "createConnection" /\ result'.taken = t
        /\ result'.ok <=> Returns(body)
    BY <1>1, <2>1
  <2>3. Whole(t) <=> validateInteger(t.readBufferSize, 1) /\ validatePath(t.path)
    BY <2>2, ConnectionWhole
  <2>4. /\ (c.path # Absent \/ c.fd # Absent) <=> BeginsInConstructor
        /\ c.readBufferSize = t.readBufferSize
    BY <2>2, ConstructedIs DEF BeginsInConstructor
  <2> HIDE DEF t, c
  <2>5. Returns(body) <=> /\ c.path = Absent /\ c.fd = Absent
                          /\ validateInteger(c.readBufferSize, 1) /\ validatePath(t.path)
    BY Connecting
  <2> HIDE DEF body
  <2>6. QED
    BY <2>2, <2>3, <2>4, <2>5
<1>9. CASE NewServer
  <2> DEFINE t == ServerArguments(call.args)
  <2>1. Perform("Server", t, serverBody(t))
    BY <1>9 DEF NewServer
  <2>2. /\ call.method = "Server" /\ result'.taken = t
        /\ result'.ok <=> Returns(serverBody(t))
    BY <1>1, <2>1
  <2>3. Whole(t) <=> validateInteger(t.readBufferSize, 1)
    BY <2>2, ServerWhole
  <2> HIDE DEF t
  <2>4. Returns(serverBody(t)) <=> validateInteger(t.readBufferSize, 1)
    BY StatementIs DEF Returns, serverBody
  <2>5. QED
    BY <1>2, <2>2, <2>3, <2>4
<1>10. QED
  BY <1>3, <1>4, <1>5, <1>6, <1>7, <1>8, <1>9 DEF Next

(***************************************************************************)
(* What the JavaScript refuses is what the binding could not take as it    *)
(* is, for a buffer of any length, integers of any width, and whatever is  *)
(* passed for a path, a descriptor, a backlog, a size or a handle.         *)
(***************************************************************************)
THEOREM ValidationExact == Spec => ValidatedExactly
<1> DEFINE Exact ==
      LET t == result'.taken
          optional == IF call.method = "Pipe" THEN {"path", "fd"} ELSE {"handle"}
      IN  result'.ok <=>
            /\ call.method \in {"connect", "open", "listen"} => state = "new"
            /\ ~BeginsInConstructor
            /\ \A n \in DOMAIN t : Reaches(n, t[n]) \/ (n \in optional /\ t[n] = Absent)
            /\ "ownerOnly" \in DOMAIN t /\ t.ownerOnly = Boolean(TRUE)
                 => t.path.chars # 0 /\ ~t.path.nul
<1>1. ReadInv /\ [Next]_vars => [Exact]_vars
  <2>1. SUFFICES ASSUME CallOK, Next PROVE Exact
    BY DEF ReadInv
  <2>2. QED
    BY <2>1, StepExact DEF Whole, Optional
<1>2. [][Exact]_vars <=> ValidatedExactly
  BY DEF ValidatedExactly
<1>3. QED
  BY <1>1, <1>2, SpecReadInv, PTL DEF Spec
=============================================================================
