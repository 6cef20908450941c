---------------------------- MODULE PipeIpcProofs ----------------------------
(***************************************************************************)
(* Proofs about PipeIpc: the handle queue stays aligned with the messages, *)
(* a handle rides with the message it was written with, no message is      *)
(* lost, and the two pipes implement HandleChannel.                        *)
(***************************************************************************)
EXTENDS PipeIpc, FiniteSetTheorems, FunctionTheorems, SequenceTheorems,
        WellFoundedInduction, TLAPS

(***************************************************************************)
(* The segments that say the truth: one without a handle has only messages *)
(* written without one, one with a handle has the message of that handle.  *)
(***************************************************************************)
Honest ==
  {w \in [chunks : Seq(1..Len(sent)), handle : Targets] :
     IF w.handle = NoTarget
     THEN \A j \in DOMAIN w.chunks : sent[w.chunks[j]] = NoTarget
     ELSE Len(w.chunks) = 1 /\ sent[w.chunks[1]] = w.handle}

(***************************************************************************)
(* The inductive invariant: the queues are aligned, with an entry for      *)
(* every message even after a write() threw, and until one did every       *)
(* segment to be written and every write on the wire is honest.            *)
(***************************************************************************)
IInv ==
  /\ sent \in Seq(Targets)
  /\ throws \in Nat
  /\ queue \in Seq(1..Len(sent))
  /\ handleQueue \in Seq(Targets)
  /\ ~closing => Len(queue) <= Len(handleQueue)
  /\ QueuesAligned
  /\ throws = 0 => segments \in Seq(Honest) /\ wire \in Seq(Honest)

-----------------------------------------------------------------------------
(* Induction.                                                              *)

\* Every nonempty set of naturals has a least element.
LEMMA Least ==
  ASSUME NEW T, T \subseteq Nat, T # {}
  PROVE  \E x \in T : \A y \in T : x <= y
<1>1. PICK R : R = OpToRel(<, Nat)
  OBVIOUS
<1>2. R = {p \in Nat \X Nat : p[1] < p[2]}
  BY <1>1 DEF OpToRel
<1>3. \A x, y \in Nat : <<y, x>> \notin R => x <= y
  BY <1>2
<1>4. IsWellFoundedOn(R, Nat)
  BY <1>1, NatLessThanWellFounded
<1>5. PICK x \in T : \A y \in T : <<y, x>> \notin R
  BY <1>4, WFMin
<1>6. QED
  BY <1>3, <1>5

\* Induction, over the members of a set that is defined by what is to be shown.
LEMMA Induction ==
  ASSUME NEW S, 0 \in S, \A n \in Nat : n \in S => n + 1 \in S
  PROVE  \A n \in Nat : n \in S
<1>1. SUFFICES ASSUME Nat \ S # {} PROVE FALSE
  OBVIOUS
<1>2. PICK x \in Nat \ S : \A y \in Nat \ S : x <= y
  BY <1>1, Least, Nat \ S \subseteq Nat
<1>3. x # 0 /\ x - 1 \in Nat /\ (x - 1) + 1 = x
  BY <1>2
<1>4. QED
  BY <1>2, <1>3

\* A set that has with a number those below it is an interval.
LEMMA InitialInterval ==
  ASSUME NEW n \in Nat, NEW D, D \subseteq 1..n,
         \A i \in D : \A j \in 1..i : j \in D
  PROVE  Cardinality(D) \in 0..n /\ D = 1..Cardinality(D)
<1> DEFINE T == {m \in 0..n : \A i \in D : i <= m}
<1>1. T \subseteq Nat /\ n \in T
  OBVIOUS
<1>2. PICK m \in T : \A k \in T : m <= k
  <2> HIDE DEF T
  <2>1. QED
    BY <1>1, Least
<1>3. D = 1..m
  <2>1. D \subseteq 1..m
    BY <1>2
  <2>2. ASSUME m # 0 PROVE m \in D
    <3>1. m - 1 \in 0..n /\ m - 1 \notin T
      BY <1>2, <2>2
    <3>2. PICK i \in D : ~(i <= m - 1)
      BY <3>1
    <3>3. i = m
      BY <1>2, <3>2
    <3>4. QED
      BY <3>2, <3>3
  <2>3. 1..m \subseteq D
    <3>1. ASSUME NEW j \in 1..m PROVE j \in D
      <4>1. m \in D
        BY <1>2, <2>2, <3>1
      <4>2. QED
        BY <3>1, <4>1
    <3>2. QED
      BY <3>1
  <2>4. QED
    BY <2>1, <2>3
<1>4. m \in 0..n
  BY <1>2
<1>5. Cardinality(1..m) = m
  <2>1. Cardinality(1..m) = IF 1 > m THEN 0 ELSE m - 1 + 1
    BY <1>4, FS_Interval
  <2>2. QED
    BY <1>4, <2>1
<1>6. QED
  BY <1>3, <1>4, <1>5

-----------------------------------------------------------------------------
(* Sequences.                                                              *)

\* A function of 1..n is a sequence of that length.
LEMMA FunctionIsSeq ==
  ASSUME NEW S, NEW n \in Nat, NEW f \in [1..n -> S]
  PROVE  f \in Seq(S) /\ Len(f) = n
<1>1. f \in Seq(S)
  BY SMTT(30)
<1>2. DOMAIN f = 1..n
  OBVIOUS
<1>3. QED
  BY <1>1, <1>2

\* Concatenation in any order.
LEMMA Associates ==
  ASSUME NEW S
  PROVE  \A s, t, u \in Seq(S) : (s \o t) \o u = s \o (t \o u)
<1>1. ASSUME NEW s \in Seq(S), NEW t \in Seq(S), NEW u \in Seq(S)
      PROVE  (s \o t) \o u = s \o (t \o u)
  BY ConcatAssociative, SMTT(60)
<1>2. QED
  BY <1>1

\* What lies between two places.
LEMMA CutIs ==
  ASSUME NEW M, NEW batch \in Seq(M), NEW a \in 1..Len(batch), NEW b \in a..Len(batch)
  PROVE  /\ SubSeq(batch, a, b) \in Seq(M)
         /\ Len(SubSeq(batch, a, b)) = b - a + 1
         /\ \A j \in 1..(b - a + 1) : SubSeq(batch, a, b)[j] = batch[a + j - 1]
<1>1. PICK n \in Nat : n = Len(batch)
  OBVIOUS
<1>2. a \in 1..n /\ b \in a..n /\ \A i \in a..b : i \in 1..n /\ batch[i] \in M
  BY <1>1
<1>3. QED
  BY <1>1, <1>2, SubSeqProperties

-----------------------------------------------------------------------------
(* Flattening.                                                             *)

\* A function that runs through the prefixes of a sequence and joins them.
Joining(f, s, n) ==
  f = [i \in 1..n |-> IF i = 1 THEN s[i] ELSE f[i - 1] \o s[i]]

LEMMA JoiningExists ==
  ASSUME NEW s
  PROVE  \A n \in Nat : \E f : Joining(f, s, n)
<1> DEFINE S == {n \in Nat : \E f : Joining(f, s, n)}
<1>1. 0 \in S
  <2>1. Joining(<<>>, s, 0)
    BY DEF Joining
  <2>2. QED
    BY <2>1
<1>2. ASSUME NEW n \in Nat, n \in S PROVE n + 1 \in S
  <2>1. PICK f : Joining(f, s, n)
    BY <1>2
  <2>2. DOMAIN f = 1..n /\ \A i \in 1..n : f[i] = IF i = 1 THEN s[i] ELSE f[i - 1] \o s[i]
    <3>1. f = [i \in 1..n |-> IF i = 1 THEN s[i] ELSE f[i - 1] \o s[i]]
      BY <2>1 DEF Joining
    <3> DEFINE F(i) == IF i = 1 THEN s[i] ELSE f[i - 1] \o s[i]
    <3>2. f = [i \in 1..n |-> F(i)]
      BY <3>1
    <3> HIDE DEF F
    <3>3. DOMAIN f = 1..n /\ \A i \in 1..n : f[i] = F(i)
      BY <3>2
    <3>4. QED
      BY <3>3 DEF F
  <2> DEFINE Final == IF n = 0 THEN s[1] ELSE f[n] \o s[n + 1]
             g == [i \in 1..(n + 1) |-> IF i = n + 1 THEN Final ELSE f[i]]
  <2>3. PICK h : h = g
    OBVIOUS
  <2>4. \A i \in 1..(n + 1) : h[i] = IF i = 1 THEN s[i] ELSE h[i - 1] \o s[i]
    <3>1. SUFFICES ASSUME NEW i \in 1..(n + 1)
                   PROVE  h[i] = IF i = 1 THEN s[i] ELSE h[i - 1] \o s[i]
      OBVIOUS
    <3> HIDE DEF Final
    <3>2. CASE i # n + 1
      <4>1. i \in 1..n /\ h[i] = f[i] /\ (i # 1 => h[i - 1] = f[i - 1])
        BY <2>3, <3>2
      <4>2. QED
        BY <2>2, <4>1
    <3>3. CASE i = n + 1
      <4>1. h[i] = Final /\ (n # 0 => h[n] = f[n])
        BY <2>3, <3>3
      <4>2. i - 1 = n /\ (i = 1 <=> n = 0)
        BY <3>3
      <4>3. QED
        BY <3>3, <4>1, <4>2 DEF Final
    <3>4. QED
      BY <3>2, <3>3
  <2>5. h = [i \in 1..(n + 1) |-> h[i]]
    BY <2>3
  <2>6. Joining(h, s, n + 1)
    BY <2>4, <2>5 DEF Joining
  <2>7. QED
    BY <2>6
<1> HIDE DEF S
<1>3. \A n \in Nat : n \in S
  BY <1>1, <1>2, Induction
<1>4. QED
  BY <1>3 DEF S

LEMMA FlattenJoins ==
  ASSUME NEW s, NEW n \in Nat \ {0}, Len(s) = n
  PROVE  \E f : Joining(f, s, n) /\ FlattenSeq(s) = f[n]
<1> DEFINE f == CHOOSE g : Joining(g, s, n)
<1>1. Joining(f, s, n)
  BY JoiningExists
<1>2. FlattenSeq(s) = f[n]
  BY DEF FlattenSeq, Joining
<1>3. QED
  BY <1>1, <1>2

\* The values of such a function, one by one.
LEMMA JoiningIs ==
  ASSUME NEW s, NEW n \in Nat, NEW f, Joining(f, s, n)
  PROVE  /\ n # 0 => f[1] = s[1]
         /\ \A k \in 1..n : k + 1 \in 1..n => f[k + 1] = f[k] \o s[k + 1]
<1> DEFINE F(i) == IF i = 1 THEN s[i] ELSE f[i - 1] \o s[i]
<1>1. f = [i \in 1..n |-> F(i)]
  BY DEF Joining
<1> HIDE DEF F
<1>2. \A i \in 1..n : f[i] = F(i)
  BY <1>1
<1>3. n # 0 => f[1] = F(1)
  BY <1>2
<1>4. ASSUME NEW k \in 1..n, k + 1 \in 1..n PROVE f[k + 1] = f[k] \o s[k + 1]
  <2>1. PICK l : l = k + 1 /\ l # 1 /\ l - 1 = k
    BY <1>4
  <2>2. f[l] = F(l)
    BY <1>2, <1>4, <2>1
  <2>3. F(l) = f[k] \o s[l]
    BY <2>1 DEF F
  <2>4. QED
    BY <2>1, <2>2, <2>3
<1>5. QED
  BY <1>3, <1>4 DEF F

LEMMA FlattenNone ==
  FlattenSeq(<<>>) = <<>>
<1>1. Len(<<>>) = 0
  OBVIOUS
<1>2. QED
  BY <1>1 DEF FlattenSeq

\* Flattening one sequence more appends it.
LEMMA FlattenStep ==
  ASSUME NEW X, NEW n \in Nat, NEW s \in [1..(n + 1) -> Seq(X)],
         NEW r, r = [i \in 1..n |-> s[i]]
  PROVE  FlattenSeq(s) = FlattenSeq(r) \o s[n + 1]
<1>1. Len(s) = n + 1 /\ r \in [1..n -> Seq(X)] /\ Len(r) = n
  BY FunctionIsSeq
<1>2. PICK f : Joining(f, s, n + 1) /\ FlattenSeq(s) = f[n + 1]
  BY <1>1, FlattenJoins
<1>3. f[1] = s[1] /\ \A k \in 1..n : f[k + 1] = f[k] \o s[k + 1]
  <2>1. \A k \in 1..n : k \in 1..(n + 1) /\ k + 1 \in 1..(n + 1)
    OBVIOUS
  <2>2. n + 1 \in Nat /\ n + 1 # 0
    OBVIOUS
  <2>3. QED
    BY <1>2, <2>1, <2>2, JoiningIs, ZenonT(60)
<1>4. CASE n = 0
  <2>1. r = <<>> /\ s[1] \in Seq(X) /\ f[1] = s[1]
    BY <1>1, <1>3, <1>4
  <2>2. <<>> \o s[1] = s[1]
    BY <2>1
  <2>3. QED
    BY <1>2, <1>4, <2>1, <2>2, FlattenNone
<1>5. CASE n # 0
  <2>1. PICK g : Joining(g, r, n) /\ FlattenSeq(r) = g[n]
    BY <1>1, <1>5, FlattenJoins
  <2>2. g[1] = r[1] /\ \A k \in 1..n : k + 1 \in 1..n => g[k + 1] = g[k] \o r[k + 1]
    BY <1>5, <2>1, JoiningIs, ZenonT(60)
  <2> DEFINE S == {k \in Nat : k + 1 \in 1..n => f[k + 1] = g[k + 1]}
  <2>3. 0 \in S
    BY <1>3, <1>5, <2>2
  <2>4. ASSUME NEW k \in Nat, k \in S PROVE k + 1 \in S
    <3>1. PICK l : l = k + 1
      OBVIOUS
    <3>2. SUFFICES ASSUME l + 1 \in 1..n PROVE f[l + 1] = g[l + 1]
      BY <3>1
    <3>3. l \in 1..n /\ f[l] = g[l]
      BY <2>4, <3>1, <3>2
    <3>4. r[l + 1] = s[l + 1]
      BY <3>2
    <3>5. QED
      BY <1>3, <2>2, <3>2, <3>3, <3>4, ZenonT(60)
  <2> HIDE DEF S
  <2>5. \A k \in Nat : k \in S
    BY <2>3, <2>4, Induction
  <2>6. f[n] = g[n]
    <3>1. PICK k \in Nat : n = k + 1
      <4>1. n - 1 \in Nat /\ n = (n - 1) + 1
        BY <1>5
      <4>2. QED
        BY <4>1
    <3>2. QED
      BY <2>5, <3>1 DEF S
  <2>7. f[n + 1] = f[n] \o s[n + 1]
    <3>1. n \in 1..n
      BY <1>5
    <3>2. QED
      BY <1>3, <3>1
  <2>8. QED
    BY <1>2, <2>1, <2>6, <2>7
<1>6. QED
  BY <1>4, <1>5
\* What is flattened stays typed.
LEMMA FlattenTyped ==
  ASSUME NEW X, NEW m \in Nat, NEW s \in [1..m -> Seq(X)]
  PROVE  FlattenSeq(s) \in Seq(X)
<1> DEFINE Pre(k) == [i \in 1..k |-> s[i]]
           S == {k \in Nat : k <= m => FlattenSeq(Pre(k)) \in Seq(X)}
<1>1. 0 \in S
  <2>1. Pre(0) = <<>>
    OBVIOUS
  <2>2. FlattenSeq(Pre(0)) = <<>>
    BY <2>1, FlattenNone, Zenon
  <2>3. <<>> \in Seq(X)
    OBVIOUS
  <2> HIDE DEF Pre
  <2>4. QED
    BY <2>2, <2>3
<1>2. ASSUME NEW k \in Nat, k \in S PROVE k + 1 \in S
  <2>1. SUFFICES ASSUME k + 1 <= m PROVE FlattenSeq(Pre(k + 1)) \in Seq(X)
    OBVIOUS
  <2>2. Pre(k + 1) \in [1..(k + 1) -> Seq(X)] /\ Pre(k) = [i \in 1..k |-> Pre(k + 1)[i]]
    BY <2>1
  <2>3. FlattenSeq(Pre(k + 1)) = FlattenSeq(Pre(k)) \o Pre(k + 1)[k + 1]
    <3> HIDE DEF Pre
    <3>1. QED
      BY <2>2, FlattenStep
  <2>4. FlattenSeq(Pre(k)) \in Seq(X) /\ Pre(k + 1)[k + 1] \in Seq(X)
    BY <1>2, <2>1
  <2>5. PICK u, v : u = FlattenSeq(Pre(k)) /\ v = Pre(k + 1)[k + 1]
    OBVIOUS
  <2>6. u \o v \in Seq(X)
    BY <2>4, <2>5
  <2> HIDE DEF Pre
  <2>7. QED
    BY <2>3, <2>5, <2>6
<1> HIDE DEF S
<1>3. m \in S
  BY <1>1, <1>2, Induction
<1>4. s = Pre(m)
  OBVIOUS
<1>5. QED
  BY <1>3, <1>4 DEF S

-----------------------------------------------------------------------------
(* The messages in order.                                                  *)

\* The messages after a, up to b.
Between(a, b) == [i \in 1..(b - a) |-> a + i]

LEMMA BetweenIs ==
  ASSUME NEW a \in Nat, NEW b \in Nat, a <= b
  PROVE  /\ Between(a, b) \in Seq(Nat) /\ Len(Between(a, b)) = b - a
         /\ \A i \in 1..(b - a) : Between(a, b)[i] = a + i
<1>1. PICK n \in Nat : n = b - a
  OBVIOUS
<1>2. Between(a, b) \in [1..n -> Nat]
  BY <1>1 DEF Between
<1>3. QED
  BY <1>1, <1>2, FunctionIsSeq DEF Between

\* A sequence that counts on from a is such a sequence.
LEMMA IsBetween ==
  ASSUME NEW a \in Nat, NEW b \in Nat, a <= b, NEW s \in Seq(Nat), Len(s) = b - a,
         \A i \in 1..(b - a) : s[i] = a + i
  PROVE  s = Between(a, b)
<1>1. Between(a, b) \in Seq(Nat) /\ Len(Between(a, b)) = b - a
      /\ \A i \in 1..(b - a) : Between(a, b)[i] = a + i
  BY BetweenIs
<1>2. \A i \in 1..Len(s) : s[i] = Between(a, b)[i]
  BY <1>1
<1>3. QED
  BY <1>1, <1>2, SeqEqual

LEMMA BetweenNone ==
  ASSUME NEW a \in Nat, NEW b \in Nat, a <= b
  PROVE  Between(a, b) = <<>> <=> a = b
<1>1. Len(Between(a, b)) = b - a
  BY BetweenIs
<1>2. a = b => Between(a, b) = <<>>
  BY <1>1, BetweenIs
<1>3. Between(a, b) = <<>> => Len(Between(a, b)) = 0
  OBVIOUS
<1>4. QED
  BY <1>1, <1>2, <1>3

LEMMA BetweenConcat ==
  ASSUME NEW a \in Nat, NEW b \in Nat, NEW c \in Nat, a <= b, b <= c
  PROVE  Between(a, b) \o Between(b, c) = Between(a, c)
<1>1. PICK s, t : s = Between(a, b) /\ t = Between(b, c)
  OBVIOUS
<1>2. /\ s \in Seq(Nat) /\ Len(s) = b - a /\ \A i \in 1..(b - a) : s[i] = a + i
      /\ t \in Seq(Nat) /\ Len(t) = c - b /\ \A i \in 1..(c - b) : t[i] = b + i
  BY <1>1, BetweenIs
<1>3. s \o t \in Seq(Nat) /\ Len(s \o t) = c - a
  <2>1. s \o t \in Seq(Nat) /\ Len(s \o t) = Len(s) + Len(t)
    BY <1>2, ConcatProperties
  <2>2. (b - a) + (c - b) = c - a
    OBVIOUS
  <2>3. QED
    BY <1>2, <2>1, <2>2
<1>4. ASSUME NEW i \in 1..(c - a) PROVE (s \o t)[i] = a + i
  <2>1. CASE i <= b - a
    <3>1. (s \o t)[i] = s[i]
      BY <1>2, <2>1
    <3>2. QED
      BY <1>2, <2>1, <3>1
  <2>2. CASE ~(i <= b - a)
    <3>1. (s \o t)[i] = t[i - (b - a)] /\ i - (b - a) \in 1..(c - b)
      BY <1>2, <2>2, SMTT(60)
    <3>2. QED
      BY <1>2, <3>1
  <2>3. QED
    BY <2>1, <2>2
<1>5. a <= c
  OBVIOUS
<1>6. QED
  BY <1>1, <1>3, <1>4, <1>5, IsBetween

LEMMA BetweenAppend ==
  ASSUME NEW a \in Nat, NEW b \in Nat, a <= b
  PROVE  Append(Between(a, b), b + 1) = Between(a, b + 1)
<1>1. PICK s : s = Between(a, b)
  OBVIOUS
<1>2. s \in Seq(Nat) /\ Len(s) = b - a /\ \A i \in 1..(b - a) : s[i] = a + i
  BY <1>1, BetweenIs
<1>3. /\ Append(s, b + 1) \in Seq(Nat) /\ Len(Append(s, b + 1)) = (b + 1) - a
      /\ \A i \in 1..((b + 1) - a) : Append(s, b + 1)[i] = a + i
  BY <1>2
<1>4. b + 1 \in Nat /\ a <= b + 1
  OBVIOUS
<1>5. QED
  BY <1>1, <1>3, <1>4, IsBetween

LEMMA BetweenSub ==
  ASSUME NEW a \in Nat, NEW b \in Nat, a <= b,
         NEW k \in Nat, NEW l \in (k + 1)..(b - a)
  PROVE  SubSeq(Between(a, b), k + 1, l) = Between(a + k, a + l)
<1>1. PICK s : s = Between(a, b)
  OBVIOUS
<1>2. s \in Seq(Nat) /\ Len(s) = b - a /\ \A i \in 1..(b - a) : s[i] = a + i
  BY <1>1, BetweenIs
<1>3. /\ SubSeq(s, k + 1, l) \in Seq(Nat) /\ Len(SubSeq(s, k + 1, l)) = l - (k + 1) + 1
      /\ \A j \in 1..(l - (k + 1) + 1) : SubSeq(s, k + 1, l)[j] = s[(k + 1) + j - 1]
  <2>1. k + 1 \in 1..Len(s) /\ l \in (k + 1)..Len(s)
    BY <1>2
  <2>2. QED
    BY <1>2, <2>1, CutIs, ZenonT(60)
<1>4. \A j \in 1..((a + l) - (a + k)) : SubSeq(s, k + 1, l)[j] = (a + k) + j
  <2>1. SUFFICES ASSUME NEW j \in 1..((a + l) - (a + k))
                 PROVE  SubSeq(s, k + 1, l)[j] = (a + k) + j
    OBVIOUS
  <2>2. PICK i : i = (k + 1) + j - 1
    OBVIOUS
  <2>3. i \in 1..(b - a) /\ j \in 1..(l - (k + 1) + 1)
    BY <2>1, <2>2
  <2>4. QED
    BY <1>2, <1>3, <2>2, <2>3
<1>5. Len(SubSeq(s, k + 1, l)) = (a + l) - (a + k)
  BY <1>3
<1>6. a + k \in Nat /\ a + l \in Nat /\ a + k <= a + l
  OBVIOUS
<1>7. QED
  BY <1>1, <1>3, <1>4, <1>5, <1>6, IsBetween

-----------------------------------------------------------------------------
(* Segments in order.                                                      *)

\* The chunks of the segments are the messages after a, up to b, in order.
Tiles(segs, a, b) ==
  \E f \in [0..Len(segs) -> 0..b] :
    /\ f[0] = a /\ f[Len(segs)] = b
    /\ \A i \in 1..Len(segs) :
         f[i - 1] <= f[i] /\ segs[i].chunks = Between(f[i - 1], f[i])

\* A function that climbs step by step climbs.
LEMMA Climbs ==
  ASSUME NEW n \in Nat, NEW b, NEW f \in [0..n -> 0..b], b \in Nat,
         \A i \in 1..n : f[i - 1] <= f[i]
  PROVE  \A j \in 0..n : \A i \in 0..j : f[i] <= f[j]
<1> DEFINE S == {j \in Nat : j <= n => \A i \in 0..j : f[i] <= f[j]}
<1>1. 0 \in S
  OBVIOUS
<1>2. ASSUME NEW k \in Nat, k \in S PROVE k + 1 \in S
  <2>1. PICK j : j = k + 1
    OBVIOUS
  <2>2. SUFFICES ASSUME j <= n, NEW i \in 0..j PROVE f[i] <= f[j]
    BY <2>1
  <2>3. j \in 1..n /\ j - 1 = k /\ j \in 0..n /\ k \in 0..n /\ i \in 0..n
    BY <2>1, <2>2
  <2>4. f[k] <= f[j] /\ f[i] \in Nat /\ f[j] \in Nat /\ f[k] \in Nat
    BY <2>3
  <2>5. i = j \/ f[i] <= f[k]
    BY <1>2, <2>1, <2>2, <2>3
  <2>6. QED
    BY <2>4, <2>5
<1> HIDE DEF S
<1>3. \A j \in Nat : j \in S
  BY <1>1, <1>2, Induction
<1>4. QED
  BY <1>3 DEF S

LEMMA TilesNone ==
  ASSUME NEW a \in Nat, NEW b \in Nat
  PROVE  Tiles(<<>>, a, b) <=> a = b
<1>1. Len(<<>>) = 0
  OBVIOUS
<1>2. Tiles(<<>>, a, b) => a = b
  BY <1>1 DEF Tiles
<1>3. ASSUME a = b PROVE Tiles(<<>>, a, b)
  <2>1. PICK f : f = [i \in 0..0 |-> a]
    OBVIOUS
  <2>2. f \in [0..0 -> 0..b] /\ f[0] = a
    BY <1>3, <2>1
  <2>3. QED
    BY <1>1, <1>3, <2>2 DEF Tiles
<1>4. QED
  BY <1>2, <1>3

LEMMA TilesAppend ==
  ASSUME NEW X, NEW segs \in Seq(X), NEW w \in X,
         NEW a \in Nat, NEW b \in Nat, NEW c \in Nat, b <= c,
         Tiles(segs, a, b), w.chunks = Between(b, c)
  PROVE  Tiles(Append(segs, w), a, c)
<1>1. PICK n \in Nat : n = Len(segs)
  OBVIOUS
<1>2. PICK f \in [0..n -> 0..b] :
        /\ f[0] = a /\ f[n] = b
        /\ \A i \in 1..n : f[i - 1] <= f[i] /\ segs[i].chunks = Between(f[i - 1], f[i])
  BY <1>1 DEF Tiles
<1>3. PICK g : g = [i \in 0..(n + 1) |-> IF i = n + 1 THEN c ELSE f[i]]
  OBVIOUS
<1>4. PICK t : t = Append(segs, w)
  OBVIOUS
<1>5. Len(t) = n + 1 /\ t[n + 1] = w /\ \A i \in 1..n : t[i] = segs[i]
  BY <1>1, <1>4
<1>6. g \in [0..(n + 1) -> 0..c]
  BY <1>2, <1>3
<1>7. g[0] = a /\ g[n] = b /\ g[n + 1] = c /\ \A i \in 0..n : g[i] = f[i]
  BY <1>2, <1>3
<1>8. ASSUME NEW i \in 1..(n + 1)
      PROVE  g[i - 1] <= g[i] /\ t[i].chunks = Between(g[i - 1], g[i])
  <2>1. CASE i = n + 1
    <3>1. i - 1 = n
      BY <2>1
    <3>2. QED
      BY <1>5, <1>7, <2>1, <3>1
  <2>2. CASE i # n + 1
    <3>1. i \in 1..n /\ i \in 0..n /\ i - 1 \in 0..n
      BY <2>2
    <3>2. QED
      BY <1>2, <1>5, <1>7, <3>1
  <2>3. QED
    BY <2>1, <2>2
<1>9. QED
  BY <1>4, <1>5, <1>6, <1>7, <1>8, ZenonT(60) DEF Tiles

\* The first n segments, and the others.
LEMMA TilesSplit ==
  ASSUME NEW X, NEW segs \in Seq(X), NEW a \in Nat, NEW b \in Nat, Tiles(segs, a, b),
         NEW n \in Nat, n <= Len(segs)
  PROVE  \E m \in Nat :
           /\ a <= m /\ m <= b
           /\ Tiles(SubSeq(segs, 1, n), a, m)
           /\ Tiles(SubSeq(segs, n + 1, Len(segs)), m, b)
<1>1. PICK l \in Nat : l = Len(segs)
  OBVIOUS
<1>2. PICK f \in [0..l -> 0..b] :
        /\ f[0] = a /\ f[l] = b
        /\ \A i \in 1..l : f[i - 1] <= f[i] /\ segs[i].chunks = Between(f[i - 1], f[i])
  BY <1>1 DEF Tiles
<1>3. \A j \in 0..l : \A i \in 0..j : f[i] <= f[j]
  BY <1>2, Climbs
<1>4. f[n] \in Nat /\ a <= f[n] /\ f[n] <= b
  <2>1. n \in 0..l /\ 0 \in 0..n /\ l \in 0..l /\ n \in 0..l
    BY <1>1
  <2>2. QED
    BY <1>2, <1>3, <2>1
<1>5. Tiles(SubSeq(segs, 1, n), a, f[n])
  <2>1. PICK t : t = SubSeq(segs, 1, n)
    OBVIOUS
  <2>2. Len(t) = n /\ \A i \in 1..n : t[i] = segs[i]
    BY <1>1, <2>1
  <2>3. \A i \in 0..n : f[i] <= f[n]
    BY <1>1, <1>3
  <2>4. PICK g : g = [i \in 0..n |-> f[i]]
    OBVIOUS
  <2>5. g \in [0..n -> 0..f[n]]
    BY <1>1, <1>2, <2>3, <2>4, SMTT(60)
  <2>6. g[0] = a /\ g[n] = f[n]
    BY <1>2, <2>4
  <2>7. \A i \in 1..n : g[i - 1] <= g[i] /\ t[i].chunks = Between(g[i - 1], g[i])
    <3>1. \A i \in 1..n : i \in 1..l /\ g[i] = f[i] /\ g[i - 1] = f[i - 1]
      BY <1>1, <2>4
    <3>2. QED
      BY <1>2, <2>2, <3>1
  <2>8. QED
    BY <2>1, <2>2, <2>5, <2>6, <2>7 DEF Tiles
<1>6. Tiles(SubSeq(segs, n + 1, Len(segs)), f[n], b)
  <2>1. PICK t : t = SubSeq(segs, n + 1, l)
    OBVIOUS
  <2>2. PICK r \in Nat : r = l - n
    BY <1>1
  <2>3. Len(t) = r /\ \A i \in 1..r : t[i] = segs[n + i]
    BY <1>1, <2>1, <2>2
  <2>4. PICK g : g = [i \in 0..r |-> f[n + i]]
    OBVIOUS
  <2>5. g \in [0..r -> 0..b] /\ g[0] = f[n] /\ g[r] = b
    BY <1>1, <1>2, <2>2, <2>4
  <2>6. ASSUME NEW i \in 1..r
        PROVE  g[i - 1] <= g[i] /\ t[i].chunks = Between(g[i - 1], g[i])
    <3>1. PICK j : j = n + i
      OBVIOUS
    <3>2. j \in 1..l /\ i \in 0..r /\ i - 1 \in 0..r /\ j - 1 = n + (i - 1)
      BY <1>1, <2>2, <3>1
    <3>3. g[i] = f[j] /\ g[i - 1] = f[j - 1] /\ t[i] = segs[j]
      BY <2>3, <2>4, <3>1, <3>2
    <3>4. QED
      BY <1>2, <3>2, <3>3
  <2>7. QED
    BY <1>1, <2>1, <2>3, <2>5, <2>6 DEF Tiles
<1>7. QED
  BY <1>4, <1>5, <1>6

\* Their chunks, put together.
LEMMA TilesFlatten ==
  ASSUME NEW X, NEW segs \in Seq(X), NEW a \in Nat, NEW b \in Nat, Tiles(segs, a, b)
  PROVE  FlattenSeq([i \in DOMAIN segs |-> segs[i].chunks]) = Between(a, b)
<1>1. PICK n \in Nat : n = Len(segs)
  OBVIOUS
<1>2. PICK f \in [0..n -> 0..b] :
        /\ f[0] = a /\ f[n] = b
        /\ \A i \in 1..n : f[i - 1] <= f[i] /\ segs[i].chunks = Between(f[i - 1], f[i])
  BY <1>1 DEF Tiles
<1>3. \A j \in 0..n : \A i \in 0..j : f[i] <= f[j]
  BY <1>2, Climbs
<1> DEFINE Pre(k) == [i \in 1..k |-> segs[i].chunks]
           S == {k \in Nat : k <= n => FlattenSeq(Pre(k)) = Between(a, f[k])}
<1>4. ASSUME NEW i \in 1..n PROVE segs[i].chunks \in Seq(Nat)
  <2>1. i \in 0..n /\ i - 1 \in 0..n
    OBVIOUS
  <2>2. f[i - 1] \in Nat /\ f[i] \in Nat /\ f[i - 1] <= f[i]
    BY <1>2, <2>1
  <2>3. QED
    BY <1>2, <2>2, BetweenIs, ZenonT(60)
<1>5. 0 \in S
  <2>1. Pre(0) = <<>>
    OBVIOUS
  <2>2. FlattenSeq(Pre(0)) = <<>>
    BY <2>1, FlattenNone, Zenon
  <2>3. Between(a, a) = <<>>
    BY BetweenNone
  <2> HIDE DEF Pre
  <2>4. QED
    BY <1>2, <2>2, <2>3
<1>6. ASSUME NEW k \in Nat, k \in S PROVE k + 1 \in S
  <2>1. PICK j : j = k + 1
    OBVIOUS
  <2>2. SUFFICES ASSUME j <= n PROVE FlattenSeq(Pre(j)) = Between(a, f[j])
    BY <2>1
  <2>3. j \in 1..n /\ j - 1 = k /\ k \in 0..n /\ j \in 0..n /\ 0 \in 0..k
    BY <2>1, <2>2
  <2>4. Pre(j) \in [1..(k + 1) -> Seq(Nat)] /\ Pre(k) = [i \in 1..k |-> Pre(j)[i]]
    BY <1>4, <2>1, <2>3
  <2>5. FlattenSeq(Pre(j)) = FlattenSeq(Pre(k)) \o Pre(j)[j]
    <3> HIDE DEF Pre
    <3>1. QED
      BY <2>1, <2>4, FlattenStep
  <2>6. FlattenSeq(Pre(k)) = Between(a, f[k]) /\ Pre(j)[j] = Between(f[k], f[j])
    BY <1>2, <1>6, <2>1, <2>2, <2>3
  <2>7. f[k] \in Nat /\ f[j] \in Nat /\ a <= f[k] /\ f[k] <= f[j]
    BY <1>2, <1>3, <2>3
  <2>8. Between(a, f[k]) \o Between(f[k], f[j]) = Between(a, f[j])
    BY <2>7, BetweenConcat
  <2> HIDE DEF Pre
  <2>9. QED
    BY <2>5, <2>6, <2>8
<1>7. n \in S
  <2> HIDE DEF S
  <2>1. QED
    BY <1>5, <1>6, Induction
<1>8. [i \in DOMAIN segs |-> segs[i].chunks] = Pre(n)
  BY <1>1
<1> HIDE DEF Pre
<1>9. FlattenSeq(Pre(n)) = Between(a, f[n])
  BY <1>7
<1>10. QED
  BY <1>2, <1>8, <1>9

-----------------------------------------------------------------------------
(* The handles among messages.                                             *)

Kept(h) == IF h = NoTarget THEN <<>> ELSE <<h>>

Among(t, n) == FlattenSeq([i \in 1..n |-> Kept(t[i])])

LEMMA KeptTyped ==
  ASSUME NEW h \in Targets
  PROVE  Kept(h) \in Seq(Handles)
BY DEF Kept, Targets

LEMMA AmongIs ==
  ASSUME NEW t, NEW n \in Nat, \A i \in 1..n : t[i] \in Targets
  PROVE  Among(t, n) \in Seq(Handles)
<1>1. [i \in 1..n |-> Kept(t[i])] \in [1..n -> Seq(Handles)]
  BY KeptTyped
<1>2. QED
  BY <1>1, FlattenTyped DEF Among

LEMMA AmongNone ==
  ASSUME NEW t
  PROVE  Among(t, 0) = <<>>
<1>1. [i \in 1..0 |-> Kept(t[i])] = <<>>
  OBVIOUS
<1>2. QED
  BY <1>1, FlattenNone, Zenon DEF Among

LEMMA AmongStep ==
  ASSUME NEW t, NEW n \in Nat, \A i \in 1..(n + 1) : t[i] \in Targets
  PROVE  Among(t, n + 1) = Among(t, n) \o Kept(t[n + 1])
<1>1. PICK s : s = [i \in 1..(n + 1) |-> Kept(t[i])]
  OBVIOUS
<1>2. s \in [1..(n + 1) -> Seq(Handles)]
  BY <1>1, KeptTyped
<1>3. PICK r : r = [i \in 1..n |-> s[i]]
  OBVIOUS
<1>4. r = [i \in 1..n |-> Kept(t[i])] /\ s[n + 1] = Kept(t[n + 1])
  BY <1>1, <1>3
<1>5. FlattenSeq(s) = FlattenSeq(r) \o s[n + 1]
  BY <1>2, <1>3, FlattenStep
<1>6. QED
  BY <1>1, <1>4, <1>5 DEF Among

\* The same of targets that agree.
LEMMA AmongSame ==
  ASSUME NEW t, NEW u, NEW n \in Nat, \A i \in 1..n : t[i] = u[i]
  PROVE  Among(t, n) = Among(u, n)
<1>1. [i \in 1..n |-> Kept(t[i])] = [i \in 1..n |-> Kept(u[i])]
  OBVIOUS
<1>2. QED
  BY <1>1 DEF Among

\* Messages without a handle add none.
LEMMA AmongSkips ==
  ASSUME NEW t, NEW k \in Nat, NEW n \in Nat, k <= n,
         \A i \in 1..n : t[i] \in Targets,
         \A i \in (k + 1)..n : t[i] = NoTarget
  PROVE  Among(t, n) = Among(t, k)
<1> DEFINE S == {m \in Nat : k + m <= n => Among(t, k + m) = Among(t, k)}
<1>1. 0 \in S
  OBVIOUS
<1>2. ASSUME NEW m \in Nat, m \in S PROVE m + 1 \in S
  <2>1. PICK j \in Nat : j = k + m
    OBVIOUS
  <2>2. SUFFICES ASSUME j + 1 <= n PROVE Among(t, j + 1) = Among(t, k)
    BY <2>1
  <2>3. Among(t, j) = Among(t, k)
    BY <1>2, <2>1, <2>2
  <2>4. t[j + 1] = NoTarget /\ \A i \in 1..(j + 1) : t[i] \in Targets
    BY <2>1, <2>2
  <2>5. Among(t, j + 1) = Among(t, j) \o Kept(t[j + 1])
    BY <2>4, AmongStep
  <2>6. Among(t, j) \in Seq(Handles)
    BY <2>2, AmongIs
  <2>7. Kept(t[j + 1]) = <<>>
    BY <2>4 DEF Kept
  <2>8. PICK u : u = Among(t, j)
    OBVIOUS
  <2>9. u \o <<>> = u
    BY <2>6, <2>8
  <2>10. QED
    BY <2>3, <2>5, <2>7, <2>8, <2>9
<1> HIDE DEF S
<1>3. \A m \in Nat : m \in S
  BY <1>1, <1>2, Induction
<1>4. n - k \in Nat /\ k + (n - k) = n
  OBVIOUS
<1>5. n - k \in S
  BY <1>3, <1>4
<1>6. QED
  BY <1>4, <1>5 DEF S

-----------------------------------------------------------------------------
(* Counting handles.                                                       *)

\* The places of the handles among the first n entries.
Places(targets, n) == {i \in 1..n : targets[i] # NoTarget}

LEMMA PlacesFinite ==
  ASSUME NEW targets, NEW n \in Nat
  PROVE  /\ IsFiniteSet(Places(targets, n))
         /\ Cardinality(Places(targets, n)) \in Nat
<1>1. IsFiniteSet(1..n)
  BY FS_Interval
<1>2. IsFiniteSet(Places(targets, n))
  BY <1>1, FS_Subset DEF Places
<1>3. QED
  BY <1>2, FS_CardinalityType

LEMMA CountPlaces ==
  ASSUME NEW q, NEW n \in Nat, DOMAIN q = 1..n
  PROVE  Count(q) = Cardinality(Places(q, n))
<1>1. {i \in DOMAIN q : q[i] # NoTarget} = Places(q, n)
  BY DEF Places
<1>2. QED
  BY <1>1 DEF Count

\* A handle more.
LEMMA CountAppend ==
  ASSUME NEW q \in Seq(Targets), NEW h \in Targets
  PROVE  Count(Append(q, h)) = Count(q) + (IF h = NoTarget THEN 0 ELSE 1)
<1>1. PICK n \in Nat : n = Len(q)
  OBVIOUS
<1>2. PICK r : r = Append(q, h)
  OBVIOUS
<1>3. /\ DOMAIN q = 1..n /\ DOMAIN r = 1..(n + 1)
      /\ \A i \in 1..n : r[i] = q[i]
      /\ r[n + 1] = h
  BY <1>1, <1>2
<1>4. Count(q) = Cardinality(Places(q, n)) /\ Count(r) = Cardinality(Places(r, n + 1))
  BY <1>1, <1>3, CountPlaces
<1>5. IsFiniteSet(Places(q, n)) /\ Cardinality(Places(q, n)) \in Nat
  BY <1>1, PlacesFinite
<1>6. CASE h = NoTarget
  <2>1. Places(r, n + 1) = Places(q, n)
    BY <1>1, <1>3, <1>6 DEF Places
  <2>2. QED
    BY <1>2, <1>4, <1>5, <1>6, <2>1
<1>7. CASE h # NoTarget
  <2>1. Places(r, n + 1) = Places(q, n) \cup {n + 1}
    BY <1>1, <1>3, <1>7 DEF Places
  <2>2. n + 1 \notin Places(q, n)
    BY <1>1 DEF Places
  <2>3. Cardinality(Places(q, n) \cup {n + 1}) = Cardinality(Places(q, n)) + 1
    BY <1>5, <2>2, FS_AddElement
  <2>4. QED
    BY <1>2, <1>4, <1>7, <2>1, <2>3
<1>8. QED
  BY <1>6, <1>7

\* The handles left when the first n entries are taken.
LEMMA CountRest ==
  ASSUME NEW q \in Seq(Targets), NEW n \in Nat, n <= Len(q)
  PROVE  Count(SubSeq(q, n + 1, Len(q))) = Count(q) - Cardinality(Places(q, n))
<1>1. PICK m \in Nat : m = Len(q)
  OBVIOUS
<1>2. PICK rest : rest = SubSeq(q, n + 1, m)
  OBVIOUS
<1>3. /\ DOMAIN q = 1..m /\ m - n \in Nat /\ DOMAIN rest = 1..(m - n)
      /\ \A j \in 1..(m - n) : rest[j] = q[n + j]
  BY <1>1, <1>2
<1> DEFINE Left == {i \in (n + 1)..m : q[i] # NoTarget}
<1>4. Count(rest) = Cardinality(Places(rest, m - n)) /\ Count(q) = Cardinality(Places(q, m))
  BY <1>3, CountPlaces
<1>5. /\ IsFiniteSet(Left) /\ Cardinality(Left) \in Nat
      /\ IsFiniteSet(Places(q, n)) /\ Cardinality(Places(q, n)) \in Nat
  <2>1. IsFiniteSet((n + 1)..m)
    BY FS_Interval
  <2>2. IsFiniteSet(Left)
    BY <2>1, FS_Subset
  <2>3. QED
    BY <2>2, FS_CardinalityType, PlacesFinite
<1>6. Cardinality(Places(rest, m - n)) = Cardinality(Left)
  <2> DEFINE f == [i \in Left |-> i - n]
  <2>1. f \in [Left -> Places(rest, m - n)]
    BY <1>3 DEF Places
  <2>2. \A a, b \in Left : f[a] = f[b] => a = b
    OBVIOUS
  <2>3. \A j \in Places(rest, m - n) : n + j \in Left /\ f[n + j] = j
    BY <1>3 DEF Places
  <2> HIDE DEF f, Left
  <2>4. f \in Bijection(Left, Places(rest, m - n))
    BY <2>1, <2>2, <2>3, Fun_IsBij
  <2>5. ExistsBijection(Left, Places(rest, m - n))
    BY <2>4, Fun_ExistsBij
  <2>6. IsFiniteSet(Left)
    BY <1>5
  <2> HIDE DEF Left
  <2>7. QED
    BY <2>5, <2>6, FS_Bijection
<1>7. Cardinality(Places(q, m)) = Cardinality(Places(q, n)) + Cardinality(Left)
  <2>1. Places(q, m) = Places(q, n) \cup Left /\ Places(q, n) \cap Left = {}
    BY <1>1 DEF Places
  <2> HIDE DEF Left
  <2>2. Cardinality(Places(q, n) \cup Left)
          = Cardinality(Places(q, n)) + Cardinality(Left) - Cardinality(Places(q, n) \cap Left)
    BY <1>5, FS_Union
  <2>3. Cardinality(Places(q, n) \cap Left) = 0
    BY <2>1, FS_EmptySet
  <2>4. QED
    BY <1>5, <2>1, <2>2, <2>3
<1> HIDE DEF Left
<1>8. QED
  BY <1>1, <1>2, <1>4, <1>5, <1>6, <1>7

-----------------------------------------------------------------------------
(* Splitting a batch.                                                      *)

LEMMA StartsFinite ==
  ASSUME NEW targets, NEW n \in Nat
  PROVE  /\ IsFiniteSet(Starts(targets, n))
         /\ Cardinality(Starts(targets, n)) \in Nat
<1>1. IsFiniteSet(1..n)
  BY FS_Interval
<1>2. IsFiniteSet(Starts(targets, n))
  BY <1>1, FS_Subset DEF Starts
<1>3. QED
  BY <1>2, FS_CardinalityType

\* Two messages are in one segment if no segment starts after the first.
LEMMA SameRun ==
  ASSUME NEW targets, NEW i \in Nat, NEW k \in Nat, i <= k
  PROVE  /\ Cardinality(Starts(targets, i)) <= Cardinality(Starts(targets, k))
         /\ Cardinality(Starts(targets, i)) = Cardinality(Starts(targets, k))
              <=> \A j \in (i + 1)..k : Joins(targets, j)
<1>1. Starts(targets, i) \in SUBSET Starts(targets, k)
  BY DEF Starts
<1>2. /\ Cardinality(Starts(targets, i)) <= Cardinality(Starts(targets, k))
      /\ Cardinality(Starts(targets, i)) = Cardinality(Starts(targets, k))
           => Starts(targets, i) = Starts(targets, k)
  BY <1>1, StartsFinite, FS_Subset
<1>3. Starts(targets, i) = Starts(targets, k) => \A j \in (i + 1)..k : Joins(targets, j)
  <2>1. SUFFICES ASSUME Starts(targets, i) = Starts(targets, k), NEW j \in (i + 1)..k,
                        ~Joins(targets, j)
                 PROVE  FALSE
    OBVIOUS
  <2>2. j \in Starts(targets, k) /\ j \notin Starts(targets, i)
    BY <2>1 DEF Starts
  <2>3. QED
    BY <2>1, <2>2
<1>4. (\A j \in (i + 1)..k : Joins(targets, j)) => Starts(targets, i) = Starts(targets, k)
  BY DEF Starts
<1>5. QED
  BY <1>2, <1>3, <1>4

(***************************************************************************)
(* Each segment has a first message, and each of its other messages joins  *)
(* the one before it.                                                      *)
(***************************************************************************)
LEMMA RunStart ==
  ASSUME NEW n \in Nat, NEW targets, DOMAIN targets = 1..n,
         NEW r \in 1..Cardinality(Starts(targets, n))
  PROVE  \E s \in Run(targets, r) :
           /\ \A j \in Run(targets, r) : s <= j
           /\ \A j \in 1..n : j \in Run(targets, r)
                <=> j >= s /\ \A k \in (s + 1)..j : Joins(targets, k)
<1> DEFINE S == Starts(targets, n)
           f == [i \in S |-> Cardinality(Starts(targets, i))]
           T == 1..Cardinality(S)
<1>1. IsFiniteSet(S) /\ Cardinality(S) \in Nat
  BY StartsFinite
<1>2. \A i \in S : i \in 1..n /\ ~Joins(targets, i) /\ i \in Starts(targets, i)
  BY DEF Starts
<1>3. f \in [S -> T]
  <2>1. SUFFICES ASSUME NEW i \in S PROVE Cardinality(Starts(targets, i)) \in T
    OBVIOUS
  <2>2. /\ Cardinality(Starts(targets, i)) \in Nat
        /\ Cardinality(Starts(targets, i)) <= Cardinality(S)
    BY <1>2, <2>1, StartsFinite, SameRun
  <2>3. Cardinality(Starts(targets, i)) # 0
    BY <1>2, <2>1, StartsFinite, FS_EmptySet
  <2>4. QED
    BY <1>1, <2>2, <2>3
<1>4. \A a, b \in S : a < b => f[a] # f[b]
  BY <1>2, SameRun
<1>5. f \in Injection(S, T)
  <2>1. \A a, b \in S : f[a] = f[b] => a = b
    BY <1>2, <1>4
  <2> HIDE DEF f, T, S
  <2>2. QED
    BY <1>3, <2>1, Fun_IsInj
<1>6. IsFiniteSet(T) /\ Cardinality(T) = Cardinality(S)
  <2>1. PICK c \in Nat : c = Cardinality(S)
    BY <1>1
  <2>2. IsFiniteSet(1..c) /\ Cardinality(1..c) = c
    BY FS_Interval
  <2>3. QED
    BY <2>1, <2>2
<1>7. f \in Surjection(S, T)
  <2> HIDE DEF f, T, S
  <2>1. QED
    BY <1>5, <1>6, FS_Injection
<1>8. PICK s \in S : f[s] = r
  <2>1. r \in T
    OBVIOUS
  <2> HIDE DEF f, S, T
  <2>2. QED
    BY <1>7, <2>1, Fun_SurjectionProperties
<1>9. s \in 1..n /\ ~Joins(targets, s) /\ Cardinality(Starts(targets, s)) = r
  BY <1>2, <1>8
<1>10. ASSUME NEW j \in 1..n, j < s PROVE j \notin Run(targets, r)
  BY <1>9, <1>10, SameRun DEF Run
<1>11. ASSUME NEW j \in 1..n, j >= s
       PROVE  j \in Run(targets, r) <=> \A k \in (s + 1)..j : Joins(targets, k)
  BY <1>9, <1>11, SameRun DEF Run
<1>12. s \in Run(targets, r) /\ \A j \in Run(targets, r) : j \in 1..n
  BY <1>9 DEF Run
<1>13. QED
  BY <1>9, <1>10, <1>11, <1>12

(***************************************************************************)
(* The r-th segment of n messages is an interval of them, from just after  *)
(* the one before it, and no message of it but the first starts a segment. *)
(***************************************************************************)
Adjoin(p, c, n, targets) ==
  /\ p \in [0..c -> 0..n] /\ p[0] = 0 /\ p[c] = n
  /\ \A r \in 1..c :
       /\ p[r - 1] < p[r]
       /\ Run(targets, r) = (p[r - 1] + 1)..p[r]
       /\ \A k \in (p[r - 1] + 2)..p[r] : Joins(targets, k)

LEMMA RunsAdjoin ==
  ASSUME NEW n \in Nat \ {0}, NEW targets, DOMAIN targets = 1..n,
         NEW c, c = Cardinality(Starts(targets, n))
  PROVE  c \in Nat \ {0} /\ \E p : Adjoin(p, c, n, targets)
<1> DEFINE D(r) == {i \in 1..n : Cardinality(Starts(targets, i)) <= r}
<1>1. \A i, j \in 1..n : i <= j =>
        Cardinality(Starts(targets, i)) <= Cardinality(Starts(targets, j))
  BY SameRun
<1>2. \A i \in 1..n : Cardinality(Starts(targets, i)) \in Nat \ {0}
  <2>1. SUFFICES ASSUME NEW i \in 1..n PROVE Cardinality(Starts(targets, i)) \in Nat \ {0}
    OBVIOUS
  <2>2. 1 \in Starts(targets, i)
    BY <2>1 DEF Starts, Joins
  <2>3. QED
    BY <2>1, <2>2, StartsFinite, FS_EmptySet
<1>3. c \in Nat \ {0}
  BY <1>2
<1>4. PICK p : p = [r \in 0..c |-> Cardinality(D(r))]
  OBVIOUS
<1>5. ASSUME NEW r \in 0..c PROVE p[r] \in 0..n /\ D(r) = 1..p[r]
  <2>1. \A i \in D(r) : \A j \in 1..i : j \in D(r)
    <3>1. SUFFICES ASSUME NEW i \in D(r), NEW j \in 1..i PROVE j \in D(r)
      OBVIOUS
    <3>2. i \in 1..n /\ j \in 1..n /\ j <= i
      OBVIOUS
    <3>3. QED
      BY <1>1, <1>2, <1>3, <3>2
  <2>2. D(r) \subseteq 1..n
    OBVIOUS
  <2>3. PICK d : d = D(r)
    OBVIOUS
  <2>4. Cardinality(d) \in 0..n /\ d = 1..Cardinality(d)
    BY <2>1, <2>2, <2>3, InitialInterval
  <2>5. p[r] = Cardinality(d)
    BY <1>4, <2>3
  <2>6. QED
    BY <2>3, <2>4, <2>5
<1>6. p \in [0..c -> 0..n]
  <2> HIDE DEF D
  <2>1. QED
    BY <1>4, <1>5
<1>7. p[0] = 0
  <2>1. D(0) = {}
    BY <1>2
  <2> HIDE DEF D
  <2>2. 1..p[0] = {} /\ p[0] \in 0..n
    BY <1>3, <1>5, <2>1, SMTT(60)
  <2>3. QED
    BY <2>2
<1>8. p[c] = n
  <2>1. n \in D(c)
    BY <1>3
  <2> HIDE DEF D
  <2>2. n \in 1..p[c] /\ p[c] \in 0..n
    BY <1>3, <1>5, <2>1
  <2>3. QED
    BY <2>2
<1>9. ASSUME NEW r \in 1..c
      PROVE  /\ p[r - 1] < p[r]
             /\ Run(targets, r) = (p[r - 1] + 1)..p[r]
             /\ \A k \in (p[r - 1] + 2)..p[r] : Joins(targets, k)
  <2>1. r \in 0..c /\ r - 1 \in 0..c
    BY <1>3, <1>9
  <2>2. \A i \in 1..n : i \in Run(targets, r) <=> i \in D(r) /\ i \notin D(r - 1)
    BY <1>2, <1>3, <1>9 DEF Run
  <2>3. PICK s \in Run(targets, r) : TRUE
    BY <1>9, RunStart
  <2>4. Run(targets, r) \subseteq 1..n
    BY DEF Run
  <2>5. /\ D(r) = 1..p[r] /\ D(r - 1) = 1..p[r - 1]
        /\ p[r] \in 0..n /\ p[r - 1] \in 0..n
    BY <1>5, <2>1
  <2> HIDE DEF D
  <2>6. \A i \in 1..n : i \in Run(targets, r) <=> i <= p[r] /\ i > p[r - 1]
    BY <2>2, <2>5
  <2>7. p[r - 1] < p[r]
    BY <2>3, <2>4, <2>5, <2>6
  <2>8. Run(targets, r) = (p[r - 1] + 1)..p[r]
    <3>1. \A i \in (p[r - 1] + 1)..p[r] : i \in 1..n /\ i <= p[r] /\ i > p[r - 1]
      BY <2>5
    <3>2. \A i \in 1..n : i <= p[r] /\ i > p[r - 1] => i \in (p[r - 1] + 1)..p[r]
      BY <2>5
    <3>3. QED
      BY <2>4, <2>6, <3>1, <3>2
  <2>9. ASSUME NEW k \in (p[r - 1] + 2)..p[r] PROVE Joins(targets, k)
    <3>1. /\ k \in (p[r - 1] + 1)..p[r] /\ k - 1 \in (p[r - 1] + 1)..p[r]
          /\ k \in Nat /\ k - 1 \in Nat /\ k \in ((k - 1) + 1)..k
      BY <2>5, <2>9, SMTT(60)
    <3>2. Cardinality(Starts(targets, k - 1)) = Cardinality(Starts(targets, k))
      BY <2>8, <3>1 DEF Run
    <3>3. QED
      BY <3>1, <3>2, SameRun
  <2>10. QED
    BY <2>7, <2>8, <2>9
<1> HIDE DEF D
<1>10. Adjoin(p, c, n, targets)
  BY <1>6, <1>7, <1>8, <1>9 DEF Adjoin
<1>11. QED
  BY <1>3, <1>10

(***************************************************************************)
(* Split cuts a batch of n messages at p[0], ..., p[c], and no message     *)
(* within a segment has a handle unless it is alone.                       *)
(***************************************************************************)
CutAt(p, r, batch, targets) ==
  [chunks |-> SubSeq(batch, p[r - 1] + 1, p[r]), handle |-> targets[p[r - 1] + 1]]

Cuts(p, c, n, batch, targets) ==
  /\ p \in [0..c -> 0..n] /\ p[0] = 0 /\ p[c] = n
  /\ \A r \in 1..c :
       /\ p[r - 1] < p[r]
       /\ \A k \in (p[r - 1] + 2)..p[r] :
            targets[k] = NoTarget /\ targets[k - 1] = NoTarget
  /\ Split(batch, targets) = [r \in 1..c |-> CutAt(p, r, batch, targets)]

LEMMA SplitCuts ==
  ASSUME NEW n \in Nat \ {0}, NEW batch, Len(batch) = n,
         NEW targets, DOMAIN targets = 1..n
  PROVE  \E c \in Nat \ {0} : \E p : Cuts(p, c, n, batch, targets)
<1>1. PICK c : c = Cardinality(Starts(targets, n))
  OBVIOUS
<1>2. c \in Nat \ {0}
  BY <1>1, RunsAdjoin
<1>3. PICK p : Adjoin(p, c, n, targets)
  BY <1>1, RunsAdjoin, Zenon
<1> DEFINE Seg(r) ==
      LET run == Run(targets, r)
          start == CHOOSE i \in run : \A j \in run : i <= j
      IN  [chunks |-> SubSeq(batch, start, start + Cardinality(run) - 1),
           handle |-> targets[start]]
<1>4. ASSUME NEW r \in 1..c PROVE Seg(r) = CutAt(p, r, batch, targets)
  <2>1. PICK a, b : a = p[r - 1] + 1 /\ b = p[r]
    OBVIOUS
  <2>2. r \in 0..c /\ r - 1 \in 0..c
    BY <1>2, <1>4
  <2>3. a \in Nat /\ b \in Nat /\ a <= b /\ Run(targets, r) = a..b
    BY <1>3, <1>4, <2>1, <2>2 DEF Adjoin
  <2>4. a = CHOOSE i \in a..b : \A j \in a..b : i <= j
    BY <2>3
  <2>5. a + Cardinality(a..b) - 1 = b
    <3>1. Cardinality(a..b) = IF a > b THEN 0 ELSE b - a + 1
      BY <2>3, FS_Interval
    <3>2. QED
      BY <2>3, <3>1
  <2>6. QED
    BY <2>1, <2>3, <2>4, <2>5 DEF CutAt
<1>5. Split(batch, targets) = [r \in 1..c |-> Seg(r)]
  BY <1>1 DEF Split
<1> HIDE DEF Seg
<1>6. Split(batch, targets) = [r \in 1..c |-> CutAt(p, r, batch, targets)]
  BY <1>4, <1>5
<1>7. \A r \in 1..c : \A k \in (p[r - 1] + 2)..p[r] :
        targets[k] = NoTarget /\ targets[k - 1] = NoTarget
  BY <1>3 DEF Joins, Adjoin
<1>8. Cuts(p, c, n, batch, targets)
  BY <1>3, <1>6, <1>7 DEF Cuts, Adjoin
<1>9. QED
  BY <1>2, <1>8

\* The r-th segment of a batch that is cut at p.
LEMMA CutsBound ==
  ASSUME NEW n \in Nat \ {0}, NEW batch, NEW targets, NEW c \in Nat \ {0}, NEW p,
         Cuts(p, c, n, batch, targets), NEW r \in 1..c
  PROVE  p[r - 1] + 1 \in 1..n /\ p[r] \in (p[r - 1] + 1)..n
<1>1. r \in 0..c /\ r - 1 \in 0..c
  OBVIOUS
<1>2. p[r - 1] \in 0..n /\ p[r] \in 0..n /\ p[r - 1] < p[r]
  BY <1>1 DEF Cuts
<1>3. QED
  BY <1>2

\* The segments of a batch are segments, at least one.
LEMMA SplitTyped ==
  ASSUME NEW M, NEW batch \in Seq(M), batch # <<>>,
         NEW targets, DOMAIN targets = 1..Len(batch),
         \A i \in 1..Len(batch) : targets[i] \in Targets
  PROVE  /\ Split(batch, targets) \in Seq([chunks : Seq(M), handle : Targets])
         /\ Split(batch, targets) # <<>>
<1>1. PICK n \in Nat \ {0} : n = Len(batch)
  OBVIOUS
<1>0. PICK c \in Nat \ {0} : \E p : Cuts(p, c, n, batch, targets)
  BY <1>1, SplitCuts, Zenon
<1>2. PICK p : Cuts(p, c, n, batch, targets)
  BY <1>0
<1>3. PICK segs : segs = Split(batch, targets)
  OBVIOUS
<1>4. ASSUME NEW r \in 1..c PROVE segs[r] \in [chunks : Seq(M), handle : Targets]
  <2>1. p[r - 1] + 1 \in 1..Len(batch) /\ p[r] \in (p[r - 1] + 1)..Len(batch)
    BY <1>1, <1>0, <1>2, CutsBound, Zenon
  <2>2. SubSeq(batch, p[r - 1] + 1, p[r]) \in Seq(M)
    BY <2>1, CutIs
  <2>3. Split(batch, targets)[r] = CutAt(p, r, batch, targets)
    BY <1>0, <1>2 DEF Cuts
  <2>4. QED
    BY <1>3, <2>1, <2>2, <2>3 DEF CutAt
<1>5. segs \in [1..c -> [chunks : Seq(M), handle : Targets]]
  BY <1>0, <1>2, <1>3, <1>4 DEF Cuts
<1>6. segs \in Seq([chunks : Seq(M), handle : Targets]) /\ Len(segs) = c
  BY <1>5, FunctionIsSeq
<1>7. QED
  BY <1>3, <1>6

(***************************************************************************)
(* The segments of a batch are honest when the handles are those the       *)
(* messages of the batch were written with.                                *)
(***************************************************************************)
LEMMA SplitHonest ==
  ASSUME sent \in Seq(Targets),
         NEW batch \in Seq(1..Len(sent)), batch # <<>>,
         NEW targets, DOMAIN targets = 1..Len(batch),
         \A i \in 1..Len(batch) : targets[i] = sent[batch[i]]
  PROVE  Split(batch, targets) \in Seq(Honest) /\ Split(batch, targets) # <<>>
<1>1. PICK n \in Nat \ {0} : n = Len(batch)
  OBVIOUS
<1>0. PICK c \in Nat \ {0} : \E p : Cuts(p, c, n, batch, targets)
  BY <1>1, SplitCuts, Zenon
<1>2. PICK p : Cuts(p, c, n, batch, targets)
  BY <1>0
<1>4. PICK segs : segs = Split(batch, targets)
  OBVIOUS
<1>5. /\ segs \in Seq([chunks : Seq(1..Len(sent)), handle : Targets])
      /\ segs # <<>> /\ DOMAIN segs = 1..c
  <2>1. \A i \in 1..Len(batch) : targets[i] \in Targets
    OBVIOUS
  <2>2. segs \in Seq([chunks : Seq(1..Len(sent)), handle : Targets]) /\ segs # <<>>
    BY <1>4, <2>1, SplitTyped
  <2>3. DOMAIN segs = 1..c
    BY <1>0, <1>2, <1>4 DEF Cuts
  <2>4. QED
    BY <2>2, <2>3
<1>6. ASSUME NEW r \in 1..c PROVE segs[r] \in Honest
  <2>1. PICK w : w = segs[r]
    OBVIOUS
  <2>2. PICK s, e : s = p[r - 1] + 1 /\ e = p[r]
    OBVIOUS
  <2>3. /\ s \in 1..n /\ e \in s..n
        /\ \A k \in (p[r - 1] + 2)..e : targets[k] = NoTarget /\ targets[k - 1] = NoTarget
        /\ w = [chunks |-> SubSeq(batch, s, e), handle |-> targets[s]]
    <3>1. p[r - 1] + 1 \in 1..n /\ p[r] \in (p[r - 1] + 1)..n
      BY <1>0, <1>2, CutsBound, Zenon
    <3>2. /\ Split(batch, targets)[r] = CutAt(p, r, batch, targets)
          /\ \A k \in (p[r - 1] + 2)..p[r] :
               targets[k] = NoTarget /\ targets[k - 1] = NoTarget
      BY <1>0, <1>2 DEF Cuts
    <3>3. w = [chunks |-> SubSeq(batch, s, e), handle |-> targets[s]]
      BY <1>4, <2>1, <2>2, <3>2 DEF CutAt
    <3>4. QED
      BY <2>2, <3>1, <3>2, <3>3
  <2>4. s \in 1..n /\ e \in s..n
    BY <2>3
  <2>5. \A k \in (s + 1)..e : targets[k] = NoTarget /\ targets[k - 1] = NoTarget
    <3>1. r - 1 \in 0..c
      BY <1>6
    <3>2. p[r - 1] \in 0..n
      BY <1>0, <1>2, <3>1 DEF Cuts
    <3>3. s + 1 = p[r - 1] + 2
      BY <2>2, <3>2
    <3>4. QED
      BY <2>3, <3>3
  <2>6. /\ w \in [chunks : Seq(1..Len(sent)), handle : Targets]
        /\ w.chunks = SubSeq(batch, s, e) /\ w.handle = targets[s]
        /\ w.chunks \in Seq(1..Len(sent))
    <3>1. w \in [chunks : Seq(1..Len(sent)), handle : Targets]
      <4>1. PICK S : S = [chunks : Seq(1..Len(sent)), handle : Targets]
        OBVIOUS
      <4>2. segs \in Seq(S) /\ r \in 1..Len(segs)
        BY <1>5, <1>6, <4>1
      <4>3. segs[r] \in S
        BY <4>2
      <4>4. QED
        BY <2>1, <4>1, <4>3
    <3>2. w.chunks = SubSeq(batch, s, e) /\ w.handle = targets[s]
      BY <2>3
    <3>3. QED
      BY <3>1, <3>2
  <2>7. /\ Len(w.chunks) = e - s + 1
        /\ \A j \in 1..(e - s + 1) : w.chunks[j] = batch[s + j - 1]
    BY <1>1, <2>4, <2>6, CutIs
  <2>8. CASE targets[s] = NoTarget
    <3>1. ASSUME NEW j \in 1..(e - s + 1) PROVE sent[w.chunks[j]] = NoTarget
      <4>1. PICK i : i = s + j - 1
        OBVIOUS
      <4>2. i \in 1..n /\ (i = s \/ i \in (s + 1)..e)
        BY <2>4, <3>1, <4>1
      <4>3. targets[i] = NoTarget /\ targets[i] = sent[batch[i]]
        BY <1>1, <2>5, <2>8, <4>2
      <4>4. QED
        BY <2>7, <3>1, <4>1, <4>3
    <3>2. DOMAIN w.chunks = 1..Len(w.chunks)
      BY <2>6
    <3>3. QED
      BY <2>1, <2>6, <2>7, <2>8, <3>1, <3>2 DEF Honest
  <2>9. CASE targets[s] # NoTarget
    <3>1. e = s
      <4>1. ASSUME e # s PROVE FALSE
        <5>1. s + 1 \in (s + 1)..e /\ (s + 1) - 1 = s
          BY <2>4, <4>1
        <5>2. QED
          BY <2>5, <2>9, <5>1
      <4>2. QED
        BY <4>1
    <3>2. Len(w.chunks) = 1 /\ w.chunks[1] = batch[s] /\ targets[s] = sent[batch[s]]
      BY <1>1, <2>4, <2>7, <3>1
    <3>3. QED
      BY <2>1, <2>6, <2>9, <3>2 DEF Honest
  <2>10. QED
    BY <2>8, <2>9
<1>7. segs \in Seq(Honest)
  BY <1>5, <1>6
<1>8. QED
  BY <1>4, <1>5, <1>7

\* The segments of a batch carry its messages in order.
LEMMA SplitTiles ==
  ASSUME NEW a \in Nat, NEW b \in Nat, a < b,
         NEW targets, DOMAIN targets = 1..(b - a)
  PROVE  Tiles(Split(Between(a, b), targets), a, b)
<1>1. PICK n \in Nat \ {0} : n = b - a
  OBVIOUS
<1>2. PICK batch : batch = Between(a, b)
  OBVIOUS
<1>3. a <= b /\ Len(batch) = n /\ DOMAIN targets = 1..n
  <2>1. a <= b
    OBVIOUS
  <2>2. Len(Between(a, b)) = b - a
    BY <2>1, BetweenIs
  <2>3. QED
    BY <1>1, <1>2, <2>1, <2>2
<1>0. PICK c \in Nat \ {0} : \E p : Cuts(p, c, n, batch, targets)
  BY <1>1, <1>3, SplitCuts, Zenon
<1>4. PICK p : Cuts(p, c, n, batch, targets)
  BY <1>0
<1>5. PICK segs : segs = Split(batch, targets)
  OBVIOUS
<1>6. PICK S : S = {CutAt(p, r, batch, targets) : r \in 1..c}
  OBVIOUS
<1>7. segs \in [1..c -> S] /\ \A r \in 1..c : segs[r] = CutAt(p, r, batch, targets)
  BY <1>0, <1>4, <1>5, <1>6 DEF Cuts
<1>8. Len(segs) = c
  BY <1>7, FunctionIsSeq
<1>9. PICK f : f = [r \in 0..c |-> a + p[r]]
  OBVIOUS
<1>10. f \in [0..c -> 0..b] /\ f[0] = a /\ f[c] = b
  <2>1. /\ c \in Nat \ {0} /\ n = b - a
        /\ p \in [0..c -> 0..n] /\ p[0] = 0 /\ p[c] = n
    BY <1>0, <1>1, <1>4 DEF Cuts
  <2>2. \A r \in 0..c : f[r] = a + p[r] /\ p[r] \in 0..n
    BY <1>9, <2>1
  <2>3. f \in [0..c -> 0..b]
    <3>1. \A r \in 0..c : a + p[r] \in 0..b
      BY <2>1, <2>2, SMTT(60)
    <3>2. QED
      BY <1>9, <3>1
  <2>4. 0 \in 0..c /\ c \in 0..c /\ a + 0 = a /\ a + n = b
    BY <2>1
  <2>5. f[0] = a + p[0] /\ f[c] = a + p[c]
    BY <2>2, <2>4
  <2>6. QED
    BY <2>1, <2>3, <2>4, <2>5
<1>11. ASSUME NEW r \in 1..c
       PROVE  f[r - 1] <= f[r] /\ segs[r].chunks = Between(f[r - 1], f[r])
  <2>1. PICK k, l : k = p[r - 1] /\ l = p[r]
    OBVIOUS
  <2>2. r \in 0..c /\ r - 1 \in 0..c
    BY <1>11
  <2>3. k \in Nat /\ l \in Nat /\ l \in (k + 1)..(b - a)
    BY <1>1, <1>0, <1>4, <2>1, <2>2 DEF Cuts
  <2>4. f[r - 1] = a + k /\ f[r] = a + l
    BY <1>9, <2>1, <2>2
  <2>5. segs[r].chunks = SubSeq(batch, k + 1, l)
    BY <1>7, <2>1 DEF CutAt
  <2>6. SubSeq(Between(a, b), k + 1, l) = Between(a + k, a + l)
    <3>1. a <= b /\ k \in Nat /\ l \in (k + 1)..(b - a)
      BY <2>3
    <3>2. QED
      BY <3>1, BetweenSub, ZenonT(60)
  <2>7. a + k <= a + l
    BY <2>3
  <2>8. segs[r].chunks = Between(a + k, a + l)
    BY <1>2, <2>5, <2>6
  <2>9. QED
    BY <2>4, <2>7, <2>8
<1>12. QED
  BY <1>2, <1>5, <1>8, <1>10, <1>11 DEF Tiles

-----------------------------------------------------------------------------
(* The invariant.                                                          *)

LEMMA InitIInv == Init => IInv
<1>1. SUFFICES ASSUME Init PROVE IInv
  OBVIOUS
<1>2. Count(<<>>) = 0
  BY CountPlaces, FS_EmptySet DEF Places
<1>3. QED
  BY <1>1, <1>2 DEF Init, IInv, QueuesAligned

\* What an honest segment says stays true as messages are written.
LEMMA HonestGrows ==
  ASSUME sent \in Seq(Targets), NEW h \in Targets, sent' = Append(sent, h)
  PROVE  Honest \subseteq Honest'
<1>1. /\ Len(sent) \in Nat /\ Len(sent') = Len(sent) + 1
      /\ \A i \in 1..Len(sent) : sent'[i] = sent[i]
  OBVIOUS
<1>2. 1..Len(sent) \subseteq 1..Len(sent')
  BY <1>1
<1>3. Seq(1..Len(sent)) \subseteq Seq(1..Len(sent'))
  BY <1>2
<1>4. ASSUME NEW w \in Honest PROVE w \in Honest'
  <2>1. /\ w \in [chunks : Seq(1..Len(sent)), handle : Targets]
        /\ w \in [chunks : Seq(1..Len(sent')), handle : Targets]
        /\ IF w.handle = NoTarget
           THEN \A j \in DOMAIN w.chunks : sent[w.chunks[j]] = NoTarget
           ELSE Len(w.chunks) = 1 /\ sent[w.chunks[1]] = w.handle
    BY <1>3 DEF Honest
  <2>2. \A j \in DOMAIN w.chunks : sent'[w.chunks[j]] = sent[w.chunks[j]]
    BY <1>1, <2>1
  <2>3. IF w.handle = NoTarget
        THEN \A j \in DOMAIN w.chunks : sent'[w.chunks[j]] = NoTarget
        ELSE Len(w.chunks) = 1 /\ sent'[w.chunks[1]] = w.handle
    BY <2>1, <2>2
  <2>4. QED
    BY <2>1, <2>3 DEF Honest, Targets
<1>5. QED
  BY <1>4

\* Taking the first handles of the queue keeps its size in step.
LEMMA TakeKeepsCount ==
  ASSUME NEW q \in Seq(Targets), NEW t, NEW n \in Nat, n <= Len(q),
         DOMAIN t = 1..n, \A i \in 1..n : t[i] = q[i]
  PROVE  /\ Count(t) = Cardinality(Places(q, n))
         /\ Count(SubSeq(q, n + 1, Len(q))) = Count(q) - Count(t)
<1>1. Places(t, n) = Places(q, n)
  BY DEF Places
<1>2. Count(t) = Cardinality(Places(t, n))
  BY CountPlaces
<1>3. QED
  BY <1>1, <1>2, CountRest

\* A queue of size 0 holds only nulls.
LEMMA NoHandles ==
  ASSUME NEW q \in Seq(Targets), Count(q) = 0
  PROVE  \A i \in 1..Len(q) : q[i] = NoTarget
<1>1. PICK n \in Nat : n = Len(q)
  OBVIOUS
<1>2. DOMAIN q = 1..n
  BY <1>1
<1>3. Cardinality(Places(q, n)) = 0
  BY <1>2, CountPlaces
<1>4. Places(q, n) = {}
  BY <1>3, PlacesFinite, FS_EmptySet
<1>5. QED
  BY <1>1, <1>4 DEF Places

\* Messages and entries that are added at the end of both queues.
LEMMA WriteKeepsIInv ==
  ASSUME IInv, NEW h \in Targets, Write(h)
  PROVE  IInv'
<1>1. /\ ~closing /\ ~closing' /\ throws' = throws
      /\ sent' = Append(sent, h) /\ queue' = Append(queue, Len(sent) + 1)
      /\ handleQueue' = Append(handleQueue, h)
      /\ handleQueueSize' = handleQueueSize + (IF h = NoTarget THEN 0 ELSE 1)
      /\ segments' = segments /\ wire' = wire
  BY DEF Write, Enqueue
<1>2. /\ sent \in Seq(Targets) /\ throws \in Nat
      /\ queue \in Seq(1..Len(sent)) /\ handleQueue \in Seq(Targets)
      /\ Len(queue) <= Len(handleQueue)
      /\ handleQueueSize = Count(handleQueue)
      /\ throws = 0 => /\ Len(handleQueue) = Len(queue)
                       /\ \A i \in DOMAIN queue : handleQueue[i] = sent[queue[i]]
      /\ throws = 0 => segments \in Seq(Honest) /\ wire \in Seq(Honest)
  BY <1>1 DEF IInv, QueuesAligned
<1>3. /\ sent' \in Seq(Targets) /\ Len(sent') = Len(sent) + 1 /\ Len(sent) \in Nat
      /\ sent'[Len(sent) + 1] = h
      /\ \A m \in 1..Len(sent) : sent'[m] = sent[m]
  BY <1>1, <1>2
<1>4. queue \in Seq(1..Len(sent'))
  <2>1. PICK S, T : S = 1..Len(sent) /\ T = 1..Len(sent')
    OBVIOUS
  <2>2. S \subseteq T
    BY <1>3, <2>1
  <2>3. queue \in Seq(S)
    BY <1>2, <2>1
  <2>4. queue \in Seq(T)
    BY <2>2, <2>3
  <2>5. QED
    BY <2>1, <2>4
<1>5. /\ queue' \in Seq(1..Len(sent')) /\ Len(queue') = Len(queue) + 1
      /\ queue'[Len(queue) + 1] = Len(sent) + 1
      /\ \A i \in 1..Len(queue) : queue'[i] = queue[i] /\ queue[i] \in 1..Len(sent)
  BY <1>1, <1>2, <1>3, <1>4, SMTT(60)
<1>6. /\ handleQueue' \in Seq(Targets) /\ Len(handleQueue') = Len(handleQueue) + 1
      /\ handleQueue'[Len(handleQueue) + 1] = h
      /\ \A i \in 1..Len(handleQueue) : handleQueue'[i] = handleQueue[i]
  BY <1>1, <1>2
<1>7. Len(queue') <= Len(handleQueue')
  BY <1>2, <1>5, <1>6
<1>8. handleQueueSize' = Count(handleQueue')
  BY <1>1, <1>2, CountAppend
<1>9. ASSUME throws = 0
      PROVE  /\ Len(handleQueue') = Len(queue')
             /\ \A i \in DOMAIN queue' : handleQueue'[i] = sent'[queue'[i]]
  <2>1. Len(handleQueue') = Len(queue')
    BY <1>2, <1>5, <1>6, <1>9
  <2>2. ASSUME NEW i \in 1..Len(queue) PROVE handleQueue'[i] = sent'[queue'[i]]
    <3>1. i \in DOMAIN queue /\ i \in 1..Len(handleQueue)
      BY <1>2, <1>9, <2>2
    <3>2. handleQueue'[i] = handleQueue[i] /\ handleQueue[i] = sent[queue[i]]
      BY <1>2, <1>6, <1>9, <3>1
    <3>3. queue'[i] = queue[i] /\ sent'[queue[i]] = sent[queue[i]]
      BY <1>3, <1>5, <2>2
    <3>4. QED
      BY <3>2, <3>3
  <2>3. handleQueue'[Len(queue) + 1] = sent'[queue'[Len(queue) + 1]]
    <3>1. Len(handleQueue) = Len(queue)
      BY <1>2, <1>9
    <3>2. QED
      BY <1>3, <1>5, <1>6, <3>1
  <2>4. DOMAIN queue' = 1..(Len(queue) + 1) /\ Len(queue) \in Nat
    BY <1>2, <1>5
  <2>5. QED
    BY <2>1, <2>2, <2>3, <2>4
<1>10. ASSUME throws = 0 PROVE segments' \in Seq(Honest') /\ wire' \in Seq(Honest')
  <2>1. Honest \subseteq Honest'
    BY <1>1, <1>2, HonestGrows
  <2>2. QED
    BY <1>1, <1>2, <1>10, <2>1
<1>11. QED
  BY <1>1, <1>2, <1>3, <1>5, <1>6, <1>7, <1>8, <1>9, <1>10 DEF IInv, QueuesAligned

\* After a write() that throws only the count of handles is claimed.
LEMMA WriteThrowsKeepsIInv ==
  ASSUME IInv, NEW h \in Targets, WriteThrows(h)
  PROVE  IInv'
<1>1. /\ ~closing /\ ~closing' /\ throws' = throws + 1 /\ throws \in Nat
      /\ UNCHANGED <<sent, queue>>
      /\ handleQueue' = Append(handleQueue, h)
      /\ handleQueueSize' = handleQueueSize + (IF h = NoTarget THEN 0 ELSE 1)
  BY DEF WriteThrows, Enqueue, IInv
<1>2. /\ sent \in Seq(Targets) /\ queue \in Seq(1..Len(sent))
      /\ handleQueue \in Seq(Targets) /\ Len(queue) <= Len(handleQueue)
      /\ handleQueueSize = Count(handleQueue)
  BY <1>1 DEF IInv, QueuesAligned
<1>3. handleQueue' \in Seq(Targets) /\ Len(queue') <= Len(handleQueue')
  BY <1>1, <1>2
<1>4. handleQueueSize' = Count(handleQueue')
  BY <1>1, <1>2, CountAppend
<1>5. throws' \in Nat /\ throws' # 0
  BY <1>1
<1>6. sent' \in Seq(Targets) /\ queue' \in Seq(1..Len(sent'))
  BY <1>1, <1>2
<1>7. QED
  BY <1>1, <1>3, <1>4, <1>5, <1>6 DEF IInv, QueuesAligned

\* The next native write takes the first of the segments.
LEMMA WriteSegmentsHonest ==
  ASSUME NEW segs \in Seq(Honest), segs # <<>>, wire \in Seq(Honest),
         WriteSegments(segs)
  PROVE  segments' \in Seq(Honest) /\ wire' \in Seq(Honest)
<1>1. Head(segs) \in Honest
  OBVIOUS
<1>2. Append(wire, Head(segs)) \in Seq(Honest) /\ <<>> \in Seq(Honest)
  BY <1>1
<1>3. QED
  BY <1>2 DEF WriteSegments

\* _writev: the batch and its handles leave the two queues together.
LEMMA WritevKeepsIInv ==
  ASSUME IInv, Writev
  PROVE  IInv'
<1>1. PICK n \in Nat : n = Len(queue)
  BY DEF IInv
<1>2. /\ ~closing /\ queue # <<>> /\ queue' = <<>> /\ UNCHANGED <<sent, throws>>
      /\ sent \in Seq(Targets) /\ throws \in Nat /\ queue \in Seq(1..Len(sent))
      /\ handleQueue \in Seq(Targets) /\ n <= Len(handleQueue)
      /\ handleQueueSize = Count(handleQueue)
      /\ throws = 0 => /\ Len(handleQueue) = n
                       /\ \A i \in 1..n : handleQueue[i] = sent[queue[i]]
      /\ throws = 0 => segments \in Seq(Honest) /\ wire \in Seq(Honest)
  <2>1. ~closing /\ queue # <<>> /\ queue' = <<>> /\ UNCHANGED <<sent, throws>>
    BY DEF Writev
  <2>2. /\ sent \in Seq(Targets) /\ throws \in Nat /\ queue \in Seq(1..Len(sent))
        /\ handleQueue \in Seq(Targets) /\ n <= Len(handleQueue)
        /\ throws = 0 => segments \in Seq(Honest) /\ wire \in Seq(Honest)
    BY <1>1, <2>1 DEF IInv
  <2>3. /\ handleQueueSize = Count(handleQueue)
        /\ throws = 0 => /\ Len(handleQueue) = Len(queue)
                         /\ \A i \in DOMAIN queue : handleQueue[i] = sent[queue[i]]
    BY <2>1 DEF IInv, QueuesAligned
  <2>4. DOMAIN queue = 1..n
    BY <1>1, <2>2
  <2>5. throws = 0 => /\ Len(handleQueue) = n
                     /\ \A i \in 1..n : handleQueue[i] = sent[queue[i]]
    BY <1>1, <2>3, <2>4
  <2>6. QED
    BY <2>1, <2>2, <2>3, <2>5
<1>3. PICK targets : targets = Taken(queue)
  OBVIOUS
<1>4. /\ DOMAIN targets = 1..n
      /\ \A i \in 1..n : targets[i] = handleQueue[i]
  BY <1>1, <1>2, <1>3 DEF Taken
<1>5. /\ Count(targets) = Cardinality(Places(handleQueue, n))
      /\ Count(SubSeq(handleQueue, n + 1, Len(handleQueue)))
           = Count(handleQueue) - Count(targets)
  BY <1>2, <1>4, TakeKeepsCount
<1>6. handleQueue' \in Seq(Targets)
  BY <1>1, <1>2 DEF Writev, TakeHandles
<1>7. ASSUME ~closing' PROVE handleQueueSize' = Count(handleQueue')
  <2>1. handleQueueSize' = handleQueueSize - Count(targets)
    BY <1>3, <1>7 DEF Writev, TakeHandles
  <2>2. CASE handleQueueSize = 0
    <3>1. handleQueue' = <<>> /\ Count(<<>>) = 0
      BY <2>2, CountPlaces, FS_EmptySet DEF Writev, TakeHandles, Places
    <3>2. \A i \in 1..Len(handleQueue) : handleQueue[i] = NoTarget
      BY <1>2, <2>2, NoHandles
    <3>3. Places(handleQueue, n) = {}
      BY <1>2, <3>2, SMTT(60) DEF Places
    <3>4. Count(targets) = 0
      BY <1>5, <3>3, FS_EmptySet
    <3>5. QED
      BY <2>1, <2>2, <3>1, <3>4
  <2>3. CASE handleQueueSize # 0
    <3>1. handleQueue' = SubSeq(handleQueue, n + 1, Len(handleQueue))
      BY <1>1, <1>7, <2>3 DEF Writev, TakeHandles
    <3>2. QED
      BY <1>2, <1>5, <2>1, <3>1
  <2>4. QED
    BY <2>2, <2>3
<1>8. ASSUME throws = 0, ~closing' PROVE handleQueue' = <<>>
  BY <1>1, <1>2, <1>8 DEF Writev, TakeHandles
<1>9. ASSUME throws = 0 PROVE segments' \in Seq(Honest) /\ wire' \in Seq(Honest)
  <2>1. \A i \in 1..n : targets[i] = sent[queue[i]]
    BY <1>2, <1>4, <1>9
  <2>2. CASE handleQueueSize = 0
    <3>1. \A i \in 1..Len(handleQueue) : handleQueue[i] = NoTarget
      BY <1>2, <2>2, NoHandles
    <3>2. \A i \in 1..n : sent[queue[i]] = NoTarget
      BY <1>2, <1>9, <3>1
    <3>3. PICK w : w = [chunks |-> queue, handle |-> NoTarget]
      OBVIOUS
    <3>4. w \in Honest
      BY <1>1, <1>2, <3>2, <3>3 DEF Honest, Targets
    <3>5. <<w>> \in Seq(Honest) /\ <<w>> # <<>>
      BY <3>4
    <3>6. WriteSegments(<<w>>)
      BY <2>2, <3>3 DEF Writev
    <3>7. QED
      BY <1>2, <1>9, <3>5, <3>6, WriteSegmentsHonest
  <2>3. CASE handleQueueSize # 0
    <3>1. Split(queue, targets) \in Seq(Honest) /\ Split(queue, targets) # <<>>
      BY <1>1, <1>2, <1>4, <2>1, SplitHonest
    <3>2. WriteSegments(Split(queue, targets))
      BY <1>3, <2>3 DEF Writev
    <3>3. QED
      BY <1>2, <1>9, <3>1, <3>2, WriteSegmentsHonest
  <2>4. QED
    BY <2>2, <2>3
<1>10. Honest' = Honest
  BY <1>2 DEF Honest, Targets
<1>11. queue' \in Seq(1..Len(sent')) /\ Len(queue') = 0 /\ DOMAIN queue' = {}
  BY <1>2
<1>12. QED
  BY <1>2, <1>6, <1>7, <1>8, <1>9, <1>10, <1>11 DEF IInv, QueuesAligned

\* A step that keeps the queues, or empties those of the handles as it closes.
LEMMA KeepsAligned ==
  ASSUME IInv, UNCHANGED <<sent, throws, queue>>,
         \/ closing' /\ handleQueue' = <<>>
         \/ closing' = closing /\ UNCHANGED <<handleQueue, handleQueueSize>>,
         throws = 0 => segments' \in Seq(Honest) /\ wire' \in Seq(Honest)
  PROVE  IInv'
<1>1. Honest' = Honest
  BY DEF Honest, Targets
<1>2. /\ sent' \in Seq(Targets) /\ throws' \in Nat /\ queue' \in Seq(1..Len(sent'))
      /\ handleQueue' \in Seq(Targets)
      /\ ~closing' => Len(queue') <= Len(handleQueue')
  <2>1. sent' \in Seq(Targets) /\ throws' \in Nat
    BY DEF IInv
  <2>2. queue' \in Seq(1..Len(sent'))
    BY DEF IInv
  <2>3. CASE closing' /\ handleQueue' = <<>>
    BY <2>1, <2>2, <2>3
  <2>4. CASE closing' = closing /\ UNCHANGED <<handleQueue, handleQueueSize>>
    BY <2>1, <2>2, <2>4 DEF IInv
  <2>5. QED
    BY <2>3, <2>4
<1>3. QueuesAligned'
  <2>1. CASE closing'
    BY <2>1 DEF QueuesAligned
  <2>2. CASE closing' = closing /\ UNCHANGED <<handleQueue, handleQueueSize>>
    <3>1. Count(handleQueue)' = Count(handleQueue)
      BY <2>2 DEF Count
    <3>2. QED
      BY <2>2, <3>1 DEF IInv, QueuesAligned
  <2>3. QED
    BY <2>1, <2>2
<1>4. throws' = 0 => segments' \in Seq(Honest)' /\ wire' \in Seq(Honest)'
  BY <1>1
<1>5. QED
  BY <1>2, <1>3, <1>4 DEF IInv

\* There is a next segment.
LEMMA TailOfTwo ==
  ASSUME NEW X, NEW segs \in Seq(X), Len(segs) > 1
  PROVE  Tail(segs) \in Seq(X) /\ Tail(segs) # <<>>
<1>1. PICK l \in Nat : l = Len(segs)
  OBVIOUS
<1>2. PICK rest : rest = Tail(segs)
  OBVIOUS
<1>3. segs # <<>>
  OBVIOUS
<1>4. rest \in Seq(X) /\ Len(rest) = l - 1
  BY <1>1, <1>2, <1>3, HeadTailProperties
<1>5. Len(rest) # 0
  BY <1>1, <1>4
<1>6. rest # <<>>
  BY <1>5
<1>7. QED
  BY <1>2, <1>4, <1>6

\* on_write: the next segment, or the batch is settled.
LEMMA OnWriteKeepsIInv ==
  ASSUME IInv, OnWrite
  PROVE  IInv'
<1>1. ASSUME throws = 0 PROVE segments' \in Seq(Honest) /\ wire' \in Seq(Honest)
  <2>1. segments \in Seq(Honest) /\ wire \in Seq(Honest) /\ <<>> \in Seq(Honest)
    BY <1>1 DEF IInv
  <2>2. CASE MoreSegments /\ ~closing
    <3>1. Tail(segments) \in Seq(Honest) /\ Tail(segments) # <<>>
      BY <2>1, <2>2, TailOfTwo DEF MoreSegments
    <3>2. WriteSegments(Tail(segments))
      BY <2>2 DEF OnWrite
    <3>3. QED
      BY <2>1, <3>1, <3>2, WriteSegmentsHonest
  <2>3. CASE ~(MoreSegments /\ ~closing)
    BY <2>1, <2>3 DEF OnWrite
  <2>4. QED
    BY <2>2, <2>3
<1>2. closing' \/ closing' = closing
  BY DEF OnWrite, WriteSegments
<1>3. \/ closing' /\ handleQueue' = <<>>
      \/ closing' = closing /\ UNCHANGED <<handleQueue, handleQueueSize>>
  BY <1>2 DEF OnWrite
<1>4. UNCHANGED <<sent, throws, queue>>
  BY DEF OnWrite
<1>5. QED
  BY <1>1, <1>3, <1>4, KeepsAligned

\* A read takes the first native writes off the wire.
LEMMA OnReadKeepsIInv ==
  ASSUME IInv, NEW n \in 1..Len(wire), OnRead(n)
  PROVE  IInv'
<1>1. /\ UNCHANGED <<sent, throws, queue, closing, handleQueue, handleQueueSize>>
      /\ segments' = segments /\ wire' = SubSeq(wire, n + 1, Len(wire))
  BY DEF OnRead, senderVars
<1>2. ASSUME throws = 0 PROVE segments' \in Seq(Honest) /\ wire' \in Seq(Honest)
  <2>1. segments \in Seq(Honest) /\ wire \in Seq(Honest)
    BY <1>2 DEF IInv
  <2>2. SubSeq(wire, n + 1, Len(wire)) \in Seq(Honest)
    BY <2>1
  <2>3. QED
    BY <1>1, <2>1, <2>2
<1>3. QED
  BY <1>1, <1>2, KeepsAligned

-----------------------------------------------------------------------------
(***************************************************************************)
(* However many messages and handles there are, the entries of the handle  *)
(* queue are those of the messages the stream holds until a write()        *)
(* throws, and each native write carries the handle of its own message.    *)
(***************************************************************************)
THEOREM SpecIInv == Spec => []IInv
<1>1. Init => IInv
  BY InitIInv
<1>2. IInv /\ [Next]_vars => IInv'
  <2>1. SUFFICES ASSUME IInv, [Next]_vars PROVE IInv'
    OBVIOUS
  <2>2. ASSUME NEW h \in Targets, Write(h) PROVE IInv'
    BY <2>1, <2>2, WriteKeepsIInv
  <2>3. ASSUME NEW h \in Targets, WriteThrows(h) PROVE IInv'
    BY <2>1, <2>3, WriteThrowsKeepsIInv
  <2>4. CASE Writev
    BY <2>1, <2>4, WritevKeepsIInv
  <2>5. CASE OnWrite
    BY <2>1, <2>5, OnWriteKeepsIInv
  <2>6. CASE Destroy
    <3>1. /\ closing' /\ handleQueue' = <<>>
          /\ UNCHANGED <<sent, throws, queue, segments, wire>>
      BY <2>6 DEF Destroy, DestroySender
    <3>2. throws = 0 => segments' \in Seq(Honest) /\ wire' \in Seq(Honest)
      BY <2>1, <3>1 DEF IInv
    <3>3. QED
      BY <2>1, <3>1, <3>2, KeepsAligned
  <2>7. ASSUME NEW n \in 1..Len(wire), OnRead(n) PROVE IInv'
    BY <2>1, <2>7, OnReadKeepsIInv
  <2>8. CASE UNCHANGED <<sent, throws, senderVars, wire>>
    <3>1. throws = 0 => segments' \in Seq(Honest) /\ wire' \in Seq(Honest)
      BY <2>1, <2>8 DEF IInv, senderVars
    <3>2. QED
      BY <2>1, <2>8, <3>1, KeepsAligned DEF senderVars
  <2>9. OnHandle \/ CountHandles \/ OnReadData \/ AcceptLater \/ UNCHANGED vars
          => UNCHANGED <<sent, throws, senderVars, wire>>
    BY DEF OnHandle, CountHandles, OnReadData, AcceptLater, vars
  <2>10. QED
    BY <2>1, <2>2, <2>3, <2>4, <2>5, <2>6, <2>7, <2>8, <2>9 DEF Next, Sender, Receiver
<1>3. QED
  BY <1>1, <1>2, PTL DEF Spec

(***************************************************************************)
(* The queues of write() and _writev stay aligned, for any messages.       *)
(***************************************************************************)
THEOREM QueuesStayAligned == Spec => []QueuesAligned
<1>1. IInv => QueuesAligned
  BY DEF IInv
<1>2. QED
  BY <1>1, SpecIInv, PTL

(***************************************************************************)
(* Until a write() throws every native write carries the handle its        *)
(* message was written with, whatever the batches _writev splits.          *)
(***************************************************************************)
THEOREM HandleRides == Spec => []HandleRidesUnlessThrown
<1>1. IInv => HandleRidesUnlessThrown
  <2>1. SUFFICES ASSUME IInv, throws = 0 PROVE HandleRidesAlone
    BY DEF HandleRidesUnlessThrown
  <2>2. wire \in Seq(Honest)
    BY <2>1 DEF IInv
  <2>3. ASSUME NEW i \in DOMAIN wire
        PROVE  IF wire[i].handle = NoTarget
               THEN \A j \in DOMAIN wire[i].chunks : sent[wire[i].chunks[j]] = NoTarget
               ELSE Len(wire[i].chunks) = 1 /\ sent[wire[i].chunks[1]] = wire[i].handle
    <3>1. wire[i] \in Honest
      BY <2>2, <2>3
    <3>2. QED
      BY <3>1 DEF Honest
  <2>4. QED
    BY <2>3 DEF HandleRidesAlone
<1>2. QED
  BY <1>1, SpecIInv, PTL
-----------------------------------------------------------------------------
(* Types.                                                                  *)

\* The types, with the bound on the messages.
TypeInv == TypeOK /\ Len(sent) <= MaxMessages

\* A native write and the segments after it.
LEMMA WriteSegmentsTyped ==
  ASSUME TypeOK, NEW segs \in Seq(Segment), segs # <<>>, WriteSegments(segs)
  PROVE  /\ segments' \in Seq(Segment) /\ wire' \in Seq(Segment)
         /\ writing' \in BOOLEAN /\ closing' \in BOOLEAN
<1>1. wire \in Seq(Segment) /\ closing \in BOOLEAN /\ Head(segs) \in Segment
  BY DEF TypeOK
<1>2. Append(wire, Head(segs)) \in Seq(Segment) /\ <<>> \in Seq(Segment)
  BY <1>1
<1>3. QED
  BY <1>1, <1>2 DEF WriteSegments

\* The handles of a read.
LEMMA CarryingIs ==
  ASSUME NEW n \in Nat, NEW t, DOMAIN t = 1..n
  PROVE  Carrying(t) = Among(t, n)
<1>1. [i \in DOMAIN t |-> IF t[i] = NoTarget THEN <<>> ELSE <<t[i]>>]
        = [i \in 1..n |-> Kept(t[i])]
  BY DEF Kept
<1>2. QED
  BY <1>1 DEF Carrying, Among

\* What the sender's steps do to the types of their own variables.
LEMMA WritevTyped ==
  ASSUME IInv, TypeInv, Writev
  PROVE  /\ segments' \in Seq(Segment) /\ wire' \in Seq(Segment)
         /\ writing' \in BOOLEAN /\ closing' \in BOOLEAN
<1>1. PICK n \in Nat : n = Len(queue)
  BY DEF IInv
<1>2. ~closing /\ queue # <<>> /\ queue \in Seq(Messages) /\ TypeOK
  BY DEF Writev, TypeInv, TypeOK
<1>3. CASE handleQueueSize = 0
  <2>1. PICK w : w = [chunks |-> queue, handle |-> NoTarget]
    OBVIOUS
  <2>2. w \in Segment
    BY <1>2, <2>1 DEF Segment, Targets
  <2>3. <<w>> \in Seq(Segment) /\ <<w>> # <<>>
    BY <2>2
  <2>4. WriteSegments(<<w>>)
    BY <1>3, <2>1 DEF Writev
  <2>5. QED
    BY <1>2, <2>3, <2>4, WriteSegmentsTyped
<1>4. CASE handleQueueSize # 0
  <2>1. PICK targets : targets = Taken(queue)
    OBVIOUS
  <2>2. handleQueue \in Seq(Targets)
    BY DEF IInv
  <2>3. DOMAIN targets = 1..Len(queue)
    BY <1>2, <2>1 DEF Taken
  <2>4. \A i \in 1..Len(queue) : targets[i] \in Targets
    <3>1. \A i \in DOMAIN handleQueue : handleQueue[i] \in Targets
      BY <2>2
    <3>2. QED
      BY <1>2, <2>1, <3>1 DEF Taken, Targets
  <2>5. Split(queue, targets) \in Seq(Segment) /\ Split(queue, targets) # <<>>
    BY <1>2, <2>3, <2>4, SplitTyped DEF Segment
  <2>6. WriteSegments(Split(queue, targets))
    BY <1>4, <2>1 DEF Writev
  <2>7. QED
    BY <1>2, <2>5, <2>6, WriteSegmentsTyped
<1>5. QED
  BY <1>3, <1>4

LEMMA OnWriteTyped ==
  ASSUME TypeInv, OnWrite
  PROVE  /\ segments' \in Seq(Segment) /\ wire' \in Seq(Segment)
         /\ writing' \in BOOLEAN /\ closing' \in BOOLEAN
<1>1. segments \in Seq(Segment) /\ wire \in Seq(Segment) /\ closing \in BOOLEAN /\ TypeOK
  BY DEF TypeInv, TypeOK
<1>2. CASE MoreSegments /\ ~closing
  <2>1. PICK segs : segs = segments
    OBVIOUS
  <2>2. segs \in Seq(Segment) /\ Len(segs) > 1
    BY <1>1, <1>2, <2>1 DEF MoreSegments
  <2>3. Tail(segs) \in Seq(Segment) /\ Tail(segs) # <<>>
    BY <2>2, TailOfTwo
  <2>4. WriteSegments(Tail(segs))
    BY <1>2, <2>1 DEF OnWrite
  <2>5. QED
    BY <1>1, <2>3, <2>4, WriteSegmentsTyped
<1>3. CASE ~(MoreSegments /\ ~closing)
  <2>1. segments' = <<>> /\ writing' = FALSE /\ closing' = closing /\ wire' = wire
    BY <1>3 DEF OnWrite
  <2>2. <<>> \in Seq(Segment)
    OBVIOUS
  <2>3. QED
    BY <1>1, <2>1, <2>2
<1>4. QED
  BY <1>2, <1>3

\* libuv's handles and messages of a read.
LEMMA OnReadTyped ==
  ASSUME TypeInv, NEW n \in 1..Len(wire), OnRead(n)
  PROVE  /\ reading' \in Seq(Messages) /\ pendingHandles' \in Seq(Handles)
         /\ wire' \in Seq(Segment)
<1>1. PICK taken : taken = SubSeq(wire, 1, n)
  OBVIOUS
<1>2. wire \in Seq(Segment) /\ pendingHandles \in Seq(Handles)
  BY DEF TypeInv, TypeOK
<1>3. n \in Nat /\ \A i \in 1..n : taken[i] = wire[i] /\ wire[i] \in Segment
  BY <1>1, <1>2
<1>4. PICK cs, hs : cs = [i \in 1..n |-> taken[i].chunks] /\ hs = [i \in 1..n |-> taken[i].handle]
  OBVIOUS
<1>5. /\ reading' = FlattenSeq(cs) /\ pendingHandles' = pendingHandles \o Carrying(hs)
      /\ wire' = SubSeq(wire, n + 1, Len(wire))
  BY <1>1, <1>4 DEF OnRead
<1>6. cs \in [1..n -> Seq(Messages)]
  BY <1>3, <1>4 DEF Segment
<1>7. DOMAIN hs = 1..n /\ \A i \in 1..n : hs[i] \in Targets
  BY <1>3, <1>4 DEF Segment
<1>8. FlattenSeq(cs) \in Seq(Messages)
  BY <1>3, <1>6, FlattenTyped
<1>9. Carrying(hs) \in Seq(Handles)
  BY <1>3, <1>7, CarryingIs, AmongIs
<1>10. SubSeq(wire, n + 1, Len(wire)) \in Seq(Segment)
  BY <1>2
<1>11. QED
  BY <1>2, <1>5, <1>8, <1>9, <1>10, ConcatProperties

\* accept() moves handles from libuv to the user.
LEMMA AcceptTyped ==
  ASSUME TypeInv, NEW k \in 0..Len(pendingHandles), Accept(k)
  PROVE  /\ accepted' \in Seq(Handles) /\ pendingHandles' \in Seq(Handles)
         /\ accepted' \o pendingHandles' = accepted \o pendingHandles
<1>1. PICK p, a : p = pendingHandles /\ a = accepted
  OBVIOUS
<1>2. PICK l \in Nat : l = Len(p)
  BY <1>1 DEF TypeInv, TypeOK
<1>3. p \in Seq(Handles) /\ a \in Seq(Handles) /\ k \in 0..l
  BY <1>1, <1>2 DEF TypeInv, TypeOK
<1>4. PICK x, y : x = SubSeq(p, 1, k) /\ y = SubSeq(p, k + 1, l)
  OBVIOUS
<1>5. x \in Seq(Handles) /\ y \in Seq(Handles)
  <2>1. \A i \in 1..k : i \in 1..l
    BY <1>3
  <2>2. \A i \in (k + 1)..l : i \in 1..l
    BY <1>3
  <2>3. \A i \in 1..l : p[i] \in Handles
    BY <1>2, <1>3
  <2>4. x \in Seq(Handles)
    BY <1>3, <1>4, <2>1, <2>3, SubSeqProperties
  <2>5. y \in Seq(Handles)
    BY <1>2, <1>3, <1>4, <2>2, <2>3, SubSeqProperties
  <2>6. QED
    BY <2>4, <2>5
<1>6. SubSeq(p, 1, k) \o SubSeq(p, k + 1, l) = SubSeq(p, 1, l)
  <2>1. 1 \in 1..(Len(p) + 1) /\ k \in (1 - 1)..Len(p) /\ l \in k..Len(p)
    BY <1>2, <1>3
  <2>2. p \in Seq(Handles)
    BY <1>3
  <2>3. QED
    BY <2>1, <2>2, ConcatAdjacentSubSeq, Zenon
<1>7. x \o y = p
  <2>1. SubSeq(p, 1, Len(p)) = p
    BY <1>3, SubSeqFull, Zenon
  <2>2. QED
    BY <1>2, <1>4, <1>6, <2>1, Zenon
<1>8. (a \o x) \o y = a \o (x \o y)
  <2>1. \A s, t, u \in Seq(Handles) : (s \o t) \o u = s \o (t \o u)
    BY Associates, SMTT(60)
  <2>2. a \in Seq(Handles) /\ x \in Seq(Handles) /\ y \in Seq(Handles)
    BY <1>3, <1>5
  <2>3. QED
    BY <2>1, <2>2, Zenon
<1>9. accepted' = a \o x /\ pendingHandles' = y
  BY <1>1, <1>2, <1>4 DEF Accept
<1>10. a \o x \in Seq(Handles)
  BY <1>3, <1>5, ConcatProperties
<1>11. QED
  BY <1>1, <1>5, <1>7, <1>8, <1>9, <1>10

\* The typing of the variables that no lemma above covers, step by step.
LEMMA StepTypeInv ==
  ASSUME IInv, IInv', TypeInv, [Next]_vars
  PROVE  TypeInv'
<1>1. /\ throws \in 0..MaxThrows /\ Len(sent) <= MaxMessages /\ handleQueueSize \in Nat
      /\ segments \in Seq(Segment) /\ wire \in Seq(Segment)
      /\ writing \in BOOLEAN /\ closing \in BOOLEAN /\ rclosing \in BOOLEAN
      /\ frame \in {"idle", "handles", "kept", "took", "data"}
      /\ reading \in Seq(Messages) /\ pendingHandles \in Seq(Handles)
      /\ accepted \in Seq(Handles) /\ delivered \in Seq(Messages)
  BY DEF TypeInv, TypeOK
<1> DEFINE Sent == throws' \in 0..MaxThrows /\ Len(sent') <= MaxMessages
           Flags == closing' \in BOOLEAN /\ writing' \in BOOLEAN
           Segs == segments' \in Seq(Segment) /\ wire' \in Seq(Segment)
           Size == closing' => handleQueueSize' \in Nat
           Recv == /\ frame' \in {"idle", "handles", "kept", "took", "data"}
                   /\ reading' \in Seq(Messages) /\ pendingHandles' \in Seq(Handles)
                   /\ accepted' \in Seq(Handles) /\ delivered' \in Seq(Messages)
                   /\ rclosing' \in BOOLEAN
<1>2. SUFFICES Sent /\ Flags /\ Segs /\ Size /\ Recv
  <2>1. ASSUME Sent, Flags, Segs, Size, Recv PROVE TypeInv'
    <3>1. sent' \in Seq(Targets') /\ handleQueue' \in Seq(Targets') /\ queue' \in Seq(1..Len(sent'))
      BY DEF IInv, Targets
    <3>2. queue' \in Seq(Messages')
      <4>1. 1..Len(sent') \subseteq Messages'
        BY <2>1, <3>1, IpcAssumption DEF Messages
      <4>2. PICK S, T : S = 1..Len(sent') /\ T = Messages'
        OBVIOUS
      <4>3. queue' \in Seq(S) /\ S \subseteq T
        BY <3>1, <4>1, <4>2
      <4>4. queue' \in Seq(T)
        BY <4>3
      <4>5. QED
        BY <4>2, <4>4
    <3>3. handleQueueSize' \in Nat
      <4>1. ASSUME ~closing' PROVE handleQueueSize' \in Nat
        <5>1. handleQueueSize' = Count(handleQueue')
          BY <4>1 DEF IInv, QueuesAligned
        <5>2. PICK q, m : q = handleQueue' /\ m = Len(q)
          OBVIOUS
        <5>3. m \in Nat /\ DOMAIN q = 1..m
          BY <3>1, <5>2
        <5>4. Count(q) \in Nat
          BY <5>3, CountPlaces, PlacesFinite
        <5>5. QED
          BY <5>1, <5>2, <5>4
      <4>2. QED
        BY <2>1, <4>1
    <3>4. TypeOK'
      BY <2>1, <3>1, <3>2, <3>3 DEF TypeOK, Segment, Messages, Targets
    <3>5. QED
      BY <2>1, <3>4 DEF TypeInv
  <2>2. QED
    BY <2>1
<1>3. (UNCHANGED receiverVars) => Recv
  BY <1>1 DEF receiverVars
<1>4. (UNCHANGED <<sent, throws>>) => Sent
  BY <1>1
<1>5. (UNCHANGED <<senderVars, wire>>) => Flags /\ Segs /\ Size
  BY <1>1 DEF senderVars
<1>6. (UNCHANGED <<sent, throws, senderVars, wire>>) /\ Recv => Sent /\ Flags /\ Segs /\ Size /\ Recv
  BY <1>4, <1>5
<1>7. ASSUME NEW h \in Targets, Write(h) PROVE Sent /\ Flags /\ Segs /\ Size /\ Recv
  <2>1. /\ Len(sent) < MaxMessages /\ sent' = Append(sent, h) /\ sent \in Seq(Targets)
        /\ UNCHANGED <<throws, segments, writing, closing, wire, receiverVars>> /\ ~closing
    BY <1>7 DEF Write, IInv
  <2>2. Len(sent') <= MaxMessages
    BY <2>1, IpcAssumption
  <2>3. QED
    BY <1>1, <1>3, <2>1, <2>2
<1>8. ASSUME NEW h \in Targets, WriteThrows(h) PROVE Sent /\ Flags /\ Segs /\ Size /\ Recv
  <2>1. /\ throws < MaxThrows /\ throws' = throws + 1 /\ ~closing
        /\ UNCHANGED <<sent, segments, writing, closing, wire, receiverVars>>
    BY <1>8 DEF WriteThrows
  <2>2. throws' \in 0..MaxThrows
    BY <1>1, <2>1, IpcAssumption
  <2>3. QED
    BY <1>1, <1>3, <2>1, <2>2
<1>9. ASSUME Writev PROVE Sent /\ Flags /\ Segs /\ Size /\ Recv
  <2>1. UNCHANGED <<sent, throws, receiverVars>> /\ Size
    BY <1>9 DEF Writev, TakeHandles
  <2>2. Flags /\ Segs
    BY <1>9, WritevTyped
  <2>3. QED
    BY <1>3, <1>4, <2>1, <2>2
<1>10. ASSUME OnWrite PROVE Sent /\ Flags /\ Segs /\ Size /\ Recv
  <2>1. UNCHANGED <<sent, throws, receiverVars>> /\ Size
    BY <1>10 DEF OnWrite
  <2>2. Flags /\ Segs
    BY <1>10, OnWriteTyped
  <2>3. QED
    BY <1>3, <1>4, <2>1, <2>2
<1>11. ASSUME Destroy PROVE Sent /\ Flags /\ Segs /\ Size /\ Recv
  <2>1. /\ UNCHANGED <<sent, throws, receiverVars, segments, writing, wire>>
        /\ closing' = TRUE /\ handleQueueSize' = 0
    BY <1>11 DEF Destroy, DestroySender
  <2>2. QED
    BY <1>1, <1>3, <1>4, <2>1
<1>12. ASSUME NEW n \in 1..Len(wire), OnRead(n) PROVE Sent /\ Flags /\ Segs /\ Size /\ Recv
  <2>1. /\ UNCHANGED <<sent, throws, senderVars, accepted, delivered, rclosing>>
        /\ frame' = "handles"
    BY <1>12 DEF OnRead
  <2>2. /\ reading' \in Seq(Messages) /\ pendingHandles' \in Seq(Handles)
        /\ wire' \in Seq(Segment)
    BY <1>12, OnReadTyped
  <2>3. QED
    BY <1>1, <1>4, <2>1, <2>2 DEF senderVars
<1>13. ASSUME OnHandle PROVE Sent /\ Flags /\ Segs /\ Size /\ Recv
  <2>1. PICK k \in 0..Len(pendingHandles) :
          Accept(k) /\ frame' = IF k = 0 THEN "kept" ELSE "took"
    BY <1>13 DEF OnHandle
  <2>2. accepted' \in Seq(Handles) /\ pendingHandles' \in Seq(Handles)
    BY <2>1, AcceptTyped
  <2>3. /\ UNCHANGED <<sent, throws, senderVars, wire, reading, delivered>>
        /\ rclosing' \in BOOLEAN
    BY <1>13 DEF OnHandle
  <2>4. Recv
    BY <1>1, <2>1, <2>2, <2>3
  <2>5. QED
    BY <1>6, <2>3, <2>4
<1>14. ASSUME CountHandles PROVE Sent /\ Flags /\ Segs /\ Size /\ Recv
  <2>1. /\ UNCHANGED <<sent, throws, senderVars, wire, reading, pendingHandles,
                       accepted, delivered, rclosing>>
        /\ frame' \in {"data", "handles"}
    BY <1>14 DEF CountHandles, AfterHandle
  <2>2. Recv
    BY <1>1, <2>1
  <2>3. QED
    BY <1>6, <2>1, <2>2
<1>15. ASSUME OnReadData PROVE Sent /\ Flags /\ Segs /\ Size /\ Recv
  <2>1. /\ UNCHANGED <<sent, throws, senderVars, wire, pendingHandles, accepted, rclosing>>
        /\ frame' = "idle" /\ reading' = <<>>
        /\ delivered' = IF rclosing THEN delivered ELSE delivered \o reading
    BY <1>15 DEF OnReadData
  <2>2. delivered \o reading \in Seq(Messages) /\ <<>> \in Seq(Messages)
    BY <1>1, ConcatProperties
  <2>3. Recv
    BY <1>1, <2>1, <2>2
  <2>4. QED
    BY <1>6, <2>1, <2>3
<1>16. ASSUME AcceptLater PROVE Sent /\ Flags /\ Segs /\ Size /\ Recv
  <2>1. /\ UNCHANGED <<sent, throws, senderVars, wire, frame, reading, delivered, rclosing>>
        /\ pendingHandles # <<>> /\ Accept(1)
    BY <1>16 DEF AcceptLater
  <2>2. 1 \in 0..Len(pendingHandles)
    BY <1>1, <2>1
  <2>3. accepted' \in Seq(Handles) /\ pendingHandles' \in Seq(Handles)
    BY <2>1, <2>2, AcceptTyped
  <2>4. Recv
    BY <1>1, <2>1, <2>3
  <2>5. QED
    BY <1>6, <2>1, <2>4
<1>17. ASSUME UNCHANGED vars PROVE Sent /\ Flags /\ Segs /\ Size /\ Recv
  BY <1>3, <1>4, <1>5, <1>17 DEF vars
<1> HIDE DEF Sent, Flags, Segs, Size, Recv
<1>18. QED
  BY <1>7, <1>8, <1>9, <1>10, <1>11, <1>12, <1>13, <1>14, <1>15, <1>16, <1>17
     DEF Next, Sender, Receiver

LEMMA InitTypeInv == Init => TypeInv
<1>1. SUFFICES ASSUME Init PROVE TypeInv
  OBVIOUS
<1>2. Len(sent) = 0 /\ 0 \in 0..MaxThrows
  BY <1>1, IpcAssumption DEF Init
<1>3. TypeOK
  <2>1. \A S : <<>> \in Seq(S)
    OBVIOUS
  <2>2. QED
    BY <1>1, <1>2, <2>1 DEF Init, TypeOK
<1>4. QED
  BY <1>2, <1>3, IpcAssumption DEF TypeInv

(***************************************************************************)
(* Every variable keeps its type, and there are never more messages than   *)
(* were written.                                                           *)
(***************************************************************************)
THEOREM SpecTypeInv == Spec => []TypeInv
<1>1. Init => TypeInv
  BY InitTypeInv
<1>2. IInv /\ IInv' /\ TypeInv /\ [Next]_vars => TypeInv'
  BY StepTypeInv
<1>3. QED
  BY <1>1, <1>2, SpecIInv, PTL DEF Spec

(***************************************************************************)
(* The types of module PipeIpc hold for any handles and any bounds.        *)
(***************************************************************************)
THEOREM IpcTypes == Spec => []TypeOK
<1>1. TypeInv => TypeOK
  BY DEF TypeInv
<1>2. QED
  BY <1>1, SpecTypeInv, PTL

-----------------------------------------------------------------------------
(* The messages on their way.                                              *)

\* The segments behind the native write under way.
Rest == IF writing THEN Tail(segments) ELSE <<>>

\* The segments of a batch and the stream's queue hold the messages after x.
Queued(x) ==
  \E y \in 0..Len(sent) : Tiles(Rest, x, y) /\ queue = Between(y, Len(sent))

\* The read under way and the wire hold the messages after those delivered.
Coming ==
  \E x \in 0..Len(sent) :
    /\ reading = Between(Len(delivered), Len(delivered) + Len(reading))
    /\ Tiles(wire, Len(delivered) + Len(reading), x)
    /\ ~closing => Queued(x)

(***************************************************************************)
(* The inductive invariant of the messages' way: what was delivered counts *)
(* from 1, and while the receiver is open the read under way, the wire,    *)
(* the segments and the queue go on counting where the one before stops.   *)
(***************************************************************************)
Flow ==
  /\ delivered = Between(0, Len(delivered))
  /\ frame = "idle" => reading = <<>>
  /\ writing => segments # <<>>
  /\ ~rclosing => Coming

LEMMA TilesUp ==
  ASSUME NEW X, NEW segs \in Seq(X), NEW a \in Nat, NEW b \in Nat, Tiles(segs, a, b)
  PROVE  a <= b
<1>1. PICK n \in Nat : n = Len(segs)
  OBVIOUS
<1>2. PICK f \in [0..n -> 0..b] : f[0] = a
  BY <1>1 DEF Tiles
<1>3. QED
  BY <1>2

\* The first of the segments.
LEMMA TilesFirst ==
  ASSUME NEW X, NEW segs \in Seq(X), segs # <<>>,
         NEW a \in Nat, NEW b \in Nat, Tiles(segs, a, b)
  PROVE  \E m \in Nat : /\ a <= m /\ m <= b
                        /\ Head(segs).chunks = Between(a, m)
                        /\ Tiles(Tail(segs), m, b)
<1>1. PICK l \in Nat \ {0} : l = Len(segs)
  OBVIOUS
<1>2. PICK m \in Nat :
        /\ a <= m /\ m <= b
        /\ Tiles(SubSeq(segs, 1, 1), a, m)
        /\ Tiles(SubSeq(segs, 1 + 1, Len(segs)), m, b)
  BY <1>1, TilesSplit
<1>3. PICK t : t = SubSeq(segs, 1, 1)
  OBVIOUS
<1>4. Len(t) = 1 /\ t[1] = Head(segs)
  BY <1>1, <1>3
<1>5. PICK f \in [0..1 -> 0..m] :
        /\ f[0] = a /\ f[1] = m
        /\ \A i \in 1..1 : f[i - 1] <= f[i] /\ t[i].chunks = Between(f[i - 1], f[i])
  BY <1>2, <1>3, <1>4 DEF Tiles
<1>6. Head(segs).chunks = Between(a, m)
  <2>1. 1 \in 1..1 /\ 1 - 1 = 0
    OBVIOUS
  <2>2. t[1].chunks = Between(f[0], f[1])
    BY <1>5, <2>1
  <2>3. QED
    BY <1>4, <1>5, <2>2
<1>7. Tail(segs) = SubSeq(segs, 1 + 1, Len(segs))
  OBVIOUS
<1>8. QED
  BY <1>2, <1>6, <1>7

\* A step that leaves the messages where they are.
LEMMA KeepsFlow ==
  ASSUME Flow, UNCHANGED <<sent, queue, segments, writing, wire, reading, delivered>>,
         frame' = "idle" => frame = "idle", closing => closing', rclosing => rclosing'
  PROVE  Flow'
<1>1. ASSUME ~rclosing' PROVE Coming'
  <2>1. Coming
    BY <1>1 DEF Flow
  <2>2. PICK x \in 0..Len(sent) :
          /\ reading = Between(Len(delivered), Len(delivered) + Len(reading))
          /\ Tiles(wire, Len(delivered) + Len(reading), x)
          /\ ~closing => Queued(x)
    BY <2>1 DEF Coming
  <2>3. /\ reading' = Between(Len(delivered'), Len(delivered') + Len(reading'))
        /\ Tiles(wire', Len(delivered') + Len(reading'), x) /\ x \in 0..Len(sent')
    BY <2>2
  <2>4. ASSUME ~closing' PROVE Queued(x)'
    <3>1. Rest' = Rest
      BY DEF Rest
    <3>2. Queued(x)
      BY <2>2, <2>4
    <3>3. PICK y \in 0..Len(sent) : Tiles(Rest, x, y) /\ queue = Between(y, Len(sent))
      BY <3>2 DEF Queued
    <3>4. y \in 0..Len(sent') /\ Tiles(Rest', x, y) /\ queue' = Between(y, Len(sent'))
      BY <3>1, <3>3
    <3>5. QED
      BY <3>4 DEF Queued
  <2>5. QED
    BY <2>3, <2>4 DEF Coming
<1>2. QED
  BY <1>1 DEF Flow

\* A message more goes to the end of the queue.
LEMMA WriteFlow ==
  ASSUME TypeInv, Flow, NEW h \in Targets, Write(h)
  PROVE  Flow'
<1>1. /\ sent' = Append(sent, h) /\ queue' = Append(queue, Len(sent) + 1)
      /\ ~closing
      /\ UNCHANGED <<segments, writing, closing, wire, frame, reading, delivered, rclosing>>
  BY DEF Write, receiverVars
<1>2. PICK l \in Nat : l = Len(sent)
  BY DEF TypeInv, TypeOK
<1>3. Len(sent') = l + 1
  BY <1>1, <1>2 DEF TypeInv, TypeOK
<1>4. ASSUME ~rclosing' PROVE Coming'
  <2>1. PICK x \in 0..l :
          /\ reading = Between(Len(delivered), Len(delivered) + Len(reading))
          /\ Tiles(wire, Len(delivered) + Len(reading), x)
          /\ Queued(x)
    BY <1>1, <1>2, <1>4 DEF Flow, Coming
  <2>2. PICK y \in 0..l : Tiles(Rest, x, y) /\ queue = Between(y, l)
    BY <1>2, <2>1 DEF Queued
  <2>3. queue' = Between(y, l + 1)
    <3>1. y \in Nat /\ y <= l
      BY <2>2
    <3>2. Append(Between(y, l), l + 1) = Between(y, l + 1)
      BY <3>1, BetweenAppend
    <3>3. QED
      BY <1>1, <1>2, <2>2, <3>2
  <2>4. Rest' = Rest
    BY <1>1 DEF Rest
  <2>5. Queued(x)'
    <3>1. y \in 0..Len(sent') /\ Tiles(Rest', x, y) /\ queue' = Between(y, Len(sent'))
      BY <1>3, <2>2, <2>3, <2>4
    <3>2. QED
      BY <3>1 DEF Queued
  <2>6. x \in 0..Len(sent')
    BY <1>3, <2>1
  <2>7. /\ reading' = Between(Len(delivered'), Len(delivered') + Len(reading'))
        /\ Tiles(wire', Len(delivered') + Len(reading'), x)
    BY <1>1, <2>1
  <2>8. QED
    BY <2>5, <2>6, <2>7 DEF Coming
<1>5. QED
  BY <1>1, <1>4 DEF Flow

\* A native write takes the first of the segments to the wire.
LEMMA WriteSegmentsFlow ==
  ASSUME NEW X, NEW segs \in Seq(X), segs # <<>>, wire \in Seq(X),
         NEW a \in Nat, NEW x \in Nat, NEW y \in Nat,
         Tiles(wire, a, x), Tiles(segs, x, y), WriteSegments(segs)
  PROVE  /\ writing' => segments' # <<>>
         /\ \E z \in Nat : /\ x <= z /\ z <= y
                           /\ Tiles(wire', a, z)
                           /\ ~closing' => Tiles(Rest', z, y)
<1>1. x <= y
  BY TilesUp
<1>2. CASE /\ wire' = Append(wire, Head(segs)) /\ segments' = segs /\ writing' = TRUE
  <2>1. PICK z \in Nat : /\ x <= z /\ z <= y
                         /\ Head(segs).chunks = Between(x, z) /\ Tiles(Tail(segs), z, y)
    BY TilesFirst
  <2>2. Head(segs) \in X
    OBVIOUS
  <2>3. Tiles(Append(wire, Head(segs)), a, z)
    BY <2>1, <2>2, TilesAppend
  <2>4. Rest' = Tail(segs)
    BY <1>2 DEF Rest
  <2>5. Tiles(wire', a, z) /\ Tiles(Rest', z, y)
    BY <1>2, <2>1, <2>3, <2>4
  <2>6. QED
    BY <1>2, <2>1, <2>5
<1>3. CASE closing' = TRUE /\ segments' = <<>> /\ writing' = FALSE /\ UNCHANGED wire
  BY <1>1, <1>3
<1>4. QED
  BY <1>2, <1>3 DEF WriteSegments

\* What a write to the wire does to the messages' way.
LEMMA SegmentsKeepFlow ==
  ASSUME TypeInv, Flow, NEW segs \in Seq(Segment), segs # <<>>, WriteSegments(segs), ~closing,
         UNCHANGED <<sent, frame, reading, delivered, rclosing>>,
         ~rclosing =>
           \A x \in 0..Len(sent) :
             Queued(x) => \E y \in 0..Len(sent) : /\ Tiles(segs, x, y)
                                                  /\ queue' = Between(y, Len(sent))
  PROVE  Flow'
<1>1. PICK l \in Nat : l = Len(sent)
  BY DEF TypeInv, TypeOK
<1>2. PICK a \in Nat : a = Len(delivered) + Len(reading)
  BY DEF TypeInv, TypeOK
<1>3. wire \in Seq(Segment)
  BY DEF TypeInv, TypeOK
<1>4. writing' => segments' # <<>>
  BY DEF WriteSegments
<1>5. ASSUME ~rclosing' PROVE Coming'
  <2>1. PICK x \in 0..l :
          /\ reading = Between(Len(delivered), a) /\ Tiles(wire, a, x) /\ Queued(x)
    BY <1>1, <1>2, <1>5 DEF Flow, Coming
  <2>2. PICK y \in 0..l : Tiles(segs, x, y) /\ queue' = Between(y, l)
    BY <1>1, <1>5, <2>1
  <2>3. x \in Nat /\ y \in Nat
    BY <2>1, <2>2
  <2>4. PICK z \in Nat : /\ x <= z /\ z <= y
                         /\ Tiles(wire', a, z)
                         /\ ~closing' => Tiles(Rest', z, y)
    BY <1>3, <2>1, <2>2, <2>3, WriteSegmentsFlow
  <2>5. z \in 0..Len(sent') /\ y \in 0..Len(sent')
    BY <1>1, <2>2, <2>3, <2>4
  <2>6. /\ reading' = Between(Len(delivered'), Len(delivered') + Len(reading'))
        /\ Tiles(wire', Len(delivered') + Len(reading'), z)
    BY <1>2, <2>1, <2>4
  <2>7. ASSUME ~closing' PROVE Queued(z)'
    <3>1. Tiles(Rest', z, y) /\ queue' = Between(y, Len(sent'))
      BY <1>1, <2>2, <2>4, <2>7
    <3>2. QED
      BY <2>5, <3>1 DEF Queued
  <2>8. QED
    BY <2>5, <2>6, <2>7 DEF Coming
<1>6. QED
  BY <1>4, <1>5 DEF Flow

\* _writev: the whole queue becomes segments.
LEMMA WritevFlow ==
  ASSUME IInv, TypeInv, Flow, Writev
  PROVE  Flow'
<1>1. /\ ~closing /\ ~writing /\ queue # <<>> /\ queue' = <<>>
      /\ UNCHANGED <<sent, frame, reading, delivered, rclosing>>
  BY DEF Writev, receiverVars
<1>2. PICK l \in Nat : l = Len(sent)
  BY DEF TypeInv, TypeOK
<1>3. PICK n \in Nat : n = Len(queue)
  BY DEF TypeInv, TypeOK
<1>4. DOMAIN queue = 1..n
  BY <1>3 DEF TypeInv, TypeOK
<1>5. PICK targets : targets = Taken(queue)
  OBVIOUS
<1>6. DOMAIN targets = 1..n /\ \A i \in 1..n : targets[i] \in Targets
  <2>1. \A i \in DOMAIN handleQueue : handleQueue[i] \in Targets
    BY DEF TypeInv, TypeOK
  <2>2. QED
    BY <1>4, <1>5, <2>1 DEF Taken, Targets
<1>7. PICK w : w = [chunks |-> queue, handle |-> NoTarget]
  OBVIOUS
<1>8. PICK segs : segs = IF handleQueueSize = 0 THEN <<w>> ELSE Split(queue, targets)
  OBVIOUS
<1>9. WriteSegments(segs)
  BY <1>5, <1>7, <1>8 DEF Writev
<1>10. segs \in Seq(Segment) /\ segs # <<>>
  <2>1. queue \in Seq(Messages)
    BY DEF TypeInv, TypeOK
  <2>2. w \in Segment
    BY <1>7, <2>1 DEF Segment, Targets
  <2>3. Split(queue, targets) \in Seq(Segment) /\ Split(queue, targets) # <<>>
    BY <1>1, <1>3, <1>6, <2>1, SplitTyped DEF Segment
  <2>4. <<w>> \in Seq(Segment) /\ <<w>> # <<>>
    BY <2>2
  <2>5. QED
    BY <1>8, <2>3, <2>4
<1>11. ASSUME NEW x \in 0..l, Queued(x) PROVE Tiles(segs, x, l)
  <2>1. PICK y \in 0..l : Tiles(Rest, x, y) /\ queue = Between(y, l)
    BY <1>2, <1>11 DEF Queued
  <2>2. x = y
    <3>1. Tiles(<<>>, x, y)
      BY <1>1, <2>1 DEF Rest
    <3>2. x \in Nat /\ y \in Nat
      BY <1>11, <2>1
    <3>3. QED
      BY <3>1, <3>2, TilesNone
  <2>3. queue = Between(x, l) /\ x \in Nat /\ x <= l
    BY <1>11, <2>1, <2>2
  <2>4. n = l - x
    BY <1>3, <2>3, BetweenIs
  <2>5. x < l
    BY <1>1, <2>3, BetweenNone
  <2>6. Tiles(<<w>>, x, l)
    <3>1. <<>> \in Seq({w}) /\ Append(<<>>, w) = <<w>>
      OBVIOUS
    <3>2. Tiles(<<>>, x, x)
      BY <2>3, TilesNone
    <3>3. w.chunks = Between(x, l)
      BY <1>7, <2>3
    <3>4. Tiles(Append(<<>>, w), x, l)
      BY <2>3, <3>1, <3>2, <3>3, TilesAppend, Zenon
    <3>5. QED
      BY <3>1, <3>4, Zenon
  <2>7. Tiles(Split(queue, targets), x, l)
    <3>1. Tiles(Split(Between(x, l), targets), x, l)
      BY <1>6, <2>3, <2>4, <2>5, SplitTiles
    <3>2. QED
      BY <2>3, <3>1
  <2>8. QED
    BY <1>8, <2>6, <2>7
<1>12. queue' = Between(l, l)
  BY <1>1, BetweenNone
<1>13. ASSUME NEW x \in 0..Len(sent), Queued(x)
       PROVE  \E y \in 0..Len(sent) : Tiles(segs, x, y) /\ queue' = Between(y, Len(sent))
  <2>1. Tiles(segs, x, l) /\ l \in 0..Len(sent)
    BY <1>2, <1>11, <1>13
  <2>2. QED
    BY <1>2, <1>12, <2>1
<1>14. QED
  BY <1>1, <1>9, <1>10, <1>13, SegmentsKeepFlow

\* on_write: the next segment, or the batch is settled.
LEMMA OnWriteFlow ==
  ASSUME TypeInv, Flow, OnWrite
  PROVE  Flow'
<1>1. /\ writing /\ UNCHANGED <<sent, queue, frame, reading, delivered, rclosing>>
  BY DEF OnWrite, receiverVars
<1>2. PICK segs : segs = segments
  OBVIOUS
<1>3. segs \in Seq(Segment) /\ segs # <<>> /\ Rest = Tail(segs)
  BY <1>1, <1>2 DEF TypeInv, TypeOK, Flow, Rest
<1>4. CASE MoreSegments /\ ~closing
  <2>1. Tail(segs) \in Seq(Segment) /\ Tail(segs) # <<>>
    BY <1>2, <1>3, <1>4, TailOfTwo DEF MoreSegments
  <2>2. WriteSegments(Tail(segs))
    BY <1>2, <1>4 DEF OnWrite
  <2>3. ASSUME NEW x \in 0..Len(sent), Queued(x)
        PROVE  \E y \in 0..Len(sent) : Tiles(Tail(segs), x, y) /\ queue' = Between(y, Len(sent))
    BY <1>1, <1>3, <2>3 DEF Queued
  <2>4. QED
    BY <1>1, <1>4, <2>1, <2>2, <2>3, SegmentsKeepFlow
<1>5. CASE ~(MoreSegments /\ ~closing)
  <2>1. segments' = <<>> /\ writing' = FALSE /\ closing' = closing /\ wire' = wire
    BY <1>5 DEF OnWrite
  <2>2. ASSUME ~rclosing' PROVE Coming'
    <3>1. PICK x \in 0..Len(sent) :
            /\ reading = Between(Len(delivered), Len(delivered) + Len(reading))
            /\ Tiles(wire, Len(delivered) + Len(reading), x)
            /\ ~closing => Queued(x)
      BY <1>1, <2>2 DEF Flow, Coming
    <3>2. ASSUME ~closing' PROVE Queued(x)'
      <4>1. Tail(segs) = <<>>
        <5>1. PICK k \in Nat : k = Len(segs)
          BY <1>3
        <5>2. k <= 1
          BY <1>2, <1>5, <2>1, <3>2, <5>1 DEF MoreSegments
        <5>3. Tail(segs) \in Seq(Segment) /\ Len(Tail(segs)) = k - 1
          BY <1>3, <5>1, HeadTailProperties
        <5>4. PICK rest : rest = Tail(segs)
          OBVIOUS
        <5>5. rest \in Seq(Segment) /\ Len(rest) = 0
          BY <5>1, <5>2, <5>3, <5>4
        <5>6. QED
          BY <5>4, <5>5
      <4>2. Rest' = Rest
        BY <1>3, <2>1, <4>1 DEF Rest
      <4>3. Queued(x)
        BY <2>1, <3>1, <3>2
      <4>4. PICK y \in 0..Len(sent) : Tiles(Rest, x, y) /\ queue = Between(y, Len(sent))
        BY <4>3 DEF Queued
      <4>5. y \in 0..Len(sent') /\ Tiles(Rest', x, y) /\ queue' = Between(y, Len(sent'))
        BY <1>1, <4>2, <4>4
      <4>6. QED
        BY <4>5 DEF Queued
    <3>3. /\ x \in 0..Len(sent')
          /\ reading' = Between(Len(delivered'), Len(delivered') + Len(reading'))
          /\ Tiles(wire', Len(delivered') + Len(reading'), x)
      BY <1>1, <2>1, <3>1
    <3>4. QED
      BY <3>2, <3>3 DEF Coming
  <2>3. QED
    BY <1>1, <2>1, <2>2 DEF Flow
<1>6. QED
  BY <1>4, <1>5

\* What a read takes off the wire are the next messages.
LEMMA ReadTakes ==
  ASSUME TypeInv, Flow, NEW n \in 1..Len(wire), OnRead(n)
  PROVE  \E m, x \in 0..Len(sent) :
           /\ Len(delivered) <= m /\ m <= x
           /\ Tiles(SubSeq(wire, 1, n), Len(delivered), m)
           /\ reading' = Between(Len(delivered), m) /\ Len(reading') = m - Len(delivered)
           /\ Tiles(wire', m, x)
           /\ ~closing => Queued(x)
<1>1. PICK d \in Nat : d = Len(delivered)
  BY DEF TypeInv, TypeOK
<1>2. frame = "idle" /\ ~rclosing /\ reading = <<>>
  BY DEF OnRead, Flow
<1>3. PICK x \in 0..Len(sent) :
        /\ Tiles(wire, d, x)
        /\ ~closing => Queued(x)
  <2>1. Coming
    BY <1>2 DEF Flow
  <2>2. d + Len(reading) = d
    BY <1>1, <1>2
  <2>3. QED
    BY <1>1, <2>1, <2>2 DEF Coming
<1>4. PICK w : w = wire
  OBVIOUS
<1>5. w \in Seq(Segment) /\ n \in Nat /\ n <= Len(w) /\ Tiles(w, d, x) /\ x \in Nat
  BY <1>3, <1>4 DEF TypeInv, TypeOK
<1>6. PICK m \in Nat : /\ d <= m /\ m <= x
                       /\ Tiles(SubSeq(w, 1, n), d, m)
                       /\ Tiles(SubSeq(w, n + 1, Len(w)), m, x)
  BY <1>1, <1>5, TilesSplit
<1>7. PICK t : t = SubSeq(w, 1, n)
  OBVIOUS
<1>8. t \in Seq(Segment) /\ DOMAIN t = 1..n
  <2>1. PICK k \in Nat : k = Len(w)
    BY <1>5
  <2>2. n <= k /\ \A i \in 1..n : i \in 1..k /\ w[i] \in Segment
    BY <1>5, <2>1
  <2>3. t \in Seq(Segment) /\ Len(t) = n
    BY <1>5, <1>7, <2>2, SubSeqProperties
  <2>4. QED
    BY <2>3
<1>9. reading' = FlattenSeq([i \in DOMAIN t |-> t[i].chunks]) /\ wire' = SubSeq(w, n + 1, Len(w))
  BY <1>4, <1>7, <1>8 DEF OnRead
<1>10. reading' = Between(d, m)
  BY <1>1, <1>6, <1>7, <1>8, <1>9, TilesFlatten
<1>11. Len(reading') = m - d
  BY <1>1, <1>6, <1>10, BetweenIs
<1>12. m \in 0..Len(sent)
  <2>1. Len(sent) \in Nat
    BY DEF TypeInv, TypeOK
  <2>2. QED
    BY <1>3, <1>6, <2>1
<1>13. QED
  BY <1>1, <1>3, <1>4, <1>6, <1>9, <1>10, <1>11, <1>12

\* A read takes the first native writes off the wire.
LEMMA OnReadFlow ==
  ASSUME TypeInv, Flow, NEW n \in 1..Len(wire), OnRead(n)
  PROVE  Flow'
<1>1. /\ UNCHANGED <<sent, queue, segments, writing, closing, delivered, rclosing>>
      /\ frame' = "handles"
  BY DEF OnRead, senderVars
<1>2. PICK d \in Nat : d = Len(delivered)
  BY DEF TypeInv, TypeOK
<1>3. PICK m, x \in 0..Len(sent) :
        /\ d <= m /\ reading' = Between(d, m) /\ Len(reading') = m - d
        /\ Tiles(wire', m, x)
        /\ ~closing => Queued(x)
  BY <1>2, ReadTakes
<1>4. d + Len(reading') = m
  BY <1>2, <1>3
<1>5. ASSUME ~closing' PROVE Queued(x)'
  <2>1. Rest' = Rest
    BY <1>1 DEF Rest
  <2>2. PICK y \in 0..Len(sent) : Tiles(Rest, x, y) /\ queue = Between(y, Len(sent))
    BY <1>1, <1>3, <1>5 DEF Queued
  <2>3. y \in 0..Len(sent') /\ Tiles(Rest', x, y) /\ queue' = Between(y, Len(sent'))
    BY <1>1, <2>1, <2>2
  <2>4. QED
    BY <2>3 DEF Queued
<1>6. Coming'
  <2>1. /\ x \in 0..Len(sent')
        /\ reading' = Between(Len(delivered'), Len(delivered') + Len(reading'))
        /\ Tiles(wire', Len(delivered') + Len(reading'), x)
    BY <1>1, <1>2, <1>3, <1>4
  <2>2. QED
    BY <1>5, <2>1 DEF Coming
<1>7. QED
  BY <1>1, <1>6 DEF Flow

\* _onread is given what was read.
LEMMA OnReadDataFlow ==
  ASSUME TypeInv, Flow, OnReadData
  PROVE  Flow'
<1>1. /\ UNCHANGED <<sent, queue, segments, writing, closing, wire, rclosing>>
      /\ frame' = "idle" /\ reading' = <<>>
      /\ delivered' = IF rclosing THEN delivered ELSE delivered \o reading
  BY DEF OnReadData, senderVars
<1>2. PICK d, r \in Nat : d = Len(delivered) /\ r = Len(reading)
  BY DEF TypeInv, TypeOK
<1>3. delivered = Between(0, d)
  BY <1>2 DEF Flow
<1>4. CASE rclosing
  BY <1>1, <1>4 DEF Flow
<1>5. CASE ~rclosing
  <2>0. /\ 0 \in Nat /\ d \in Nat /\ d + r \in Nat
        /\ 0 <= d /\ d <= d + r /\ 0 <= d + r
    BY <1>2
  <2>1. PICK x \in 0..Len(sent) :
          /\ reading = Between(d, d + r)
          /\ Tiles(wire, d + r, x)
          /\ ~closing => Queued(x)
    BY <1>2, <1>5 DEF Flow, Coming
  <2>2. delivered' = Between(0, d + r)
    <3>1. Between(0, d) \o Between(d, d + r) = Between(0, d + r)
      BY <2>0, BetweenConcat
    <3>2. QED
      BY <1>1, <1>3, <1>5, <2>1, <3>1
  <2>3. Len(delivered') = d + r
    <3>1. Len(Between(0, d + r)) = (d + r) - 0
      BY <2>0, BetweenIs
    <3>2. QED
      BY <2>0, <2>2, <3>1
  <2>4. reading' = Between(d + r, d + r) /\ Len(reading') = 0
    BY <1>1, <1>2, BetweenNone
  <2>5. ASSUME ~closing' PROVE Queued(x)'
    <3>1. Rest' = Rest
      BY <1>1 DEF Rest
    <3>2. PICK y \in 0..Len(sent) : Tiles(Rest, x, y) /\ queue = Between(y, Len(sent))
      BY <1>1, <2>1, <2>5 DEF Queued
    <3>3. y \in 0..Len(sent') /\ Tiles(Rest', x, y) /\ queue' = Between(y, Len(sent'))
      BY <1>1, <3>1, <3>2
    <3>4. QED
      BY <3>3 DEF Queued
  <2>6. Coming'
    <3>1. Len(delivered') + Len(reading') = d + r
      BY <1>2, <2>3, <2>4
    <3>2. /\ x \in 0..Len(sent')
          /\ reading' = Between(Len(delivered'), Len(delivered') + Len(reading'))
          /\ Tiles(wire', Len(delivered') + Len(reading'), x)
      BY <1>1, <2>1, <2>3, <2>4, <3>1
    <3>3. QED
      BY <2>5, <3>2 DEF Coming
  <2>7. delivered' = Between(0, Len(delivered'))
    BY <2>2, <2>3
  <2>8. QED
    BY <1>1, <2>6, <2>7 DEF Flow
<1>6. QED
  BY <1>4, <1>5

LEMMA InitFlow == Init => Flow
<1>1. SUFFICES ASSUME Init PROVE Flow
  OBVIOUS
<1>2. /\ sent = <<>> /\ delivered = <<>> /\ reading = <<>> /\ wire = <<>> /\ queue = <<>>
      /\ Rest = <<>> /\ writing = FALSE
      /\ Len(sent) = 0 /\ Len(delivered) = 0 /\ Len(reading) = 0
  BY <1>1 DEF Init, Rest
<1>3. Between(0, 0) = <<>> /\ Tiles(<<>>, 0, 0)
  BY BetweenNone, TilesNone
<1>4. Queued(0)
  BY <1>2, <1>3 DEF Queued
<1>5. Coming
  BY <1>2, <1>3, <1>4 DEF Coming
<1>6. QED
  BY <1>2, <1>3, <1>5 DEF Flow

(***************************************************************************)
(* Whatever is written, split, read and destroyed, the messages keep their *)
(* order and their number on the way.                                      *)
(***************************************************************************)
THEOREM SpecFlow == Spec => []Flow
<1>1. Init => Flow
  BY InitFlow
<1>2. IInv /\ TypeInv /\ Flow /\ [Next]_vars => Flow'
  <2>1. SUFFICES ASSUME IInv, TypeInv, Flow, [Next]_vars PROVE Flow'
    OBVIOUS
  <2>2. ASSUME NEW h \in Targets, Write(h) PROVE Flow'
    BY <2>1, <2>2, WriteFlow
  <2>3. ASSUME NEW h \in Targets, WriteThrows(h) PROVE Flow'
    BY <2>1, <2>3, KeepsFlow DEF WriteThrows, receiverVars
  <2>4. CASE Writev
    BY <2>1, <2>4, WritevFlow
  <2>5. CASE OnWrite
    BY <2>1, <2>5, OnWriteFlow
  <2>6. CASE Destroy
    BY <2>1, <2>6, KeepsFlow DEF Destroy, DestroySender, receiverVars
  <2>7. ASSUME NEW n \in 1..Len(wire), OnRead(n) PROVE Flow'
    BY <2>1, <2>7, OnReadFlow
  <2>8. CASE OnHandle
    BY <2>1, <2>8, KeepsFlow DEF OnHandle, senderVars
  <2>9. CASE CountHandles
    BY <2>1, <2>9, KeepsFlow DEF CountHandles, AfterHandle, senderVars
  <2>10. CASE OnReadData
    BY <2>1, <2>10, OnReadDataFlow
  <2>11. CASE AcceptLater
    BY <2>1, <2>11, KeepsFlow DEF AcceptLater, senderVars
  <2>12. CASE UNCHANGED vars
    BY <2>1, <2>12, KeepsFlow DEF vars, senderVars, receiverVars
  <2>13. QED
    BY <2>1, <2>2, <2>3, <2>4, <2>5, <2>6, <2>7, <2>8, <2>9, <2>10, <2>11, <2>12
       DEF Next, Sender, Receiver
<1>3. QED
  BY <1>1, <1>2, SpecIInv, SpecTypeInv, PTL DEF Spec

(***************************************************************************)
(* No message is lost, repeated or reordered while both ends are open, for *)
(* any number of messages and any handles, even after a write() threw.     *)
(***************************************************************************)
THEOREM NoneLost == Spec => []NothingLost
<1>1. TypeInv /\ Flow => NothingLost
  <2>1. SUFFICES ASSUME TypeInv, Flow, ~closing, ~rclosing
                 PROVE  delivered \o reading \o Chunks(wire)
                          \o (IF writing THEN Chunks(Tail(segments)) ELSE <<>>) \o queue
                          = [m \in DOMAIN sent |-> m]
    BY DEF NothingLost
  <2>2. PICK d, r, l \in Nat : d = Len(delivered) /\ r = Len(reading) /\ l = Len(sent)
    BY <2>1 DEF TypeInv, TypeOK
  <2>3. PICK x \in 0..l :
          /\ reading = Between(d, d + r) /\ Tiles(wire, d + r, x) /\ Queued(x)
    BY <2>1, <2>2 DEF Flow, Coming
  <2>4. PICK y \in 0..l : Tiles(Rest, x, y) /\ queue = Between(y, l)
    BY <2>2, <2>3 DEF Queued
  <2>5. wire \in Seq(Segment) /\ Rest \in Seq(Segment)
    BY <2>1 DEF TypeInv, TypeOK, Rest, Flow
  <2>6. d + r \in Nat /\ x \in Nat /\ y \in Nat
    BY <2>2, <2>3, <2>4
  <2>7. d <= d + r /\ d + r <= x /\ x <= y /\ y <= l
    BY <2>2, <2>3, <2>4, <2>5, <2>6, TilesUp
  <2>8. Chunks(wire) = Between(d + r, x)
    BY <2>3, <2>5, <2>6, TilesFlatten DEF Chunks
  <2>9. (IF writing THEN Chunks(Tail(segments)) ELSE <<>>) = Between(x, y)
    <3>1. Chunks(Rest) = Between(x, y)
      BY <2>4, <2>5, <2>6, TilesFlatten DEF Chunks
    <3>2. Chunks(<<>>) = <<>>
      <4>1. [i \in DOMAIN <<>> |-> <<>>[i].chunks] = <<>>
        OBVIOUS
      <4>2. QED
        BY <4>1, FlattenNone, Zenon DEF Chunks
    <3>3. QED
      BY <3>1, <3>2 DEF Rest
  <2>10. delivered = Between(0, d)
    BY <2>1, <2>2 DEF Flow
  <2>11. /\ Between(0, d) \o Between(d, d + r) = Between(0, d + r)
         /\ Between(0, d + r) \o Between(d + r, x) = Between(0, x)
         /\ Between(0, x) \o Between(x, y) = Between(0, y)
         /\ Between(0, y) \o Between(y, l) = Between(0, l)
    <3>1. 0 \in Nat /\ 0 <= d /\ 0 <= d + r /\ 0 <= x /\ 0 <= y
      BY <2>2, <2>6
    <3>2. Between(0, d) \o Between(d, d + r) = Between(0, d + r)
      BY <2>6, <2>7, <3>1, BetweenConcat
    <3>3. Between(0, d + r) \o Between(d + r, x) = Between(0, x)
      BY <2>6, <2>7, <3>1, BetweenConcat
    <3>4. Between(0, x) \o Between(x, y) = Between(0, y)
      BY <2>6, <2>7, <3>1, BetweenConcat
    <3>5. Between(0, y) \o Between(y, l) = Between(0, l)
      BY <2>6, <2>7, <3>1, BetweenConcat
    <3>6. QED
      BY <3>2, <3>3, <3>4, <3>5
  <2>12. [m \in DOMAIN sent |-> m] = Between(0, l)
    BY <2>1, <2>2 DEF TypeInv, TypeOK, Between
  <2>13. QED
    BY <2>3, <2>4, <2>8, <2>9, <2>10, <2>11, <2>12
<1>2. QED
  BY <1>1, SpecTypeInv, SpecFlow, PTL

-----------------------------------------------------------------------------
(* The channel.                                                            *)

\* The handles libuv has received, accepted or not.
Arrived == accepted \o pendingHandles

(***************************************************************************)
(* Until a write() throws the handles that have arrived are those of the   *)
(* messages delivered and of the read under way.                           *)
(***************************************************************************)
Surfaced ==
  throws = 0 /\ ~rclosing => Arrived = Among(sent, Len(delivered) + Len(reading))

LEMMA HandlesOfIs ==
  ASSUME NEW n \in Nat
  PROVE  Channel!HandlesOf(n) = Among(sent, n)
<1>1. \A s : Channel!FlattenSeq(s) = FlattenSeq(s)
  BY DEF Channel!FlattenSeq, FlattenSeq
<1>2. Channel!HandlesOf(n) = Channel!FlattenSeq([i \in 1..n |-> Kept(sent[i])])
  BY DEF Channel!HandlesOf, Kept
<1>3. QED
  BY <1>1, <1>2 DEF Among

(***************************************************************************)
(* The handles of a read, which only its last native write may carry, are  *)
(* those of its messages.                                                  *)
(***************************************************************************)
LEMMA ReadSurfaces ==
  ASSUME sent \in Seq(Targets), NEW n \in Nat \ {0}, NEW t \in Seq(Honest), Len(t) = n,
         NEW d \in Nat, NEW m \in 0..Len(sent), Tiles(t, d, m),
         \A i \in 1..(n - 1) : t[i].handle = NoTarget
  PROVE  Among(sent, m) = Among(sent, d) \o Kept(t[n].handle)
<1>1. PICK l \in Nat : l = Len(sent)
  OBVIOUS
<1>2. \A i \in 1..l : sent[i] \in Targets
  BY <1>1
<1>3. PICK f \in [0..n -> 0..m] :
        /\ f[0] = d /\ f[n] = m
        /\ \A i \in 1..n : f[i - 1] <= f[i] /\ t[i].chunks = Between(f[i - 1], f[i])
  BY DEF Tiles
<1>4. \A i \in 0..n : f[i] \in 0..l
  BY <1>1, <1>3
<1>5. ASSUME NEW i \in 1..n, t[i].handle = NoTarget
      PROVE  Among(sent, f[i]) = Among(sent, f[i - 1])
  <2>1. PICK a, b : a = f[i - 1] /\ b = f[i]
    OBVIOUS
  <2>2. i - 1 \in 0..n /\ i \in 0..n
    OBVIOUS
  <2>3. a \in Nat /\ b \in 0..l /\ a <= b
    BY <1>3, <1>4, <2>1, <2>2
  <2>4. /\ t[i].chunks \in Seq(1..Len(sent))
        /\ \A j \in DOMAIN t[i].chunks : sent[t[i].chunks[j]] = NoTarget
    <3>1. t[i] \in Honest
      OBVIOUS
    <3>2. QED
      BY <1>5, <3>1 DEF Honest
  <2>5. t[i].chunks = Between(a, b)
    BY <1>3, <2>1
  <2>6. ASSUME NEW k \in (a + 1)..b PROVE sent[k] = NoTarget
    <3>1. k - a \in 1..(b - a) /\ a + (k - a) = k
      BY <2>3
    <3>2. DOMAIN Between(a, b) = 1..(b - a) /\ Between(a, b)[k - a] = a + (k - a)
      BY <3>1 DEF Between
    <3>3. QED
      BY <2>4, <2>5, <3>1, <3>2
  <2>7. \A k \in 1..b : sent[k] \in Targets
    BY <1>2, <2>3
  <2>8. Among(sent, b) = Among(sent, a)
    BY <2>3, <2>6, <2>7, AmongSkips
  <2>9. QED
    BY <2>1, <2>8
<1> DEFINE S == {k \in Nat : k <= n - 1 => Among(sent, f[k]) = Among(sent, d)}
<1>6. 0 \in S
  BY <1>3
<1>7. ASSUME NEW k \in Nat, k \in S PROVE k + 1 \in S
  <2>1. PICK i : i = k + 1
    OBVIOUS
  <2>2. SUFFICES ASSUME i <= n - 1 PROVE Among(sent, f[i]) = Among(sent, d)
    BY <2>1
  <2>3. i \in 1..n /\ i \in 1..(n - 1) /\ i - 1 = k /\ k <= n - 1
    BY <2>1, <2>2
  <2>4. Among(sent, f[i]) = Among(sent, f[i - 1])
    BY <1>5, <2>3
  <2>5. Among(sent, f[k]) = Among(sent, d)
    BY <1>7, <2>3
  <2>6. QED
    BY <2>3, <2>4, <2>5
<1> HIDE DEF S
<1>8. \A k \in Nat : k \in S
  BY <1>6, <1>7, Induction
<1>9. PICK a : a = f[n - 1]
  OBVIOUS
<1>10. Among(sent, a) = Among(sent, d)
  <2>1. n - 1 \in Nat /\ n - 1 <= n - 1
    OBVIOUS
  <2>2. n - 1 \in S
    BY <1>8, <2>1
  <2>3. QED
    BY <1>9, <2>1, <2>2 DEF S
<1>11. a \in 0..l /\ n \in 1..n
  <2>1. n - 1 \in 0..n
    OBVIOUS
  <2>2. QED
    BY <1>4, <1>9, <2>1
<1>12. Among(sent, a) \in Seq(Handles)
  <2>1. \A k \in 1..a : sent[k] \in Targets
    BY <1>2, <1>11
  <2>2. QED
    BY <1>11, <2>1, AmongIs
<1>13. CASE t[n].handle = NoTarget
  <2>1. Among(sent, m) = Among(sent, a)
    BY <1>3, <1>5, <1>9, <1>11, <1>13
  <2>2. Kept(t[n].handle) = <<>>
    BY <1>13 DEF Kept
  <2>3. PICK u : u = Among(sent, a)
    OBVIOUS
  <2>4. u \o <<>> = u
    BY <1>12, <2>3
  <2>5. QED
    BY <1>10, <2>1, <2>2, <2>3, <2>4
<1>14. CASE t[n].handle # NoTarget
  <2>1. t[n].chunks = Between(a, m) /\ a <= m
    BY <1>3, <1>9, <1>11
  <2>2. Len(t[n].chunks) = 1 /\ sent[t[n].chunks[1]] = t[n].handle
    <3>1. t[n] \in Honest
      BY <1>11
    <3>2. QED
      BY <1>14, <3>1 DEF Honest
  <2>3. m - a = 1 /\ t[n].chunks[1] = a + 1
    <3>1. a \in Nat /\ m \in Nat
      BY <1>11
    <3>2. Len(Between(a, m)) = m - a
      BY <2>1, <3>1, BetweenIs
    <3>3. m - a = 1
      BY <2>1, <2>2, <3>2
    <3>4. Between(a, m)[1] = a + 1
      BY <3>3 DEF Between
    <3>5. QED
      BY <2>1, <3>3, <3>4
  <2>4. m = a + 1 /\ sent[a + 1] = t[n].handle
    BY <1>11, <2>2, <2>3
  <2>5. \A k \in 1..(a + 1) : sent[k] \in Targets
    BY <1>1, <1>2, <2>4
  <2>6. Among(sent, a + 1) = Among(sent, a) \o Kept(sent[a + 1])
    <3>1. a \in Nat
      BY <1>11
    <3>2. QED
      BY <2>5, <3>1, AmongStep
  <2>7. QED
    BY <1>10, <2>4, <2>6
<1>15. QED
  BY <1>13, <1>14

\* What a read adds to the handles that have arrived.
LEMMA OnReadSurfaces ==
  ASSUME IInv, TypeInv, Flow, Surfaced, throws = 0, NEW n \in 1..Len(wire), OnRead(n)
  PROVE  /\ Len(delivered) + Len(reading') \in Len(delivered)..Len(sent)
         /\ \E h \in Targets : Arrived' = Arrived \o Kept(h)
         /\ Arrived' = Among(sent, Len(delivered) + Len(reading'))
<1>1. PICK d \in Nat : d = Len(delivered)
  BY DEF TypeInv, TypeOK
<1>2. frame = "idle" /\ ~rclosing /\ reading = <<>> /\ UNCHANGED accepted
  BY DEF OnRead, Flow
<1>3. PICK m \in 0..Len(sent) :
        /\ d <= m /\ Len(reading') = m - d
        /\ Tiles(SubSeq(wire, 1, n), d, m)
  BY <1>1, ReadTakes
<1>4. wire \in Seq(Honest) /\ sent \in Seq(Targets)
  BY DEF IInv
<1>5. PICK t : t = SubSeq(wire, 1, n)
  OBVIOUS
<1>6. PICK k \in Nat : k = Len(wire)
  BY <1>4
<1>7. t \in Seq(Honest) /\ Len(t) = n /\ n \in Nat \ {0} /\ \A i \in 1..n : t[i] = wire[i]
  <2>1. n <= k /\ n \in Nat \ {0} /\ \A i \in 1..n : i \in 1..k /\ wire[i] \in Honest
    BY <1>4, <1>6
  <2>2. Len(t) = n /\ \A i \in 1..n : t[i] = wire[i]
    BY <1>4, <1>5, <1>6, <2>1
  <2>3. t \in Seq(Honest)
    BY <1>4, <1>5, <2>1, SubSeqProperties
  <2>4. QED
    BY <2>1, <2>2, <2>3
<1>8. \A i \in 1..(n - 1) : t[i].handle = NoTarget
  <2>1. \A i \in 1..(n - 1) : wire[i].handle = NoTarget
    BY DEF OnRead
  <2>2. \A i \in 1..(n - 1) : i \in 1..n
    BY <1>7
  <2>3. QED
    BY <1>7, <2>1, <2>2
<1>9. PICK h : h = t[n].handle
  OBVIOUS
<1>10. h \in Targets
  <2>1. t[n] \in Honest
    BY <1>7
  <2>2. QED
    BY <1>9, <2>1 DEF Honest
<1>11. Among(sent, m) = Among(sent, d) \o Kept(h)
  BY <1>1, <1>3, <1>4, <1>5, <1>7, <1>8, <1>9, ReadSurfaces, ZenonT(60)
<1>12. PICK hs : hs = [i \in 1..n |-> t[i].handle]
  OBVIOUS
<1>13. pendingHandles' = pendingHandles \o Carrying(hs)
  BY <1>5, <1>12 DEF OnRead
<1>14. Carrying(hs) = Kept(h)
  <2>1. /\ DOMAIN hs = 1..n /\ hs[n] = h /\ \A i \in 1..n : hs[i] \in Targets
        /\ \A i \in 1..(n - 1) : hs[i] = NoTarget
    <3>1. \A i \in 1..n : t[i] \in Honest
      BY <1>7
    <3>2. \A i \in 1..n : t[i].handle \in Targets
      BY <3>1 DEF Honest
    <3>3. QED
      BY <1>7, <1>8, <1>9, <1>12, <3>2
  <2>2. PICK j \in Nat : n = j + 1
    <3>1. n - 1 \in Nat /\ n = (n - 1) + 1
      BY <1>7
    <3>2. QED
      BY <3>1
  <2>3. Carrying(hs) = Among(hs, j + 1)
    BY <1>7, <2>1, <2>2, CarryingIs
  <2>4. Among(hs, j + 1) = Among(hs, j) \o Kept(h)
    BY <2>1, <2>2, AmongStep
  <2>5. Among(hs, j) = <<>>
    <3>1. 0 \in Nat /\ 0 <= j /\ \A i \in 1..j : hs[i] \in Targets
      BY <2>1, <2>2
    <3>2. \A i \in (0 + 1)..j : hs[i] = NoTarget
      BY <2>1, <2>2
    <3>3. Among(hs, j) = Among(hs, 0)
      BY <3>1, <3>2, AmongSkips
    <3>4. QED
      BY <3>3, AmongNone
  <2>6. PICK u : u = Kept(h)
    OBVIOUS
  <2>7. <<>> \o u = u
    BY <1>10, <2>6, KeptTyped
  <2>8. QED
    BY <2>3, <2>4, <2>5, <2>6, <2>7
<1>15. Arrived' = Arrived \o Kept(h)
  <2>1. accepted \in Seq(Handles) /\ pendingHandles \in Seq(Handles) /\ Kept(h) \in Seq(Handles)
    BY <1>10, KeptTyped DEF TypeInv, TypeOK
  <2>2. PICK u : u = Kept(h)
    OBVIOUS
  <2>3. u \in Seq(Handles)
    BY <2>1, <2>2
  <2>4. (accepted \o pendingHandles) \o u = accepted \o (pendingHandles \o u)
    <3>1. accepted \in Seq(Handles) /\ pendingHandles \in Seq(Handles)
      BY <2>1
    <3>2. \A x, y, z \in Seq(Handles) : (x \o y) \o z = x \o (y \o z)
      BY Associates, SMTT(60)
    <3>3. QED
      BY <2>3, <3>1, <3>2, Zenon
  <2>5. Arrived' = accepted \o (pendingHandles \o u)
    <3>1. accepted' = accepted
      BY <1>2
    <3>2. pendingHandles' = pendingHandles \o u
      BY <1>13, <1>14, <2>2
    <3>3. Arrived' = accepted' \o pendingHandles'
      BY DEF Arrived
    <3>4. QED
      BY <3>1, <3>2, <3>3
  <2>6. QED
    BY <2>2, <2>4, <2>5 DEF Arrived
<1>16. Arrived = Among(sent, d)
  <2>1. Len(delivered) + Len(reading) = d
    BY <1>1, <1>2
  <2>2. QED
    BY <1>2, <2>1 DEF Surfaced
<1>17. d + Len(reading') = m /\ m \in d..Len(sent)
  BY <1>1, <1>3
<1>18. QED
  BY <1>1, <1>10, <1>11, <1>15, <1>16, <1>17

\* The messages of a read were sent, and arrive after those delivered.
LEMMA ReadWasSent ==
  ASSUME IInv, TypeInv, Flow, ~rclosing
  PROVE  Len(delivered) + Len(reading) \in Len(delivered)..Len(sent)
<1>1. PICK d, r, l \in Nat : d = Len(delivered) /\ r = Len(reading) /\ l = Len(sent)
  BY DEF TypeInv, TypeOK
<1>2. PICK x \in 0..l : Tiles(wire, d + r, x)
  BY <1>1 DEF Flow, Coming
<1>3. wire \in Seq(Segment) /\ d + r \in Nat /\ x \in Nat
  BY <1>1, <1>2 DEF TypeInv, TypeOK
<1>4. d + r <= x
  BY <1>2, <1>3, TilesUp
<1>5. QED
  BY <1>1, <1>2, <1>4

\* The steps that surface no handle and read no message.
LEMMA KeepsSurfaced ==
  ASSUME Surfaced, UNCHANGED <<sent, throws, delivered, reading>>,
         Arrived' = Arrived, rclosing' = FALSE => ~rclosing,
         rclosing' \in BOOLEAN
  PROVE  Surfaced'
BY DEF Surfaced

\* accept() moves a handle from libuv's queue to the user.
LEMMA AcceptKeepsArrived ==
  ASSUME TypeInv, NEW k \in 0..Len(pendingHandles), Accept(k)
  PROVE  Arrived' = Arrived
<1>1. accepted' \o pendingHandles' = accepted \o pendingHandles
  BY AcceptTyped
<1>2. Arrived' = accepted' \o pendingHandles'
  BY DEF Arrived
<1>3. QED
  BY <1>1, <1>2 DEF Arrived

\* A message written later adds nothing to the handles of those before it.
LEMMA WriteKeepsSurfaced ==
  ASSUME IInv, TypeInv, Flow, Surfaced, NEW h \in Targets, Write(h)
  PROVE  Surfaced'
<1>1. UNCHANGED <<throws, delivered, reading, rclosing, accepted, pendingHandles>>
  BY DEF Write, receiverVars
<1>2. SUFFICES ASSUME throws = 0, ~rclosing
               PROVE  Arrived' = Among(sent', Len(delivered) + Len(reading))
  BY <1>1 DEF Surfaced
<1>3. PICK n : n = Len(delivered) + Len(reading)
  OBVIOUS
<1>4. sent \in Seq(Targets) /\ sent' = Append(sent, h)
  BY DEF Write, TypeInv, TypeOK
<1>5. n \in 0..Len(sent)
  <2>1. Len(delivered) \in Nat
    BY DEF TypeInv, TypeOK
  <2>2. n \in Len(delivered)..Len(sent)
    BY <1>2, <1>3, ReadWasSent
  <2>3. QED
    BY <2>1, <2>2
<1>6. \A i \in 1..n : sent[i] = sent'[i]
  BY <1>4, <1>5
<1>7. Among(sent, n) = Among(sent', n)
  BY <1>5, <1>6, AmongSame
<1>8. Arrived' = Arrived
  BY <1>1 DEF Arrived
<1>9. QED
  BY <1>2, <1>3, <1>7, <1>8 DEF Surfaced

\* A read surfaces its handles before its messages are delivered.
LEMMA ReadKeepsSurfaced ==
  ASSUME IInv, TypeInv, Flow, Surfaced, NEW n \in 1..Len(wire), OnRead(n)
  PROVE  Surfaced'
<1>1. UNCHANGED <<sent, throws, delivered>>
  BY DEF OnRead
<1>2. SUFFICES ASSUME throws = 0
               PROVE  Arrived' = Among(sent, Len(delivered) + Len(reading'))
  BY <1>1 DEF Surfaced
<1>3. QED
  BY <1>2, OnReadSurfaces

\* The messages delivered are those of the read whose handles surfaced.
LEMMA DeliveryKeepsSurfaced ==
  ASSUME TypeInv, Surfaced, OnReadData
  PROVE  Surfaced'
<1>1. UNCHANGED <<sent, throws, rclosing, accepted, pendingHandles>> /\ reading' = <<>>
  BY DEF OnReadData, senderVars
<1>2. SUFFICES ASSUME throws = 0, ~rclosing
               PROVE  Arrived' = Among(sent, Len(delivered') + Len(reading'))
  BY <1>1 DEF Surfaced
<1>3. Len(delivered') + Len(reading') = Len(delivered) + Len(reading)
  <2>1. delivered \in Seq(Messages) /\ reading \in Seq(Messages)
    BY DEF TypeInv, TypeOK
  <2>2. delivered' = delivered \o reading
    BY <1>2 DEF OnReadData
  <2>3. Len(delivered') = Len(delivered) + Len(reading)
    BY <2>1, <2>2
  <2>4. QED
    BY <1>1, <2>1, <2>3
<1>4. Arrived' = Arrived
  BY <1>1 DEF Arrived
<1>5. QED
  BY <1>2, <1>3, <1>4 DEF Surfaced

(***************************************************************************)
(* Until a write() throws, and while the receiver is open, the handles     *)
(* that arrived are exactly those of the messages that did.                *)
(***************************************************************************)
THEOREM SpecSurfaced == Spec => []Surfaced
<1>1. Init => Surfaced
  <2>1. SUFFICES ASSUME Init PROVE Arrived = Among(sent, Len(delivered) + Len(reading))
    BY DEF Surfaced
  <2>2. Arrived = <<>>
    BY <2>1 DEF Arrived, Init
  <2>3. Len(delivered) + Len(reading) = 0
    BY <2>1 DEF Init
  <2>4. QED
    BY <2>2, <2>3, AmongNone
<1>2. IInv /\ TypeInv /\ TypeInv' /\ Flow /\ Surfaced /\ [Next]_vars => Surfaced'
  <2>1. SUFFICES ASSUME IInv, TypeInv, TypeInv', Flow, Surfaced, [Next]_vars
                 PROVE  Surfaced'
    OBVIOUS
  <2>2. rclosing' \in BOOLEAN /\ throws \in Nat
    BY <2>1, IpcAssumption DEF TypeInv, TypeOK
  <2>3. ASSUME NEW h \in Targets, Write(h) PROVE Surfaced'
    BY <2>1, <2>3, WriteKeepsSurfaced
  <2>4. ASSUME NEW h \in Targets, WriteThrows(h) PROVE Surfaced'
    <3>1. throws' # 0
      BY <2>2, <2>4 DEF WriteThrows
    <3>2. QED
      BY <3>1 DEF Surfaced
  <2>5. ASSUME UNCHANGED <<sent, throws, receiverVars>> PROVE Surfaced'
    BY <2>1, <2>2, <2>5, KeepsSurfaced DEF receiverVars, Arrived
  <2>6. CASE Writev
    BY <2>5, <2>6 DEF Writev
  <2>7. CASE OnWrite
    BY <2>5, <2>7 DEF OnWrite
  <2>8. CASE Destroy
    BY <2>5, <2>8 DEF Destroy
  <2>9. ASSUME NEW n \in 1..Len(wire), OnRead(n) PROVE Surfaced'
    BY <2>1, <2>9, ReadKeepsSurfaced
  <2>10. CASE OnHandle
    <3>1. PICK k \in 0..Len(pendingHandles) : Accept(k)
      BY <2>10 DEF OnHandle
    <3>2. Arrived' = Arrived
      BY <2>1, <3>1, AcceptKeepsArrived
    <3>3. UNCHANGED <<sent, throws, delivered, reading>> /\ ~rclosing
      BY <2>10 DEF OnHandle
    <3>4. QED
      BY <2>1, <2>2, <3>2, <3>3, KeepsSurfaced
  <2>11. CASE CountHandles
    BY <2>1, <2>2, <2>11, KeepsSurfaced DEF CountHandles, Arrived
  <2>12. CASE OnReadData
    BY <2>1, <2>12, DeliveryKeepsSurfaced
  <2>13. CASE AcceptLater
    <3>1. 1 \in 0..Len(pendingHandles)
      BY <2>1, <2>13 DEF AcceptLater, TypeInv, TypeOK
    <3>2. Accept(1)
      BY <2>13 DEF AcceptLater
    <3>3. Arrived' = Arrived
      BY <2>1, <3>1, <3>2, AcceptKeepsArrived
    <3>4. UNCHANGED <<sent, throws, delivered, reading>> /\ ~rclosing
      BY <2>13 DEF AcceptLater
    <3>5. QED
      BY <2>1, <2>2, <3>3, <3>4, KeepsSurfaced
  <2>14. CASE UNCHANGED vars
    BY <2>5, <2>14 DEF vars
  <2>15. QED
    BY <2>1, <2>3, <2>4, <2>6, <2>7, <2>8, <2>9, <2>10, <2>11, <2>12, <2>13, <2>14
       DEF Next, Sender, Receiver
<1>3. QED
  BY <1>1, <1>2, SpecIInv, SpecTypeInv, SpecFlow, PTL DEF Spec

\* A step that moves no handle and delivers nothing stutters.
LEMMA Stutters ==
  ASSUME UNCHANGED <<sent, delivered>>, Arrived' = Arrived
  PROVE  UNCHANGED Channel!vars
BY DEF Channel!vars, Arrived

\* write() maps to Send.
LEMMA WriteSends ==
  ASSUME NEW h \in Targets, Write(h)
  PROVE  Channel!Send
BY DEF Write, receiverVars, Channel!Send, Targets

\* A read with a handle maps to Surface, one without to a stuttering step.
LEMMA ReadSurfacesOrStutters ==
  ASSUME IInv, TypeInv, Flow, Surfaced, throws = 0, NEW n \in 1..Len(wire), OnRead(n)
  PROVE  Channel!Surface \/ UNCHANGED Channel!vars
<1>1. PICK m : m = Len(delivered) + Len(reading')
  OBVIOUS
<1>2. m \in Len(delivered)..Len(sent) /\ Arrived' = Among(sent, m)
  BY <1>1, OnReadSurfaces
<1>3. PICK h \in Targets : Arrived' = Arrived \o Kept(h)
  BY OnReadSurfaces
<1>4. Len(delivered) \in Nat /\ Arrived \in Seq(Handles)
  BY DEF TypeInv, TypeOK, Arrived
<1>5. UNCHANGED <<sent, delivered>>
  BY DEF OnRead
<1>6. CASE h = NoTarget
  <2>1. Arrived \o <<>> = Arrived
    BY <1>4
  <2>2. Arrived' = Arrived
    BY <1>3, <1>6, <2>1 DEF Kept
  <2>3. QED
    BY <1>5, <2>2, Stutters
<1>7. CASE h # NoTarget
  <2>1. Len(Arrived \o <<h>>) = Len(Arrived) + 1 /\ Len(Arrived) \in Nat
    BY <1>3, <1>4, <1>7 DEF Targets
  <2>2. Len(Arrived') > Len(Arrived)
    BY <1>3, <1>7, <2>1 DEF Kept
  <2>3. m \in Nat
    BY <1>2, <1>4
  <2>4. Arrived' = Channel!HandlesOf(m)
    BY <1>2, <2>3, HandlesOfIs
  <2>5. (accepted \o pendingHandles)' = Arrived' /\ accepted \o pendingHandles = Arrived
    BY DEF Arrived
  <2>6. QED
    BY <1>2, <1>5, <2>2, <2>4, <2>5 DEF Channel!Surface
<1>8. QED
  BY <1>6, <1>7

\* The end of a read maps to Deliver, or to a stuttering step.
LEMMA OnReadDataDelivers ==
  ASSUME IInv, TypeInv, Flow, Surfaced, throws = 0, OnReadData
  PROVE  Channel!Deliver \/ UNCHANGED Channel!vars
<1>1. UNCHANGED <<sent, accepted, pendingHandles>>
  BY DEF OnReadData
<1>2. Arrived' = Arrived
  BY <1>1 DEF Arrived
<1>3. delivered \in Seq(Messages) /\ reading \in Seq(Messages) /\ rclosing \in BOOLEAN
  BY DEF TypeInv, TypeOK
<1>4. CASE rclosing
  BY <1>1, <1>2, <1>4, Stutters DEF OnReadData
<1>5. CASE ~rclosing /\ reading = <<>>
  <2>1. delivered' = delivered \o <<>>
    BY <1>5 DEF OnReadData
  <2>2. delivered \o <<>> = delivered
    BY <1>3
  <2>3. QED
    BY <1>1, <1>2, <2>1, <2>2, Stutters
<1>6. CASE ~rclosing /\ reading # <<>>
  <2>1. PICK n : n = Len(delivered) + Len(reading)
    OBVIOUS
  <2>2. n \in Len(delivered)..Len(sent)
    BY <1>6, <2>1, ReadWasSent
  <2>3. delivered' = delivered \o reading
    BY <1>6 DEF OnReadData
  <2>4. Len(delivered') = n /\ Len(delivered) \in Nat /\ Len(reading) \in Nat \ {0}
    BY <1>3, <1>6, <2>1, <2>3
  <2>5. n \in Len(delivered) + 1..Len(sent) /\ n \in Nat
    BY <2>1, <2>2, <2>4
  <2>6. Arrived = Among(sent, n)
    BY <1>6, <2>1 DEF Surfaced
  <2>7. Channel!HandlesOf(n) = Arrived
    BY <2>5, <2>6, HandlesOfIs
  <2>8. Len(Arrived) \in Nat
    BY DEF TypeInv, TypeOK, Arrived
  <2>9. Len(Channel!HandlesOf(n)) <= Len(accepted \o pendingHandles)
    BY <2>7, <2>8 DEF Arrived
  <2>10. UNCHANGED <<sent, accepted \o pendingHandles>>
    BY <1>1
  <2>11. QED
    BY <2>4, <2>5, <2>9, <2>10 DEF Channel!Deliver
<1>7. QED
  BY <1>3, <1>4, <1>5, <1>6

(***************************************************************************)
(* What a Pipe with ipc: true promises of handles: as long as no write()   *)
(* throws, every message arrives in order, and its handle, in order too,   *)
(* no later than itself, however the stream batches, whatever the          *)
(* listener accepts and whichever end is destroyed.  The throwing write()  *)
(* that the theorem leaves out is the finding that IpcMisaligned shows.    *)
(***************************************************************************)
THEOREM KeepsTheChannel == Spec /\ [](throws = 0) => ImplementsChannel
<1>1. Init => Channel!Init
  <2>1. SUFFICES ASSUME Init PROVE Channel!Init
    OBVIOUS
  <2>2. <<>> \o <<>> = <<>> /\ Len(<<>>) = 0
    OBVIOUS
  <2>3. QED
    BY <2>1, <2>2 DEF Init, Channel!Init
<1>2. IInv /\ TypeInv /\ Flow /\ Surfaced /\ throws = 0 /\ (throws = 0)' /\ [Next]_vars
        => [Channel!Next]_Channel!vars
  <2>1. SUFFICES ASSUME IInv, TypeInv, Flow, Surfaced, throws = 0, throws' = 0,
                        [Next]_vars
                 PROVE  Channel!Next \/ UNCHANGED Channel!vars
    OBVIOUS
  <2>2. ASSUME NEW h \in Targets, Write(h) PROVE Channel!Next
    BY <2>2, WriteSends DEF Channel!Next
  <2>3. ASSUME NEW h \in Targets, WriteThrows(h) PROVE FALSE
    BY <2>1, <2>3 DEF WriteThrows
  <2>4. ASSUME UNCHANGED <<sent, receiverVars>> PROVE UNCHANGED Channel!vars
    BY <2>4, Stutters DEF receiverVars, Arrived
  <2>5. CASE Writev
    BY <2>4, <2>5 DEF Writev
  <2>6. CASE OnWrite
    BY <2>4, <2>6 DEF OnWrite
  <2>7. CASE Destroy
    BY <2>4, <2>7 DEF Destroy
  <2>8. ASSUME NEW n \in 1..Len(wire), OnRead(n)
        PROVE  Channel!Next \/ UNCHANGED Channel!vars
    BY <2>1, <2>8, ReadSurfacesOrStutters DEF Channel!Next
  <2>9. CASE OnHandle
    <3>1. PICK k \in 0..Len(pendingHandles) : Accept(k)
      BY <2>9 DEF OnHandle
    <3>2. Arrived' = Arrived
      BY <2>1, <3>1, AcceptKeepsArrived
    <3>3. UNCHANGED <<sent, delivered>>
      BY <2>9 DEF OnHandle
    <3>4. QED
      BY <3>2, <3>3, Stutters
  <2>10. CASE CountHandles
    BY <2>10, Stutters DEF CountHandles, Arrived
  <2>11. CASE OnReadData
    BY <2>1, <2>11, OnReadDataDelivers DEF Channel!Next
  <2>12. CASE AcceptLater
    <3>1. 1 \in 0..Len(pendingHandles)
      BY <2>1, <2>12 DEF AcceptLater, TypeInv, TypeOK
    <3>2. Accept(1)
      BY <2>12 DEF AcceptLater
    <3>3. Arrived' = Arrived
      BY <2>1, <3>1, <3>2, AcceptKeepsArrived
    <3>4. UNCHANGED <<sent, delivered>>
      BY <2>12 DEF AcceptLater
    <3>5. QED
      BY <3>3, <3>4, Stutters
  <2>13. CASE UNCHANGED vars
    BY <2>4, <2>13 DEF vars
  <2>14. QED
    BY <2>1, <2>2, <2>3, <2>5, <2>6, <2>7, <2>8, <2>9, <2>10, <2>11, <2>12, <2>13
       DEF Next, Sender, Receiver
<1>3. QED
  BY <1>1, <1>2, SpecIInv, SpecTypeInv, SpecFlow, SpecSurfaced, PTL
     DEF Spec, ImplementsChannel, Channel!Spec
=============================================================================
