---------------------------- MODULE CodecProofs ----------------------------
(***************************************************************************)
(* What one side sends is what the other side reads, for every number of   *)
(* values a byte may have: numbers of 1, 2, 4 and 8 bytes, with and        *)
(* without sign; the elements of an array or a vector, however many; the   *)
(* scalars of a list of arguments or results; and the ids in the header of *)
(* a command.                                                              *)
(***************************************************************************)
EXTENDS Codec, SequenceTheorems, WellFoundedInduction, TLAPS

-----------------------------------------------------------------------------
(* Induction: the provers take no theorem with a predicate for a parameter, *)
(* but sets of natural numbers will do, which have a least element.         *)

\* A set of numbers that is not empty has a least one.
LEMMA LeastNumber ==
    ASSUME NEW N, N \subseteq Nat, N # {}
    PROVE  \E x \in N : \A y \in N : ~(y < x)
<1>. DEFINE R == {ss \in Nat \X Nat : ss[1] < ss[2]}
<1>1. IsWellFoundedOn(R, Nat)
  BY NatLessThanWellFounded DEF OpToRel
<1>2. \E x \in N : \A y \in N : ~(<<y, x>> \in R)
  <2>. HIDE DEF R
  <2>. QED BY <1>1, WFMin
<1>3. \A x, y \in N : y < x => <<y, x>> \in R
  OBVIOUS
<1>. QED BY <1>2, <1>3

\* A set that has 0, and the successor of what it has up to n, has all up to n.
LEMMA UpTo ==
    ASSUME NEW n \in Nat, NEW N, 0 \in N, \A k \in 1..n : k - 1 \in N => k \in N
    PROVE  \A k \in 0..n : k \in N
<1>. SUFFICES ASSUME (0..n) \ N # {} PROVE FALSE
  OBVIOUS
<1>1. PICK x \in (0..n) \ N : \A y \in (0..n) \ N : ~(y < x)
  <2>. DEFINE M == (0..n) \ N
  <2>1. M \subseteq Nat /\ M # {}
    OBVIOUS
  <2>. HIDE DEF M
  <2>2. \E x \in M : \A y \in M : ~(y < x)
    BY <2>1, LeastNumber
  <2>. QED BY <2>2 DEF M
<1>2. x \in 1..n /\ x - 1 \in 0..n /\ x - 1 < x
  BY <1>1
<1>. QED BY <1>1, <1>2

\* What is defined step by step is a function.  (The hypotheses and what follows
\* have names, for the provers to find the instance.)
ByStep(V, n, b, F) == n \in Nat /\ b \in V /\ F \in [V \X (1..n) -> V]
Stepwise(V, n, b, F, g) ==
    g \in [0..n -> V] /\ g[0] = b /\ \A k \in 1..n : g[k] = F[<<g[k - 1], k>>]

\* There is such a function.
LEMMA Recursion == \A V, n, b, F : ByStep(V, n, b, F) => \E g : Stepwise(V, n, b, F, g)
<1>. SUFFICES ASSUME NEW V, NEW n \in Nat, NEW b \in V, NEW F \in [V \X (1..n) -> V]
              PROVE  \E g : Stepwise(V, n, b, F, g)
  BY DEF ByStep
<1>. DEFINE Good(g, m) == /\ g \in [0..m -> V] /\ g[0] = b
                          /\ \A k \in 1..m : g[k] = F[<<g[k - 1], k>>]
            N == {m \in 0..n : \E g : Good(g, m)}
<1>1. 0 \in N
  <2>1. Good([k \in 0..0 |-> b], 0)
    OBVIOUS
  <2>. HIDE DEF Good
  <2>. QED BY <2>1
<1>2. \A m \in 1..n : m - 1 \in N => m \in N
  <2>. SUFFICES ASSUME NEW m \in 1..n, NEW g, Good(g, m - 1) PROVE \E h : Good(h, m)
    <3>. HIDE DEF Good
    <3>. QED OBVIOUS
  <2>. DEFINE h == [k \in 0..m |-> IF k < m THEN g[k] ELSE F[<<g[m - 1], m>>]]
  <2>1. <<g[m - 1], m>> \in V \X (1..n) /\ F[<<g[m - 1], m>>] \in V
    OBVIOUS
  <2>2. h \in [0..m -> V] /\ h[0] = b
    BY <2>1
  <2>3. \A k \in 1..m : h[k] = F[<<h[k - 1], k>>]
    OBVIOUS
  <2>. QED BY <2>2, <2>3
<1>3. n \in N
  <2>. HIDE DEF N
  <2>. QED BY <1>1, <1>2, UpTo
<1>. QED BY <1>3 DEF Stepwise

\* What FoldLeft is defined with: a function on the sets of the first n numbers
\* that takes out the largest first.
LEMMA Largest ==
    /\ \A n \in Nat : \A t \in SUBSET (1..n) : n \in t => Max(t) = n
    /\ \A n \in Nat \ {0} : Max(1..n) = n /\ (1..n) \ {n} = 1..(n - 1)
<1>1. ASSUME NEW n \in Nat, NEW t \in SUBSET (1..n), n \in t PROVE Max(t) = n
  <2>1. \A y \in t : n >= y
    OBVIOUS
  <2>2. \A x \in t : (\A y \in t : x >= y) => x = n
    BY <1>1
  <2>. QED BY <1>1, <2>1, <2>2 DEF Max
<1>. QED BY <1>1

\* f gives the fold over each set of numbers up to n, the largest coming last.
Fold(V, n, b, F, f) ==
    /\ f \in [SUBSET (1..n) -> V]
    /\ \A t \in SUBSET (1..n) : f[t] = IF t = {} THEN b ELSE F[<<f[t \ {Max(t)}], Max(t)>>]

\* There is a function on sets that does so; it is what FoldLeft picks.
LEMMA Folding == \A V, n, b, F : ByStep(V, n, b, F) => \E f : Fold(V, n, b, F, f)
<1>. SUFFICES ASSUME NEW V, NEW n \in Nat, NEW b \in V, NEW F \in [V \X (1..n) -> V]
              PROVE  \E f : Fold(V, n, b, F, f)
  BY DEF ByStep
<1>. DEFINE Good(f, m) ==
              /\ f \in [SUBSET (1..m) -> V]
              /\ \A t \in SUBSET (1..m) :
                    f[t] = IF t = {} THEN b ELSE F[<<f[t \ {Max(t)}], Max(t)>>]
            N == {m \in 0..n : \E f : Good(f, m)}
<1>1. 0 \in N
  <2>1. \A t \in SUBSET (1..0) : t = {}
    OBVIOUS
  <2>2. Good([t \in SUBSET (1..0) |-> b], 0)
    BY <2>1
  <2>. HIDE DEF Good
  <2>. QED BY <2>2
<1>2. \A m \in 1..n : m - 1 \in N => m \in N
  <2>. SUFFICES ASSUME NEW m \in 1..n, NEW f, Good(f, m - 1) PROVE \E h : Good(h, m)
    <3>. HIDE DEF Good
    <3>. QED OBVIOUS
  <2>. DEFINE S == SUBSET (1..m)
              h == [t \in S |-> IF m \in t THEN F[<<f[t \ {m}], m>>] ELSE f[t]]
  <2>0. \A t \in S : /\ m \in t => t \ {m} \in SUBSET (1..(m - 1)) /\ Max(t) = m /\ t # {}
                     /\ m \notin t => t \in SUBSET (1..(m - 1))
    <3>1. \A t \in S : m \in t => t \ {m} \in SUBSET (1..(m - 1)) /\ t # {}
      OBVIOUS
    <3>2. \A t \in S : m \notin t => t \in SUBSET (1..(m - 1))
      OBVIOUS
    <3>. QED BY <3>1, <3>2, Largest
  <2>1. \A t \in SUBSET (1..(m - 1)) : f[t] \in V
    OBVIOUS
  <2>2. \A t \in S : h[t] \in V
    <3>. SUFFICES ASSUME NEW t \in S PROVE h[t] \in V
      OBVIOUS
    <3>1. CASE m \in t
      <4>1. <<f[t \ {m}], m>> \in V \X (1..n)
        BY <2>0, <2>1, <3>1
      <4>. QED BY <3>1, <4>1
    <3>2. CASE m \notin t
      BY <2>0, <2>1, <3>2
    <3>. QED BY <3>1, <3>2
  <2>3. ASSUME NEW t \in S
        PROVE  h[t] = IF t = {} THEN b ELSE F[<<h[t \ {Max(t)}], Max(t)>>]
    <3>1. CASE m \in t
      <4>1. Max(t) = m /\ t # {} /\ t \ {m} \in S /\ h[t \ {m}] = f[t \ {m}]
        BY <2>0, <3>1
      <4>2. h[t] = F[<<f[t \ {m}], m>>]
        BY <3>1
      <4>. HIDE DEF h
      <4>. QED BY <4>1, <4>2
    <3>2. CASE m \notin t
      <4>. DEFINE u == t \ {Max(t)}
      <4>1. t \in SUBSET (1..(m - 1)) /\ u \in SUBSET (1..(m - 1)) /\ u \in S /\ m \notin u
        BY <2>0, <3>2
      <4>2. h[t] = f[t] /\ h[u] = f[u]
        BY <3>2, <4>1
      <4>3. f[t] = IF t = {} THEN b ELSE F[<<f[u], Max(t)>>]
        BY <4>1
      <4>. HIDE DEF h, u
      <4>4. h[t] = IF t = {} THEN b ELSE F[<<h[u], Max(t)>>]
        BY <4>2, <4>3
      <4>. QED BY <4>4 DEF u
    <3>. QED BY <3>1, <3>2
  <2>4. h \in [S -> V]
    BY <2>2
  <2>. HIDE DEF h
  <2>5. Good(h, m)
    BY <2>3, <2>4
  <2>. QED BY <2>5
<1>3. n \in N
  <2>. HIDE DEF N
  <2>. QED BY <1>1, <1>2, UpTo
<1>. QED BY <1>3 DEF Fold

\* A set of numbers that is not empty has a largest one.
LEMMA LargestIn ==
    ASSUME NEW n \in Nat, NEW t \in SUBSET (1..n), t # {}
    PROVE  Max(t) \in t
<1>. DEFINE Good(m) == \A u \in SUBSET (1..m) : u # {} => Max(u) \in u
            N == {m \in 0..n : Good(m)}
<1>1. Good(0)
  <2>1. \A u \in SUBSET (1..0) : u = {}
    OBVIOUS
  <2>. QED BY <2>1
<1>2. ASSUME NEW m \in 1..n, Good(m - 1) PROVE Good(m)
  <2>. SUFFICES ASSUME NEW u \in SUBSET (1..m), u # {} PROVE Max(u) \in u
    OBVIOUS
  <2>1. CASE m \in u
    BY <2>1, Largest
  <2>2. CASE m \notin u
    <3>1. u \in SUBSET (1..(m - 1))
      BY <2>2
    <3>. QED BY <3>1, <1>2
  <2>. QED BY <2>1, <2>2
<1>. HIDE DEF Good
<1>3. 0 \in N /\ \A m \in 1..n : m - 1 \in N => m \in N
  BY <1>1, <1>2
<1>4. n \in N
  <2>. HIDE DEF N
  <2>1. \A k \in 0..n : k \in N
    BY <1>3, UpTo, Zenon
  <2>. QED BY <2>1
<1>. QED BY <1>4 DEF Good

\* The largest of the first numbers is the last.
LEMMA FirstNumbers ==
    \A n \in Nat : \A k \in 1..n :
        /\ Max(1..k) = k /\ (1..k) \ {k} = 1..(k - 1)
        /\ 1..k \in SUBSET (1..n) /\ 1..k # {}
BY Largest, SMTT(30)

-----------------------------------------------------------------------------
(* Sequences of sequences, one after the other. *)

\* s is a sequence of sequences over S.
Blocks(S, s) == s \in Seq(Seq(S))

\* (\o with a name of its own: of an equation with \o, the provers would ask
\* for the elements.)
Cat(s, t) == s \o t

\* g joins the first elements of s, one more at each step.
Flattens(S, s, g) ==
    /\ g \in [0..Len(s) -> Seq(S)]
    /\ g[0] = <<>> /\ \A k \in 1..Len(s) : g[k] = g[k - 1] \o s[k]
    /\ FlattenSeq(s) = g[Len(s)]

\* FlattenSeq appends one sequence after the other.
LEMMA FlattenSteps == \A S, s : Blocks(S, s) => \E g : Flattens(S, s, g)
<1>. SUFFICES ASSUME NEW S, NEW s \in Seq(Seq(S)) PROVE \E g : Flattens(S, s, g)
  BY DEF Blocks
<1>. DEFINE n == Len(s)
            V == Seq(S)
            F == [x \in V \X (1..n) |-> x[1] \o s[x[2]]]
<1>1. n \in Nat /\ \A k \in 1..n : s[k] \in V
  OBVIOUS
<1>2. F \in [V \X (1..n) -> V] /\ <<>> \in V
  BY <1>1
<1>3. \A v \in V, k \in 1..n : F[<<v, k>>] = v \o s[k]
  OBVIOUS
<1>0. \A v \in V : <<>> \o v = v
  OBVIOUS
<1>. HIDE DEF n, F, V
<1>4. PICK g : Stepwise(V, n, <<>>, F, g)
  <2>1. ByStep(V, n, <<>>, F)
    BY <1>1, <1>2 DEF ByStep
  <2>. QED BY <2>1, Recursion
<1>5. /\ g \in [0..n -> V] /\ g[0] = <<>>
      /\ \A k \in 1..n : g[k] = g[k - 1] \o s[k] /\ g[k] \in V /\ g[k - 1] \in V
  <2>1. g \in [0..n -> V] /\ g[0] = <<>> /\ \A k \in 1..n : g[k] = F[<<g[k - 1], k>>]
    BY <1>4 DEF Stepwise
  <2>2. \A k \in 1..n : k - 1 \in 0..n /\ k \in 0..n
    BY <1>1
  <2>3. \A k \in 1..n : g[k - 1] \in V /\ g[k] \in V
    BY <2>1, <2>2
  <2>. QED BY <2>1, <2>3, <1>3
<1>6. FlattenSeq(s) = g[n]
  <2>1. CASE n = 0
    <3>1. s = <<>>
      BY <2>1, EmptySeq DEF n
    <3>. QED BY <2>1, <3>1, <1>5 DEF FlattenSeq, n
  <2>2. CASE n # 0
    <3>. DEFINE Step(h) == [i \in 1..n |-> IF i = 1 THEN s[i] ELSE h[i - 1] \o s[i]]
                f == CHOOSE h : h = Step(h)
                h0 == [i \in 1..n |-> g[i]]
    <3>0. g[1] = s[1] /\ 1 \in 1..n
      <4>1. 1 \in 1..n
        BY <1>1, <2>2
      <4>2. g[1] = <<>> \o s[1] /\ s[1] \in V
        <5>1. g[1] = g[1 - 1] \o s[1] /\ g[0] = <<>> /\ s[1] \in V
          BY <4>1, <1>1, <1>5, Zenon
        <5>2. 1 - 1 = 0
          OBVIOUS
        <5>. QED BY <5>1, <5>2, Zenon
      <4>. QED BY <4>1, <4>2, <1>0
    <3>1. h0 = Step(h0)
      <4>1. \A i \in 1..n : g[i] = IF i = 1 THEN s[i] ELSE h0[i - 1] \o s[i]
        <5>. SUFFICES ASSUME NEW i \in 1..n
                      PROVE  g[i] = IF i = 1 THEN s[i] ELSE h0[i - 1] \o s[i]
          OBVIOUS
        <5>1. CASE i = 1
          BY <5>1, <3>0
        <5>2. CASE i # 1
          <6>1. i - 1 \in 1..n
            BY <5>2, <1>1
          <6>. QED BY <5>2, <6>1, <1>5
        <5>. QED BY <5>1, <5>2
      <4>. QED BY <4>1
    <3>2. f = Step(f)
      BY <3>1
    <3>3. FlattenSeq(s) = f[n]
      BY <2>2 DEF FlattenSeq, n
    <3>. HIDE DEF f
    <3>4. \A k \in 1..n : f[k] = IF k = 1 THEN s[k] ELSE f[k - 1] \o s[k]
      BY <3>2
    <3>. DEFINE N == {k \in 0..n : k = 0 \/ f[k] = g[k]}
    <3>5. 0 \in N
      BY <1>1
    <3>6. \A k \in 1..n : k - 1 \in N => k \in N
      <4>. SUFFICES ASSUME NEW k \in 1..n, k - 1 \in N PROVE f[k] = g[k]
        OBVIOUS
      <4>1. CASE k = 1
        BY <4>1, <3>0, <3>4
      <4>2. CASE k # 1
        <5>1. f[k - 1] = g[k - 1]
          BY <4>2
        <5>. QED BY <4>2, <5>1, <1>5, <3>4
      <4>. QED BY <4>1, <4>2
    <3>7. n \in N
      <4>1. n \in Nat
        BY <1>1
      <4>. HIDE DEF N
      <4>2. \A k \in 0..n : k \in N
        BY <4>1, <3>5, <3>6, UpTo, Zenon
      <4>. QED BY <4>1, <4>2
    <3>. QED BY <2>2, <3>3, <3>7
  <2>. QED BY <2>1, <2>2
<1>7. Flattens(S, s, g)
  BY <1>5, <1>6 DEF Flattens, n, V
<1>. QED BY <1>7

\* Of no sequence it makes the empty one.
LEMMA FlattenEmpty == FlattenSeq(<<>>) = <<>>
BY DEF FlattenSeq

\* What it makes has elements of the same set.
LEMMA FlattenType == \A S, s : Blocks(S, s) => FlattenSeq(s) \in Seq(S)
<1>. SUFFICES ASSUME NEW S, NEW s, Blocks(S, s) PROVE FlattenSeq(s) \in Seq(S)
  OBVIOUS
<1>1. PICK g : Flattens(S, s, g)
  BY FlattenSteps
<1>2. Len(s) \in Nat
  BY DEF Blocks
<1>. QED BY <1>1, <1>2 DEF Flattens

\* One more sequence is appended to the others.
LEMMA FlattenAppend ==
    \A S, s : Blocks(S, s) => \A x \in Seq(S) :
        Blocks(S, Append(s, x)) /\ FlattenSeq(Append(s, x)) = Cat(FlattenSeq(s), x)
<1>. SUFFICES ASSUME NEW S, NEW s \in Seq(Seq(S)), NEW x \in Seq(S)
              PROVE  Blocks(S, Append(s, x)) /\ FlattenSeq(Append(s, x)) = Cat(FlattenSeq(s), x)
  BY DEF Blocks
<1>. DEFINE n == Len(s)
            t == Append(s, x)
<1>1. /\ n \in Nat /\ t \in Seq(Seq(S)) /\ Len(t) = n + 1
      /\ \A i \in 1..n : t[i] = s[i]
      /\ t[n + 1] = x
  OBVIOUS
<1>. HIDE DEF t
<1>2. PICK g : Flattens(S, s, g)
  BY FlattenSteps DEF Blocks
<1>3. PICK h : Flattens(S, t, h)
  BY <1>1, FlattenSteps DEF Blocks
<1>a. /\ g[0] = <<>> /\ \A k \in 1..n : g[k] = g[k - 1] \o s[k]
      /\ FlattenSeq(s) = g[n]
  BY <1>2 DEF Flattens
<1>b. /\ h[0] = <<>> /\ \A k \in 1..(n + 1) : h[k] = h[k - 1] \o t[k]
      /\ FlattenSeq(t) = h[n + 1]
  BY <1>1, <1>3 DEF Flattens
<1>. HIDE DEF n
<1>. DEFINE N == {k \in 0..n : h[k] = g[k]}
<1>4. 0 \in N
  BY <1>1, <1>a, <1>b
<1>5. \A k \in 1..n : k - 1 \in N => k \in N
  <2>. SUFFICES ASSUME NEW k \in 1..n, h[k - 1] = g[k - 1] PROVE h[k] = g[k]
    OBVIOUS
  <2>1. k \in 1..(n + 1)
    BY <1>1
  <2>. QED BY <2>1, <1>1, <1>a, <1>b
<1>6. n \in N
  <2>1. n \in Nat
    BY <1>1
  <2>. HIDE DEF N
  <2>2. \A k \in 0..n : k \in N
    BY <2>1, <1>4, <1>5, UpTo, Zenon
  <2>. QED BY <2>1, <2>2
<1>7. h[n + 1] = h[n] \o t[n + 1]
  <2>. DEFINE m == n + 1
  <2>1. m \in 1..(n + 1) /\ m - 1 = n
    BY <1>1
  <2>2. \A k \in 1..(n + 1) : k - 1 = n => h[k] = h[n] \o t[k]
    BY <1>b
  <2>. HIDE DEF m
  <2>3. h[m] = h[n] \o t[m]
    BY <2>1, <2>2, Zenon
  <2>. QED BY <2>3 DEF m
<1>8. FlattenSeq(t) = FlattenSeq(s) \o x
  BY <1>1, <1>a, <1>b, <1>6, <1>7
<1>. QED BY <1>1, <1>8 DEF t, Blocks, Cat

\* All up to one of them, and that one.
LEMMA UpToOne ==
    ASSUME NEW S, NEW s \in Seq(S), NEW k \in 1..Len(s)
    PROVE  /\ SubSeq(s, 1, k - 1) \in Seq(S) /\ SubSeq(s, 1, k) \in Seq(S) /\ s[k] \in S
           /\ Len(SubSeq(s, 1, k - 1)) = k - 1 /\ Len(SubSeq(s, 1, k)) = k
           /\ SubSeq(s, 1, k) = Append(SubSeq(s, 1, k - 1), s[k])
<1>1. Len(s) \in Nat /\ s[k] \in S
  BY LenProperties, ElementOfSeq
<1>2. /\ SubSeq(s, 1, k - 1) \in Seq(S) /\ Len(SubSeq(s, 1, k - 1)) = k - 1
      /\ SubSeq(s, 1, k) \in Seq(S) /\ Len(SubSeq(s, 1, k)) = k
  <2>1. \A i \in 1..k : s[i] \in S
    BY <1>1, ElementOfSeq
  <2>. QED BY <1>1, <2>1, SubSeqProperties
<1>3. SubSeq(s, 1, k) = SubSeq(s, 1, k - 1) \o <<s[k]>>
  BY <1>1, SubSeqRecursiveSecond
<1>4. Append(SubSeq(s, 1, k - 1), s[k]) = SubSeq(s, 1, k - 1) \o <<s[k]>>
  BY <1>1, <1>2, AppendIsConcat
<1>. QED BY <1>1, <1>2, <1>3, <1>4

\* Two parts can be put together before or after.
LEMMA FlattenConcat ==
    \A S, s : Blocks(S, s) => \A t : Blocks(S, t) =>
        Blocks(S, Cat(s, t)) /\ FlattenSeq(Cat(s, t)) = Cat(FlattenSeq(s), FlattenSeq(t))
<1>. SUFFICES ASSUME NEW S, NEW s \in Seq(Seq(S)), NEW t \in Seq(Seq(S))
              PROVE  FlattenSeq(s \o t) = FlattenSeq(s) \o FlattenSeq(t)
  BY DEF Blocks, Cat
<1>. DEFINE n == Len(t)
            p(k) == SubSeq(t, 1, k)
            fs == FlattenSeq(s)
            Good(k) == FlattenSeq(s \o p(k)) = fs \o FlattenSeq(p(k))
            N == {k \in 0..n : Good(k)}
<1>0. \A a, b, c \in Seq(S) : (a \o b) \o c = a \o (b \o c)
  BY SMTT(30)
<1>1. n \in Nat /\ fs \in Seq(S)
  BY FlattenType DEF Blocks
<1>2. 0 \in N
  <2>1. p(0) = <<>>
    BY SubSeqEmpty
  <2>2. s \o <<>> = s
    OBVIOUS
  <2>3. fs \o <<>> = fs
    <3>. HIDE DEF fs
    <3>. QED BY <1>1
  <2>4. FlattenSeq(s \o p(0)) = fs \o FlattenSeq(p(0))
    BY <2>1, <2>2, <2>3, FlattenEmpty
  <2>. HIDE DEF p, fs
  <2>. QED BY <1>1, <2>4
<1>3. \A k \in 1..n : k - 1 \in N => k \in N
  <2>. HIDE DEF fs
  <2>. SUFFICES ASSUME NEW k \in 1..n, Good(k - 1) PROVE Good(k)
    <3>. HIDE DEF Good, n
    <3>. QED BY <1>1
  <2>. DEFINE u == p(k - 1)
              x == t[k]
              fu == FlattenSeq(u)
  <2>1. u \in Seq(Seq(S)) /\ x \in Seq(S) /\ p(k) = Append(u, x)
    BY UpToOne
  <2>0. FlattenSeq(s \o u) = fs \o fu
    OBVIOUS
  <2>. HIDE DEF u, x, p
  <2>2. s \o Append(u, x) = Append(s \o u, x) /\ s \o u \in Seq(Seq(S))
    <3>. DEFINE W == Seq(S)
    <3>1. s \in Seq(W) /\ u \in Seq(W) /\ x \in W
      BY <2>1
    <3>. HIDE DEF W
    <3>2. s \o Append(u, x) = Append(s \o u, x) /\ s \o u \in Seq(W)
      BY <3>1
    <3>. QED BY <3>2 DEF W
  <2>3. FlattenSeq(s \o p(k)) = FlattenSeq(s \o u) \o x
    <3>1. Blocks(S, s \o u)
      BY <2>2 DEF Blocks
    <3>2. x \in Seq(S)
      BY <2>1
    <3>3. FlattenSeq(Append(s \o u, x)) = Cat(FlattenSeq(s \o u), x)
      BY <3>1, <3>2, FlattenAppend, Zenon
    <3>. QED BY <2>1, <2>2, <3>3, Zenon DEF Cat
  <2>4. FlattenSeq(p(k)) = fu \o x /\ fu \in Seq(S)
    <3>1. Blocks(S, u)
      BY <2>1 DEF Blocks
    <3>2. x \in Seq(S)
      BY <2>1
    <3>3. FlattenSeq(Append(u, x)) = Cat(FlattenSeq(u), x)
      BY <3>1, <3>2, FlattenAppend, Zenon
    <3>4. FlattenSeq(u) \in Seq(S)
      BY <3>1, FlattenType, Zenon
    <3>. QED BY <2>1, <3>3, <3>4, Zenon DEF Cat
  <2>. HIDE DEF fu
  <2>5. (fs \o fu) \o x = fs \o (fu \o x)
    BY <1>0, <1>1, <2>1, <2>4, Zenon
  <2>. QED BY <2>3, <2>4, <2>5, <2>0
<1>4. n \in N
  <2>1. n \in Nat
    BY <1>1
  <2>. HIDE DEF N, n
  <2>2. \A k \in 0..n : k \in N
    BY <2>1, <1>2, <1>3, UpTo, Zenon
  <2>. QED BY <2>1, <2>2
<1>5. p(n) = t
  BY SubSeqFull
<1>. QED BY <1>4, <1>5

\* One sequence stays as it is.
LEMMA FlattenOne == \A S : \A x \in Seq(S) : Blocks(S, <<x>>) /\ FlattenSeq(<<x>>) = x
<1>. SUFFICES ASSUME NEW S, NEW x \in Seq(S) PROVE Blocks(S, <<x>>) /\ FlattenSeq(<<x>>) = x
  OBVIOUS
<1>1. Append(<<>>, x) = <<x>> /\ Cat(<<>>, x) = x
  BY DEF Cat
<1>2. Blocks(S, <<>>) /\ Blocks(S, <<x>>)
  BY DEF Blocks
<1>3. FlattenSeq(<<x>>) = Cat(FlattenSeq(<<>>), x)
  BY <1>1, <1>2, FlattenAppend
<1>. QED BY <1>1, <1>2, <1>3, FlattenEmpty

\* A sequence is its first element and the rest.
LEMMA HeadFirst ==
    ASSUME NEW S, NEW s \in Seq(S), s # <<>>
    PROVE  /\ s = <<s[1]>> \o Tail(s) /\ s[1] \in S /\ Tail(s) \in Seq(S)
           /\ Len(s) \in Nat \ {0} /\ Len(Tail(s)) = Len(s) - 1
<1>1. Len(s) \in Nat \ {0}
  BY EmptySeq
<1>2. SubSeq(s, 1, Len(s)) = <<s[1]>> \o SubSeq(s, 2, Len(s))
  BY <1>1, SubSeqRecursiveFirst
<1>. QED BY <1>1, <1>2, SubSeqFull, TailIsSubSeq, HeadTailProperties, ElementOfSeq

\* The first sequence comes first.
LEMMA FlattenFirst ==
    \A S, s : Blocks(S, s) /\ s # <<>> =>
        Blocks(S, Tail(s)) /\ s[1] \in Seq(S) /\ FlattenSeq(s) = Cat(s[1], FlattenSeq(Tail(s)))
<1>. SUFFICES ASSUME NEW S, NEW s \in Seq(Seq(S)), s # <<>>
              PROVE  Blocks(S, Tail(s)) /\ s[1] \in Seq(S) /\ FlattenSeq(s) = Cat(s[1], FlattenSeq(Tail(s)))
  BY DEF Blocks
<1>. DEFINE x == s[1]
            t == Tail(s)
            y == <<x>>
<1>1. s = Cat(y, t) /\ x \in Seq(S) /\ t \in Seq(Seq(S))
  BY HeadFirst DEF Cat
<1>. HIDE DEF x, t
<1>2. Blocks(S, y) /\ FlattenSeq(y) = x
  BY <1>1, FlattenOne
<1>. HIDE DEF y
<1>3. Blocks(S, y) /\ Blocks(S, t)
  BY <1>1, <1>2 DEF Blocks
<1>4. FlattenSeq(Cat(y, t)) = Cat(FlattenSeq(y), FlattenSeq(t))
  BY <1>3, FlattenConcat
<1>. QED BY <1>1, <1>2, <1>3, <1>4, Zenon DEF x, t

-----------------------------------------------------------------------------
(* Quotients and remainders. *)

\* Quotient and remainder.
LEMMA DivMod ==
    ASSUME NEW x \in Nat, NEW d \in Nat \ {0}
    PROVE  /\ x \div d \in Nat /\ x % d \in 0..(d - 1)
           /\ x = (x % d) + d * (x \div d)
BY SMT

\* The remainder of a number below the divisor and a multiple of it.
LEMMA Remainder ==
    ASSUME NEW d \in Nat \ {0}, NEW q \in Nat, NEW r \in 0..(d - 1)
    PROVE  (r + d * q) % d = r
BY SMT

\* A remainder by d * d is made of two by d.
LEMMA Nested ==
    ASSUME NEW x \in Nat, NEW d \in Nat \ {0}
    PROVE  (x % d) + d * ((x \div d) % d) = x % (d * d)
<1> DEFINE q == x \div d
           p == q \div d
           r == (x % d) + d * (q % d)
<1>1. q \in Nat /\ x % d \in 0..(d - 1) /\ x = (x % d) + d * q
  BY DivMod
<1>2. p \in Nat /\ q % d \in 0..(d - 1) /\ q = (q % d) + d * p
  BY <1>1, DivMod
<1> HIDE DEF q, p
<1>3. r \in 0..(d * d - 1)
  <2>1. d * (q % d) \in 0..(d * (d - 1))
    BY <1>2, SMT
  <2> QED BY <2>1, <1>1, SMT
<1>4. x = r + (d * d) * p
  BY <1>1, <1>2, SMT
<1> HIDE DEF r
<1>5. d * d \in Nat \ {0}
  BY SMT
<1>6. x % (d * d) = r
  BY <1>2, <1>3, <1>4, <1>5, Remainder
<1> QED BY <1>6 DEF r, q

-----------------------------------------------------------------------------
(* Unsigned numbers: the bytes of x are read as x modulo the numbers of so *)
(* many bytes.                                                             *)

\* The numbers of values of 1, 2, 4 and 8 bytes.
LEMMA Radixes ==
    /\ Radix \in Nat \ {0} /\ Radix2 \in Nat \ {0}
    /\ Radix4 \in Nat \ {0} /\ Radix8 \in Nat \ {0}
    /\ Radix >= 2 /\ Radix2 >= 2 /\ Radix4 >= 2 /\ Radix8 >= 2
<1>1. Radix \in Nat \ {0} /\ Radix >= 2
  BY CodecAssumption, SMT
<1>2. Radix2 \in Nat \ {0} /\ Radix2 >= 2
  BY <1>1, SMT DEF Radix2
<1>3. Radix4 \in Nat \ {0} /\ Radix4 >= 2
  BY <1>2, SMT DEF Radix4
<1>4. Radix8 \in Nat \ {0} /\ Radix8 >= 2
  BY <1>3, SMT DEF Radix8
<1> QED BY <1>1, <1>2, <1>3, <1>4

\* Two sequences of one element.
LEMMA Pair ==
    ASSUME NEW S, NEW p \in S, NEW q \in S
    PROVE  <<p>> \o <<q>> = <<p, q>>
<1> DEFINE s == <<p>> \o <<q>>
           t == <<p, q>>
<1>1. s \in Seq(S) /\ t \in Seq(S) /\ Len(s) = 2 /\ Len(t) = 2 /\ s[1] = t[1] /\ s[2] = t[2]
  OBVIOUS
<1>2. \A i \in 1..Len(s) : s[i] = t[i]
  <2> SUFFICES ASSUME NEW i \in 1..2 PROVE s[i] = t[i]
    BY <1>1, Zenon
  <2>1. i = 1 \/ i = 2
    OBVIOUS
  <2> QED BY <2>1, <1>1, Zenon
<1> HIDE DEF s, t
<1>3. s = t
  BY <1>1, <1>2, SeqEqual, Zenon
<1> QED BY <1>3 DEF s, t

\* The elements of two sequences that were joined.
LEMMA Joined ==
    ASSUME NEW S, NEW s \in Seq(S), NEW t \in Seq(S)
    PROVE  /\ s \o t \in Seq(S) /\ Len(s \o t) = Len(s) + Len(t)
           /\ \A i \in 1..Len(s) : (s \o t)[i] = s[i]
           /\ \A i \in 1..Len(t) : (s \o t)[Len(s) + i] = t[i]
<1>1. Len(s) \in Nat /\ Len(t) \in Nat
  BY LenProperties
<1> QED BY <1>1, ConcatProperties

\* The same for two of two elements.
LEMMA TwoAndTwo ==
    ASSUME NEW S, NEW s \in Seq(S), NEW t \in Seq(S), Len(s) = 2, Len(t) = 2
    PROVE  /\ (s \o t)[1] = s[1] /\ (s \o t)[2] = s[2]
           /\ (s \o t)[3] = t[1] /\ (s \o t)[4] = t[2]
           /\ s[1] \in S /\ s[2] \in S /\ t[1] \in S /\ t[2] \in S
<1>1. /\ 1 \in 1..Len(s) /\ 2 \in 1..Len(s) /\ 1 \in 1..Len(t) /\ 2 \in 1..Len(t)
      /\ Len(s) + 1 = 3 /\ Len(s) + 2 = 4
  OBVIOUS
<1>2. \A i \in 1..Len(s) : (s \o t)[i] = s[i]
  BY Joined
<1>3. (s \o t)[1] = s[1] /\ (s \o t)[2] = s[2]
  BY <1>1, <1>2, Zenon
<1>4. (s \o t)[3] = t[1] /\ (s \o t)[4] = t[2]
  <2>1. \A i \in 1..Len(t) : (s \o t)[Len(s) + i] = t[i]
    BY Joined, SMTT(30)
  <2>2. (s \o t)[Len(s) + 1] = t[1] /\ (s \o t)[Len(s) + 2] = t[2]
    BY <1>1, <2>1, Zenon
  <2> QED BY <2>2, <1>1, Zenon
<1>5. s[1] \in S /\ s[2] \in S /\ t[1] \in S /\ t[2] \in S
  BY <1>1, ElementOfSeq, Zenon
<1> QED BY <1>3, <1>4, <1>5

\* Two halves are got back from what they were joined to.
LEMMA Halves ==
    ASSUME NEW S, NEW s \in Seq(S), NEW t \in Seq(S), Len(t) = Len(s)
    PROVE  /\ SubSeq(s \o t, 1, Len(s)) = s
           /\ SubSeq(s \o t, Len(s) + 1, 2 * Len(s)) = t
<1> DEFINE n == Len(s)
<1>0. n \in Nat /\ Len(t) = n
  BY LenProperties
<1>1. /\ s \o t \in Seq(S) /\ Len(s \o t) = 2 * n
      /\ \A i \in 1..n : (s \o t)[i] = s[i]
      /\ \A i \in 1..n : (s \o t)[n + i] = t[i]
  <2>1. /\ s \o t \in Seq(S) /\ Len(s \o t) = Len(s) + Len(t)
        /\ \A i \in 1..Len(s) : (s \o t)[i] = s[i]
        /\ \A i \in 1..Len(t) : (s \o t)[Len(s) + i] = t[i]
    BY Joined, SMTT(30)
  <2> QED BY <1>0, <2>1
<1>2. SubSeq(s \o t, 1, n) = s
  <2>1. SubSeq(s \o t, 1, n) \in Seq(S) /\ Len(SubSeq(s \o t, 1, n)) = n
    BY <1>0, <1>1, ElementOfSeq, SubSeqProperties
  <2>2. \A i \in 1..n : SubSeq(s \o t, 1, n)[i] = s[i]
    BY <1>0, <1>1, ElementOfSeq, SubSeqProperties
  <2> QED BY <1>0, <2>1, <2>2, SeqEqual
<1>3. SubSeq(s \o t, n + 1, 2 * n) = t
  <2>1. SubSeq(s \o t, n + 1, 2 * n) \in Seq(S) /\ Len(SubSeq(s \o t, n + 1, 2 * n)) = n
    BY <1>0, <1>1, ElementOfSeq, SubSeqProperties
  <2>2. \A i \in 1..n : SubSeq(s \o t, n + 1, 2 * n)[i] = t[i]
    BY <1>0, <1>1, ElementOfSeq, SubSeqProperties
  <2> QED BY <1>0, <2>1, <2>2, SeqEqual
<1> QED BY <1>2, <1>3

\* One byte.
LEMMA Bytes1 ==
    ASSUME NEW x \in Nat
    PROVE  /\ Append1(x) \in Seq(Byte) /\ Len(Append1(x)) = 1
           /\ Extract1(Append1(x)) = x % Radix
<1>1. x % Radix \in Byte
  BY Radixes, DivMod DEF Byte
<1> QED BY <1>1 DEF Append1, Extract1

\* Two bytes.
LEMMA Bytes2 ==
    ASSUME NEW x \in Nat
    PROVE  /\ Append2(x) \in Seq(Byte) /\ Len(Append2(x)) = 2
           /\ Extract2(Append2(x)) = x % Radix2
<1> DEFINE h == x \div Radix
<1>1. h \in Nat
  BY Radixes, DivMod
<1> HIDE DEF h
<1>2. x % Radix \in Byte /\ h % Radix \in Byte
  BY <1>1, Radixes, DivMod DEF Byte
<1>3. Append2(x) = <<h % Radix, x % Radix>>
  <2>1. Append2(x) = <<h % Radix>> \o <<x % Radix>>
    BY DEF Append2, Append1, h
  <2> QED BY <2>1, <1>2, Pair
<1>4. (x % Radix) + Radix * (h % Radix) = x % Radix2
  BY Radixes, Nested DEF Radix2, h
<1>5. (x % Radix) + (h % Radix) * Radix = x % Radix2
  BY <1>2, <1>4, Radixes, SMT DEF Byte
<1> QED BY <1>2, <1>3, <1>5 DEF Extract2

\* Products of natural numbers.
LEMMA Products ==
    /\ \A p, q \in Nat : p * q \in Nat /\ p * q = q * p
    /\ \A p, q, d \in Nat : (p * q) * d = q * (p * d)
    /\ \A p, q, d \in Nat : d * (p + q) = d * p + d * q
BY SMT

\* Four bytes are read as two and two.
LEMMA Extract4Joined ==
    ASSUME NEW a \in Seq(Byte), NEW b \in Seq(Byte), Len(a) = 2, Len(b) = 2
    PROVE  /\ a \o b \in Seq(Byte) /\ Len(a \o b) = 4
           /\ Extract4(a \o b) = Extract2(b) + Radix2 * Extract2(a)
<1>1. a \o b \in Seq(Byte) /\ Len(a \o b) = 4
  <2>1. a \o b \in Seq(Byte) /\ Len(a \o b) = Len(a) + Len(b)
    BY Joined
  <2> QED BY <2>1
<1>2. /\ (a \o b)[1] = a[1] /\ (a \o b)[2] = a[2]
      /\ (a \o b)[3] = b[1] /\ (a \o b)[4] = b[2]
      /\ a[1] \in Byte /\ a[2] \in Byte /\ b[1] \in Byte /\ b[2] \in Byte
  BY TwoAndTwo
<1>3. /\ Radix \in Nat /\ Radix2 \in Nat
      /\ a[1] \in Nat /\ a[2] \in Nat /\ b[1] \in Nat /\ b[2] \in Nat
  BY <1>2, Radixes DEF Byte
<1> DEFINE p == a[1] * Radix
           q == b[1] * Radix
           u == Radix2 * a[2]
           v == Radix2 * p
<1>4. p \in Nat /\ q \in Nat
  BY <1>3, Products
<1>5. u \in Nat /\ a[2] * Radix2 = u
  BY <1>3, Products
<1>6. (a[1] * Radix2) * Radix = v
  BY <1>3, Products
<1>7. v \in Nat /\ Radix2 * (a[2] + p) = u + v
  <2> HIDE DEF p
  <2> QED BY <1>3, <1>4, Products
<1>8. Extract2(a) = a[2] + p /\ Extract2(b) = b[2] + q
  BY DEF Extract2
<1>9. Extract4(a \o b) = b[2] + q + u + v
  BY <1>2, <1>5, <1>6, Zenon DEF Extract4
<1> HIDE DEF p, q, u, v
<1>10. b[2] + q + u + v = (b[2] + q) + (u + v)
  BY <1>3, <1>4, <1>5, <1>7
<1> QED BY <1>1, <1>7, <1>8, <1>9, <1>10

\* Four bytes.
LEMMA Bytes4 ==
    ASSUME NEW x \in Nat
    PROVE  /\ Append4(x) \in Seq(Byte) /\ Len(Append4(x)) = 4
           /\ Extract4(Append4(x)) = x % Radix4
<1>1. x \div Radix2 \in Nat
  BY Radixes, DivMod
<1>2. /\ Append2(x \div Radix2) \in Seq(Byte) /\ Len(Append2(x \div Radix2)) = 2
      /\ Extract2(Append2(x \div Radix2)) = (x \div Radix2) % Radix2
      /\ Append2(x) \in Seq(Byte) /\ Len(Append2(x)) = 2 /\ Extract2(Append2(x)) = x % Radix2
  BY <1>1, Bytes2
<1>3. /\ Append4(x) \in Seq(Byte) /\ Len(Append4(x)) = 4
      /\ Extract4(Append4(x)) = (x % Radix2) + Radix2 * ((x \div Radix2) % Radix2)
  BY <1>2, Extract4Joined DEF Append4
<1>4. (x % Radix2) + Radix2 * ((x \div Radix2) % Radix2) = x % Radix4
  BY Radixes, Nested DEF Radix4
<1> QED BY <1>3, <1>4

\* Eight bytes are read as four and four.
LEMMA Extract8Joined ==
    ASSUME NEW a \in Seq(Byte), NEW b \in Seq(Byte), Len(a) = 4, Len(b) = 4
    PROVE  /\ a \o b \in Seq(Byte) /\ Len(a \o b) = 8
           /\ Extract8(a \o b) = Extract4(b) + Extract4(a) * Radix4
<1>1. a \o b \in Seq(Byte) /\ Len(a \o b) = 8
  <2>1. a \o b \in Seq(Byte) /\ Len(a \o b) = Len(a) + Len(b)
    BY Joined
  <2> QED BY <2>1
<1>2. 4 \in Nat /\ 4 + 1 = 5 /\ 2 * 4 = 8
  OBVIOUS
<1>3. SubSeq(a \o b, 1, Len(a)) = a /\ SubSeq(a \o b, Len(a) + 1, 2 * Len(a)) = b
  BY Halves
<1>4. SubSeq(a \o b, 1, 4) = a /\ SubSeq(a \o b, 5, 8) = b
  BY <1>2, <1>3
<1> QED BY <1>1, <1>4 DEF Extract8

\* Eight bytes.
LEMMA Bytes8 ==
    ASSUME NEW x \in Nat
    PROVE  /\ Append8(x) \in Seq(Byte) /\ Len(Append8(x)) = 8
           /\ Extract8(Append8(x)) = x % Radix8
<1>1. x \div Radix4 \in Nat
  BY Radixes, DivMod
<1>2. /\ Append4(x \div Radix4) \in Seq(Byte) /\ Len(Append4(x \div Radix4)) = 4
      /\ Extract4(Append4(x \div Radix4)) = (x \div Radix4) % Radix4
      /\ Append4(x) \in Seq(Byte) /\ Len(Append4(x)) = 4 /\ Extract4(Append4(x)) = x % Radix4
  BY <1>1, Bytes4
<1>3. /\ Append8(x) \in Seq(Byte) /\ Len(Append8(x)) = 8
      /\ Extract8(Append8(x)) = (x % Radix4) + ((x \div Radix4) % Radix4) * Radix4
  BY <1>2, Extract8Joined DEF Append8
<1>4. (x % Radix4) + Radix4 * ((x \div Radix4) % Radix4) = x % Radix8
  BY Radixes, Nested DEF Radix8
<1>5. ((x \div Radix4) % Radix4) * Radix4 = Radix4 * ((x \div Radix4) % Radix4)
  <2>1. (x \div Radix4) % Radix4 \in Nat /\ Radix4 \in Nat
    BY <1>1, Radixes, DivMod
  <2> QED BY <2>1, Products
<1> QED BY <1>3, <1>4, <1>5

-----------------------------------------------------------------------------
(* The types of the interface. *)

\* A remainder is its own.
LEMMA Small ==
    ASSUME NEW d \in Nat \ {0}, NEW u \in 0..(d - 1)
    PROVE  u % d = u
BY SMT

\* How many bytes a scalar takes, and how many values they have.
LEMMA Sizes ==
    ASSUME NEW T \in DOMAIN SizeOf
    PROVE  /\ SizeOf[T] \in {1, 2, 4, 8}
           /\ Span(T) \in Nat \ {0} /\ Span(T) >= 2
           /\ T = "bool" => SizeOf[T] = 1
<1>1. SizeOf[T] \in {1, 2, 4, 8} /\ (T = "bool" => SizeOf[T] = 1)
  BY DEF SizeOf
<1>2. Span(T) \in Nat \ {0} /\ Span(T) >= 2
  BY <1>1, Radixes DEF Span
<1> QED BY <1>1, <1>2

\* The bits of a scalar are read back.
LEMMA BitsReadBack ==
    ASSUME NEW T \in DOMAIN SizeOf, NEW u \in 0..(Span(T) - 1)
    PROVE  /\ AppendBits(T, u) \in Seq(Byte) /\ Len(AppendBits(T, u)) = SizeOf[T]
           /\ ExtractBits(T, AppendBits(T, u)) = u
<1>1. u \in Nat /\ u % Span(T) = u
  BY Sizes, Small
<1>2. CASE SizeOf[T] = 1
  <2>1. Span(T) = Radix /\ AppendBits(T, u) = Append1(u)
        /\ ExtractBits(T, Append1(u)) = Extract1(Append1(u))
    BY <1>2 DEF Span, AppendBits, ExtractBits
  <2> QED BY <2>1, <1>1, <1>2, Bytes1
<1>3. CASE SizeOf[T] = 2
  <2>1. Span(T) = Radix2 /\ AppendBits(T, u) = Append2(u)
        /\ ExtractBits(T, Append2(u)) = Extract2(Append2(u))
    BY <1>3 DEF Span, AppendBits, ExtractBits
  <2> QED BY <2>1, <1>1, <1>3, Bytes2
<1>4. CASE SizeOf[T] = 4
  <2>1. Span(T) = Radix4 /\ AppendBits(T, u) = Append4(u)
        /\ ExtractBits(T, Append4(u)) = Extract4(Append4(u))
    BY <1>4 DEF Span, AppendBits, ExtractBits
  <2> QED BY <2>1, <1>1, <1>4, Bytes4
<1>5. CASE SizeOf[T] = 8
  <2>1. Span(T) = Radix8 /\ AppendBits(T, u) = Append8(u)
        /\ ExtractBits(T, Append8(u)) = Extract8(Append8(u))
    BY <1>5 DEF Span, AppendBits, ExtractBits
  <2> QED BY <2>1, <1>1, <1>5, Bytes8
<1> QED BY <1>2, <1>3, <1>4, <1>5, Sizes

\* A value of a type with a sign is sent as the number with the same remainder.
LEMMA Wrapped ==
    ASSUME NEW d \in Nat \ {0}, NEW x \in Int, -d <= 2 * x, 2 * x < d
    PROVE  /\ x % d \in 0..(d - 1)
           /\ x = IF 2 * (x % d) >= d THEN (x % d) - d ELSE x % d
<1>1. CASE x >= 0
  <2>1. x % d = x
    BY <1>1, Small
  <2> QED BY <2>1, <1>1
<1>2. CASE x < 0
  <2>1. x + d \in 0..(d - 1)
    BY <1>2
  <2>2. x % d = x + d
    BY <2>1, <1>2, SMT
  <2> QED BY <2>1, <2>2, <1>2
<1> QED BY <1>1, <1>2

\* A scalar is sent in as many bytes as its type has, and read as the value it
\* had: extract of serializer_deserializer.hpp and koheron-client.hpp undoes
\* append, also of koheron.py.
THEOREM ScalarReadsBack ==
    ASSUME NEW T \in DOMAIN SizeOf, NEW x \in ValuesOf(T)
    PROVE  /\ append(T, x) \in Seq(Byte) /\ Len(append(T, x)) = SizeOf[T]
           /\ extract(T, append(T, x)) = x
<1>1. CASE T = "bool"
  <2>1. x \in BOOLEAN
    BY <1>1, Zenon DEF ValuesOf
  <2>2. SizeOf[T] = 1 /\ 0 \in Byte /\ 1 \in Byte /\ 0 % Radix = 0 /\ 1 % Radix = 1
    BY <1>1, Sizes, Radixes, Small DEF Byte
  <2>3. append(T, TRUE) = Append1(1) /\ append(T, FALSE) = Append1(0)
    BY <1>1, Zenon DEF append
  <2>4. ExtractBits(T, Append1(1)) = Extract1(Append1(1)) /\ ExtractBits(T, Append1(0)) = Extract1(Append1(0))
    BY <2>2 DEF ExtractBits
  <2>5. \A b : extract(T, b) = (ExtractBits(T, b) = 1)
    BY <1>1, Zenon DEF extract
  <2>6. /\ Append1(1) \in Seq(Byte) /\ Len(Append1(1)) = 1 /\ Extract1(Append1(1)) = 1
        /\ Append1(0) \in Seq(Byte) /\ Len(Append1(0)) = 1 /\ Extract1(Append1(0)) = 0
    BY <2>2, Bytes1
  <2>7. 0 # 1
    OBVIOUS
  <2>8. extract(T, Append1(1)) = TRUE /\ extract(T, Append1(0)) = FALSE
    BY <2>4, <2>5, <2>6, <2>7, Zenon
  <2>9. CASE x = TRUE
    BY <2>2, <2>3, <2>6, <2>8, <2>9, Zenon
  <2>10. CASE x = FALSE
    BY <2>2, <2>3, <2>6, <2>8, <2>10, Zenon
  <2> QED BY <2>1, <2>9, <2>10, Zenon
<1>2. CASE T # "bool"
  <2> DEFINE u == x % Span(T)
  <2>1. u \in 0..(Span(T) - 1)
    <3>1. CASE T \in Signed
      BY <1>2, <3>1, Sizes, Wrapped DEF ValuesOf
    <3>2. CASE T \notin Signed
      BY <1>2, <3>2, Sizes, Small DEF ValuesOf
    <3> QED BY <3>1, <3>2
  <2>2. append(T, x) = AppendBits(T, u)
    BY <1>2 DEF append
  <2>3. /\ AppendBits(T, u) \in Seq(Byte) /\ Len(AppendBits(T, u)) = SizeOf[T]
        /\ ExtractBits(T, AppendBits(T, u)) = u
    <3> HIDE DEF u
    <3> QED BY <2>1, BitsReadBack
  <2>4. x = IF T \in Signed /\ 2 * u >= Span(T) THEN u - Span(T) ELSE u
    <3>1. CASE T \in Signed
      <4>1. x \in Int /\ -Span(T) <= 2 * x /\ 2 * x < Span(T)
        BY <1>2, <3>1 DEF ValuesOf
      <4>2. x = IF 2 * u >= Span(T) THEN u - Span(T) ELSE u
        BY <4>1, Sizes, Wrapped
      <4> HIDE DEF u
      <4> QED BY <3>1, <4>2, Zenon
    <3>2. CASE T \notin Signed
      <4>1. x = u
        BY <1>2, <3>2, Sizes, Small DEF ValuesOf
      <4> HIDE DEF u
      <4> QED BY <3>2, <4>1, Zenon
    <3> QED BY <3>1, <3>2
  <2> HIDE DEF u
  <2>5. extract(T, AppendBits(T, u)) = x
    BY <1>2, <2>3, <2>4, Zenon DEF extract
  <2> QED BY <2>2, <2>3, <2>5
<1> QED BY <1>1, <1>2

\* Bytes that are reversed twice are in order.
LEMMA ReverseTwice ==
    ASSUME NEW S, NEW s \in Seq(S)
    PROVE  /\ Reverse(s) \in Seq(S) /\ Len(Reverse(s)) = Len(s)
           /\ Reverse(Reverse(s)) = s
<1> DEFINE r == Reverse(s)
<1>1. Len(s) \in Nat
  BY LenProperties
<1>2. r \in Seq(S) /\ Len(r) = Len(s) /\ \A i \in 1..Len(s) : r[i] = s[Len(s) - i + 1]
  BY <1>1, ElementOfSeq DEF Reverse
<1> HIDE DEF r
<1>3. /\ Reverse(r) \in Seq(S) /\ Len(Reverse(r)) = Len(s)
      /\ \A i \in 1..Len(s) : Reverse(r)[i] = r[Len(s) - i + 1]
  BY <1>1, <1>2, ElementOfSeq DEF Reverse
<1>4. \A i \in 1..Len(s) : Reverse(r)[i] = s[i]
  <2> SUFFICES ASSUME NEW i \in 1..Len(s) PROVE Reverse(r)[i] = s[i]
    OBVIOUS
  <2>1. Len(s) - i + 1 \in 1..Len(s) /\ Len(s) - (Len(s) - i + 1) + 1 = i
    BY <1>1
  <2> QED BY <2>1, <1>2, <1>3
<1>5. Reverse(r) = s
  BY <1>3, <1>4, SeqEqual
<1> QED BY <1>2, <1>5 DEF r

\* The same for an element of an array or a vector, which is copied as it lies
\* in memory.
THEOREM ElementReadsBack ==
    ASSUME NEW T \in DOMAIN SizeOf, NEW x \in ValuesOf(T)
    PROVE  /\ ToMemory(T, x) \in Seq(Byte) /\ Len(ToMemory(T, x)) = SizeOf[T]
           /\ FromMemory(T, ToMemory(T, x)) = x
<1>1. /\ append(T, x) \in Seq(Byte) /\ Len(append(T, x)) = SizeOf[T]
      /\ extract(T, append(T, x)) = x
  BY ScalarReadsBack
<1>2. /\ Reverse(append(T, x)) \in Seq(Byte) /\ Len(Reverse(append(T, x))) = SizeOf[T]
      /\ Reverse(Reverse(append(T, x))) = append(T, x)
  BY <1>1, ReverseTwice
<1> QED BY <1>1, <1>2 DEF ToMemory, FromMemory

-----------------------------------------------------------------------------
(* The header. *)

\* The second of three sequences.
LEMMA Within ==
    ASSUME NEW S, NEW p \in Seq(S), NEW s \in Seq(S), NEW t \in Seq(S)
    PROVE  SubSeq(p \o (s \o t), Len(p) + 1, Len(p) + Len(s)) = s
<1> DEFINE m == Len(p)
           n == Len(s)
           w == p \o (s \o t)
           c == SubSeq(w, m + 1, m + n)
<1>1. m \in Nat /\ n \in Nat /\ Len(t) \in Nat
  BY LenProperties
<1>2. s \o t \in Seq(S) /\ Len(s \o t) = n + Len(t) /\ \A i \in 1..n : (s \o t)[i] = s[i]
  BY Joined
<1>3. w \in Seq(S) /\ Len(w) = m + Len(s \o t) /\ \A i \in 1..Len(s \o t) : w[m + i] = (s \o t)[i]
  <2> HIDE DEF w
  <2> QED BY <1>2, Joined DEF w
<1> HIDE DEF w
<1>4. Len(w) = m + n + Len(t) /\ \A i \in 1..n : w[m + i] = s[i]
  <2> HIDE DEF m, n
  <2> QED BY <1>1, <1>2, <1>3
<1> HIDE DEF m, n
<1>5. \A i \in (m + 1)..(m + n) : w[i] \in S
  BY <1>1, <1>3, <1>4, ElementOfSeq
<1>6. c \in Seq(S) /\ Len(c) = n /\ \A i \in 1..n : c[i] = w[m + i]
  <2>1. /\ c \in Seq(S)
        /\ Len(c) = IF m + 1 <= m + n THEN m + n - (m + 1) + 1 ELSE 0
        /\ \A i \in 1..(m + n - (m + 1) + 1) : c[i] = w[m + 1 + i - 1]
    BY <1>1, <1>5, SubSeqProperties
  <2> HIDE DEF c
  <2>2. m + n - (m + 1) + 1 = n
    BY <1>1
  <2>3. \A i \in 1..n : m + 1 + i - 1 = m + i
    BY <1>1
  <2> QED BY <1>1, <2>1, <2>2, <2>3
<1> HIDE DEF c
<1>7. c = s
  <2>1. n = Len(s)
    BY DEF n
  <2> QED BY <1>4, <1>6, <2>1, SeqEqual
<1> QED BY <1>7 DEF c, w, m, n

\* Three sequences can be joined in any order.
LEMMA Associative ==
    ASSUME NEW s \in Seq(Byte), NEW t \in Seq(Byte), NEW u \in Seq(Byte)
    PROVE  (s \o t) \o u = s \o (t \o u)
BY SMTT(30)

\* A number of 16 bits is read back.
LEMMA Number16 ==
    ASSUME NEW x \in 0..(Radix2 - 1)
    PROVE  /\ append("uint16_t", x) \in Seq(Byte) /\ Len(append("uint16_t", x)) = 2
           /\ extract("uint16_t", append("uint16_t", x)) = x
<1>1. "uint16_t" \in DOMAIN SizeOf /\ SizeOf["uint16_t"] = 2
  BY DEF SizeOf
<1>2. x \in ValuesOf("uint16_t")
  BY <1>1 DEF ValuesOf, Signed, Span
<1> QED BY <1>1, <1>2, ScalarReadsBack

\* The server finds in the header of a command the driver and the operation
\* that the client put there, whatever follows: build_command of
\* koheron-client.hpp and read_command of session.hpp.
THEOREM HeaderReadsBack ==
    ASSUME NEW class \in 0..(Radix2 - 1), NEW func \in 0..(Radix2 - 1),
           NEW payload \in Seq(Byte)
    PROVE  /\ Len(command_header(class, func)) = HeaderSize
           /\ ClassOf(command_header(class, func) \o payload) = class
           /\ FuncOf(command_header(class, func) \o payload) = func
<1> DEFINE z == append("uint32_t", 0)
           a == append("uint16_t", class)
           b == append("uint16_t", func)
<1>1. z \in Seq(Byte) /\ Len(z) = 4
  <2>1. "uint32_t" \in DOMAIN SizeOf /\ SizeOf["uint32_t"] = 4
    BY DEF SizeOf
  <2>2. 0 \in ValuesOf("uint32_t")
    BY <2>1, Radixes DEF ValuesOf, Signed, Span
  <2> QED BY <2>1, <2>2, ScalarReadsBack
<1>2. /\ a \in Seq(Byte) /\ Len(a) = 2 /\ extract("uint16_t", a) = class
      /\ b \in Seq(Byte) /\ Len(b) = 2 /\ extract("uint16_t", b) = func
  BY Number16
<1>3. command_header(class, func) = (z \o a) \o b
  BY DEF command_header
<1> HIDE DEF z, a, b
<1>4. z \o a \in Seq(Byte) /\ Len(z \o a) = 6
  <2>1. z \o a \in Seq(Byte) /\ Len(z \o a) = Len(z) + Len(a)
    BY <1>1, <1>2, Joined
  <2> QED BY <2>1, <1>1, <1>2
<1>5. (z \o a) \o b \in Seq(Byte) /\ Len((z \o a) \o b) = 8
  <2>1. (z \o a) \o b \in Seq(Byte) /\ Len((z \o a) \o b) = Len(z \o a) + Len(b)
    BY <1>4, <1>2, Joined
  <2> QED BY <2>1, <1>4, <1>2
<1>6. b \o payload \in Seq(Byte)
  BY <1>2, Joined
<1>7. ((z \o a) \o b) \o payload = (z \o a) \o (b \o payload)
  <2> DEFINE w == z \o a
  <2> HIDE DEF w
  <2>1. w \in Seq(Byte)
    BY <1>4 DEF w
  <2>2. b \in Seq(Byte)
    BY <1>2
  <2>3. (w \o b) \o payload = w \o (b \o payload)
    BY <2>1, <2>2, Associative
  <2> QED BY <2>3 DEF w
<1>8. (z \o a) \o (b \o payload) = z \o (a \o (b \o payload))
  <2> DEFINE w == b \o payload
  <2> HIDE DEF w
  <2>1. w \in Seq(Byte)
    BY <1>6 DEF w
  <2>2. z \in Seq(Byte) /\ a \in Seq(Byte)
    BY <1>1, <1>2
  <2>3. (z \o a) \o w = z \o (a \o w)
    BY <2>1, <2>2, Associative, SMTT(30)
  <2> QED BY <2>3 DEF w
<1>9. SubSeq((z \o a) \o (b \o payload), 7, 8) = b
  <2>1. SubSeq((z \o a) \o (b \o payload), Len(z \o a) + 1, Len(z \o a) + Len(b)) = b
    BY <1>2, <1>4, Within
  <2>2. Len(z \o a) + 1 = 7 /\ Len(z \o a) + Len(b) = 8
    BY <1>2, <1>4
  <2> QED BY <2>1, <2>2, Zenon
<1>10. SubSeq(z \o (a \o (b \o payload)), 5, 6) = a
  <2>1. SubSeq(z \o (a \o (b \o payload)), Len(z) + 1, Len(z) + Len(a)) = a
    BY <1>1, <1>2, <1>6, Within
  <2>2. Len(z) + 1 = 5 /\ Len(z) + Len(a) = 6
    BY <1>1, <1>2
  <2> QED BY <2>1, <2>2, Zenon
<1>11. HeaderSize = 8
  BY DEF HeaderSize, SizeOf
<1>12. ClassOf(command_header(class, func) \o payload) = class
  BY <1>2, <1>3, <1>7, <1>8, <1>10, Zenon DEF ClassOf
<1>13. FuncOf(command_header(class, func) \o payload) = func
  BY <1>2, <1>3, <1>7, <1>9, Zenon DEF FuncOf
<1> QED BY <1>3, <1>5, <1>11, <1>12, <1>13

-----------------------------------------------------------------------------
(* Strings of bytes. *)

\* What a stream or a buffer may hold.
Bytes == Seq(Byte)

\* The string without bytes.
LEMMA EmptyBytes ==
    /\ <<>> \in Bytes /\ Len(<<>>) = 0
    /\ \A a \in Bytes : Len(a) \in Nat /\ (Len(a) = 0 => a = <<>>)
BY EmptySeq DEF Bytes

\* Two strings.
LEMMA CatBytes ==
    \A a, b \in Bytes : Cat(a, b) \in Bytes /\ Len(Cat(a, b)) = Len(a) + Len(b)
BY DEF Cat, Bytes

\* One of them without bytes.
LEMMA CatEmpty == \A a \in Bytes : Cat(a, <<>>) = a /\ Cat(<<>>, a) = a
BY DEF Cat, Bytes

\* Three strings can be joined in any order.
LEMMA CatAssociative == \A a, b, c \in Bytes : Cat(Cat(a, b), c) = Cat(a, Cat(b, c))
BY DEF Cat, Bytes

\* What two strings with beginnings of the same length have in common.
LEMMA CatCancel ==
    \A a, b, u, v \in Bytes : Len(a) = Len(b) /\ Cat(a, u) = Cat(b, v) => a = b /\ u = v
<1>0. \A s, t \in Seq(Byte) :
        /\ Len(s) \in Nat /\ Len(t) \in Nat /\ Len(s \o t) = Len(s) + Len(t)
        /\ \A i \in 1..Len(s) : (s \o t)[i] = s[i]
        /\ \A i \in 1..Len(t) : (s \o t)[Len(s) + i] = t[i]
  OBVIOUS
<1>. SUFFICES ASSUME NEW a \in Seq(Byte), NEW b \in Seq(Byte), NEW u \in Seq(Byte), NEW v \in Seq(Byte),
                     Len(a) = Len(b), a \o u = b \o v
              PROVE  a = b /\ u = v
  BY Zenon DEF Cat, Bytes
<1>. DEFINE w == a \o u
            n == Len(a)
<1>1. /\ n \in Nat /\ Len(u) \in Nat /\ Len(v) \in Nat
      /\ Len(w) = n + Len(u) /\ Len(w) = n + Len(v)
      /\ \A i \in 1..n : w[i] = a[i] /\ w[i] = b[i]
      /\ \A i \in 1..Len(u) : w[n + i] = u[i]
      /\ \A i \in 1..Len(v) : w[n + i] = v[i]
  <2>1. /\ n \in Nat /\ Len(u) \in Nat /\ Len(w) = n + Len(u)
        /\ \A i \in 1..n : w[i] = a[i]
        /\ \A i \in 1..Len(u) : w[n + i] = u[i]
    BY <1>0, Zenon
  <2>0. /\ Len(v) \in Nat /\ Len(b \o v) = Len(b) + Len(v)
        /\ \A i \in 1..Len(b) : (b \o v)[i] = b[i]
        /\ \A i \in 1..Len(v) : (b \o v)[Len(b) + i] = v[i]
    BY <1>0, Zenon
  <2>2. /\ Len(v) \in Nat /\ Len(b \o v) = n + Len(v)
        /\ \A i \in 1..n : (b \o v)[i] = b[i]
        /\ \A i \in 1..Len(v) : (b \o v)[n + i] = v[i]
    BY <2>0, Zenon
  <2>3. w = b \o v
    OBVIOUS
  <2>. HIDE DEF w, n
  <2>. QED BY <2>1, <2>2, <2>3, Zenon
<1>. HIDE DEF w
<1>2. a = b
  <2>1. \A i \in 1..n : a[i] = b[i]
    BY <1>1
  <2>. QED BY <2>1, SeqEqual
<1>3. u = v
  <2>1. Len(u) = Len(v)
    <3>. HIDE DEF n
    <3>. QED BY <1>1
  <2>2. \A i \in 1..Len(u) : u[i] = v[i]
    <3>. HIDE DEF n
    <3>. QED BY <1>1, <2>1
  <2>. QED BY <2>1, <2>2, SeqEqual
<1>. QED BY <1>2, <1>3

\* A string of bytes, cut in two.
LEMMA Cutting ==
    \A a \in Bytes, n \in Nat : n <= Len(a) =>
        /\ SubSeq(a, 1, n) \in Bytes /\ Len(SubSeq(a, 1, n)) = n
        /\ SubSeq(a, n + 1, Len(a)) \in Bytes /\ Len(SubSeq(a, n + 1, Len(a))) = Len(a) - n
        /\ a = Cat(SubSeq(a, 1, n), SubSeq(a, n + 1, Len(a)))
<1>. SUFFICES ASSUME NEW a \in Seq(Byte), NEW n \in Nat, n <= Len(a)
              PROVE  /\ SubSeq(a, 1, n) \in Seq(Byte) /\ Len(SubSeq(a, 1, n)) = n
                     /\ SubSeq(a, n + 1, Len(a)) \in Seq(Byte)
                     /\ Len(SubSeq(a, n + 1, Len(a))) = Len(a) - n
                     /\ a = SubSeq(a, 1, n) \o SubSeq(a, n + 1, Len(a))
  BY Zenon DEF Cat, Bytes
<1>1. Len(a) \in Nat /\ \A i \in 1..Len(a) : a[i] \in Byte
  OBVIOUS
<1>2. /\ SubSeq(a, 1, n) \in Seq(Byte) /\ Len(SubSeq(a, 1, n)) = n
      /\ SubSeq(a, n + 1, Len(a)) \in Seq(Byte)
      /\ Len(SubSeq(a, n + 1, Len(a))) = Len(a) - n
  BY <1>1, SubSeqProperties
<1>3. SubSeq(a, 1, n) \o SubSeq(a, n + 1, Len(a)) = SubSeq(a, 1, Len(a))
  <2>1. /\ 1 \in 1..(Len(a) + 1) /\ n \in 1 - 1..Len(a) /\ Len(a) \in n..Len(a)
    BY <1>1
  <2>. QED BY <2>1, ConcatAdjacentSubSeq
<1>4. SubSeq(a, 1, Len(a)) = a
  BY SubSeqFull
<1>. QED BY <1>2, <1>3, <1>4

\* What follows a beginning of known length.
LEMMA CutAfter ==
    \A a, b \in Bytes : /\ SubSeq(Cat(a, b), Len(a) + 1, Len(Cat(a, b))) = b
                        /\ SubSeq(Cat(a, b), 1, Len(a)) = a
<1>. SUFFICES ASSUME NEW a \in Bytes, NEW b \in Bytes
              PROVE  /\ SubSeq(Cat(a, b), Len(a) + 1, Len(Cat(a, b))) = b
                     /\ SubSeq(Cat(a, b), 1, Len(a)) = a
  OBVIOUS
<1>. DEFINE w == Cat(a, b)
            p == SubSeq(w, 1, Len(a))
            q == SubSeq(w, Len(a) + 1, Len(w))
<1>1. /\ w \in Bytes /\ Len(a) \in Nat /\ Len(b) \in Nat /\ Len(w) = Len(a) + Len(b)
  BY CatBytes, EmptyBytes
<1>2. Len(a) <= Len(w)
  <2>. HIDE DEF w
  <2>. QED BY <1>1
<1>3. p \in Bytes /\ Len(p) = Len(a) /\ q \in Bytes /\ w = Cat(p, q)
  <2>. HIDE DEF w
  <2>. QED BY <1>1, <1>2, Cutting
<1>4. Cat(a, b) = Cat(p, q)
  BY <1>3
<1>. HIDE DEF p, q
<1>5. a = p /\ b = q
  BY <1>3, <1>4, CatCancel
<1>. QED BY <1>5, Zenon DEF p, q, w

\* A string that is not longer than another with which it begins a third.
LEMMA Between ==
    \A a, b, u, v \in Bytes : Cat(a, u) = Cat(b, v) /\ Len(a) <= Len(b) =>
        \E m \in Bytes : b = Cat(a, m) /\ u = Cat(m, v) /\ Len(m) = Len(b) - Len(a)
<1>. SUFFICES ASSUME NEW a \in Bytes, NEW b \in Bytes, NEW u \in Bytes, NEW v \in Bytes,
                     Cat(a, u) = Cat(b, v), Len(a) <= Len(b)
              PROVE  \E m \in Bytes : b = Cat(a, m) /\ u = Cat(m, v) /\ Len(m) = Len(b) - Len(a)
  OBVIOUS
<1>. DEFINE p == SubSeq(b, 1, Len(a))
            m == SubSeq(b, Len(a) + 1, Len(b))
<1>1. p \in Bytes /\ Len(p) = Len(a) /\ m \in Bytes /\ b = Cat(p, m) /\ Len(m) = Len(b) - Len(a)
  BY EmptyBytes, Cutting
<1>. HIDE DEF p, m
<1>2. Cat(a, u) = Cat(p, Cat(m, v)) /\ Cat(m, v) \in Bytes
  BY <1>1, CatAssociative, CatBytes
<1>3. a = p /\ u = Cat(m, v)
  BY <1>1, <1>2, CatCancel
<1>. QED BY <1>1, <1>3

-----------------------------------------------------------------------------
(* The elements of arrays and vectors. *)

\* Sequences of strings of bytes.
LEMMA BlocksOfBytes ==
    \A s : Blocks(Byte, s) <=> s \in Seq(Bytes)
BY DEF Blocks, Bytes

\* Strings of the same length, one after the other.
LEMMA Uniform ==
    ASSUME NEW s \in Seq(Bytes), NEW z \in Nat, \A i \in 1..Len(s) : Len(s[i]) = z
    PROVE  FlattenSeq(s) \in Bytes /\ Len(FlattenSeq(s)) = Len(s) * z
<1>. DEFINE n == Len(s)
<1>1. n \in Nat /\ \A i \in 1..n : s[i] \in Bytes
  OBVIOUS
<1>2. PICK g : Flattens(Byte, s, g)
  BY BlocksOfBytes, FlattenSteps
<1>3. /\ g \in [0..n -> Bytes] /\ g[0] = <<>>
      /\ \A k \in 1..n : g[k] = Cat(g[k - 1], s[k])
      /\ FlattenSeq(s) = g[n]
  BY <1>2, Zenon DEF Flattens, Cat, Bytes
<1>. HIDE DEF n
<1>. DEFINE N == {k \in 0..n : Len(g[k]) = k * z}
<1>4. 0 \in N
  BY <1>1, <1>3, EmptyBytes
<1>5. \A k \in 1..n : k - 1 \in N => k \in N
  <2>. SUFFICES ASSUME NEW k \in 1..n, Len(g[k - 1]) = (k - 1) * z PROVE Len(g[k]) = k * z
    BY <1>1
  <2>1. g[k - 1] \in Bytes /\ s[k] \in Bytes
    BY <1>1, <1>3
  <2>2. Len(g[k]) = Len(g[k - 1]) + z
    <3>1. g[k] = Cat(g[k - 1], s[k])
      BY <1>3
    <3>2. Len(s[k]) = z
      BY DEF n
    <3>. QED BY <2>1, <3>1, <3>2, CatBytes, Zenon
  <2>3. (k - 1) * z + z = k * z
    OBVIOUS
  <2>. QED BY <2>2, <2>3
<1>6. n \in N
  <2>1. n \in Nat
    BY <1>1
  <2>. HIDE DEF N
  <2>2. \A k \in 0..n : k \in N
    BY <2>1, <1>4, <1>5, UpTo, Zenon
  <2>. QED BY <2>1, <2>2
<1>. QED BY <1>1, <1>3, <1>6 DEF n

\* One of several sequences, in what they make together.
LEMMA FlattenSplit ==
    ASSUME NEW S, NEW s \in Seq(Seq(S)), NEW i \in 1..Len(s)
    PROVE  /\ Blocks(S, SubSeq(s, 1, i - 1)) /\ Blocks(S, SubSeq(s, i + 1, Len(s))) /\ s[i] \in Seq(S)
           /\ FlattenSeq(s) = Cat(FlattenSeq(SubSeq(s, 1, i - 1)),
                                  Cat(s[i], FlattenSeq(SubSeq(s, i + 1, Len(s)))))
           /\ FlattenSeq(SubSeq(s, 1, i - 1)) \in Seq(S)
           /\ FlattenSeq(SubSeq(s, i + 1, Len(s))) \in Seq(S)
           /\ LET from == Len(FlattenSeq(SubSeq(s, 1, i - 1)))
              IN  SubSeq(FlattenSeq(s), from + 1, from + Len(s[i])) = s[i]
<1>. DEFINE W == Seq(S)
            n == Len(s)
            a == SubSeq(s, 1, i - 1)
            x == s[i]
            y == <<x>>
            b == SubSeq(s, i + 1, n)
            c == SubSeq(s, i, n)
<1>0. s \in Seq(W)
  OBVIOUS
<1>. HIDE DEF W
<1>1. n \in Nat /\ \A k \in 1..n : s[k] \in W
  BY <1>0
<1>2. a \in Seq(W) /\ b \in Seq(W) /\ c \in Seq(W) /\ x \in W /\ y \in Seq(W)
  BY <1>1, SubSeqProperties
<1>3. c = Cat(y, b)
  BY <1>0, SubSeqRecursiveFirst DEF Cat
<1>4. s = Cat(a, c)
  <2>1. 1 \in 1..(Len(s) + 1) /\ i - 1 \in 1 - 1..Len(s) /\ Len(s) \in (i - 1)..Len(s)
    BY <1>1
  <2>2. SubSeq(s, 1, i - 1) \o SubSeq(s, i - 1 + 1, Len(s)) = SubSeq(s, 1, Len(s))
    BY <2>1, <1>0, ConcatAdjacentSubSeq
  <2>3. i - 1 + 1 = i /\ SubSeq(s, 1, Len(s)) = s
    BY <1>0, SubSeqFull
  <2>. QED BY <2>2, <2>3, Zenon DEF Cat
<1>. HIDE DEF a, b, c, x, n
<1>5. FlattenSeq(y) = x /\ Blocks(S, y)
  BY <1>2, FlattenOne DEF W
<1>. HIDE DEF y
<1>6. Blocks(S, a) /\ Blocks(S, b) /\ Blocks(S, c)
  BY <1>2, Zenon DEF Blocks, W
<1>7. FlattenSeq(c) = Cat(FlattenSeq(y), FlattenSeq(b))
  BY <1>3, <1>5, <1>6, FlattenConcat
<1>8. FlattenSeq(s) = Cat(FlattenSeq(a), FlattenSeq(c))
  BY <1>4, <1>6, FlattenConcat
<1>9. FlattenSeq(a) \in W /\ FlattenSeq(b) \in W
  BY <1>6, FlattenType, Zenon DEF W
<1>10. SubSeq(FlattenSeq(s), Len(FlattenSeq(a)) + 1, Len(FlattenSeq(a)) + Len(x)) = x
  <2>. DEFINE p == FlattenSeq(a)
              q == FlattenSeq(b)
  <2>1. p \in Seq(S) /\ x \in Seq(S) /\ q \in Seq(S)
    BY <1>2, <1>9, Zenon DEF W
  <2>2. FlattenSeq(s) = p \o (x \o q)
    BY <1>5, <1>7, <1>8, Zenon DEF Cat
  <2>. HIDE DEF p, q
  <2>3. SubSeq(p \o (x \o q), Len(p) + 1, Len(p) + Len(x)) = x
    BY <2>1, Within
  <2>4. SubSeq(FlattenSeq(s), Len(p) + 1, Len(p) + Len(x)) = x
    BY <2>2, <2>3, Zenon
  <2>. QED BY <2>4 DEF p
<1>11. FlattenSeq(s) = Cat(FlattenSeq(a), Cat(x, FlattenSeq(b)))
  BY <1>5, <1>7, <1>8, Zenon
<1>. QED BY <1>2, <1>6, <1>9, <1>10, <1>11, Zenon DEF a, b, x, n, W

\* The same for strings of bytes.
LEMMA FlattenAt ==
    ASSUME NEW s \in Seq(Bytes), NEW i \in 1..Len(s)
    PROVE  /\ FlattenSeq(SubSeq(s, 1, i - 1)) \in Bytes /\ s[i] \in Bytes
           /\ LET from == Len(FlattenSeq(SubSeq(s, 1, i - 1)))
              IN  SubSeq(FlattenSeq(s), from + 1, from + Len(s[i])) = s[i]
<1>1. s \in Seq(Seq(Byte))
  BY Zenon DEF Bytes
<1>. QED BY <1>1, FlattenSplit, Zenon DEF Bytes

\* The bytes of an array's or a vector's elements are as many as the elements
\* take, and read as these elements: dump_array_to_buffer of
\* serializer_deserializer.hpp and the copy of an array's bytes in recv.
THEOREM ElementsReadBack ==
    ASSUME NEW t, t.T \in DOMAIN SizeOf, NEW v \in Seq(ValuesOf(t.T))
    PROVE  /\ dump_array_to_buffer(t, v) \in Bytes
           /\ Len(dump_array_to_buffer(t, v)) = Len(v) * SizeOf[t.T]
           /\ elements(t.T, dump_array_to_buffer(t, v)) = v
<1>. DEFINE T == t.T
            n == Len(v)
            z == SizeOf[T]
            s == [i \in DOMAIN v |-> ToMemory(T, v[i])]
            b == dump_array_to_buffer(t, v)
<1>1. n \in Nat /\ DOMAIN v = 1..n /\ \A i \in 1..n : v[i] \in ValuesOf(T)
  OBVIOUS
<1>2. z \in Nat \ {0}
  BY Sizes
<1>. HIDE DEF T
<1>0. T \in DOMAIN SizeOf
  BY DEF T
<1>3. \A i \in 1..n : /\ ToMemory(T, v[i]) \in Bytes /\ Len(ToMemory(T, v[i])) = z
                      /\ FromMemory(T, ToMemory(T, v[i])) = v[i]
  <2>. SUFFICES ASSUME NEW i \in 1..n
                PROVE  /\ ToMemory(T, v[i]) \in Seq(Byte) /\ Len(ToMemory(T, v[i])) = SizeOf[T]
                       /\ FromMemory(T, ToMemory(T, v[i])) = v[i]
    BY Zenon DEF Bytes
  <2>1. v[i] \in ValuesOf(T)
    BY <1>1
  <2>. QED BY <1>0, <2>1, ElementReadsBack, Zenon
<1>. HIDE DEF z, n
<1>4. s \in Seq(Bytes) /\ Len(s) = n /\ \A i \in 1..n : s[i] = ToMemory(T, v[i])
  BY <1>1, <1>3
<1>5. b = FlattenSeq(s)
  BY Zenon DEF dump_array_to_buffer, T
<1>. HIDE DEF s, b
<1>6. b \in Bytes /\ Len(b) = n * z
  BY <1>1, <1>2, <1>3, <1>4, <1>5, Uniform
<1>7. Len(b) \div z = n
  BY <1>1, <1>2, <1>6
<1>8. \A i \in 1..n : SubSeq(b, (i - 1) * z + 1, i * z) = ToMemory(T, v[i])
  <2>. SUFFICES ASSUME NEW i \in 1..n
                PROVE  SubSeq(b, (i - 1) * z + 1, i * z) = ToMemory(T, v[i])
    OBVIOUS
  <2>. DEFINE a == SubSeq(s, 1, i - 1)
              from == Len(FlattenSeq(a))
  <2>1. i \in 1..Len(s) /\ Len(s[i]) = z /\ s[i] = ToMemory(T, v[i])
    BY <1>3, <1>4
  <2>2. SubSeq(b, from + 1, from + Len(s[i])) = s[i]
    BY <2>1, <1>4, <1>5, FlattenAt
  <2>3. from = (i - 1) * z
    <3>1. a \in Seq(Bytes) /\ Len(a) = i - 1 /\ \A k \in 1..(i - 1) : a[k] = s[k] /\ Len(s[k]) = z
      <4>1. i - 1 \in Nat /\ \A k \in 1..(i - 1) : k \in 1..n /\ 1 + k - 1 = k
        BY <1>1
      <4>2. \A k \in 1..(i - 1) : s[k] \in Bytes /\ Len(s[k]) = z
        BY <4>1, <1>3, <1>4
      <4>3. a \in Seq(Bytes) /\ Len(a) = i - 1 /\ \A k \in 1..(i - 1) : a[k] = s[1 + k - 1]
        BY <4>1, <4>2, SubSeqProperties
      <4>. HIDE DEF a
      <4>. QED BY <4>1, <4>2, <4>3
    <3>. HIDE DEF a
    <3>2. i - 1 \in Nat /\ \A k \in 1..Len(a) : Len(a[k]) = z
      BY <3>1, <1>1
    <3>. QED BY <3>1, <3>2, <1>2, Uniform
  <2>. HIDE DEF from
  <2>4. (i - 1) * z + z = i * z
    BY <1>1, <1>2
  <2>. QED BY <2>1, <2>2, <2>3, <2>4
<1>9. elements(T, b) = v
  <2>1. elements(T, b) = [i \in 1..n |-> FromMemory(T, SubSeq(b, (i - 1) * z + 1, i * z))]
    BY <1>7, Zenon DEF elements, z
  <2>2. \A i \in 1..n : FromMemory(T, SubSeq(b, (i - 1) * z + 1, i * z)) = v[i]
    BY <1>3, <1>8, Zenon
  <2>3. v = [i \in 1..n |-> v[i]]
    BY <1>1
  <2>. QED BY <2>1, <2>2, <2>3, Zenon
<1>. QED BY <1>6, <1>9, Zenon DEF b, n, z, T

-----------------------------------------------------------------------------
(* What is sent for values of several types. *)

\* What is sent for one value.
Written(t, x) ==
    CASE t.kind = "scalar" -> append(t.T, x)
      [] t.kind = "array" -> dump_array_to_buffer(t, x)
      [] OTHER -> dump_container_to_buffer(t, x)

\* A type takes some bytes, if only those of a length.
LEMMA FixedSizes ==
    \A t \in Types : /\ FixedSize(t) \in Nat \ {0} /\ t.T \in DOMAIN SizeOf
                     /\ SizeOf[t.T] \in Nat \ {0}
                     /\ t.kind \in {"scalar", "array", "vector"} /\ t.n \in Nat
<1>. SUFFICES ASSUME NEW t \in Types
              PROVE  /\ FixedSize(t) \in Nat \ {0} /\ t.T \in DOMAIN SizeOf
                     /\ SizeOf[t.T] \in Nat \ {0}
                     /\ t.kind \in {"scalar", "array", "vector"} /\ t.n \in Nat
  OBVIOUS
<1>1. /\ t.T \in DOMAIN SizeOf /\ t.kind \in {"scalar", "array", "vector"} /\ t.n \in Nat
      /\ (t.kind = "scalar" => t.n = 1) /\ (t.kind = "array" => t.n > 0)
  BY DEF Types
<1>2. SizeOf[t.T] \in Nat \ {0}
  BY <1>1, Sizes
<1>3. CASE t.kind = "vector"
  <2>1. SizeOf["uint32_t"] = 4
    BY DEF SizeOf
  <2>. QED BY <1>1, <1>2, <1>3, <2>1 DEF FixedSize
<1>4. CASE t.kind # "vector"
  <2>1. t.n \in Nat \ {0}
    BY <1>1, <1>4
  <2>. DEFINE z == SizeOf[t.T]
              m == t.n
  <2>2. z \in Nat \ {0} /\ m \in Nat \ {0} /\ FixedSize(t) = m * z
    BY <1>2, <1>4, <2>1 DEF FixedSize
  <2>. HIDE DEF z, m
  <2>3. m * z \in Nat \ {0}
    BY <2>2
  <2>. QED BY <1>1, <1>2, <2>2, <2>3
<1>. QED BY <1>3, <1>4

\* required_buffer_size adds one size after the other.
LEMMA SizeSteps ==
    ASSUME NEW types \in Seq(Types)
    PROVE  \E g \in [0..Len(types) -> Nat] :
              /\ g[0] = 0 /\ \A k \in 1..Len(types) : g[k] = g[k - 1] + FixedSize(types[k])
              /\ required_buffer_size(types) = g[Len(types)]
<1>. DEFINE n == Len(types)
            F == [x \in Nat \X (1..n) |-> x[1] + FixedSize(types[x[2]])]
            Step(f) == [s \in SUBSET (1..n) |->
                          IF s = {} THEN 0
                          ELSE f[s \ {Max(s)}] + FixedSize(types[Max(s)])]
            f == CHOOSE h : h = Step(h)
<1>1. n \in Nat /\ \A k \in 1..n : FixedSize(types[k]) \in Nat
  BY FixedSizes
<1>2. DOMAIN types = 1..n
  OBVIOUS
<1>3. F \in [Nat \X (1..n) -> Nat]
  BY <1>1
<1>4. \A x \in Nat, k \in 1..n : F[<<x, k>>] = x + FixedSize(types[k])
  OBVIOUS
<1>5. required_buffer_size(types) = f[1..n]
  BY <1>2, Zenon DEF required_buffer_size, FoldLeft, MapThenFoldSet
<1>. HIDE DEF n, F
<1>6. ByStep(Nat, n, 0, F)
  BY <1>1, <1>3 DEF ByStep
<1>7. f = Step(f)
  <2>1. PICK h : Fold(Nat, n, 0, F, h)
    BY <1>6, Folding
  <2>2. /\ h \in [SUBSET (1..n) -> Nat]
        /\ \A t \in SUBSET (1..n) : h[t] = IF t = {} THEN 0 ELSE F[<<h[t \ {Max(t)}], Max(t)>>]
    BY <2>1 DEF Fold
  <2>3. ASSUME NEW t \in SUBSET (1..n)
        PROVE  h[t] = IF t = {} THEN 0 ELSE h[t \ {Max(t)}] + FixedSize(types[Max(t)])
    <3>1. CASE t = {}
      BY <2>2, <3>1
    <3>2. CASE t # {}
      <4>1. Max(t) \in 1..n /\ t \ {Max(t)} \in SUBSET (1..n)
        BY <1>1, <3>2, LargestIn
      <4>2. h[t \ {Max(t)}] \in Nat
        BY <4>1, <2>2
      <4>. QED BY <3>2, <4>1, <4>2, <2>2, <1>4
    <3>. QED BY <3>1, <3>2
  <2>4. h = Step(h)
    BY <2>2, <2>3
  <2>. QED BY <2>4
<1>. HIDE DEF f
<1>8. PICK g : Stepwise(Nat, n, 0, F, g)
  BY <1>6, Recursion
<1>9. /\ g \in [0..n -> Nat] /\ g[0] = 0
      /\ \A k \in 1..n : g[k] = g[k - 1] + FixedSize(types[k])
  <2>1. g \in [0..n -> Nat] /\ g[0] = 0 /\ \A k \in 1..n : g[k] = F[<<g[k - 1], k>>]
    BY <1>8 DEF Stepwise
  <2>2. \A k \in 1..n : g[k - 1] \in Nat
    BY <2>1, <1>1
  <2>. QED BY <2>1, <2>2, <1>4
<1>. DEFINE N == {k \in 0..n : f[1..k] = g[k]}
<1>10. 0 \in N
  <2>1. 1..0 = {} /\ 1..0 \in SUBSET (1..n)
    OBVIOUS
  <2>. QED BY <2>1, <1>1, <1>7, <1>9
<1>11. \A k \in 1..n : k - 1 \in N => k \in N
  <2>. SUFFICES ASSUME NEW k \in 1..n, f[1..(k - 1)] = g[k - 1] PROVE f[1..k] = g[k]
    BY <1>1
  <2>1. /\ Max(1..k) = k /\ (1..k) \ {k} = 1..(k - 1)
        /\ 1..k \in SUBSET (1..n) /\ 1..k # {}
    BY <1>1, Largest
  <2>2. f[1..k] = f[(1..k) \ {Max(1..k)}] + FixedSize(types[Max(1..k)])
    BY <1>7, <2>1
  <2>. QED BY <2>1, <2>2, <1>9
<1>12. n \in N
  <2>1. n \in Nat
    BY <1>1
  <2>. HIDE DEF N
  <2>2. \A k \in 0..n : k \in N
    BY <2>1, <1>10, <1>11, UpTo, Zenon
  <2>. QED BY <2>1, <2>2
<1>. QED BY <1>5, <1>9, <1>12 DEF n
\* A scalar is sent as append gives it; an array as its elements; a vector as
\* their length and them.  Each is read back.
LEMMA WrittenReadsBack ==
    ASSUME NEW t \in Types, NEW x, Holds(t, x)
    PROVE  /\ Written(t, x) \in Bytes
           /\ t.kind = "scalar" =>
                /\ Len(Written(t, x)) = SizeOf[t.T] /\ Len(Written(t, x)) = FixedSize(t)
                /\ extract(t.T, Written(t, x)) = x
           /\ t.kind = "array" =>
                /\ Len(Written(t, x)) = FixedSize(t) /\ elements(t.T, Written(t, x)) = x
           /\ t.kind = "vector" =>
                LET length == append("uint32_t", Len(x) * SizeOf[t.T])
                    payload == dump_array_to_buffer(t, x)
                IN  /\ Written(t, x) = Cat(length, payload)
                    /\ length \in Bytes /\ payload \in Bytes
                    /\ Len(length) = FixedSize(t) /\ Len(length) = 4
                    /\ extract("uint32_t", length) = Len(payload)
                    /\ (Len(payload) \div SizeOf[t.T]) * SizeOf[t.T] = Len(payload)
                    /\ elements(t.T, payload) = x
<1>. DEFINE T == t.T
            z == SizeOf[T]
<1>0. T \in DOMAIN SizeOf /\ z \in Nat \ {0} /\ t.kind \in {"scalar", "array", "vector"} /\ t.n \in Nat
  BY FixedSizes
<1>1. CASE t.kind = "scalar"
  <2>1. x \in ValuesOf(T)
    BY <1>1 DEF Holds
  <2>2. /\ append(T, x) \in Seq(Byte) /\ Len(append(T, x)) = z
        /\ extract(T, append(T, x)) = x
    BY <1>0, <2>1, ScalarReadsBack, Zenon
  <2>3. Written(t, x) = append(T, x)
    BY <1>1 DEF Written
  <2>4. FixedSize(t) = z
    <3>1. t.n = 1
      BY <1>1 DEF Types
    <3>. QED BY <1>0, <1>1, <3>1 DEF FixedSize
  <2>. QED BY <1>1, <2>2, <2>3, <2>4, Zenon DEF Bytes
<1>2. CASE t.kind = "array"
  <2>1. x \in [1..t.n -> ValuesOf(T)]
    BY <1>2 DEF Holds
  <2>2. x \in Seq(ValuesOf(T)) /\ Len(x) = t.n
    BY <1>0, <2>1
  <2>3. /\ dump_array_to_buffer(t, x) \in Bytes
        /\ Len(dump_array_to_buffer(t, x)) = Len(x) * SizeOf[t.T]
        /\ elements(t.T, dump_array_to_buffer(t, x)) = x
    BY <1>0, <2>2, ElementsReadBack
  <2>4. Written(t, x) = dump_array_to_buffer(t, x)
    BY <1>2 DEF Written
  <2>5. FixedSize(t) = Len(x) * SizeOf[t.T]
    BY <1>2, <2>2 DEF FixedSize
  <2>. QED BY <1>2, <2>3, <2>4, <2>5, Zenon
<1>3. CASE t.kind = "vector"
  <2>. DEFINE n == Len(x)
              m == n * z
              length == append("uint32_t", m)
              payload == dump_array_to_buffer(t, x)
  <2>1. x \in Seq(ValuesOf(T)) /\ m < Radix4
    BY <1>3 DEF Holds
  <2>2. n \in Nat
    BY <2>1
  <2>3. payload \in Bytes /\ Len(payload) = n * z /\ elements(T, payload) = x
    BY <1>0, <2>1, ElementsReadBack
  <2>. HIDE DEF n, z
  <2>4. m \in Nat /\ m \div z = n
    BY <1>0, <2>2
  <2>5. m \in ValuesOf("uint32_t") /\ "uint32_t" \in DOMAIN SizeOf /\ SizeOf["uint32_t"] = 4
    <3>1. "uint32_t" \in DOMAIN SizeOf /\ SizeOf["uint32_t"] = 4
      BY DEF SizeOf
    <3>2. ValuesOf("uint32_t") = 0..(Radix4 - 1)
      BY <3>1 DEF ValuesOf, Signed, Span
    <3>. HIDE DEF m
    <3>. QED BY <2>1, <2>4, <3>1, <3>2, Radixes
  <2>. HIDE DEF m
  <2>6. length \in Seq(Byte) /\ Len(length) = 4 /\ extract("uint32_t", length) = m
    BY <2>5, ScalarReadsBack
  <2>7. Written(t, x) = Cat(length, payload)
    <3>1. Written(t, x) = dump_container_to_buffer(t, x)
      BY <1>3 DEF Written
    <3>. QED BY <3>1, Zenon DEF dump_container_to_buffer, Cat, m, n, z
  <2>8. FixedSize(t) = 4
    BY <1>3, <2>5 DEF FixedSize
  <2>9. (m \div z) * z = m /\ Len(payload) = m
    BY <2>3, <2>4 DEF m
  <2>10. Cat(length, payload) \in Bytes
    BY <2>3, <2>6, CatBytes, Zenon DEF Bytes
  <2>11. length \in Bytes
    BY <2>6, Zenon DEF Bytes
  <2>. QED BY <1>3, <2>3, <2>6, <2>7, <2>8, <2>9, <2>10, <2>11, Zenon DEF m, n, z, T
<1>. QED BY <1>0, <1>1, <1>2, <1>3

\* What is sent for several values.
Fit(types, v) == \A i \in DOMAIN types : Holds(types[i], v[i])
Blocked(types, v) == [i \in DOMAIN types |-> Written(types[i], v[i])]
BytesOf(types, v) == FlattenSeq(Blocked(types, v))

\* There is one string for each value.
LEMMA BlockedType ==
    ASSUME NEW types \in Seq(Types), NEW v, Fit(types, v)
    PROVE  /\ Blocked(types, v) \in Seq(Bytes) /\ Len(Blocked(types, v)) = Len(types)
           /\ BytesOf(types, v) \in Bytes
           /\ \A i \in 1..Len(types) : Blocked(types, v)[i] = Written(types[i], v[i])
<1>. DEFINE n == Len(types)
            s == Blocked(types, v)
<1>1. n \in Nat /\ DOMAIN types = 1..n /\ \A i \in 1..n : types[i] \in Types
  OBVIOUS
<1>2. \A i \in 1..n : Written(types[i], v[i]) \in Bytes
  BY <1>1, WrittenReadsBack DEF Fit
<1>. HIDE DEF n
<1>3. s = [i \in 1..n |-> Written(types[i], v[i])]
  BY <1>1 DEF Blocked
<1>4. s \in Seq(Bytes) /\ Len(s) = n /\ \A i \in 1..n : s[i] = Written(types[i], v[i])
  <2>. HIDE DEF s
  <2>. QED BY <1>1, <1>2, <1>3
<1>. HIDE DEF s
<1>5. FlattenSeq(s) \in Bytes
  BY <1>4, BlocksOfBytes, FlattenType, Zenon DEF Bytes
<1>. QED BY <1>4, <1>5, Zenon DEF s, n, BytesOf

\* Without vectors, its length follows from the types.
LEMMA SizeIsLength ==
    ASSUME NEW types \in Seq(Types), NEW v, Fit(types, v),
           \A i \in DOMAIN types : types[i].kind # "vector"
    PROVE  Len(BytesOf(types, v)) = required_buffer_size(types)
<1>. DEFINE n == Len(types)
            s == Blocked(types, v)
<1>1. n \in Nat /\ DOMAIN types = 1..n
  OBVIOUS
<1>2. \A i \in 1..n : types[i] \in Types /\ Holds(types[i], v[i]) /\ types[i].kind # "vector"
  BY <1>1 DEF Fit
<1>3. s \in Seq(Bytes) /\ Len(s) = n /\ \A i \in 1..n : s[i] = Written(types[i], v[i])
  BY BlockedType
<1>4. PICK g \in [0..n -> Nat] :
              /\ g[0] = 0 /\ \A k \in 1..n : g[k] = g[k - 1] + FixedSize(types[k])
              /\ required_buffer_size(types) = g[n]
  BY SizeSteps
<1>. HIDE DEF n, s
<1>5. \A i \in 1..n : s[i] \in Bytes /\ Len(s[i]) = FixedSize(types[i])
  <2>. SUFFICES ASSUME NEW i \in 1..n PROVE s[i] \in Bytes /\ Len(s[i]) = FixedSize(types[i])
    OBVIOUS
  <2>1. types[i] \in Types /\ Holds(types[i], v[i]) /\ types[i].kind # "vector"
    BY <1>2
  <2>2. s[i] = Written(types[i], v[i])
    BY <1>3
  <2>3. types[i].kind \in {"scalar", "array", "vector"}
    BY <2>1, FixedSizes
  <2>. DEFINE t == types[i]
              x == v[i]
  <2>. HIDE DEF t, x
  <2>4. t \in Types /\ Holds(t, x)
    BY <2>1 DEF t, x
  <2>5. /\ Written(t, x) \in Bytes
        /\ t.kind = "scalar" => Len(Written(t, x)) = FixedSize(t)
        /\ t.kind = "array" => Len(Written(t, x)) = FixedSize(t)
    BY <2>4, WrittenReadsBack
  <2>. QED BY <2>1, <2>2, <2>3, <2>5 DEF t, x
<1>6. PICK h : Flattens(Byte, s, h)
  BY <1>3, BlocksOfBytes, FlattenSteps
<1>7. /\ h \in [0..n -> Bytes] /\ h[0] = <<>>
      /\ \A k \in 1..n : h[k] = Cat(h[k - 1], s[k])
      /\ FlattenSeq(s) = h[n]
  BY <1>3, <1>6, Zenon DEF Flattens, Cat, Bytes
<1>. DEFINE N == {k \in 0..n : Len(h[k]) = g[k]}
<1>8. 0 \in N
  BY <1>1, <1>4, <1>7, EmptyBytes
<1>9. \A k \in 1..n : k - 1 \in N => k \in N
  <2>. SUFFICES ASSUME NEW k \in 1..n, Len(h[k - 1]) = g[k - 1] PROVE Len(h[k]) = g[k]
    BY <1>1
  <2>1. h[k - 1] \in Bytes /\ s[k] \in Bytes
    BY <1>1, <1>5, <1>7
  <2>2. Len(h[k]) = Len(h[k - 1]) + Len(s[k])
    BY <2>1, <1>7, CatBytes
  <2>. QED BY <2>2, <1>4, <1>5
<1>10. n \in N
  <2>1. n \in Nat
    BY <1>1
  <2>. HIDE DEF N
  <2>2. \A k \in 0..n : k \in N
    BY <2>1, <1>8, <1>9, UpTo, Zenon
  <2>. QED BY <2>1, <2>2
<1>. QED BY <1>4, <1>7, <1>10 DEF BytesOf, s
\* The values up to one of them.
LEMMA BlockedPrefix ==
    ASSUME NEW types \in Seq(Types), NEW v, Fit(types, v), NEW k \in 0..Len(types)
    PROVE  /\ SubSeq(types, 1, k) \in Seq(Types) /\ Len(SubSeq(types, 1, k)) = k
           /\ \A i \in 1..k : SubSeq(types, 1, k)[i] = types[i]
           /\ Fit(SubSeq(types, 1, k), v)
           /\ Blocked(SubSeq(types, 1, k), v) = SubSeq(Blocked(types, v), 1, k)
<1>. DEFINE n == Len(types)
            p == SubSeq(types, 1, k)
            s == Blocked(types, v)
            q == SubSeq(s, 1, k)
<1>1. n \in Nat /\ DOMAIN types = 1..n /\ \A i \in 1..n : types[i] \in Types /\ Holds(types[i], v[i])
  BY DEF Fit
<1>2. p \in Seq(Types) /\ Len(p) = k /\ \A i \in 1..k : p[i] = types[i]
  <2>1. \A i \in 1..k : types[i] \in Types /\ 1 + i - 1 = i
    BY <1>1
  <2>2. p \in Seq(Types) /\ Len(p) = k /\ \A i \in 1..k : p[i] = types[1 + i - 1]
    BY <2>1, SubSeqProperties
  <2>. HIDE DEF p
  <2>. QED BY <2>1, <2>2
<1>3. s \in Seq(Bytes) /\ Len(s) = n /\ \A i \in 1..n : s[i] = Written(types[i], v[i])
  BY BlockedType
<1>. HIDE DEF s
<1>4. q \in Seq(Bytes) /\ Len(q) = k /\ \A i \in 1..k : q[i] = Written(types[i], v[i])
  <2>1. \A i \in 1..k : s[i] \in Bytes /\ 1 + i - 1 = i /\ i \in 1..n
    BY <1>1, <1>3
  <2>2. q \in Seq(Bytes) /\ Len(q) = k /\ \A i \in 1..k : q[i] = s[1 + i - 1]
    BY <2>1, SubSeqProperties
  <2>. HIDE DEF q
  <2>. QED BY <2>1, <2>2, <1>3
<1>. HIDE DEF p, q, n
<1>5. Fit(p, v)
  <2>1. DOMAIN p = 1..k
    BY <1>2
  <2>. QED BY <2>1, <1>1, <1>2 DEF n, Fit
<1>6. Blocked(p, v) \in Seq(Bytes) /\ Len(Blocked(p, v)) = k
      /\ \A i \in 1..k : Blocked(p, v)[i] = Written(types[i], v[i])
  BY <1>2, <1>5, BlockedType
<1>7. Blocked(p, v) = q
  <2>. DEFINE r == Blocked(p, v)
  <2>1. r \in Seq(Bytes) /\ Len(r) = k /\ \A i \in 1..k : r[i] = q[i]
    BY <1>4, <1>6, Zenon
  <2>. HIDE DEF r
  <2>2. r = q
    BY <2>1, <1>4, SeqEqual
  <2>. QED BY <2>2 DEF r
<1>. QED BY <1>2, <1>5, <1>7 DEF p, q, s

\* Scalars are read back from the bytes sent for them: deserialize of
\* serializer_deserializer.hpp and koheron-client.hpp, for any number of them.
THEOREM ScalarsReadBack ==
    ASSUME NEW types \in Seq(Types), NEW v, Typed(types, v),
           \A i \in DOMAIN types : types[i].kind = "scalar"
    PROVE  /\ Len(BytesOf(types, v)) = required_buffer_size(types)
           /\ deserialize(types, BytesOf(types, v)) = v
<1>. DEFINE n == Len(types)
            s == Blocked(types, v)
            b == BytesOf(types, v)
            from(i) == required_buffer_size(SubSeq(types, 1, i - 1))
<1>1. n \in Nat /\ DOMAIN types = 1..n
  OBVIOUS
<1>2. Fit(types, v) /\ v = [i \in 1..n |-> v[i]]
  BY <1>1 DEF Fit, Typed
<1>3. \A i \in 1..n : types[i] \in Types /\ Holds(types[i], v[i]) /\ types[i].kind = "scalar"
  BY <1>1, <1>2 DEF Fit
<1>4. s \in Seq(Bytes) /\ Len(s) = n /\ \A i \in 1..n : s[i] = Written(types[i], v[i])
  BY <1>2, BlockedType
<1>5. \A i \in 1..n : extract(types[i].T, SubSeq(b, from(i) + 1, from(i) + SizeOf[types[i].T])) = v[i]
  <2>. SUFFICES ASSUME NEW i \in 1..n
                PROVE  extract(types[i].T, SubSeq(b, from(i) + 1, from(i) + SizeOf[types[i].T])) = v[i]
    OBVIOUS
  <2>. DEFINE a == SubSeq(s, 1, i - 1)
              p == SubSeq(types, 1, i - 1)
  <2>1. Len(s[i]) = SizeOf[types[i].T] /\ extract(types[i].T, s[i]) = v[i]
    BY <1>3, <1>4, WrittenReadsBack
  <2>2. SubSeq(b, Len(FlattenSeq(a)) + 1, Len(FlattenSeq(a)) + Len(s[i])) = s[i]
    <3>. HIDE DEF s
    <3>1. i \in 1..Len(s)
      BY <1>4
    <3>2. SubSeq(FlattenSeq(s), Len(FlattenSeq(a)) + 1, Len(FlattenSeq(a)) + Len(s[i])) = s[i]
      BY <3>1, <1>4, FlattenAt
    <3>. QED BY <3>2, Zenon DEF BytesOf, s
  <2>3. Len(FlattenSeq(a)) = from(i)
    <3>1. i - 1 \in 0..Len(types)
      BY <1>1
    <3>2. /\ p \in Seq(Types) /\ Len(p) = i - 1 /\ \A k \in 1..(i - 1) : p[k] = types[k]
          /\ Fit(p, v) /\ Blocked(p, v) = a
      BY <3>1, <1>2, BlockedPrefix
    <3>3. \A k \in DOMAIN p : p[k].kind # "vector"
      <4>. HIDE DEF p, n
      <4>1. DOMAIN p = 1..(i - 1)
        BY <3>2
      <4>. QED BY <4>1, <1>3, <1>1, <3>2
    <3>. HIDE DEF p, a
    <3>4. Len(BytesOf(p, v)) = required_buffer_size(p)
      BY <3>2, <3>3, SizeIsLength
    <3>. QED BY <3>2, <3>4, Zenon DEF BytesOf, p
  <2>. HIDE DEF from, a, b
  <2>4. SubSeq(b, from(i) + 1, from(i) + SizeOf[types[i].T]) = s[i]
    BY <2>1, <2>2, <2>3, Zenon
  <2>. QED BY <2>1, <2>4, Zenon
<1>6. deserialize(types, b) = [i \in 1..n |->
          extract(types[i].T, SubSeq(b, from(i) + 1, from(i) + SizeOf[types[i].T]))]
  BY <1>1, Zenon DEF deserialize
<1>7. deserialize(types, b) = v
  <2>. HIDE DEF b, n, from
  <2>. QED BY <1>2, <1>5, <1>6, Zenon
<1>8. Len(b) = required_buffer_size(types)
  <2>1. \A i \in DOMAIN types : types[i].kind # "vector"
    BY <1>1, <1>3
  <2>. QED BY <1>2, <2>1, SizeIsLength
<1>. QED BY <1>7, <1>8

\* What command_serializer makes of the values, pack by pack, is what is sent for
\* each of them, one after the other.
LEMMA Serialized ==
    ASSUME NEW types \in Seq(Types), NEW v, Fit(types, v)
    PROVE  command_serializer(types, v) = BytesOf(types, v)
<1>. DEFINE n == Len(types)
            w == Blocked(types, v)
            V == [buffer : Bytes, pack : Bytes]
            b == [buffer |-> <<>>, pack |-> <<>>]
            dump(t, x) == IF t.kind = "array" THEN dump_array_to_buffer(t, x)
                          ELSE dump_container_to_buffer(t, x)
            next(s, i) == IF types[i].kind = "scalar"
                          THEN [s EXCEPT !.pack = @ \o append(types[i].T, v[i])]
                          ELSE [buffer |-> s.buffer \o s.pack \o dump(types[i], v[i]), pack |-> <<>>]
            F == [x \in V \X (1..n) |-> next(x[1], x[2])]
            ids == [i \in DOMAIN types |-> i]
            Step(h) == [s \in SUBSET (DOMAIN ids) |->
                          IF s = {} THEN b ELSE next(h[s \ {Max(s)}], ids[Max(s)])]
            f == CHOOSE h : h = Step(h)
<1>1. /\ n \in Nat /\ DOMAIN types = 1..n /\ DOMAIN ids = 1..n
      /\ \A i \in 1..n : ids[i] = i
  OBVIOUS
<1>2. w \in Seq(Bytes) /\ Len(w) = n /\ \A i \in 1..n : w[i] = Written(types[i], v[i]) /\ w[i] \in Bytes
  <2>1. w \in Seq(Bytes) /\ Len(w) = n /\ \A i \in 1..n : w[i] = Written(types[i], v[i])
    BY BlockedType
  <2>. HIDE DEF w
  <2>. QED BY <2>1
<1>. HIDE DEF w
<1>3. ASSUME NEW s \in V, NEW i \in 1..n
      PROVE  /\ next(s, i) \in V
             /\ Cat(next(s, i).buffer, next(s, i).pack) = Cat(Cat(s.buffer, s.pack), w[i])
  <2>0. s.buffer \in Bytes /\ s.pack \in Bytes /\ w[i] \in Bytes
        /\ s = [buffer |-> s.buffer, pack |-> s.pack]
    BY <1>2
  <2>1. CASE types[i].kind = "scalar"
    <3>1. w[i] = append(types[i].T, v[i])
      BY <2>1, <1>2, Zenon DEF Written
    <3>2. next(s, i) = [buffer |-> s.buffer, pack |-> Cat(s.pack, w[i])]
      <4>1. next(s, i) = [s EXCEPT !.pack = Cat(s.pack, w[i])]
        BY <2>1, <3>1, Zenon DEF Cat
      <4>. HIDE DEF next
      <4>. QED BY <4>1, <2>0
    <3>. HIDE DEF next
    <3>3. Cat(s.pack, w[i]) \in Bytes
          /\ Cat(s.buffer, Cat(s.pack, w[i])) = Cat(Cat(s.buffer, s.pack), w[i])
      BY <2>0, CatBytes, CatAssociative
    <3>. QED BY <2>0, <3>2, <3>3
  <2>2. CASE types[i].kind # "scalar"
    <3>1. w[i] = dump(types[i], v[i])
      <4>1. types[i] \in Types
        OBVIOUS
      <4>2. types[i].kind \in {"array", "vector"}
        BY <4>1, <2>2, FixedSizes
      <4>. QED BY <4>2, <1>2 DEF Written
    <3>2. next(s, i) = [buffer |-> Cat(Cat(s.buffer, s.pack), w[i]), pack |-> <<>>]
      <4>. HIDE DEF dump
      <4>. QED BY <2>2, <3>1, Zenon DEF Cat
    <3>. HIDE DEF next
    <3>3. Cat(Cat(s.buffer, s.pack), w[i]) \in Bytes
      BY <2>0, CatBytes
    <3>. QED BY <3>2, <3>3, CatEmpty, EmptyBytes
  <2>. QED BY <2>1, <2>2
<1>4. command_serializer(types, v) = f[DOMAIN ids].buffer \o f[DOMAIN ids].pack
  BY Zenon DEF command_serializer, FoldLeftDomain, FoldLeft, MapThenFoldSet
<1>5. b \in V /\ Cat(b.buffer, b.pack) = <<>>
  BY EmptyBytes, CatEmpty
<1>6. F \in [V \X (1..n) -> V] /\ \A s \in V, i \in 1..n : F[<<s, i>>] = next(s, i)
  <2>. HIDE DEF V, n, next
  <2>. QED BY <1>3
<1>. HIDE DEF n, F, ids, b, V, next
<1>7. ByStep(V, n, b, F)
  BY <1>1, <1>5, <1>6 DEF ByStep
<1>8. f = Step(f)
  <2>1. PICK h : Fold(V, n, b, F, h)
    BY <1>7, Folding
  <2>2. /\ h \in [SUBSET (1..n) -> V]
        /\ \A t \in SUBSET (1..n) : h[t] = IF t = {} THEN b ELSE F[<<h[t \ {Max(t)}], Max(t)>>]
    BY <2>1 DEF Fold
  <2>3. ASSUME NEW t \in SUBSET (1..n)
        PROVE  h[t] = IF t = {} THEN b ELSE next(h[t \ {Max(t)}], ids[Max(t)])
    <3>1. CASE t = {}
      BY <2>2, <3>1
    <3>2. CASE t # {}
      <4>1. Max(t) \in 1..n /\ t \ {Max(t)} \in SUBSET (1..n)
        BY <1>1, <3>2, LargestIn
      <4>2. h[t \ {Max(t)}] \in V
        BY <4>1, <2>2
      <4>3. h[t] = F[<<h[t \ {Max(t)}], Max(t)>>]
        BY <2>2, <3>2
      <4>4. F[<<h[t \ {Max(t)}], Max(t)>>] = next(h[t \ {Max(t)}], Max(t))
        BY <4>1, <4>2, <1>6, Zenon
      <4>5. ids[Max(t)] = Max(t)
        BY <4>1, <1>1
      <4>. QED BY <3>2, <4>3, <4>4, <4>5, Zenon
    <3>. QED BY <3>1, <3>2
  <2>4. h = Step(h)
    BY <2>2, <2>3, <1>1
  <2>. QED BY <2>4
<1>. HIDE DEF f
<1>9. PICK g : Stepwise(V, n, b, F, g)
  BY <1>7, Recursion
<1>10. /\ g \in [0..n -> V] /\ g[0] = b
       /\ \A k \in 1..n : g[k - 1] \in V /\ g[k] = next(g[k - 1], k)
  <2>1. g \in [0..n -> V] /\ g[0] = b /\ \A k \in 1..n : g[k] = F[<<g[k - 1], k>>]
    BY <1>9 DEF Stepwise
  <2>2. \A k \in 1..n : g[k - 1] \in V
    BY <2>1, <1>1
  <2>. QED BY <2>1, <2>2, <1>6
<1>11. PICK p : Flattens(Byte, w, p)
  BY <1>2, BlocksOfBytes, FlattenSteps
<1>12. /\ p \in [0..n -> Bytes] /\ p[0] = <<>>
       /\ \A k \in 1..n : p[k] = Cat(p[k - 1], w[k])
       /\ FlattenSeq(w) = p[n]
  BY <1>2, <1>11, Zenon DEF Flattens, Cat, Bytes
<1>. DEFINE N == {k \in 0..n : f[1..k] = g[k] /\ Cat(g[k].buffer, g[k].pack) = p[k]}
<1>13. 0 \in N
  <2>1. 1..0 = {} /\ 1..0 \in SUBSET (1..n)
    OBVIOUS
  <2>. QED BY <2>1, <1>1, <1>5, <1>8, <1>10, <1>12
<1>14. \A k \in 1..n : k - 1 \in N => k \in N
  <2>. SUFFICES ASSUME NEW k \in 1..n, f[1..(k - 1)] = g[k - 1],
                       Cat(g[k - 1].buffer, g[k - 1].pack) = p[k - 1]
                PROVE  f[1..k] = g[k] /\ Cat(g[k].buffer, g[k].pack) = p[k]
    BY <1>1
  <2>1. /\ Max(1..k) = k /\ (1..k) \ {k} = 1..(k - 1)
        /\ 1..k \in SUBSET (1..n) /\ 1..k # {}
    <3>1. n \in Nat
      BY <1>1
    <3>. QED BY <3>1, FirstNumbers, Zenon
  <2>2. f[1..k] = next(f[(1..k) \ {Max(1..k)}], ids[Max(1..k)])
    BY <1>1, <1>8, <2>1
  <2>3. f[1..k] = g[k]
    <3>1. ids[k] = k
      BY <1>1
    <3>2. f[1..k] = next(g[k - 1], k)
      BY <2>1, <2>2, <3>1, Zenon
    <3>. QED BY <3>2, <1>10
  <2>4. g[k - 1] \in V /\ g[k] = next(g[k - 1], k)
    BY <1>10
  <2>. QED BY <2>3, <2>4, <1>3, <1>12
<1>15. n \in N
  <2>1. n \in Nat
    BY <1>1
  <2>. HIDE DEF N
  <2>2. \A k \in 0..n : k \in N
    BY <2>1, <1>13, <1>14, UpTo, Zenon
  <2>. QED BY <2>1, <2>2
<1>. QED BY <1>1, <1>4, <1>12, <1>15 DEF BytesOf, w, Cat

\* Every type takes a byte at least.
LEMMA SizeAtLeast ==
    ASSUME NEW types \in Seq(Types)
    PROVE  /\ required_buffer_size(types) \in Nat /\ Len(types) \in Nat
           /\ required_buffer_size(types) >= Len(types)
           /\ Len(types) = 1 => required_buffer_size(types) = FixedSize(types[1])
<1>. DEFINE n == Len(types)
<1>1. n \in Nat /\ \A i \in 1..n : types[i] \in Types
  OBVIOUS
<1>2. PICK g \in [0..n -> Nat] :
              /\ g[0] = 0 /\ \A k \in 1..n : g[k] = g[k - 1] + FixedSize(types[k])
              /\ required_buffer_size(types) = g[n]
  BY SizeSteps
<1>3. \A i \in 1..n : FixedSize(types[i]) \in Nat \ {0}
  BY <1>1, FixedSizes
<1>. HIDE DEF n
<1>4. n = 1 => required_buffer_size(types) = FixedSize(types[1])
  <2>. SUFFICES ASSUME n = 1 PROVE g[1] = FixedSize(types[1])
    BY <1>2
  <2>1. 1 \in 1..n /\ 1 - 1 = 0
    BY <1>1
  <2>2. g[1] = g[1 - 1] + FixedSize(types[1]) /\ FixedSize(types[1]) \in Nat
    BY <2>1, <1>2, <1>3
  <2>. QED BY <2>2, <1>2
<1>. DEFINE N == {k \in 0..n : g[k] >= k}
<1>5. 0 \in N
  BY <1>1, <1>2
<1>6. \A k \in 1..n : k - 1 \in N => k \in N
  <2>. SUFFICES ASSUME NEW k \in 1..n, g[k - 1] >= k - 1 PROVE g[k] >= k
    BY <1>1
  <2>1. g[k] = g[k - 1] + FixedSize(types[k]) /\ FixedSize(types[k]) \in Nat \ {0} /\ g[k - 1] \in Nat
    BY <1>1, <1>2, <1>3
  <2>. QED BY <2>1
<1>7. n \in N
  <2>1. n \in Nat
    BY <1>1
  <2>. HIDE DEF N
  <2>2. \A k \in 0..n : k \in N
    BY <2>1, <1>5, <1>6, UpTo, Zenon
  <2>. QED BY <2>1, <2>2
<1>. QED BY <1>1, <1>2, <1>4, <1>7 DEF n
=============================================================================
