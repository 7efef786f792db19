----------------------------- MODULE WireProofs -----------------------------
(***************************************************************************)
(* The protocol of calls, for any clients, operations, types and values:   *)
(* client and session stay in step (InStep), and each call runs once, on   *)
(* its own arguments, and gets its own result (Wire implements             *)
(* RemoteCalls).                                                           *)
(*                                                                         *)
(* The invariant says where in the stream of the requests' bytes a session *)
(* is, and where in that of the replies a client is; to keep it is to know *)
(* that the parts a pack of arguments, a vector or a reply is sent in are  *)
(* those that it is read in.                                               *)
(***************************************************************************)
EXTENDS Wire, CodecProofs

-----------------------------------------------------------------------------
(* The packs in which the arguments of an operation are read. *)

\* Types that are read as a pack: scalars, or one array or vector.
IsPack(p) ==
    /\ p \in Seq(Types) /\ p # <<>>
    /\ (\A i \in DOMAIN p : p[i].kind = "scalar") \/ (Len(p) = 1 /\ p[1].kind # "scalar")

\* Several of them; and these with one more type (build_args_packs adds it).
ListsOfPacks == {P \in Seq(Seq(Types)) : \A i \in 1..Len(P) : IsPack(P[i])}

AddType(P, t) ==
    IF P # <<>> /\ t.kind = "scalar" /\ Last(Last(P)).kind = "scalar"
    THEN Append(Front(P), Append(Last(P), t))
    ELSE Append(P, <<t>>)

\* A type is added to the last pack or as a pack of its own.
LEMMA AddedType ==
    ASSUME NEW P \in ListsOfPacks, NEW t \in Types
    PROVE  AddType(P, t) \in ListsOfPacks /\ FlattenSeq(AddType(P, t)) = Append(FlattenSeq(P), t)
<1>. DEFINE n == Len(P)
            p == P[n]
            f == SubSeq(P, 1, n - 1)
            V == Seq(Types)
            tt == <<t>>
<1>1. P \in Seq(V) /\ n \in Nat /\ \A i \in 1..n : IsPack(P[i]) /\ P[i] \in V
  BY DEF ListsOfPacks
<1>2. tt \in V /\ IsPack(tt)
  BY DEF IsPack
<1>3. \A x \in V : Append(x, t) = Cat(x, tt) /\ Cat(x, tt) \in V
  BY DEF Cat
<1>4. \A x, y \in V : Cat(Cat(x, y), tt) = Cat(x, Cat(y, tt))
  BY DEF Cat
<1>. HIDE DEF tt
<1>5. Blocks(Types, P) /\ FlattenSeq(P) \in V
  BY <1>1, FlattenType DEF Blocks
<1>6. CASE P # <<>> /\ t.kind = "scalar" /\ Last(Last(P)).kind = "scalar"
  <2>1. n \in 1..n /\ n - 1 \in Nat
    BY <1>1, <1>6, EmptySeq
  <2>2. /\ f \in Seq(V) /\ p \in V /\ P = Append(f, p) /\ Len(f) = n - 1
        /\ \A i \in 1..(n - 1) : f[i] = P[i]
    <3>1. P = SubSeq(P, 1, n)
      BY <1>1, SubSeqFull
    <3>2. \A i \in 1..(n - 1) : P[i] \in V /\ 1 + i - 1 = i
      BY <1>1, <2>1
    <3>3. f \in Seq(V) /\ p \in V /\ Len(f) = n - 1 /\ SubSeq(P, 1, n) = Append(f, p)
      BY <1>1, <2>1, UpToOne
    <3>4. \A i \in 1..(n - 1) : f[i] = P[1 + i - 1]
      BY <2>1, <3>2, SubSeqProperties
    <3>. HIDE DEF f, p, n
    <3>. QED BY <3>1, <3>2, <3>3, <3>4
  <2>3. IsPack(p) /\ Last(Last(P)) = p[Len(p)]
    BY <1>1, <2>1 DEF Last
  <2>. HIDE DEF p
  <2>4. /\ Len(p) \in Nat \ {0} /\ Append(p, t) \in V /\ Append(p, t) # <<>>
        /\ Len(Append(p, t)) = Len(p) + 1 /\ Append(p, t)[Len(p) + 1] = t
        /\ \A i \in 1..Len(p) : Append(p, t)[i] = p[i]
    BY <2>2, <2>3 DEF IsPack
  <2>5. \A i \in 1..Len(p) : p[i].kind = "scalar"
    <3>1. p[Len(p)].kind = "scalar"
      BY <1>6, <2>3
    <3>. QED BY <2>3, <2>4, <3>1 DEF IsPack
  <2>6. IsPack(Append(p, t))
    <3>. DEFINE q == Append(p, t)
    <3>1. DOMAIN q = 1..(Len(p) + 1)
      BY <2>4
    <3>. HIDE DEF q
    <3>2. \A i \in DOMAIN q : q[i].kind = "scalar"
      <4>. SUFFICES ASSUME NEW i \in 1..(Len(p) + 1) PROVE q[i].kind = "scalar"
        BY <3>1
      <4>1. CASE i = Len(p) + 1
        BY <4>1, <2>4, <1>6 DEF q
      <4>2. CASE i # Len(p) + 1
        <5>1. i \in 1..Len(p)
          BY <4>2, <2>4
        <5>. QED BY <5>1, <2>4, <2>5 DEF q
      <4>. QED BY <4>1, <4>2
    <3>. QED BY <2>4, <3>2 DEF q, IsPack
  <2>7. AddType(P, t) = Append(f, Append(p, t))
    BY <1>6, Zenon DEF AddType, Front, Last, p
  <2>. HIDE DEF f, n
  <2>8. Append(f, Append(p, t)) \in ListsOfPacks
    <3>. DEFINE q == Append(p, t)
                R == Append(f, q)
    <3>1. q \in V /\ IsPack(q)
      BY <2>4, <2>6
    <3>. HIDE DEF q, V
    <3>2. /\ R \in Seq(V) /\ Len(R) = n /\ R[n] = q
          /\ \A i \in 1..(n - 1) : R[i] = f[i]
      BY <2>1, <2>2, <3>1
    <3>. HIDE DEF R
    <3>3. \A i \in 1..n : IsPack(R[i])
      <4>. SUFFICES ASSUME NEW i \in 1..n PROVE IsPack(R[i])
        OBVIOUS
      <4>1. CASE i = n
        BY <4>1, <3>1, <3>2
      <4>2. CASE i # n
        <5>1. i \in 1..(n - 1)
          BY <4>2, <2>1, <1>1
        <5>. QED BY <5>1, <3>2, <2>2, <1>1
      <4>. QED BY <4>1, <4>2
    <3>. QED BY <3>2, <3>3 DEF ListsOfPacks, R, V, q
  <2>9. FlattenSeq(Append(f, Append(p, t))) = Append(FlattenSeq(P), t)
    <3>1. Blocks(Types, f)
      BY <2>2 DEF Blocks
    <3>2. FlattenSeq(Append(f, Append(p, t))) = Cat(FlattenSeq(f), Append(p, t))
      BY <2>4, <3>1, FlattenAppend, Zenon
    <3>3. FlattenSeq(P) = Cat(FlattenSeq(f), p)
      BY <2>2, <3>1, FlattenAppend, Zenon
    <3>4. FlattenSeq(f) \in V
      BY <3>1, FlattenType, Zenon
    <3>5. Append(p, t) = Cat(p, tt) /\ Append(FlattenSeq(P), t) = Cat(FlattenSeq(P), tt)
      BY <1>3, <1>5, <2>2, Zenon
    <3>6. Cat(Cat(FlattenSeq(f), p), tt) = Cat(FlattenSeq(f), Cat(p, tt))
      BY <1>4, <2>2, <3>4, Zenon
    <3>. QED BY <3>2, <3>3, <3>5, <3>6, Zenon
  <2>. QED BY <2>7, <2>8, <2>9
<1>7. CASE ~(P # <<>> /\ t.kind = "scalar" /\ Last(Last(P)).kind = "scalar")
  <2>1. AddType(P, t) = Append(P, tt)
    BY <1>7, Zenon DEF AddType, tt
  <2>2. Append(P, tt) \in ListsOfPacks
    <3>. DEFINE R == Append(P, tt)
    <3>. HIDE DEF V
    <3>1. /\ R \in Seq(V) /\ Len(R) = n + 1 /\ R[n + 1] = tt
          /\ \A i \in 1..n : R[i] = P[i]
      BY <1>1, <1>2
    <3>. HIDE DEF R, n
    <3>2. \A i \in 1..(n + 1) : IsPack(R[i])
      <4>. SUFFICES ASSUME NEW i \in 1..(n + 1) PROVE IsPack(R[i])
        OBVIOUS
      <4>1. CASE i = n + 1
        BY <4>1, <3>1, <1>2
      <4>2. CASE i # n + 1
        <5>1. i \in 1..n
          BY <4>2, <1>1
        <5>. QED BY <5>1, <3>1, <1>1
      <4>. QED BY <4>1, <4>2
    <3>. QED BY <3>1, <3>2 DEF ListsOfPacks, R, V
  <2>3. FlattenSeq(Append(P, tt)) = Cat(FlattenSeq(P), tt)
    BY <1>2, <1>5, FlattenAppend, Zenon
  <2>. QED BY <1>3, <1>5, <2>1, <2>2, <2>3, Zenon
<1>. QED BY <1>6, <1>7

\* The packs of an operation, one after the other, are its arguments.
LEMMA PacksAreArguments ==
    ASSUME NEW op \in Ops
    PROVE  /\ build_args_packs(op) \in ListsOfPacks
           /\ FlattenSeq(build_args_packs(op)) = Args(op)
<1>. DEFINE types == Args(op)
            n == Len(types)
            V == ListsOfPacks
            F == [x \in V \X (1..n) |-> AddType(x[1], types[x[2]])]
            Step(h) == [s \in SUBSET (1..n) |->
                          IF s = {} THEN <<>> ELSE AddType(h[s \ {Max(s)}], types[Max(s)])]
            f == CHOOSE h : h = Step(h)
<1>1. types \in Seq(Types)
  BY TypesAssumption
<1>2. n \in Nat /\ DOMAIN types = 1..n /\ \A i \in 1..n : types[i] \in Types
  BY <1>1
<1>3. build_args_packs(op) = f[1..n]
  BY <1>2, Zenon DEF build_args_packs, FoldLeft, MapThenFoldSet, AddType
<1>4. <<>> \in V
  BY DEF ListsOfPacks
<1>5. F \in [V \X (1..n) -> V]
  <2>. HIDE DEF V, n, types
  <2>. QED BY <1>2, AddedType DEF V
<1>6. \A s \in V, i \in 1..n : F[<<s, i>>] = AddType(s, types[i])
  <2>. HIDE DEF V, n, types
  <2>. QED OBVIOUS
<1>. HIDE DEF n, F, V, types
<1>7. ByStep(V, n, <<>>, F)
  BY <1>2, <1>4, <1>5 DEF ByStep
<1>8. f = Step(f)
  <2>1. PICK h : Fold(V, n, <<>>, F, h)
    BY <1>7, Folding
  <2>2. /\ h \in [SUBSET (1..n) -> V]
        /\ \A t \in SUBSET (1..n) : h[t] = IF t = {} THEN <<>> ELSE F[<<h[t \ {Max(t)}], Max(t)>>]
    BY <2>1 DEF Fold
  <2>3. ASSUME NEW t \in SUBSET (1..n)
        PROVE  h[t] = IF t = {} THEN <<>> ELSE AddType(h[t \ {Max(t)}], types[Max(t)])
    <3>1. CASE t = {}
      BY <2>2, <3>1
    <3>2. CASE t # {}
      <4>1. Max(t) \in 1..n /\ t \ {Max(t)} \in SUBSET (1..n)
        BY <1>2, <3>2, LargestIn
      <4>2. h[t \ {Max(t)}] \in V
        BY <4>1, <2>2
      <4>. QED BY <3>2, <4>1, <4>2, <2>2, <1>6
    <3>. QED BY <3>1, <3>2
  <2>4. h = Step(h)
    BY <2>2, <2>3
  <2>. QED BY <2>4
<1>. HIDE DEF f
<1>9. PICK g : Stepwise(V, n, <<>>, F, g)
  BY <1>7, Recursion
<1>10. /\ g \in [0..n -> V] /\ g[0] = <<>>
       /\ \A k \in 1..n : g[k - 1] \in V /\ g[k] = AddType(g[k - 1], types[k])
  <2>1. g \in [0..n -> V] /\ g[0] = <<>> /\ \A k \in 1..n : g[k] = F[<<g[k - 1], k>>]
    BY <1>9 DEF Stepwise
  <2>2. \A k \in 1..n : g[k - 1] \in V
    BY <2>1, <1>2
  <2>. QED BY <2>1, <2>2, <1>6
<1>. DEFINE Good(k) == f[1..k] = g[k] /\ FlattenSeq(g[k]) = SubSeq(types, 1, k)
            N == {k \in 0..n : Good(k)}
<1>11. 0 \in N
  <2>1. 1..0 = {} /\ 1..0 \in SUBSET (1..n)
    OBVIOUS
  <2>2. SubSeq(types, 1, 0) = <<>>
    BY SubSeqEmpty
  <2>3. f[1..0] = <<>>
    BY <2>1, <1>8
  <2>4. f[1..0] = g[0] /\ FlattenSeq(g[0]) = SubSeq(types, 1, 0)
    BY <2>2, <2>3, <1>10, FlattenEmpty
  <2>. QED BY <2>4, <1>2
<1>12. \A k \in 1..n : k - 1 \in N => k \in N
  <2>. SUFFICES ASSUME NEW k \in 1..n, Good(k - 1) PROVE Good(k)
    <3>. HIDE DEF Good
    <3>. QED BY <1>2
  <2>1. /\ Max(1..k) = k /\ (1..k) \ {k} = 1..(k - 1)
        /\ 1..k \in SUBSET (1..n) /\ 1..k # {}
    <3>1. n \in Nat
      BY <1>2
    <3>. QED BY <3>1, FirstNumbers, Zenon
  <2>2. f[1..k] = AddType(f[(1..k) \ {Max(1..k)}], types[Max(1..k)])
    BY <1>8, <2>1
  <2>3. f[1..k] = g[k]
    BY <2>1, <2>2, <1>10
  <2>4. g[k - 1] \in ListsOfPacks /\ types[k] \in Types /\ g[k] = AddType(g[k - 1], types[k])
    BY <1>2, <1>10 DEF V
  <2>5. FlattenSeq(g[k]) = Append(FlattenSeq(g[k - 1]), types[k])
    BY <2>4, AddedType
  <2>6. SubSeq(types, 1, k) = Append(SubSeq(types, 1, k - 1), types[k])
    BY <1>1, UpToOne DEF n
  <2>. QED BY <2>3, <2>5, <2>6
<1>13. n \in N
  <2>1. n \in Nat
    BY <1>2
  <2>. HIDE DEF N
  <2>2. \A k \in 0..n : k \in N
    BY <2>1, <1>11, <1>12, UpTo, Zenon
  <2>. QED BY <2>1, <2>2
<1>14. SubSeq(types, 1, n) = types
  BY <1>1, SubSeqFull DEF n
<1>15. g[n] \in V
  BY <1>2, <1>10
<1>. QED BY <1>3, <1>13, <1>14, <1>15 DEF V, types

\* One pack of them.
LEMMA OnePack ==
    ASSUME NEW op \in Ops, NEW k \in 1..Packs(op)
    PROVE  LET p == build_args_packs(op)[k]
               m == Before(op, k)
           IN  /\ IsPack(p) /\ Len(p) \in Nat \ {0} /\ m \in Nat
               /\ Before(op, k + 1) = m + Len(p) /\ m + Len(p) <= Len(Args(op))
               /\ \A i \in 1..Len(p) : p[i] = Args(op)[m + i]
<1>. DEFINE P == build_args_packs(op)
            p == P[k]
            a == SubSeq(P, 1, k - 1)
            b == SubSeq(P, k + 1, Len(P))
            m == Before(op, k)
            A == Args(op)
<1>1. /\ P \in Seq(Seq(Types)) /\ IsPack(p) /\ k \in 1..Len(P)
  BY PacksAreArguments DEF ListsOfPacks, Packs
<1>2. p \in Seq(Types) /\ Len(p) \in Nat \ {0}
  BY <1>1, EmptySeq DEF IsPack
<1>0. FlattenSeq(P) = A
  BY PacksAreArguments
<1>. HIDE DEF P
<1>3. /\ Blocks(Types, a) /\ FlattenSeq(a) \in Seq(Types) /\ FlattenSeq(b) \in Seq(Types)
      /\ FlattenSeq(P) = Cat(FlattenSeq(a), Cat(p, FlattenSeq(b)))
      /\ SubSeq(P, 1, k) = Append(a, p)
  BY <1>1, FlattenSplit, UpToOne
<1>4. m = Len(FlattenSeq(a)) /\ k + 1 - 1 = k
  BY DEF Before, P
<1>. HIDE DEF p, a, b, A
<1>5. Before(op, k + 1) = m + Len(p)
  <2>1. FlattenSeq(Append(a, p)) = Cat(FlattenSeq(a), p)
    BY <1>2, <1>3, FlattenAppend, Zenon
  <2>2. Before(op, k + 1) = Len(FlattenSeq(SubSeq(P, 1, k)))
    BY <1>4 DEF Before, P
  <2>3. Len(Cat(FlattenSeq(a), p)) = Len(FlattenSeq(a)) + Len(p)
    BY <1>2, <1>3, Joined DEF Cat
  <2>. QED BY <1>3, <1>4, <2>1, <2>2, <2>3
<1>. DEFINE fa == FlattenSeq(a)
            fb == FlattenSeq(b)
            c == Cat(p, fb)
<1>6. fa \in Seq(Types) /\ fb \in Seq(Types) /\ A = Cat(fa, c) /\ m = Len(fa)
  BY <1>0, <1>3, <1>4
<1>. HIDE DEF fa, fb, m
<1>7. /\ c \in Seq(Types) /\ Len(c) = Len(p) + Len(fb)
      /\ \A i \in 1..Len(p) : c[i] = p[i]
  BY <1>2, <1>6, Joined DEF Cat
<1>. HIDE DEF c
<1>8. /\ Len(A) = m + Len(c)
      /\ \A i \in 1..Len(c) : A[m + i] = c[i]
  <2>1. /\ Len(fa \o c) = Len(fa) + Len(c)
        /\ \A i \in 1..Len(c) : (fa \o c)[Len(fa) + i] = c[i]
    <3>1. fa \in Seq(Types) /\ c \in Seq(Types)
      BY <1>6, <1>7
    <3>. QED BY <3>1, Joined
  <2>. QED BY <2>1, <1>6, Zenon DEF Cat
<1>9. m \in Nat /\ Len(fb) \in Nat
  BY <1>6
<1>10. m + Len(p) <= Len(A)
  BY <1>2, <1>7, <1>8, <1>9
<1>11. \A i \in 1..Len(p) : p[i] = A[m + i]
  BY <1>2, <1>7, <1>8, <1>9
<1>. QED BY <1>1, <1>2, <1>5, <1>9, <1>10, <1>11 DEF p, P, m, A

\* The arguments before the first pack and before the end.
LEMMA BeforeAll ==
    ASSUME NEW op \in Ops
    PROVE  /\ Packs(op) \in Nat /\ Before(op, 1) = 0 /\ Before(op, Packs(op) + 1) = Len(Args(op))
           /\ \A k \in 1..(Packs(op) + 1) : Before(op, k) \in 0..Len(Args(op))
<1>. DEFINE P == build_args_packs(op)
            n == Packs(op)
<1>1. P \in Seq(Seq(Types)) /\ FlattenSeq(P) = Args(op) /\ Args(op) \in Seq(Types)
  BY PacksAreArguments, TypesAssumption DEF ListsOfPacks
<1>2. n \in Nat /\ n = Len(P)
  BY <1>1 DEF Packs
<1>. HIDE DEF P
<1>3. Before(op, 1) = 0
  <2>1. SubSeq(P, 1, 1 - 1) = <<>>
    BY SubSeqEmpty
  <2>2. Before(op, 1) = Len(FlattenSeq(SubSeq(P, 1, 1 - 1)))
    BY Zenon DEF Before, P
  <2>3. Before(op, 1) = Len(FlattenSeq(<<>>))
    BY <2>1, <2>2, Zenon
  <2>4. Before(op, 1) = Len(<<>>)
    BY <2>3, FlattenEmpty, Zenon
  <2>. QED BY <2>4
<1>4. Before(op, n + 1) = Len(Args(op))
  <2>. HIDE DEF n
  <2>1. SubSeq(P, 1, n) = P
    BY <1>1, <1>2, SubSeqFull
  <2>. DEFINE m == n + 1
  <2>2. m - 1 = n
    BY <1>2
  <2>. HIDE DEF m
  <2>3. Before(op, m) = Len(FlattenSeq(SubSeq(P, 1, m - 1)))
    BY Zenon DEF Before, P
  <2>4. Before(op, m) = Len(Args(op))
    BY <1>1, <2>1, <2>2, <2>3, Zenon
  <2>. QED BY <2>4 DEF m
<1>5. \A k \in 1..(n + 1) : Before(op, k) \in 0..Len(Args(op))
  <2>. SUFFICES ASSUME NEW k \in 1..(n + 1) PROVE Before(op, k) \in 0..Len(Args(op))
    OBVIOUS
  <2>0. Len(Args(op)) \in Nat
    BY <1>1
  <2>1. CASE k = n + 1
    BY <2>0, <2>1, <1>4
  <2>2. CASE k # n + 1
    <3>1. k \in 1..Packs(op)
      BY <2>2, <1>2
    <3>2. Before(op, k) \in Nat /\ Len(build_args_packs(op)[k]) \in Nat
          /\ Before(op, k) + Len(build_args_packs(op)[k]) <= Len(Args(op))
      BY <3>1, OnePack
    <3>. QED BY <2>0, <3>2
  <2>. QED BY <2>1, <2>2
<1>. QED BY <1>2, <1>3, <1>4, <1>5

\* The values of a pack are of its types.
LEMMA PackFits ==
    ASSUME NEW op \in Ops, NEW k \in 1..Packs(op), NEW v, Typed(Args(op), v)
    PROVE  LET p == build_args_packs(op)[k]
               w == PackOf(op, k, v)
           IN  /\ Typed(p, w) /\ Fit(p, w) /\ DOMAIN w = 1..Len(p) /\ Len(w) = Len(p)
               /\ \A i \in 1..Len(p) : w[i] = v[Before(op, k) + i]
<1>. DEFINE p == build_args_packs(op)[k]
            w == PackOf(op, k, v)
            m == Before(op, k)
            n == Len(Args(op))
            S == {v[i] : i \in 1..n}
<1>1. /\ p \in Seq(Types) /\ Len(p) \in Nat /\ m \in Nat /\ m + Len(p) <= n
      /\ \A i \in 1..Len(p) : p[i] = Args(op)[m + i]
  BY OnePack DEF IsPack
<1>2. n \in Nat /\ DOMAIN Args(op) = 1..n
  BY TypesAssumption
<1>3. v = [i \in 1..n |-> v[i]] /\ \A i \in 1..n : Holds(Args(op)[i], v[i])
  BY <1>2 DEF Typed
<1>. HIDE DEF p, m, n
<1>4. \A i \in (m + 1)..(m + Len(p)) : v[i] \in S
  BY <1>1, <1>2
<1>5. w = SubSeq(v, m + 1, m + Len(p))
  BY DEF PackOf, p, m
<1>. HIDE DEF S, w
<1>6. w \in Seq(S) /\ Len(w) = Len(p) /\ \A i \in 1..Len(p) : w[i] = v[m + i]
  <2>1. /\ m + 1 \in Int /\ m + Len(p) \in Int /\ m + Len(p) - (m + 1) + 1 = Len(p)
        /\ \A i \in 1..Len(p) : m + 1 + i - 1 = m + i
        /\ (m + 1 > m + Len(p)) => Len(p) = 0
    BY <1>1
  <2>2. /\ w \in Seq(S)
        /\ Len(w) = IF m + 1 <= m + Len(p) THEN m + Len(p) - (m + 1) + 1 ELSE 0
        /\ \A i \in 1..(m + Len(p) - (m + 1) + 1) : w[i] = v[m + 1 + i - 1]
    BY <1>1, <1>4, <1>5, SubSeqProperties
  <2>. QED BY <1>1, <2>1, <2>2
<1>7. \A i \in 1..Len(p) : Holds(p[i], w[i])
  <2>. SUFFICES ASSUME NEW i \in 1..Len(p) PROVE Holds(p[i], w[i])
    OBVIOUS
  <2>1. m + i \in 1..n
    BY <1>1, <1>2
  <2>. QED BY <2>1, <1>1, <1>3, <1>6
<1>8. DOMAIN w = 1..Len(p) /\ DOMAIN p = 1..Len(p) /\ w = [i \in 1..Len(p) |-> w[i]]
  BY <1>1, <1>6
<1>9. Typed(p, w) /\ Fit(p, w)
  BY <1>7, <1>8 DEF Typed, Fit
<1>. QED BY <1>6, <1>8, <1>9 DEF p, w, m

-----------------------------------------------------------------------------
(* What is sent for a request, and for the packs of its arguments.          *)

\* The bytes a are the first ones of b.
Begins(a, b) == \E u \in Bytes : b = Cat(a, u)

\* What is sent for some requests; for the arguments of one from its k-th pack
\* on; for its k-th pack; and for the elements of a vector in it.
All(rs) == FlattenSeq([i \in DOMAIN rs |-> Encoded(rs[i])])
SentFrom(op, k, v) ==
    FlattenSeq(SubSeq(Blocked(Args(op), v), Before(op, k) + 1, Len(Args(op))))
SentPack(op, k, v) == BytesOf(build_args_packs(op)[k], PackOf(op, k, v))
Payload(op, k, v) == dump_array_to_buffer(build_args_packs(op)[k][1], PackOf(op, k, v)[1])

\* What is sent from a pack on is all for the first, and nothing at the end.
LEMMA SentFromType ==
    ASSUME NEW op \in Ops, NEW v, Typed(Args(op), v)
    PROVE  /\ \A k \in 1..(Packs(op) + 1) : SentFrom(op, k, v) \in Bytes
           /\ SentFrom(op, 1, v) = command_serializer(Args(op), v)
           /\ SentFrom(op, Packs(op) + 1, v) = <<>>
<1>. DEFINE A == Args(op)
            n == Len(A)
            w == Blocked(A, v)
            q == Packs(op) + 1
<1>1. A \in Seq(Types) /\ Fit(A, v)
  BY TypesAssumption DEF Typed, Fit
<1>2. w \in Seq(Bytes) /\ Len(w) = n /\ n \in Nat
  <2>1. n \in Nat
    BY <1>1
  <2>. QED BY <1>1, <2>1, BlockedType, Zenon
<1>3. /\ Packs(op) \in Nat /\ Before(op, 1) = 0 /\ Before(op, q) = n
      /\ \A k \in 1..q : Before(op, k) \in 0..n
  BY BeforeAll
<1>4. command_serializer(A, v) = FlattenSeq(w)
  BY <1>1, Serialized, Zenon DEF BytesOf
<1>. HIDE DEF A, n, w, q
<1>5. \A k : SentFrom(op, k, v) = FlattenSeq(SubSeq(w, Before(op, k) + 1, n))
  BY Zenon DEF SentFrom, w, n, A
<1>6. ASSUME NEW m \in 0..n PROVE SubSeq(w, m + 1, n) \in Seq(Bytes)
  <2>1. \A i \in (m + 1)..n : w[i] \in Bytes
    BY <1>2
  <2>. QED BY <1>2, <2>1, SubSeqProperties
<1>7. \A k \in 1..q : SentFrom(op, k, v) \in Bytes
  <2>. SUFFICES ASSUME NEW k \in 1..q PROVE SentFrom(op, k, v) \in Bytes
    OBVIOUS
  <2>1. SubSeq(w, Before(op, k) + 1, n) \in Seq(Bytes)
    BY <1>3, <1>6
  <2>2. FlattenSeq(SubSeq(w, Before(op, k) + 1, n)) \in Seq(Byte)
    BY <2>1, BlocksOfBytes, FlattenType, Zenon
  <2>. QED BY <2>2, <1>5, Zenon DEF Bytes
<1>8. SentFrom(op, 1, v) = command_serializer(A, v)
  <2>1. SubSeq(w, 0 + 1, n) = w
    BY <1>2, SubSeqFull
  <2>2. SentFrom(op, 1, v) = FlattenSeq(SubSeq(w, 0 + 1, n))
    BY <1>3, <1>5, Zenon
  <2>. QED BY <2>1, <2>2, <1>4, Zenon
<1>9. SentFrom(op, q, v) = <<>>
  <2>1. SubSeq(w, n + 1, n) = <<>>
    BY <1>2, SubSeqEmpty
  <2>2. SentFrom(op, q, v) = FlattenSeq(SubSeq(w, n + 1, n))
    BY <1>3, <1>5, Zenon
  <2>. QED BY <2>1, <2>2, FlattenEmpty, Zenon
<1>. QED BY <1>7, <1>8, <1>9 DEF A, q

\* What is sent from a pack on is the pack and what is sent from the next one on.
LEMMA SentPackByPack ==
    ASSUME NEW op \in Ops, NEW v, Typed(Args(op), v), NEW k \in 1..Packs(op)
    PROVE  /\ SentPack(op, k, v) \in Bytes
           /\ SentFrom(op, k, v) = Cat(SentPack(op, k, v), SentFrom(op, k + 1, v))
<1>. DEFINE A == Args(op)
            n == Len(A)
            w == Blocked(A, v)
            p == build_args_packs(op)[k]
            x == PackOf(op, k, v)
            m == Before(op, k)
            l == m + Len(p)
            a == SubSeq(w, m + 1, l)
            b == SubSeq(w, l + 1, n)
            c == Blocked(p, x)
<1>1. A \in Seq(Types) /\ Fit(A, v) /\ n \in Nat
  BY TypesAssumption DEF Typed, Fit
<1>2. /\ w \in Seq(Bytes) /\ Len(w) = n
      /\ \A i \in 1..n : w[i] = Written(A[i], v[i])
  BY <1>1, BlockedType, Zenon
<1>3. /\ p \in Seq(Types) /\ Len(p) \in Nat \ {0} /\ m \in Nat /\ l <= n
      /\ Before(op, k + 1) = l /\ \A i \in 1..Len(p) : p[i] = A[m + i]
  BY OnePack DEF IsPack
<1>4. Fit(p, x) /\ \A i \in 1..Len(p) : x[i] = v[m + i]
  BY PackFits
<1>5. /\ c \in Seq(Bytes) /\ Len(c) = Len(p) /\ BytesOf(p, x) \in Bytes
      /\ \A i \in 1..Len(p) : c[i] = Written(p[i], x[i])
  BY <1>3, <1>4, BlockedType, Zenon
<1>6. SentPack(op, k, v) = FlattenSeq(c) /\ SentPack(op, k, v) = BytesOf(p, x)
  BY Zenon DEF SentPack, BytesOf
<1>7. /\ SentFrom(op, k, v) = FlattenSeq(SubSeq(w, m + 1, n))
      /\ SentFrom(op, k + 1, v) = FlattenSeq(SubSeq(w, Before(op, k + 1) + 1, n))
  BY Zenon DEF SentFrom
<1>. HIDE DEF A, n, w, p, x, m, c
<1>8. a = c
  <2>1. \A i \in (m + 1)..l : w[i] \in Bytes
    BY <1>1, <1>2, <1>3
  <2>2. m + 1 \in Int /\ l \in Int /\ l - (m + 1) + 1 = Len(p) /\ m + 1 <= l
    BY <1>3
  <2>3. /\ a \in Seq(Bytes)
        /\ Len(a) = IF m + 1 <= l THEN l - (m + 1) + 1 ELSE 0
        /\ \A i \in 1..(l - (m + 1) + 1) : a[i] = w[m + 1 + i - 1]
    BY <1>2, <2>1, <2>2, SubSeqProperties
  <2>. HIDE DEF a
  <2>4. Len(a) = Len(p) /\ \A i \in 1..Len(p) : a[i] = w[m + i]
    <3>1. \A i \in 1..Len(p) : m + 1 + i - 1 = m + i
      BY <1>3
    <3>. QED BY <2>2, <2>3, <3>1
  <2>5. \A i \in 1..Len(p) : w[m + i] = Written(p[i], x[i])
    <3>1. \A i \in 1..Len(p) : m + i \in 1..n
      BY <1>1, <1>3
    <3>. QED BY <3>1, <1>2, <1>3, <1>4
  <2>6. \A i \in 1..Len(p) : a[i] = c[i]
    BY <1>5, <2>4, <2>5
  <2>. QED BY <1>5, <2>3, <2>4, <2>6, SeqEqual
<1>9. SubSeq(w, m + 1, n) = Cat(a, b)
  <2>. DEFINE m1 == m + 1
  <2>1. m1 \in 1..(Len(w) + 1) /\ l \in (m1 - 1)..Len(w) /\ n \in l..Len(w)
    BY <1>1, <1>2, <1>3
  <2>. HIDE DEF l, m1
  <2>2. SubSeq(w, m1, l) \o SubSeq(w, l + 1, n) = SubSeq(w, m1, n)
    BY <1>2, <2>1, ConcatAdjacentSubSeq
  <2>. QED BY <2>2, Zenon DEF Cat, m1
<1>10. b \in Seq(Bytes)
  <2>1. \A i \in (l + 1)..n : w[i] \in Bytes
    BY <1>1, <1>2, <1>3
  <2>. HIDE DEF l
  <2>2. l \in Int
    BY <1>3 DEF l
  <2>. QED BY <1>1, <1>2, <2>1, <2>2, SubSeqProperties
<1>. HIDE DEF a, b
<1>11. FlattenSeq(Cat(c, b)) = Cat(FlattenSeq(c), FlattenSeq(b))
  <2>1. Blocks(Byte, c) /\ Blocks(Byte, b)
    BY <1>5, <1>10, BlocksOfBytes, Zenon
  <2>. QED BY <2>1, FlattenConcat
<1>12. SentFrom(op, k + 1, v) = FlattenSeq(b)
  BY <1>3, <1>7, Zenon DEF b
<1>. QED BY <1>5, <1>6, <1>7, <1>8, <1>9, <1>11, <1>12, Zenon

\* A pack is read back from what is sent for it: scalars together, an array by
\* itself, a vector after its length.
LEMMA OneSent ==
    ASSUME NEW p \in Seq(Types), NEW x, Fit(p, x), Len(p) = 1
    PROVE  p[1] \in Types /\ Holds(p[1], x[1]) /\ BytesOf(p, x) = Written(p[1], x[1])
<1>. DEFINE c == Blocked(p, x)
            y == Written(p[1], x[1])
<1>1. p[1] \in Types /\ Holds(p[1], x[1])
  <2>1. 1 \in DOMAIN p /\ p[1] \in Types
    OBVIOUS
  <2>. QED BY <2>1, Zenon DEF Fit
<1>2. c \in Seq(Bytes) /\ Len(c) = Len(p) /\ \A i \in 1..Len(p) : c[i] = Written(p[i], x[i])
  BY BlockedType, Zenon
<1>3. BytesOf(p, x) = FlattenSeq(c)
  BY Zenon DEF BytesOf
<1>4. 1 \in 1..Len(p)
  OBVIOUS
<1>5. c[1] = y /\ y \in Bytes /\ Len(c) = 1
  <2>1. c[1] = y /\ Len(c) = 1
    BY <1>2, <1>4, Zenon
  <2>2. y \in Bytes
    BY <1>1, WrittenReadsBack
  <2>. QED BY <2>1, <2>2
<1>. HIDE DEF c, y
<1>6. c = <<y>>
  BY <1>2, <1>5
<1>7. FlattenSeq(<<y>>) = y
  BY <1>5, FlattenOne, Zenon DEF Bytes
<1>. QED BY <1>1, <1>3, <1>6, <1>7, Zenon DEF y

\* A pack of scalars is read back by deserialize.
LEMMA ScalarsOfPack ==
    ASSUME NEW p, NEW x, IsPack(p), Typed(p, x), p[1].kind = "scalar"
    PROVE  Len(BytesOf(p, x)) = required_buffer_size(p) /\ deserialize(p, BytesOf(p, x)) = x
<1>1. p \in Seq(Types) /\ \A i \in DOMAIN p : p[i].kind = "scalar"
  BY DEF IsPack
<1>. QED BY <1>1, ScalarsReadBack

\* A pack that is not of scalars is one container.
LEMMA ContainerOfPack ==
    ASSUME NEW p, NEW x, IsPack(p), Typed(p, x), p[1].kind # "scalar"
    PROVE  /\ p \in Seq(Types) /\ Len(p) = 1 /\ p[1] \in Types /\ x = <<x[1]>> /\ Holds(p[1], x[1])
           /\ BytesOf(p, x) = Written(p[1], x[1])
           /\ required_buffer_size(p) = FixedSize(p[1])
<1>1. p \in Seq(Types) /\ Len(p) = 1
  BY DEF IsPack
<1>2. Fit(p, x)
  BY Zenon DEF Typed, Fit
<1>3. p[1] \in Types /\ Holds(p[1], x[1]) /\ BytesOf(p, x) = Written(p[1], x[1])
  BY <1>1, <1>2, OneSent
<1>4. x = <<x[1]>>
  <2>1. DOMAIN p = 1..1
    BY <1>1
  <2>2. x = [i \in 1..1 |-> x[i]]
    BY <2>1, Zenon DEF Typed
  <2>. QED BY <2>2
<1>5. required_buffer_size(p) = FixedSize(p[1])
  BY <1>1, SizeAtLeast
<1>. QED BY <1>1, <1>3, <1>4, <1>5

\* An array is read back by elements.
LEMMA ArrayOfPack ==
    ASSUME NEW p, NEW x, IsPack(p), Typed(p, x), p[1].kind = "array"
    PROVE  /\ Len(BytesOf(p, x)) = required_buffer_size(p)
           /\ <<elements(p[1].T, BytesOf(p, x))>> = x
<1>. DEFINE t == p[1]
            y == x[1]
            b == BytesOf(p, x)
<1>1. t.kind = "array"
  OBVIOUS
<1>2. /\ t \in Types /\ x = <<y>> /\ Holds(t, y) /\ b = Written(t, y)
      /\ required_buffer_size(p) = FixedSize(t)
  BY ContainerOfPack
<1>. HIDE DEF t, y, b
<1>3. Len(Written(t, y)) = FixedSize(t) /\ elements(t.T, Written(t, y)) = y
  BY <1>1, <1>2, WrittenReadsBack
<1>4. Len(b) = required_buffer_size(p) /\ <<elements(t.T, b)>> = x
  BY <1>2, <1>3, Zenon
<1>. QED BY <1>4, Zenon DEF t, b

\* A vector is sent as its length, in bytes, and its elements.
LEMMA VectorOfPack ==
    ASSUME NEW p, NEW x, IsPack(p), Typed(p, x), p[1].kind = "vector"
    PROVE  LET T == p[1].T
               b == dump_array_to_buffer(p[1], x[1])
           IN  \E length \in Bytes :
                  /\ b \in Bytes /\ BytesOf(p, x) = Cat(length, b)
                  /\ Len(length) = required_buffer_size(p)
                  /\ extract("uint32_t", length) = Len(b)
                  /\ (Len(b) \div SizeOf[T]) * SizeOf[T] = Len(b)
                  /\ <<elements(T, b)>> = x
<1>. DEFINE t == p[1]
            y == x[1]
            b == dump_array_to_buffer(t, y)
            s == BytesOf(p, x)
            length == append("uint32_t", Len(y) * SizeOf[t.T])
<1>1. t.kind = "vector"
  OBVIOUS
<1>2. /\ t \in Types /\ x = <<y>> /\ Holds(t, y) /\ s = Written(t, y)
      /\ required_buffer_size(p) = FixedSize(t)
  BY ContainerOfPack
<1>. HIDE DEF t, y, s
<1>3. /\ Written(t, y) = Cat(length, b)
      /\ length \in Bytes /\ b \in Bytes
      /\ Len(length) = FixedSize(t) /\ extract("uint32_t", length) = Len(b)
      /\ (Len(b) \div SizeOf[t.T]) * SizeOf[t.T] = Len(b)
      /\ elements(t.T, b) = y
  BY <1>1, <1>2, WrittenReadsBack
<1>. HIDE DEF length, b
<1>4. /\ length \in Bytes /\ b \in Bytes /\ s = Cat(length, b)
      /\ Len(length) = required_buffer_size(p)
      /\ extract("uint32_t", length) = Len(b)
      /\ (Len(b) \div SizeOf[t.T]) * SizeOf[t.T] = Len(b)
      /\ <<elements(t.T, b)>> = x
  BY <1>2, <1>3, Zenon
<1>. QED BY <1>4, Zenon DEF t, y, b, s

\* The same of a pack of an operation's arguments.
LEMMA ScalarPack ==
    ASSUME NEW op \in Ops, NEW v, Typed(Args(op), v), NEW k \in 1..Packs(op),
           build_args_packs(op)[k][1].kind = "scalar"
    PROVE  LET p == build_args_packs(op)[k]
               b == SentPack(op, k, v)
           IN  Len(b) = required_buffer_size(p) /\ deserialize(p, b) = PackOf(op, k, v)
<1>1. IsPack(build_args_packs(op)[k]) /\ Typed(build_args_packs(op)[k], PackOf(op, k, v))
  BY OnePack, PackFits
<1>. QED BY <1>1, ScalarsOfPack, Zenon DEF SentPack

\* The same for a pack that is an array,
LEMMA ArrayPack ==
    ASSUME NEW op \in Ops, NEW v, Typed(Args(op), v), NEW k \in 1..Packs(op),
           build_args_packs(op)[k][1].kind = "array"
    PROVE  LET p == build_args_packs(op)[k]
               b == SentPack(op, k, v)
           IN  Len(b) = required_buffer_size(p) /\ <<elements(p[1].T, b)>> = PackOf(op, k, v)
<1>1. IsPack(build_args_packs(op)[k]) /\ Typed(build_args_packs(op)[k], PackOf(op, k, v))
  BY OnePack, PackFits
<1>. QED BY <1>1, ArrayOfPack, Zenon DEF SentPack

\* and for one that is a vector.
LEMMA VectorPack ==
    ASSUME NEW op \in Ops, NEW v, Typed(Args(op), v), NEW k \in 1..Packs(op),
           build_args_packs(op)[k][1].kind = "vector"
    PROVE  LET p == build_args_packs(op)[k]
               T == p[1].T
               b == Payload(op, k, v)
           IN  \E length \in Bytes :
                  /\ b \in Bytes /\ SentPack(op, k, v) = Cat(length, b)
                  /\ Len(length) = required_buffer_size(p) /\ Len(length) = SizeOf["uint32_t"]
                  /\ (extract("uint32_t", length) \div SizeOf[T]) * SizeOf[T] = Len(b)
                  /\ <<elements(T, b)>> = PackOf(op, k, v)
<1>. DEFINE p == build_args_packs(op)[k]
            x == PackOf(op, k, v)
            b == Payload(op, k, v)
<1>1. IsPack(p) /\ Typed(p, x) /\ p[1].kind = "vector"
  BY OnePack, PackFits
<1>2. SentPack(op, k, v) = BytesOf(p, x) /\ b = dump_array_to_buffer(p[1], x[1])
  BY Zenon DEF SentPack, Payload
<1>. HIDE DEF p, x, b
<1>3. required_buffer_size(p) = SizeOf["uint32_t"]
  <2>1. required_buffer_size(p) = FixedSize(p[1])
    BY <1>1, ContainerOfPack
  <2>. QED BY <1>1, <2>1, Zenon DEF FixedSize
<1>4. PICK length \in Bytes :
         /\ dump_array_to_buffer(p[1], x[1]) \in Bytes
         /\ BytesOf(p, x) = Cat(length, dump_array_to_buffer(p[1], x[1]))
         /\ Len(length) = required_buffer_size(p)
         /\ extract("uint32_t", length) = Len(dump_array_to_buffer(p[1], x[1]))
         /\ (Len(dump_array_to_buffer(p[1], x[1])) \div SizeOf[p[1].T]) * SizeOf[p[1].T]
              = Len(dump_array_to_buffer(p[1], x[1]))
         /\ <<elements(p[1].T, dump_array_to_buffer(p[1], x[1]))>> = x
  BY <1>1, VectorOfPack
<1>. QED BY <1>2, <1>3, <1>4, Zenon DEF p, x, b

\* A session waits for some bytes of each pack.
LEMMA PackSize ==
    ASSUME NEW op \in Ops, NEW k \in 1..Packs(op)
    PROVE  LET p == build_args_packs(op)[k]
           IN  /\ required_buffer_size(p) \in Nat \ {0}
               /\ p[1].kind \in {"scalar", "array", "vector"}
<1>. DEFINE p == build_args_packs(op)[k]
<1>1. IsPack(p) /\ Len(p) \in Nat \ {0}
  BY OnePack
<1>. HIDE DEF p
<1>2. p \in Seq(Types)
  BY <1>1 DEF IsPack
<1>3. p[1] \in Types
  BY <1>1, <1>2
<1>4. p[1].kind \in {"scalar", "array", "vector"}
  BY <1>3, FixedSizes
<1>5. required_buffer_size(p) \in Nat /\ required_buffer_size(p) >= Len(p)
  BY <1>2, SizeAtLeast
<1>. QED BY <1>1, <1>4, <1>5 DEF p

\* A request, and what is sent for it.
Requests(c) == UNION {{[op |-> o, args |-> v] : v \in Values(c, o)} : o \in Ops}

\* A request names an operation, and has arguments of its types.
LEMMA RequestType ==
    ASSUME NEW c \in Clients, NEW r \in Requests(c)
    PROVE  /\ r.op \in Ops /\ r.args \in Values(c, r.op) /\ r.args \in AnyValues(r.op)
           /\ Typed(Args(r.op), r.args)
<1>1. PICK o \in Ops : r \in {[op |-> o, args |-> v] : v \in Values(c, o)}
  BY DEF Requests
<1>2. PICK v \in Values(c, o) : r = [op |-> o, args |-> v]
  BY <1>1
<1>3. r.op = o /\ r.args = v
  BY <1>2
<1>4. v \in AnyValues(o) /\ Typed(Args(o), v)
  BY TypesAssumption
<1>. QED BY <1>1, <1>2, <1>3, <1>4

\* The header of a command, and what is found in it.
LEMMA HeaderBytes ==
    ASSUME NEW op \in Ops
    PROVE  LET h == command_header(Class(op), Func(op))
           IN  /\ h \in Bytes /\ Len(h) = HeaderSize /\ HeaderSize = 8
               /\ ClassOf(h) = Class(op) /\ FuncOf(h) = Func(op)
<1>. DEFINE a == append("uint32_t", 0)
            b == append("uint16_t", Class(op))
            d == append("uint16_t", Func(op))
            h == command_header(Class(op), Func(op))
<1>1. Class(op) \in 0..(Radix2 - 1) /\ Func(op) \in 0..(Radix2 - 1)
  BY WireAssumption
<1>2. b \in Bytes /\ d \in Bytes
  BY <1>1, Number16 DEF Bytes
<1>3. a \in Bytes
  <2>1. "uint32_t" \in DOMAIN SizeOf /\ SizeOf["uint32_t"] = 4
    BY DEF SizeOf
  <2>2. 0 \in ValuesOf("uint32_t")
    <3>1. ValuesOf("uint32_t") = 0..(Radix4 - 1)
      BY <2>1 DEF ValuesOf, Signed, Span
    <3>. QED BY <3>1, Radixes
  <2>. QED BY <2>1, <2>2, ScalarReadsBack DEF Bytes
<1>4. h = Cat(Cat(a, b), d)
  BY Zenon DEF command_header, Cat
<1>. HIDE DEF a, b, d, h
<1>5. h \in Bytes
  BY <1>2, <1>3, <1>4, CatBytes
<1>6. <<>> \in Seq(Byte)
  OBVIOUS
<1>7. /\ Len(h) = HeaderSize /\ ClassOf(h \o <<>>) = Class(op) /\ FuncOf(h \o <<>>) = Func(op)
  BY <1>1, <1>6, HeaderReadsBack, Zenon DEF h
<1>8. h \o <<>> = h
  BY <1>5, CatEmpty, Zenon DEF Cat
<1>9. HeaderSize = 8
  BY DEF HeaderSize, SizeOf
<1>. QED BY <1>5, <1>7, <1>8, <1>9, Zenon DEF h

\* A request is sent as its header and its arguments.
LEMMA EncodedParts ==
    ASSUME NEW c \in Clients, NEW r \in Requests(c)
    PROVE  /\ Encoded(r) \in Bytes /\ SentFrom(r.op, 1, r.args) \in Bytes
           /\ Encoded(r) = Cat(command_header(Class(r.op), Func(r.op)), SentFrom(r.op, 1, r.args))
<1>. DEFINE op == r.op
            v == r.args
            h == command_header(Class(op), Func(op))
<1>1. op \in Ops /\ Typed(Args(op), v)
  BY RequestType
<1>2. Encoded(r) = Cat(h, command_serializer(Args(op), v))
  BY Zenon DEF Encoded, build_command, Cat
<1>. HIDE DEF op, v
<1>3. SentFrom(op, 1, v) = command_serializer(Args(op), v) /\ SentFrom(op, 1, v) \in Bytes
  <2>1. 1 \in 1..(Packs(op) + 1)
    BY <1>1, BeforeAll
  <2>. QED BY <1>1, <2>1, SentFromType
<1>4. h \in Bytes
  BY <1>1, HeaderBytes
<1>. HIDE DEF h
<1>5. Cat(h, SentFrom(op, 1, v)) \in Bytes
  BY <1>3, <1>4, CatBytes
<1>. QED BY <1>2, <1>3, <1>5, Zenon DEF op, v, h

\* Requests are sent one after the other.
LEMMA AllOf ==
    ASSUME NEW c \in Clients, NEW rs \in Seq(Requests(c))
    PROVE  /\ All(rs) \in Bytes
           /\ rs = <<>> => All(rs) = <<>>
           /\ \A r \in Requests(c) : All(Append(rs, r)) = Cat(All(rs), Encoded(r))
           /\ rs # <<>> => /\ rs[1] \in Requests(c) /\ Tail(rs) \in Seq(Requests(c))
                           /\ All(Tail(rs)) \in Bytes
                           /\ All(rs) = Cat(Encoded(rs[1]), All(Tail(rs)))
<1>. DEFINE E(q) == [i \in DOMAIN q |-> Encoded(q[i])]
            R == Requests(c)
            s == E(rs)
<1>0. \A r \in R : Encoded(r) \in Bytes
  BY EncodedParts
<1>. HIDE DEF R
<1>1. rs \in Seq(R)
  BY DEF R
<1>2. ASSUME NEW q \in Seq(R) PROVE E(q) \in Seq(Bytes) /\ Len(E(q)) = Len(q) /\ Blocks(Byte, E(q))
  <2>1. E(q) \in Seq(Bytes) /\ Len(E(q)) = Len(q)
    BY <1>0
  <2>. HIDE DEF E
  <2>. QED BY <2>1, BlocksOfBytes, Zenon
<1>3. \A q : All(q) = FlattenSeq(E(q))
  BY Zenon DEF All
<1>4. rs = <<>> => E(rs) = <<>>
  OBVIOUS
<1>5. \A r \in R : E(Append(rs, r)) = Append(E(rs), Encoded(r))
  BY <1>1, <1>0
<1>6. rs # <<>> => /\ rs[1] \in R /\ Tail(rs) \in Seq(R) /\ E(rs) # <<>>
                   /\ E(rs)[1] = Encoded(rs[1]) /\ Tail(E(rs)) = E(Tail(rs))
  BY <1>1, <1>0
<1>. HIDE DEF E
<1>7. ASSUME NEW q \in Seq(R) PROVE All(q) \in Bytes
  BY <1>2, <1>3, FlattenType, Zenon DEF Bytes
<1>8. rs = <<>> => All(rs) = <<>>
  BY <1>3, <1>4, FlattenEmpty, Zenon
<1>9. ASSUME NEW r \in R PROVE All(Append(rs, r)) = Cat(All(rs), Encoded(r))
  <2>1. Blocks(Byte, E(rs)) /\ Encoded(r) \in Seq(Byte)
    BY <1>0, <1>1, <1>2, Zenon DEF Bytes
  <2>2. FlattenSeq(Append(E(rs), Encoded(r))) = Cat(FlattenSeq(E(rs)), Encoded(r))
    BY <2>1, FlattenAppend
  <2>. QED BY <2>2, <1>3, <1>5, Zenon
<1>10. ASSUME rs # <<>> PROVE All(rs) = Cat(Encoded(rs[1]), All(Tail(rs)))
  <2>1. Blocks(Byte, E(rs)) /\ E(rs) # <<>>
    BY <1>1, <1>2, <1>6, <1>10, Zenon
  <2>2. FlattenSeq(E(rs)) = Cat(E(rs)[1], FlattenSeq(Tail(E(rs))))
    BY <2>1, FlattenFirst
  <2>. QED BY <2>2, <1>3, <1>6, <1>10, Zenon
<1>. QED BY <1>1, <1>6, <1>7, <1>8, <1>9, <1>10, Zenon DEF R

\* The first arguments of an operation, which a session has read when it is at a
\* pack, are what is sent before it.
LEMMA Beginning ==
    ASSUME NEW S, NEW s \in Seq(S), NEW t \in Seq(S)
    PROVE  SubSeq(s \o t, 1, Len(s)) = s
<1>. DEFINE w == s \o t
            n == Len(s)
            q == SubSeq(w, 1, n)
<1>1. /\ w \in Seq(S) /\ n \in Nat /\ Len(w) = n + Len(t) /\ Len(t) \in Nat
      /\ \A i \in 1..n : w[i] = s[i] /\ s[i] \in S
  BY Joined, ElementOfSeq, LenProperties
<1>. HIDE DEF w
<1>2. \A i \in 1..n : w[i] \in S
  BY <1>1
<1>. HIDE DEF n
<1>3. q \in Seq(S) /\ Len(q) = n /\ \A i \in 1..n : q[i] = w[i]
  <2>1. n - 1 + 1 = n /\ (1 > n => n = 0) /\ \A i \in 1..n : 1 + i - 1 = i
    BY <1>1
  <2>2. /\ q \in Seq(S) /\ Len(q) = IF 1 <= n THEN n - 1 + 1 ELSE 0
        /\ \A i \in 1..(n - 1 + 1) : q[i] = w[1 + i - 1]
    BY <1>1, <1>2, SubSeqProperties
  <2>. HIDE DEF q
  <2>. QED BY <1>1, <2>1, <2>2
<1>. HIDE DEF q
<1>4. q \in Seq(S) /\ Len(q) = Len(s) /\ \A i \in 1..Len(q) : q[i] = s[i]
  BY <1>1, <1>3 DEF n
<1>5. q = s
  BY <1>4, SeqEqual
<1>. QED BY <1>5 DEF q, w, n

\* The types of the packs that were read.
LEMMA ArgumentsBefore ==
    ASSUME NEW op \in Ops, NEW k \in 1..(Packs(op) + 1)
    PROVE  /\ FlattenSeq(SubSeq(build_args_packs(op), 1, k - 1)) = SubSeq(Args(op), 1, Before(op, k))
           /\ Before(op, k) \in 0..Len(Args(op)) /\ Before(op, k) \in Nat
<1>. DEFINE P == build_args_packs(op)
            A == Args(op)
            n == Packs(op)
            a == SubSeq(P, 1, k - 1)
<1>1. P \in Seq(Seq(Types)) /\ FlattenSeq(P) = A /\ A \in Seq(Types)
  BY PacksAreArguments, TypesAssumption DEF ListsOfPacks
<1>2. n \in Nat /\ n = Len(P) /\ Before(op, k) \in 0..Len(A)
  BY <1>1, BeforeAll DEF Packs
<1>3. Before(op, k) = Len(FlattenSeq(a))
  BY Zenon DEF Before
<1>. HIDE DEF P, A, n
<1>4. CASE k = n + 1
  <2>1. k - 1 = n /\ SubSeq(P, 1, n) = P
    BY <1>1, <1>2, <1>4, SubSeqFull
  <2>2. a = P
    BY <2>1, Zenon
  <2>3. SubSeq(A, 1, Len(A)) = A
    BY <1>1, SubSeqFull
  <2>. HIDE DEF a
  <2>4. FlattenSeq(a) = SubSeq(A, 1, Before(op, k))
    BY <1>1, <1>3, <2>2, <2>3, Zenon
  <2>5. Before(op, k) \in Nat
    BY <1>2
  <2>. QED BY <1>2, <2>4, <2>5, Zenon DEF a, P, A
<1>5. CASE k # n + 1
  <2>. DEFINE b == SubSeq(P, k + 1, Len(P))
              t == Cat(P[k], FlattenSeq(b))
  <2>1. k \in 1..Len(P)
    BY <1>2, <1>5 DEF n
  <2>2. /\ P[k] \in Seq(Types) /\ FlattenSeq(a) \in Seq(Types) /\ FlattenSeq(b) \in Seq(Types)
        /\ FlattenSeq(P) = Cat(FlattenSeq(a), t)
    BY <1>1, <2>1, FlattenSplit
  <2>. HIDE DEF a, b
  <2>3. t \in Seq(Types)
    BY <2>2 DEF Cat
  <2>. DEFINE f == FlattenSeq(a)
  <2>. HIDE DEF f, t
  <2>4. f \in Seq(Types) /\ A = Cat(f, t)
    BY <1>1, <2>2 DEF f
  <2>5. SubSeq(f \o t, 1, Len(f)) = f
    BY <2>3, <2>4, Beginning
  <2>6. FlattenSeq(a) = SubSeq(A, 1, Before(op, k))
    BY <1>3, <2>4, <2>5, Zenon DEF Cat, f
  <2>7. Before(op, k) \in Nat
    BY <1>2
  <2>. QED BY <1>2, <2>6, <2>7, Zenon DEF a, P, A
<1>. QED BY <1>4, <1>5

\* What is sent is what is sent before a pack and from it on.
LEMMA SentBefore ==
    ASSUME NEW op \in Ops, NEW v, Typed(Args(op), v), NEW k \in 1..(Packs(op) + 1)
    PROVE  LET m == Before(op, k)
               read == command_serializer(SubSeq(Args(op), 1, m), SubSeq(v, 1, m))
           IN  read \in Bytes /\ SentFrom(op, 1, v) = Cat(read, SentFrom(op, k, v))
<1>. DEFINE A == Args(op)
            n == Len(A)
            m == Before(op, k)
            w == Blocked(A, v)
            p == SubSeq(A, 1, m)
            x == SubSeq(v, 1, m)
            a == SubSeq(w, 1, m)
            b == SubSeq(w, m + 1, n)
            S == {v[i] : i \in 1..n}
<1>1. A \in Seq(Types) /\ Fit(A, v) /\ n \in Nat /\ m \in 0..n /\ DOMAIN A = 1..n
  BY TypesAssumption, ArgumentsBefore DEF Typed, Fit
<1>2. v = [i \in 1..n |-> v[i]]
  BY <1>1, Zenon DEF Typed
<1>3. w \in Seq(Bytes) /\ Len(w) = n
  BY <1>1, BlockedType, Zenon
<1>4. /\ p \in Seq(Types) /\ Len(p) = m /\ \A i \in 1..m : p[i] = A[i]
      /\ Fit(p, v) /\ Blocked(p, v) = a
  BY <1>1, BlockedPrefix
<1>5. SentFrom(op, k, v) = FlattenSeq(b) /\ SentFrom(op, 1, v) = FlattenSeq(w)
  <2>1. SentFrom(op, k, v) = FlattenSeq(b)
    BY Zenon DEF SentFrom
  <2>2. SentFrom(op, 1, v) = command_serializer(A, v)
    BY SentFromType
  <2>3. command_serializer(A, v) = BytesOf(A, v)
    BY <1>1, Serialized
  <2>. QED BY <2>1, <2>2, <2>3, Zenon DEF BytesOf
<1>. HIDE DEF A, n, w, p, m, S
<1>6. \A i \in 1..m : x[i] = v[i]
  <2>1. \A i \in 1..m : v[i] \in S
    BY <1>1 DEF S
  <2>2. m - 1 + 1 = m /\ m \in Int /\ \A i \in 1..m : 1 + i - 1 = i
    BY <1>1
  <2>3. \A i \in 1..(m - 1 + 1) : x[i] = v[1 + i - 1]
    BY <2>1, <2>2, SubSeqProperties
  <2>. HIDE DEF x
  <2>. QED BY <2>2, <2>3
<1>. HIDE DEF x
<1>7. DOMAIN p = 1..m
  BY <1>1, <1>4
<1>8. Fit(p, x)
  BY <1>4, <1>6, <1>7 DEF Fit
<1>9. Blocked(p, x) = a
  <2>1. Blocked(p, x) = [i \in 1..m |-> Written(p[i], x[i])]
        /\ Blocked(p, v) = [i \in 1..m |-> Written(p[i], v[i])]
    BY <1>7, Zenon DEF Blocked
  <2>2. \A i \in 1..m : Written(p[i], x[i]) = Written(p[i], v[i])
    BY <1>6
  <2>3. Blocked(p, x) = Blocked(p, v)
    BY <2>1, <2>2, Zenon
  <2>. QED BY <1>4, <2>3, Zenon
<1>10. command_serializer(p, x) = FlattenSeq(a) /\ FlattenSeq(a) \in Bytes
  <2>1. command_serializer(p, x) = BytesOf(p, x) /\ BytesOf(p, x) \in Bytes
    BY <1>4, <1>8, Serialized, BlockedType
  <2>. QED BY <2>1, <1>9, Zenon DEF BytesOf
<1>11. a \in Seq(Bytes) /\ b \in Seq(Bytes) /\ w = Cat(a, b)
  <2>1. /\ \A i \in 1..m : w[i] \in Bytes
        /\ \A i \in (m + 1)..n : w[i] \in Bytes
    BY <1>1, <1>3
  <2>2. a \in Seq(Bytes) /\ b \in Seq(Bytes)
    BY <1>1, <1>3, <2>1, SubSeqProperties
  <2>3. 1 \in 1..(Len(w) + 1) /\ m \in (1 - 1)..Len(w) /\ n \in m..Len(w)
    BY <1>1, <1>3
  <2>4. SubSeq(w, 1, m) \o SubSeq(w, m + 1, n) = SubSeq(w, 1, n)
    BY <1>3, <2>3, ConcatAdjacentSubSeq
  <2>5. SubSeq(w, 1, n) = w
    BY <1>3, SubSeqFull
  <2>. QED BY <2>2, <2>4, <2>5, Zenon DEF Cat
<1>. HIDE DEF a, b
<1>12. FlattenSeq(Cat(a, b)) = Cat(FlattenSeq(a), FlattenSeq(b))
  <2>1. Blocks(Byte, a) /\ Blocks(Byte, b)
    BY <1>11, BlocksOfBytes, Zenon
  <2>. QED BY <2>1, FlattenConcat
<1>13. SentFrom(op, 1, v) = Cat(command_serializer(p, x), SentFrom(op, k, v))
  BY <1>5, <1>10, <1>11, <1>12, Zenon
<1>14. command_serializer(p, x) \in Bytes
  BY <1>10, Zenon
<1>. QED BY <1>13, <1>14, Zenon DEF p, x, A, m

-----------------------------------------------------------------------------
(* The inductive invariant.  What it says of a client and of its session it *)
(* says of values, not of variables: SessionAt of what a session keeps, the *)
(* stream to it, the requests not yet run and whether its client is gone;   *)
(* ClientAt of what a client keeps, the stream to it, its requests and its  *)
(* answer.                                                                  *)

\* What a session has yet to read of the requests.
Rest(s, rs) ==
    IF s.pc = "header" THEN All(rs)
    ELSE IF s.pc = "payload"
         THEN Cat(Payload(s.op, s.pack, rs[1].args),
                  Cat(SentFrom(s.op, s.pack + 1, rs[1].args), All(Tail(rs))))
         ELSE Cat(SentFrom(s.op, s.pack, rs[1].args), All(Tail(rs)))

\* It is at the first request, at a pack of it.
AtRequest(s, rs) ==
    s.pc # "header" =>
        /\ rs # <<>> /\ s.op = rs[1].op
        /\ s.pc = "lock" => s.pack = 1
        /\ s.pc \in {"args", "payload"} => s.pack \in 1..Packs(s.op)
        /\ s.pc = "run" => s.pack = Packs(s.op) + 1
        /\ s.pc = "payload" => /\ build_args_packs(s.op)[s.pack][1].kind = "vector"
                               /\ s.len = Len(Payload(s.op, s.pack, rs[1].args))

\* What it has, with what comes, is that rest, or a part if the client is gone;
\* what it has not read can only be missing if the client is gone.
InStream(s, in, rs, closed) ==
    /\ s.pc \in {"lock", "run"} => s.buff = <<>>
    /\ s.garbled => closed /\ s.pc \in {"args", "run"} /\ s.buff = <<>> /\ in = <<>>
    /\ ~closed => Cat(s.buff, in) = Rest(s, rs)
    /\ ~s.garbled => Begins(Cat(s.buff, in), Rest(s, rs))

SessionAt(u, s, in, rs, closed) ==
    IF u /\ s.pc # "gone" THEN AtRequest(s, rs) /\ InStream(s, in, rs, closed)
    ELSE s.pc = "gone" /\ rs = <<>> /\ (u => closed)

\* What operations may return, and what of it a client has yet to get.
Replies(op) == {Result(x, op, v) : x \in Objects, v \in AnyValues(op)}
ReplyRest(k, v) ==
    IF k.pc = "fixed" THEN build_command(Class(k.op), Func(k.op), Ret(k.op), v)
    ELSE dump_array_to_buffer(Ret(k.op)[1], v[1])

\* A client that waits has a request that is not run, or its answer comes, or a
\* part of it from a server that ended.
Pending(u, k, out, rs, as) ==
    /\ u /\ k.pc = "fixed" /\ as = <<>> /\ out = <<>> /\ k.buff = <<>>
    /\ rs # <<>> /\ rs[Len(rs)].op = k.op
    /\ \A i \in 1..Len(rs) : Return(rs[i].op) => i = Len(rs)

Coming(u, k, out, as, v) ==
    /\ k.pc = "dynamic" => /\ IsDynamic(k.op)
                           /\ k.len = Len(dump_array_to_buffer(Ret(k.op)[1], v[1]))
    /\ Begins(Cat(k.buff, out), ReplyRest(k, v))
    /\ \/ as = <<v>> /\ Cat(k.buff, out) = ReplyRest(k, v)
       \/ as = <<>> /\ ~u /\ Cat(k.buff, out) # ReplyRest(k, v)

ClientAt(u, k, out, rs, as) ==
    /\ k.pc # "aborted"
    /\ k.pc = "closed" => as = <<>>
    /\ k.pc = "idle" => /\ as = <<>> /\ out = <<>> /\ k.buff = <<>>
                        /\ \A i \in 1..Len(rs) : ~Return(rs[i].op)
    /\ k.pc \in {"fixed", "dynamic"} =>
          /\ k.op \in Ops /\ Return(k.op)
          /\ \/ Pending(u, k, out, rs, as)
             \/ rs = <<>> /\ \E v \in Replies(k.op) : Coming(u, k, out, as, v)

\* The members that a session has read are the request's.
Locked(s) == s.pc \in {"args", "payload", "run"}
HasRead(s, rs, a) ==
    Locked(s) /\ ~s.garbled => \A i \in 1..Before(s.op, s.pack) : a[i] = rs[1].args[i]

\* The states of a client and of a session.  (The operation of one that has not
\* begun is arbitrary.)
AnOp == Ops \cup {CHOOSE o \in Ops : TRUE}
ClientStates == [pc : {"idle", "fixed", "dynamic", "closed", "aborted"},
                 op : AnOp, buff : Bytes, len : Nat]
SessionStates == [pc : {"header", "lock", "args", "payload", "run", "gone"},
                  op : AnOp, buff : Bytes, pack : Nat, len : Nat, garbled : BOOLEAN]

\* The types of the variables.
TypeOK ==
    /\ up \in BOOLEAN /\ object \in Objects
    /\ client \in [Clients -> ClientStates] /\ session \in [Clients -> SessionStates]
    /\ toServer \in [Clients -> Bytes] /\ toClient \in [Clients -> Bytes]
    /\ requests = [c \in Clients |-> requests[c]]
    /\ \A c \in Clients : requests[c] \in Seq(Requests(c))
    /\ answers = [c \in Clients |-> answers[c]]
    /\ DOMAIN args = Ops /\ \A o \in Ops : args[o] \in AnyValues(o)

\* A client and its session are at such places, and two sessions that have
\* taken a mutex have not taken the same.
Placed(c) ==
    /\ SessionAt(up, session[c], toServer[c], requests[c], Closed(c))
    /\ ClientAt(up, client[c], toClient[c], requests[c], answers[c])
    /\ up => HasRead(session[c], requests[c], args[session[c].op])

Apart ==
    \A c, d \in Clients : Locked(session[c]) /\ Locked(session[d]) /\ c # d =>
        Class(session[c].op) # Class(session[d].op)

Inv == TypeOK /\ (\A c \in Clients : Placed(c)) /\ Apart

-----------------------------------------------------------------------------
(* Client and session are in step.                                          *)

\* What is sent from a vector on is its length, its elements and what follows.
LEMMA VectorSent ==
    ASSUME NEW op \in Ops, NEW v, Typed(Args(op), v), NEW k \in 1..Packs(op),
           build_args_packs(op)[k][1].kind = "vector"
    PROVE  LET F == SentFrom(op, k + 1, v)
               b == Payload(op, k, v)
           IN  /\ F \in Bytes /\ b \in Bytes
               /\ \E length \in Bytes : /\ Len(length) = SizeOf["uint32_t"]
                                        /\ SentFrom(op, k, v) = Cat(length, Cat(b, F))
<1>. DEFINE F == SentFrom(op, k + 1, v)
            b == Payload(op, k, v)
<1>1. k + 1 \in 1..(Packs(op) + 1)
  BY BeforeAll
<1>2. F \in Bytes
  BY <1>1, SentFromType
<1>3. SentFrom(op, k, v) = Cat(SentPack(op, k, v), F)
  BY SentPackByPack
<1>4. PICK length \in Bytes : /\ b \in Bytes /\ SentPack(op, k, v) = Cat(length, b)
                              /\ Len(length) = SizeOf["uint32_t"]
  BY VectorPack
<1>. HIDE DEF F, b
<1>7. Cat(Cat(length, b), F) = Cat(length, Cat(b, F))
  BY <1>2, <1>4, CatAssociative
<1>8. SentFrom(op, k, v) = Cat(length, Cat(b, F)) /\ Len(length) = SizeOf["uint32_t"]
  BY <1>3, <1>4, <1>7, Zenon
<1>. QED BY <1>2, <1>4, <1>8, Zenon DEF F, b

\* What is unread, as InStep says it and as the invariant says it.
LEMMA UnreadIs ==
    ASSUME NEW c \in Clients, requests[c][1] \in Requests(c),
           NEW k \in 1..(Packs(requests[c][1].op) + 1), session[c].pack = k,
           session[c].pc = "payload" =>
              /\ k \in 1..Packs(requests[c][1].op)
              /\ build_args_packs(requests[c][1].op)[k][1].kind = "vector"
    PROVE  LET r == requests[c][1]
           IN  Unread(c) = IF session[c].pc = "payload"
                           THEN Cat(Payload(r.op, k, r.args), SentFrom(r.op, k + 1, r.args))
                           ELSE SentFrom(r.op, k, r.args)
<1>. DEFINE r == requests[c][1]
            op == r.op
            v == r.args
            sent == Encoded(r)
            packs == FlattenSeq(SubSeq(build_args_packs(op), 1, k - 1))
            read == command_serializer(packs, SubSeq(v, 1, Len(packs)))
            length == IF session[c].pc = "payload" THEN SizeOf["uint32_t"] ELSE 0
            h == command_header(Class(op), Func(op))
            m == Before(op, k)
            F == SentFrom(op, k, v)
<1>1. /\ op \in Ops /\ Typed(Args(op), v) /\ sent \in Bytes
      /\ sent = Cat(h, SentFrom(op, 1, v)) /\ h \in Bytes /\ Len(h) = HeaderSize
      /\ HeaderSize = 8
  BY RequestType, EncodedParts, HeaderBytes
<1>2. Unread(c) = SubSeq(sent, HeaderSize + Len(read) + length + 1, Len(sent))
  BY Zenon DEF Unread
<1>. HIDE DEF r
<1>. HIDE DEF op, v, h, sent
<1>0. k \in 1..(Packs(op) + 1)
  BY DEF r, op
<1>3. packs = SubSeq(Args(op), 1, m) /\ Len(packs) = m
  <2>1. packs = SubSeq(Args(op), 1, m)
    BY <1>0, <1>1, ArgumentsBefore
  <2>2. Len(packs) = m
    BY Zenon DEF Before
  <2>. QED BY <2>1, <2>2
<1>4. read \in Bytes /\ SentFrom(op, 1, v) = Cat(read, F)
  <2>1. read = command_serializer(SubSeq(Args(op), 1, m), SubSeq(v, 1, m))
    BY <1>3, Zenon
  <2>. HIDE DEF read, m
  <2>2. /\ command_serializer(SubSeq(Args(op), 1, m), SubSeq(v, 1, m)) \in Bytes
        /\ SentFrom(op, 1, v) = Cat(command_serializer(SubSeq(Args(op), 1, m), SubSeq(v, 1, m)), F)
    BY <1>0, <1>1, SentBefore, Zenon DEF m
  <2>. QED BY <2>1, <2>2, Zenon
<1>5. F \in Bytes
  BY <1>0, <1>1, SentFromType
<1>. HIDE DEF read, F
<1>. DEFINE a == Cat(h, read)
<1>6. a \in Bytes /\ Len(a) = HeaderSize + Len(read) /\ sent = Cat(a, F) /\ Len(read) \in Nat
  <2>. HIDE DEF length
  <2>1. a \in Bytes /\ Len(a) = HeaderSize + Len(read) /\ Len(read) \in Nat
    <3>1. h \in Bytes /\ read \in Bytes /\ Len(h) = HeaderSize
      BY <1>1, <1>4
    <3>2. Len(read) \in Nat
      BY <3>1, EmptyBytes, Zenon
    <3>3. a \in Bytes /\ Len(a) = Len(h) + Len(read)
      BY <3>1, CatBytes, Zenon
    <3>. HIDE DEF a
    <3>. QED BY <3>1, <3>2, <3>3
  <2>2. Cat(Cat(h, read), F) = Cat(h, Cat(read, F))
    BY <1>1, <1>4, <1>5, CatAssociative
  <2>3. sent = Cat(a, F)
    BY <1>1, <1>4, <2>2, Zenon
  <2>. QED BY <2>1, <2>3
<1>. HIDE DEF a
<1>7. CASE session[c].pc # "payload"
  <2>1. HeaderSize + Len(read) + length + 1 = Len(a) + 1
    BY <1>1, <1>6, <1>7
  <2>2. SubSeq(Cat(a, F), Len(a) + 1, Len(Cat(a, F))) = F
    BY <1>5, <1>6, CutAfter
  <2>3. Unread(c) = F
    BY <1>2, <1>6, <2>1, <2>2, Zenon
  <2>. QED BY <1>7, <2>3, Zenon DEF F, op, v, r
<1>8. CASE session[c].pc = "payload"
  <2>. DEFINE b == Payload(op, k, v)
              G == SentFrom(op, k + 1, v)
  <2>1. k \in 1..Packs(op) /\ build_args_packs(op)[k][1].kind = "vector"
    BY <1>8, Zenon DEF r, op
  <2>2. /\ G \in Bytes /\ b \in Bytes
        /\ \E l \in Bytes : Len(l) = SizeOf["uint32_t"] /\ F = Cat(l, Cat(b, G))
    BY <1>1, <2>1, VectorSent DEF F
  <2>. HIDE DEF b, G
  <2>3. PICK l \in Bytes : Len(l) = SizeOf["uint32_t"] /\ F = Cat(l, Cat(b, G))
    BY <2>2
  <2>. DEFINE d == Cat(a, l)
  <2>4. d \in Bytes /\ Len(d) = Len(a) + Len(l) /\ Cat(b, G) \in Bytes
    BY <1>6, <2>2, <2>3, CatBytes
  <2>5. sent = Cat(d, Cat(b, G))
    BY <1>6, <2>2, <2>3, <2>4, CatAssociative
  <2>. HIDE DEF d
  <2>6. HeaderSize + Len(read) + length + 1 = Len(d) + 1
    BY <1>1, <1>6, <1>8, <2>3, <2>4
  <2>7. SubSeq(Cat(d, Cat(b, G)), Len(d) + 1, Len(Cat(d, Cat(b, G)))) = Cat(b, G)
    BY <2>4, CutAfter
  <2>8. Unread(c) = Cat(b, G)
    BY <1>2, <2>5, <2>6, <2>7, Zenon
  <2>. QED BY <1>8, <2>8, Zenon DEF b, G, op, v, r
<1>. QED BY <1>7, <1>8

\* The invariant is stronger than InStep.
LEMMA InvInStep == Inv => InStep
<1>. SUFFICES ASSUME Inv, NEW c \in Clients, up, ~Closed(c), session[c].pc # "gone"
              PROVE  session[c].buff \o toServer[c] =
                        IF session[c].pc = "header" THEN All(requests[c])
                        ELSE IF session[c].pc = "run" THEN All(Tail(requests[c]))
                        ELSE Unread(c) \o All(Tail(requests[c]))
  BY Zenon DEF InStep, All
<1>. DEFINE s == session[c]
            rs == requests[c]
            op == rs[1].op
            v == rs[1].args
            T == All(Tail(rs))
<1>1. /\ rs \in Seq(Requests(c)) /\ AtRequest(s, rs)
      /\ s.buff \o toServer[c] = Rest(s, rs) /\ s.pack \in Nat
      /\ s.pc \in {"header", "lock", "args", "payload", "run"}
  <2>1. SessionAt(up, s, toServer[c], rs, Closed(c)) /\ TypeOK
    BY Zenon DEF Inv, Placed
  <2>2. AtRequest(s, rs) /\ InStream(s, toServer[c], rs, Closed(c))
    BY <2>1 DEF SessionAt
  <2>3. Cat(s.buff, toServer[c]) = Rest(s, rs)
    BY <2>2 DEF InStream
  <2>4. rs \in Seq(Requests(c)) /\ s.pack \in Nat /\ s.pc \in {"header", "lock", "args", "payload", "run"}
    BY <2>1 DEF TypeOK, SessionStates
  <2>. QED BY <2>2, <2>3, <2>4, Zenon DEF Cat
<1>2. CASE s.pc = "header"
  BY <1>1, <1>2, Zenon DEF Rest
<1>3. CASE s.pc # "header"
  <2>1. /\ rs # <<>> /\ s.op = op
        /\ s.pc = "lock" => s.pack = 1
        /\ s.pc \in {"args", "payload"} => s.pack \in 1..Packs(op)
        /\ s.pc = "run" => s.pack = Packs(op) + 1
        /\ s.pc = "payload" => build_args_packs(op)[s.pack][1].kind = "vector"
    BY <1>1, <1>3, Zenon DEF AtRequest
  <2>2. rs[1] \in Requests(c) /\ T \in Bytes
    BY <1>1, <2>1, AllOf
  <2>3. op \in Ops /\ Typed(Args(op), v) /\ Packs(op) \in Nat
    BY <2>2, RequestType, BeforeAll
  <2>. HIDE DEF op
  <2>4. s.pack \in 1..(Packs(op) + 1)
    BY <1>1, <1>3, <2>1, <2>3
  <2>5. Unread(c) = IF s.pc = "payload" THEN Cat(Payload(op, s.pack, v), SentFrom(op, s.pack + 1, v))
                    ELSE SentFrom(op, s.pack, v)
    <3>1. rs[1] \in Requests(c)
      BY <2>2
    <3>. HIDE DEF rs, s
    <3>2. s.pc = "payload" => s.pack \in 1..Packs(op)
      BY <2>1
    <3>3. /\ requests[c][1] \in Requests(c) /\ s.pack \in 1..(Packs(requests[c][1].op) + 1)
          /\ session[c].pack = s.pack
          /\ session[c].pc = "payload" => /\ s.pack \in 1..Packs(requests[c][1].op)
                                          /\ build_args_packs(requests[c][1].op)[s.pack][1].kind = "vector"
      BY <2>1, <2>4, <3>1, <3>2, Zenon DEF rs, s, op
    <3>4. Unread(c) = IF session[c].pc = "payload"
                      THEN Cat(Payload(requests[c][1].op, s.pack, requests[c][1].args),
                               SentFrom(requests[c][1].op, s.pack + 1, requests[c][1].args))
                      ELSE SentFrom(requests[c][1].op, s.pack, requests[c][1].args)
      BY <3>3, UnreadIs, Zenon
    <3>. QED BY <3>4, Zenon DEF rs, s, op
  <2>. HIDE DEF v, T
  <2>6. CASE s.pc = "payload"
    <3>1. Rest(s, rs) = Cat(Payload(op, s.pack, v), Cat(SentFrom(op, s.pack + 1, v), T))
      BY <2>1, <2>6, Zenon DEF Rest, op, v, T
    <3>2. Payload(op, s.pack, v) \in Bytes /\ SentFrom(op, s.pack + 1, v) \in Bytes
      <4>1. s.pack \in 1..Packs(op) /\ build_args_packs(op)[s.pack][1].kind = "vector"
        BY <2>1, <2>6
      <4>. QED BY <2>3, <4>1, VectorSent, Zenon DEF v
    <3>3. Rest(s, rs) = Cat(Unread(c), T)
      <4>1. T \in Bytes
        BY <2>2, Zenon DEF T
      <4>2. Cat(Cat(Payload(op, s.pack, v), SentFrom(op, s.pack + 1, v)), T)
              = Cat(Payload(op, s.pack, v), Cat(SentFrom(op, s.pack + 1, v), T))
        BY <3>2, <4>1, CatAssociative
      <4>. QED BY <2>5, <2>6, <3>1, <4>2, Zenon
    <3>. QED BY <1>1, <2>6, <3>3 , Zenon DEF Cat, T
  <2>7. CASE s.pc # "payload"
    <3>1. Rest(s, rs) = Cat(SentFrom(op, s.pack, v), T)
      BY <1>3, <2>1, <2>7, Zenon DEF Rest, op, v, T
    <3>2. CASE s.pc = "run"
      <4>1. SentFrom(op, s.pack, v) = <<>>
        BY <2>1, <2>3, <3>2, SentFromType, Zenon DEF v
      <4>2. Cat(<<>>, T) = T
        BY <2>2, CatEmpty, Zenon DEF T
      <4>. QED BY <1>1, <1>3, <3>1, <3>2, <4>1, <4>2, Zenon DEF T
    <3>3. CASE s.pc # "run"
      BY <1>1, <1>3, <2>5, <2>7, <3>1, <3>3, Zenon DEF Cat, T
    <3>. QED BY <3>2, <3>3
  <2>. QED BY <2>6, <2>7
<1>. QED BY <1>2, <1>3

-----------------------------------------------------------------------------
(* What the steps of a session make of its place in the stream.             *)

\* What is taken from a stream is what was sent first.
LEMMA Took ==
    \A a, b, i, F \in Bytes : Len(a) = Len(b) =>
        /\ Cat(a, i) = Cat(b, F) => a = b /\ i = F
        /\ Begins(Cat(a, i), Cat(b, F)) => a = b /\ Begins(i, F)
<1>. SUFFICES ASSUME NEW a \in Bytes, NEW b \in Bytes, NEW i \in Bytes, NEW F \in Bytes, Len(a) = Len(b)
              PROVE  /\ Cat(a, i) = Cat(b, F) => a = b /\ i = F
                     /\ Begins(Cat(a, i), Cat(b, F)) => a = b /\ Begins(i, F)
  OBVIOUS
<1>1. Cat(a, i) = Cat(b, F) => a = b /\ i = F
  BY CatCancel
<1>2. ASSUME Begins(Cat(a, i), Cat(b, F)) PROVE a = b /\ Begins(i, F)
  <2>1. PICK u \in Bytes : Cat(b, F) = Cat(Cat(a, i), u)
    BY <1>2 DEF Begins
  <2>2. Cat(b, F) = Cat(a, Cat(i, u)) /\ Cat(i, u) \in Bytes
    BY <2>1, CatAssociative, CatBytes
  <2>3. a = b /\ F = Cat(i, u)
    BY <2>2, CatCancel
  <2>. QED BY <2>3 DEF Begins
<1>. QED BY <1>1, <1>2

\* A string begins with itself and with nothing.
LEMMA BeginsSelf ==
    \A a \in Bytes : Begins(a, a) /\ Begins(<<>>, a) /\ Begins(Cat(<<>>, <<>>), a)
BY EmptyBytes, CatEmpty DEF Begins

\* A session past the header is at the first request, and at a pack of it.
LEMMA AtWhich ==
    ASSUME NEW c \in Clients, NEW rs \in Seq(Requests(c)), NEW s \in SessionStates,
           AtRequest(s, rs), s.pc \notin {"header", "gone"}
    PROVE  /\ rs # <<>> /\ s.op = rs[1].op /\ rs[1] \in Requests(c)
           /\ Tail(rs) \in Seq(Requests(c)) /\ All(Tail(rs)) \in Bytes
           /\ s.op \in Ops /\ rs[1].args \in AnyValues(s.op) /\ Typed(Args(s.op), rs[1].args)
           /\ Packs(s.op) \in Nat /\ s.pack \in 1..(Packs(s.op) + 1)
           /\ SentFrom(s.op, s.pack, rs[1].args) \in Bytes
           /\ \A k \in 1..Packs(s.op) : SentFrom(s.op, k + 1, rs[1].args) \in Bytes
<1>1. /\ rs # <<>> /\ s.op = rs[1].op
      /\ s.pc = "lock" => s.pack = 1
      /\ s.pc \in {"args", "payload"} => s.pack \in 1..Packs(s.op)
      /\ s.pc = "run" => s.pack = Packs(s.op) + 1
  BY Zenon DEF AtRequest
<1>2. rs[1] \in Requests(c) /\ Tail(rs) \in Seq(Requests(c)) /\ All(Tail(rs)) \in Bytes
  BY <1>1, AllOf
<1>3. s.op \in Ops /\ rs[1].args \in AnyValues(s.op) /\ Typed(Args(s.op), rs[1].args)
  BY <1>1, <1>2, RequestType, Zenon
<1>4. Packs(s.op) \in Nat
  BY <1>3, BeforeAll
<1>5. s.pc \in {"lock", "args", "payload", "run"} /\ s.pack \in Nat
  BY DEF SessionStates
<1>6. s.pack \in 1..(Packs(s.op) + 1)
  BY <1>1, <1>4, <1>5
<1>7. \A k \in 1..(Packs(s.op) + 1) : SentFrom(s.op, k, rs[1].args) \in Bytes
  BY <1>3, SentFromType
<1>8. \A k \in 1..Packs(s.op) : SentFrom(s.op, k + 1, rs[1].args) \in Bytes
  BY <1>4, <1>7
<1>. QED BY <1>1, <1>2, <1>3, <1>4, <1>6, <1>7, <1>8

\* What it has yet to read is a string of bytes.
LEMMA RestType ==
    ASSUME NEW c \in Clients, NEW rs \in Seq(Requests(c)), NEW s \in SessionStates,
           AtRequest(s, rs), s.pc # "gone"
    PROVE  Rest(s, rs) \in Bytes
<1>1. CASE s.pc = "header"
  BY <1>1, AllOf DEF Rest
<1>2. CASE s.pc # "header"
  <2>. DEFINE v == rs[1].args
  <2>1. /\ s.op \in Ops /\ Typed(Args(s.op), v) /\ All(Tail(rs)) \in Bytes
        /\ SentFrom(s.op, s.pack, v) \in Bytes
        /\ \A k \in 1..Packs(s.op) : SentFrom(s.op, k + 1, v) \in Bytes
    BY <1>2, AtWhich
  <2>. HIDE DEF v
  <2>2. CASE s.pc = "payload"
    <3>1. s.pack \in 1..Packs(s.op) /\ build_args_packs(s.op)[s.pack][1].kind = "vector"
      BY <1>2, <2>2, Zenon DEF AtRequest
    <3>2. Payload(s.op, s.pack, v) \in Bytes /\ SentFrom(s.op, s.pack + 1, v) \in Bytes
      BY <2>1, <3>1, VectorSent, Zenon
    <3>3. Rest(s, rs) = Cat(Payload(s.op, s.pack, v), Cat(SentFrom(s.op, s.pack + 1, v), All(Tail(rs))))
      BY <1>2, <2>2, Zenon DEF Rest, v
    <3>. QED BY <2>1, <3>2, <3>3, CatBytes
  <2>3. CASE s.pc # "payload"
    <3>1. Rest(s, rs) = Cat(SentFrom(s.op, s.pack, v), All(Tail(rs)))
      BY <1>2, <2>3, Zenon DEF Rest, v
    <3>. QED BY <2>1, <3>1, CatBytes
  <2>. QED BY <2>2, <2>3
<1>. QED BY <1>1, <1>2

\* Reading does not change what it has with what comes.
LEMMA SessionReads ==
    ASSUME NEW c \in Clients, NEW rs \in Seq(Requests(c)), NEW s \in SessionStates, NEW i \in Bytes,
           NEW closed \in BOOLEAN, AtRequest(s, rs), InStream(s, i, rs, closed),
           s.pc \in {"header", "args", "payload"}, NEW n \in 1..Len(i),
           NEW t, t = [s EXCEPT !.buff = @ \o SubSeq(i, 1, n)]
    PROVE  LET j == SubSeq(i, n + 1, Len(i))
           IN  t \in SessionStates /\ j \in Bytes /\ AtRequest(t, rs) /\ InStream(t, j, rs, closed)
<1>. DEFINE a == SubSeq(i, 1, n)
            j == SubSeq(i, n + 1, Len(i))
            b == Cat(s.buff, a)
<1>0. s.buff \in Bytes /\ Len(i) \in Nat
  BY EmptyBytes DEF SessionStates
<1>1. a \in Bytes /\ j \in Bytes /\ i = Cat(a, j)
  BY <1>0, Cutting
<1>. HIDE DEF a, j
<1>2. b \in Bytes /\ Cat(b, j) = Cat(s.buff, i)
  <2>1. Cat(Cat(s.buff, a), j) = Cat(s.buff, Cat(a, j)) /\ b \in Bytes
    <3>1. s.buff \in Bytes /\ a \in Bytes /\ j \in Bytes
      BY <1>0, <1>1
    <3>2. Cat(Cat(s.buff, a), j) = Cat(s.buff, Cat(a, j))
      BY <3>1, CatAssociative, Zenon
    <3>3. b \in Bytes
      BY <3>1, CatBytes, Zenon
    <3>. QED BY <3>2, <3>3
  <2>. QED BY <1>1, <2>1, Zenon
<1>3. t = [s EXCEPT !.buff = b]
  BY Zenon DEF a, Cat
<1>. HIDE DEF b
<1>4. /\ t \in SessionStates /\ t.pc = s.pc /\ t.op = s.op /\ t.pack = s.pack /\ t.len = s.len
      /\ t.garbled = s.garbled /\ t.buff = b
  BY <1>2, <1>3 DEF SessionStates
<1>5. AtRequest(t, rs) /\ Rest(t, rs) = Rest(s, rs)
  <2>1. AtRequest(t, rs)
    BY <1>4, Zenon DEF AtRequest
  <2>2. Rest(t, rs) = Rest(s, rs)
    BY <1>4 DEF Rest
  <2>. QED BY <2>1, <2>2
<1>6. ~s.garbled
  <2>. SUFFICES ASSUME s.garbled PROVE FALSE
    OBVIOUS
  <2>1. i = <<>>
    BY DEF InStream
  <2>. QED BY <2>1, EmptyBytes
<1>7. InStream(t, j, rs, closed)
  <2>1. (~closed => Cat(s.buff, i) = Rest(s, rs)) /\ Begins(Cat(s.buff, i), Rest(s, rs))
    BY <1>6, Zenon DEF InStream
  <2>. QED BY <1>2, <1>4, <1>5, <1>6, <2>1 DEF InStream
<1>. QED BY <1>1, <1>4, <1>5, <1>7 DEF j

\* A complete header is that of the first request.
LEMMA SessionStarts ==
    ASSUME NEW c \in Clients, NEW rs \in Seq(Requests(c)), NEW s \in SessionStates, NEW i \in Bytes,
           NEW closed \in BOOLEAN, InStream(s, i, rs, closed),
           s.pc = "header", Len(s.buff) = HeaderSize
    PROVE  /\ rs # <<>> /\ rs[1] \in Requests(c) /\ rs[1].op \in Ops
           /\ ClassOf(s.buff) = Class(rs[1].op) /\ FuncOf(s.buff) = Func(rs[1].op)
           /\ \A t \in SessionStates :
                 t.pc = "lock" /\ t.op = rs[1].op /\ t.buff = <<>> /\ t.pack = 1 /\ ~t.garbled =>
                    AtRequest(t, rs) /\ InStream(t, i, rs, closed)
<1>. DEFINE r == rs[1]
            h == command_header(Class(r.op), Func(r.op))
            F == SentFrom(r.op, 1, r.args)
            G == Cat(F, All(Tail(rs)))
<1>1. /\ ~s.garbled /\ s.buff \in Bytes
      /\ (~closed => Cat(s.buff, i) = All(rs)) /\ Begins(Cat(s.buff, i), All(rs))
  <2>1. ~s.garbled
    BY DEF InStream
  <2>2. Rest(s, rs) = All(rs)
    BY Zenon DEF Rest
  <2>3. s.buff \in Bytes
    BY DEF SessionStates
  <2>. QED BY <2>1, <2>2, <2>3, Zenon DEF InStream
<1>2. rs # <<>>
  <2>. SUFFICES ASSUME rs = <<>> PROVE FALSE
    OBVIOUS
  <2>1. All(rs) = <<>>
    BY AllOf
  <2>2. PICK u \in Bytes : <<>> = Cat(Cat(s.buff, i), u)
    BY <1>1, <2>1, Zenon DEF Begins
  <2>3. /\ Cat(s.buff, i) \in Bytes /\ Len(Cat(s.buff, i)) = Len(s.buff) + Len(i)
        /\ Len(Cat(Cat(s.buff, i), u)) = Len(Cat(s.buff, i)) + Len(u)
    BY <1>1, CatBytes, Zenon
  <2>4. Len(<<>>) = Len(s.buff) + Len(i) + Len(u)
    BY <2>2, <2>3, Zenon
  <2>5. Len(i) \in Nat /\ Len(u) \in Nat /\ Len(<<>>) = 0
    BY EmptyBytes, Zenon
  <2>6. HeaderSize = 8
    BY DEF HeaderSize, SizeOf
  <2>. QED BY <2>4, <2>5, <2>6
<1>3. r \in Requests(c) /\ All(Tail(rs)) \in Bytes /\ All(rs) = Cat(Encoded(r), All(Tail(rs)))
  BY <1>2, AllOf
<1>. HIDE DEF r
<1>4. /\ r.op \in Ops /\ Encoded(r) = Cat(h, F) /\ F \in Bytes
      /\ h \in Bytes /\ Len(h) = HeaderSize /\ ClassOf(h) = Class(r.op) /\ FuncOf(h) = Func(r.op)
  BY <1>3, RequestType, EncodedParts, HeaderBytes
<1>. HIDE DEF h, F
<1>5. G \in Bytes /\ All(rs) = Cat(h, G)
  <2>1. Cat(Cat(h, F), All(Tail(rs))) = Cat(h, G)
    BY <1>3, <1>4, CatAssociative, Zenon
  <2>2. G \in Bytes
    BY <1>3, <1>4, CatBytes, Zenon
  <2>. QED BY <1>3, <1>4, <2>1, <2>2, Zenon
<1>. HIDE DEF G
<1>6. s.buff = h /\ Begins(i, G) /\ (~closed => i = G)
  <2>1. Len(s.buff) = Len(h)
    BY <1>4
  <2>2. /\ Begins(Cat(s.buff, i), Cat(h, G)) => s.buff = h /\ Begins(i, G)
        /\ Cat(s.buff, i) = Cat(h, G) => i = G
    <3>. DEFINE a == s.buff
    <3>1. a \in Bytes /\ h \in Bytes /\ i \in Bytes /\ G \in Bytes /\ Len(a) = Len(h)
      BY <1>1, <1>4, <1>5, <2>1
    <3>. HIDE DEF a
    <3>2. /\ Begins(Cat(a, i), Cat(h, G)) => a = h /\ Begins(i, G)
          /\ Cat(a, i) = Cat(h, G) => i = G
      BY <3>1, Took
    <3>. QED BY <3>2, Zenon DEF a
  <2>. QED BY <1>1, <1>5, <2>2, Zenon
<1>7. ASSUME NEW t \in SessionStates,
             t.pc = "lock", t.op = r.op, t.buff = <<>>, t.pack = 1, ~t.garbled
      PROVE  AtRequest(t, rs) /\ InStream(t, i, rs, closed)
  <2>1. AtRequest(t, rs)
    BY <1>2, <1>7 DEF AtRequest, r
  <2>2. Rest(t, rs) = G
    BY <1>7 DEF Rest, G, F, r
  <2>3. Cat(t.buff, i) = i
    BY <1>7, CatEmpty, Zenon
  <2>4. InStream(t, i, rs, closed)
    BY <1>6, <1>7, <2>2, <2>3, Zenon DEF InStream
  <2>. QED BY <2>1, <2>4
<1>. QED BY <1>2, <1>3, <1>4, <1>6, <1>7, Zenon DEF r

\* A session that takes the mutex.
LEMMA SessionLocks ==
    ASSUME NEW c \in Clients, NEW rs \in Seq(Requests(c)), NEW s \in SessionStates, NEW i \in Bytes,
           NEW closed \in BOOLEAN, AtRequest(s, rs), InStream(s, i, rs, closed), s.pc = "lock",
           NEW t, t = [s EXCEPT !.pc = IF Packs(s.op) = 0 THEN "run" ELSE "args"]
    PROVE  t \in SessionStates /\ AtRequest(t, rs) /\ InStream(t, i, rs, closed)
<1>1. /\ t \in SessionStates /\ t.pc = (IF Packs(s.op) = 0 THEN "run" ELSE "args")
      /\ t.op = s.op /\ t.pack = s.pack /\ t.buff = s.buff /\ t.garbled = s.garbled
  BY DEF SessionStates
<1>2. rs # <<>> /\ s.op = rs[1].op /\ s.pack = 1
  BY Zenon DEF AtRequest
<1>3. Packs(s.op) \in Nat
  BY AtWhich
<1>4. AtRequest(t, rs)
  BY <1>1, <1>2, <1>3 DEF AtRequest
<1>5. Rest(t, rs) = Rest(s, rs)
  BY <1>1 DEF Rest
<1>6. ~s.garbled /\ s.buff = <<>>
  BY DEF InStream
<1>7. InStream(t, i, rs, closed)
  BY <1>1, <1>5, <1>6, Zenon DEF InStream
<1>. QED BY <1>1, <1>4, <1>7

\* After a pack, a session is at the next.
AtNext(s) ==
    [s EXCEPT !.buff = <<>>, !.pack = @ + 1,
              !.pc = IF s.pack = Packs(s.op) THEN "run" ELSE "args", !.garbled = FALSE]
AtNextGarbled(s) ==
    [s EXCEPT !.buff = <<>>, !.pack = @ + 1,
              !.pc = IF s.pack = Packs(s.op) THEN "run" ELSE "args", !.garbled = TRUE]

\* The session at the next pack.
LEMMA NextPack ==
    ASSUME NEW c \in Clients, NEW rs \in Seq(Requests(c)), NEW s \in SessionStates,
           AtRequest(s, rs), s.pc \in {"args", "payload"},
           NEW t, t = AtNext(s) \/ t = AtNextGarbled(s)
    PROVE  /\ t \in SessionStates /\ AtRequest(t, rs) /\ t.pc \in {"args", "run"}
           /\ t.buff = <<>> /\ t.op = s.op /\ t.pack = s.pack + 1
           /\ t = AtNext(s) => ~t.garbled
           /\ t = AtNextGarbled(s) => t.garbled
           /\ s.pack \in 1..Packs(s.op)
           /\ Rest(t, rs) = Cat(SentFrom(s.op, s.pack + 1, rs[1].args), All(Tail(rs)))
<1>. DEFINE pc == IF s.pack = Packs(s.op) THEN "run" ELSE "args"
<1>1. /\ t \in SessionStates /\ t.pc = pc /\ t.op = s.op /\ t.pack = s.pack + 1 /\ t.buff = <<>>
      /\ t = AtNext(s) => ~t.garbled
      /\ t = AtNextGarbled(s) => t.garbled
  <2>1. pc \in {"run", "args"} /\ <<>> \in Bytes /\ s.pack + 1 \in Nat
    BY EmptyBytes DEF SessionStates
  <2>. DEFINE u == [s EXCEPT !.buff = <<>>, !.pack = s.pack + 1, !.pc = pc, !.garbled = FALSE]
              w == [s EXCEPT !.buff = <<>>, !.pack = s.pack + 1, !.pc = pc, !.garbled = TRUE]
  <2>2. AtNext(s) = u /\ AtNextGarbled(s) = w
    BY Zenon DEF AtNext, AtNextGarbled
  <2>. HIDE DEF pc
  <2>3. /\ u \in SessionStates /\ u.pc = pc /\ ~u.garbled
        /\ u.op = s.op /\ u.pack = s.pack + 1 /\ u.buff = <<>>
    BY <2>1 DEF SessionStates
  <2>4. /\ w \in SessionStates /\ w.pc = pc /\ w.garbled
        /\ w.op = s.op /\ w.pack = s.pack + 1 /\ w.buff = <<>>
    BY <2>1 DEF SessionStates
  <2>. HIDE DEF u, w
  <2>. QED BY <2>2, <2>3, <2>4, Zenon
<1>2. rs # <<>> /\ s.op = rs[1].op /\ s.pack \in 1..Packs(s.op)
  BY Zenon DEF AtRequest
<1>3. Packs(s.op) \in Nat
  BY AtWhich
<1>4. AtRequest(t, rs)
  BY <1>1, <1>2, <1>3 DEF AtRequest
<1>5. Rest(t, rs) = Cat(SentFrom(s.op, s.pack + 1, rs[1].args), All(Tail(rs)))
  BY <1>1 DEF Rest
<1>. QED BY <1>1, <1>2, <1>4, <1>5

\* A part that is complete is what was sent for it, and what comes is the rest.
LEMMA Advance ==
    ASSUME NEW s \in SessionStates, NEW i \in Bytes, NEW rs, NEW closed \in BOOLEAN,
           NEW a \in Bytes, NEW G \in Bytes,
           InStream(s, i, rs, closed), ~s.garbled, Rest(s, rs) = Cat(a, G), Len(s.buff) = Len(a)
    PROVE  /\ s.buff = a
           /\ \A t : t.buff = <<>> /\ ~t.garbled /\ Rest(t, rs) = G => InStream(t, i, rs, closed)
<1>. DEFINE b == s.buff
<1>1. b \in Bytes /\ Len(b) = Len(a)
  BY DEF SessionStates
<1>2. Begins(Cat(b, i), Cat(a, G)) /\ (~closed => Cat(b, i) = Cat(a, G))
  BY Zenon DEF InStream
<1>. HIDE DEF b
<1>3. /\ Begins(Cat(b, i), Cat(a, G)) => b = a /\ Begins(i, G)
      /\ Cat(b, i) = Cat(a, G) => i = G
  BY <1>1, Took
<1>4. b = a /\ Begins(i, G) /\ (~closed => i = G)
  BY <1>2, <1>3, Zenon
<1>5. Cat(<<>>, i) = i
  BY CatEmpty, Zenon
<1>6. ASSUME NEW t, t.buff = <<>>, ~t.garbled, Rest(t, rs) = G PROVE InStream(t, i, rs, closed)
  BY <1>4, <1>5, <1>6, Zenon DEF InStream
<1>. QED BY <1>4, <1>6, Zenon DEF b

\* A pack of scalars, or an array, is read as what was sent.
LEMMA SessionReadsPack ==
    ASSUME NEW c \in Clients, NEW rs \in Seq(Requests(c)), NEW s \in SessionStates, NEW i \in Bytes,
           NEW closed \in BOOLEAN, AtRequest(s, rs), InStream(s, i, rs, closed), s.pc = "args",
           LET p == build_args_packs(s.op)[s.pack]
           IN  p[1].kind # "vector" /\ Len(s.buff) = required_buffer_size(p),
           NEW t, t = AtNext(s)
    PROVE  /\ ~s.garbled /\ InStream(t, i, rs, closed)
           /\ LET p == build_args_packs(s.op)[s.pack]
                  x == PackOf(s.op, s.pack, rs[1].args)
              IN  /\ p[1].kind = "scalar" => deserialize(p, s.buff) = x
                  /\ p[1].kind # "scalar" => <<elements(p[1].T, s.buff)>> = x
<1>. DEFINE op == s.op
            k == s.pack
            v == rs[1].args
            p == build_args_packs(op)[k]
            x == PackOf(op, k, v)
            a == SentPack(op, k, v)
            F == SentFrom(op, k + 1, v)
            T == All(Tail(rs))
            G == Cat(F, T)
<1>1. /\ k \in 1..Packs(op) /\ Rest(t, rs) = G /\ t.buff = <<>> /\ ~t.garbled
  BY NextPack
<1>2. /\ op \in Ops /\ Typed(Args(op), v) /\ T \in Bytes
      /\ \A j \in 1..Packs(op) : SentFrom(op, j + 1, v) \in Bytes
  BY AtWhich
<1>3. Rest(s, rs) = Cat(SentFrom(op, k, v), T)
  BY Zenon DEF Rest
<1>4. p[1].kind # "vector" /\ Len(s.buff) = required_buffer_size(p)
  BY Zenon
<1>. HIDE DEF op, k, v
<1>5. F \in Bytes
  BY <1>1, <1>2
<1>6. a \in Bytes /\ SentFrom(op, k, v) = Cat(a, F)
  BY <1>1, <1>2, SentPackByPack
<1>7. required_buffer_size(p) \in Nat \ {0} /\ p[1].kind \in {"scalar", "array", "vector"}
  BY <1>1, <1>2, PackSize
<1>8. /\ Len(a) = required_buffer_size(p)
      /\ p[1].kind = "scalar" => deserialize(p, a) = x
      /\ p[1].kind # "scalar" => <<elements(p[1].T, a)>> = x
  <2>1. CASE p[1].kind = "scalar"
    BY <1>1, <1>2, <2>1, ScalarPack
  <2>2. CASE p[1].kind = "array"
    BY <1>1, <1>2, <2>2, ArrayPack
  <2>. QED BY <1>4, <1>7, <2>1, <2>2
<1>. HIDE DEF p, x, a, F, T
<1>9. G \in Bytes /\ Rest(s, rs) = Cat(a, G)
  <2>1. G \in Bytes
    BY <1>2, <1>5, CatBytes, Zenon
  <2>2. Cat(Cat(a, F), T) = Cat(a, Cat(F, T))
    BY <1>2, <1>5, <1>6, CatAssociative, Zenon
  <2>. QED BY <1>3, <1>6, <2>1, <2>2, Zenon
<1>. HIDE DEF G
<1>10. ~s.garbled
  <2>. SUFFICES ASSUME s.garbled PROVE FALSE
    OBVIOUS
  <2>1. s.buff = <<>>
    BY DEF InStream
  <2>. QED BY <2>1, <1>4, <1>7, EmptyBytes
<1>11. Len(s.buff) = Len(a)
  BY <1>4, <1>8, Zenon
<1>12. /\ s.buff = a
       /\ \A u : u.buff = <<>> /\ ~u.garbled /\ Rest(u, rs) = G => InStream(u, i, rs, closed)
  BY <1>6, <1>9, <1>10, <1>11, Advance
<1>13. InStream(t, i, rs, closed)
  BY <1>1, <1>12, Zenon
<1>. QED BY <1>8, <1>10, <1>12, <1>13, Zenon DEF p, x, op, k, v

\* The length of a vector tells how many bytes are to come.
Announced(s) ==
    LET size == SizeOf[build_args_packs(s.op)[s.pack][1].T]
    IN  (extract("uint32_t", s.buff) \div size) * size

\* A session that has the length of a vector waits for as many bytes.
LEMMA SessionReadsLength ==
    ASSUME NEW c \in Clients, NEW rs \in Seq(Requests(c)), NEW s \in SessionStates, NEW i \in Bytes,
           NEW closed \in BOOLEAN, AtRequest(s, rs), InStream(s, i, rs, closed), s.pc = "args",
           LET p == build_args_packs(s.op)[s.pack]
           IN  p[1].kind = "vector" /\ Len(s.buff) = required_buffer_size(p),
           NEW t, t = [s EXCEPT !.pc = "payload", !.buff = <<>>, !.len = Announced(s)]
    PROVE  t \in SessionStates /\ ~s.garbled /\ AtRequest(t, rs) /\ InStream(t, i, rs, closed)
<1>. DEFINE op == s.op
            k == s.pack
            v == rs[1].args
            p == build_args_packs(op)[k]
            b == Payload(op, k, v)
            F == SentFrom(op, k + 1, v)
            T == All(Tail(rs))
            G == Cat(b, Cat(F, T))
            z == SizeOf[p[1].T]
            l == Announced(s)
<1>1. /\ rs # <<>> /\ op = rs[1].op /\ k \in 1..Packs(op)
  BY Zenon DEF AtRequest
<1>2. /\ op \in Ops /\ Typed(Args(op), v) /\ T \in Bytes
      /\ \A j \in 1..Packs(op) : SentFrom(op, j + 1, v) \in Bytes
  BY AtWhich
<1>3. Rest(s, rs) = Cat(SentFrom(op, k, v), T)
  BY Zenon DEF Rest
<1>4. /\ p[1].kind = "vector" /\ Len(s.buff) = required_buffer_size(p)
      /\ l = (extract("uint32_t", s.buff) \div z) * z
  BY Zenon DEF Announced
<1>. HIDE DEF op, k, v, l
<1>5. F \in Bytes
  BY <1>1, <1>2
<1>6. SentFrom(op, k, v) = Cat(SentPack(op, k, v), F)
  BY <1>1, <1>2, SentPackByPack
<1>7. required_buffer_size(p) \in Nat \ {0}
  BY <1>1, <1>2, PackSize
<1>8. PICK a \in Bytes :
        /\ b \in Bytes /\ SentPack(op, k, v) = Cat(a, b) /\ Len(a) = required_buffer_size(p)
        /\ (extract("uint32_t", a) \div z) * z = Len(b)
  BY <1>1, <1>2, <1>4, VectorPack
<1>. HIDE DEF p, b, F, T, z
<1>9. G \in Bytes /\ Rest(s, rs) = Cat(a, G)
  <2>1. G \in Bytes /\ Cat(F, T) \in Bytes
    BY <1>2, <1>5, <1>8, CatBytes, Zenon
  <2>2. Cat(Cat(a, b), F) = Cat(a, Cat(b, F)) /\ Cat(b, F) \in Bytes
    <3>1. Cat(Cat(a, b), F) = Cat(a, Cat(b, F))
      BY <1>5, <1>8, CatAssociative, Zenon
    <3>2. Cat(b, F) \in Bytes
      BY <1>5, <1>8, CatBytes, Zenon
    <3>. QED BY <3>1, <3>2
  <2>3. Cat(Cat(a, Cat(b, F)), T) = Cat(a, Cat(Cat(b, F), T))
    BY <1>2, <1>8, <2>2, CatAssociative, Zenon
  <2>4. Cat(Cat(b, F), T) = Cat(b, Cat(F, T))
    BY <1>2, <1>5, <1>8, CatAssociative, Zenon
  <2>. QED BY <1>3, <1>6, <1>8, <2>1, <2>2, <2>3, <2>4, Zenon
<1>10. ~s.garbled
  <2>. SUFFICES ASSUME s.garbled PROVE FALSE
    OBVIOUS
  <2>1. s.buff = <<>>
    BY DEF InStream
  <2>. QED BY <2>1, <1>4, <1>7, EmptyBytes
<1>11. Len(s.buff) = Len(a)
  BY <1>4, <1>8, Zenon
<1>. HIDE DEF G
<1>12. /\ s.buff = a
       /\ \A u : u.buff = <<>> /\ ~u.garbled /\ Rest(u, rs) = G => InStream(u, i, rs, closed)
  BY <1>8, <1>9, <1>10, <1>11, Advance
<1>13. l = Len(b) /\ l \in Nat
  <2>1. l = Len(b)
    BY <1>4, <1>8, <1>12, Zenon
  <2>. QED BY <1>8, <2>1, EmptyBytes
<1>14. /\ t \in SessionStates /\ t.pc = "payload" /\ t.op = op /\ t.pack = k /\ t.len = l
       /\ t.buff = <<>> /\ t.garbled = s.garbled
  <2>1. <<>> \in Bytes
    BY EmptyBytes
  <2>. QED BY <1>13, <2>1 DEF SessionStates, op, k, l
<1>15. AtRequest(t, rs)
  BY <1>1, <1>4, <1>13, <1>14 DEF AtRequest, p, b, v
<1>16. Rest(t, rs) = G
  BY <1>14 DEF Rest, G, b, F, T, v
<1>17. InStream(t, i, rs, closed)
  BY <1>10, <1>12, <1>14, <1>16, Zenon
<1>. QED BY <1>10, <1>14, <1>15, <1>17

\* The elements of a vector are read as they were sent.
LEMMA SessionReadsElements ==
    ASSUME NEW c \in Clients, NEW rs \in Seq(Requests(c)), NEW s \in SessionStates, NEW i \in Bytes,
           NEW closed \in BOOLEAN, AtRequest(s, rs), InStream(s, i, rs, closed), s.pc = "payload",
           Len(s.buff) = s.len, NEW t, t = AtNext(s)
    PROVE  /\ ~s.garbled /\ InStream(t, i, rs, closed)
           /\ build_args_packs(s.op)[s.pack][1].kind = "vector"
           /\ <<elements(build_args_packs(s.op)[s.pack][1].T, s.buff)>>
                = PackOf(s.op, s.pack, rs[1].args)
<1>. DEFINE op == s.op
            k == s.pack
            v == rs[1].args
            p == build_args_packs(op)[k]
            x == PackOf(op, k, v)
            b == Payload(op, k, v)
            G == Cat(SentFrom(op, k + 1, v), All(Tail(rs)))
<1>1. /\ k \in 1..Packs(op) /\ Rest(t, rs) = G /\ t.buff = <<>> /\ ~t.garbled
  BY NextPack
<1>2. /\ op \in Ops /\ Typed(Args(op), v) /\ All(Tail(rs)) \in Bytes
      /\ \A j \in 1..Packs(op) : SentFrom(op, j + 1, v) \in Bytes
  BY AtWhich
<1>3. Rest(s, rs) = Cat(b, G)
  BY Zenon DEF Rest
<1>4. p[1].kind = "vector" /\ s.len = Len(b)
  BY Zenon DEF AtRequest
<1>5. ~s.garbled
  BY DEF InStream
<1>. HIDE DEF op, k, v
<1>6. SentFrom(op, k + 1, v) \in Bytes
  BY <1>1, <1>2
<1>7. G \in Bytes
  BY <1>2, <1>6, CatBytes, Zenon
<1>8. b \in Bytes /\ <<elements(p[1].T, b)>> = x
  BY <1>1, <1>2, <1>4, VectorPack
<1>. HIDE DEF p, x, b, G
<1>9. Len(s.buff) = Len(b)
  BY <1>4, Zenon
<1>10. /\ s.buff = b
       /\ \A u : u.buff = <<>> /\ ~u.garbled /\ Rest(u, rs) = G => InStream(u, i, rs, closed)
  BY <1>3, <1>5, <1>7, <1>8, <1>9, Advance
<1>11. InStream(t, i, rs, closed)
  BY <1>1, <1>10, Zenon
<1>. QED BY <1>4, <1>5, <1>8, <1>10, <1>11, Zenon DEF p, x, op, k, v

\* Without a client to send it, an argument is what the memory holds.
LEMMA SessionReadsNothing ==
    ASSUME NEW c \in Clients, NEW rs \in Seq(Requests(c)), NEW s \in SessionStates,
           AtRequest(s, rs), s.pc \in {"args", "payload"}, NEW t, t = AtNextGarbled(s)
    PROVE  InStream(t, <<>>, rs, TRUE)
<1>1. t.pc \in {"args", "run"} /\ t.buff = <<>> /\ t.garbled
  BY NextPack
<1>. QED BY <1>1 DEF InStream

\* The session once the operation has run, and what of the requests is left.
HasRun(s) == [s EXCEPT !.pc = "header", !.garbled = FALSE]
ToRun(s, rs) == IF s.garbled THEN <<>> ELSE Tail(rs)

\* Once an operation ran, its session is at the next header.
LEMMA SessionRan ==
    ASSUME NEW c \in Clients, NEW rs \in Seq(Requests(c)), NEW s \in SessionStates, NEW i \in Bytes,
           NEW closed \in BOOLEAN, AtRequest(s, rs), InStream(s, i, rs, closed), s.pc = "run",
           NEW t, t = HasRun(s), NEW q, q = ToRun(s, rs)
    PROVE  /\ t \in SessionStates /\ q \in Seq(Requests(c)) /\ rs # <<>>
           /\ AtRequest(t, q) /\ InStream(t, i, q, closed)
<1>1. t \in SessionStates /\ t.pc = "header" /\ ~t.garbled /\ t.buff = s.buff
  BY DEF SessionStates, HasRun
<1>2. s.buff = <<>> /\ (s.garbled => closed /\ i = <<>>)
  BY DEF InStream
<1>3. /\ rs # <<>> /\ Tail(rs) \in Seq(Requests(c)) /\ All(Tail(rs)) \in Bytes
      /\ s.op \in Ops /\ Typed(Args(s.op), rs[1].args)
  BY AtWhich
<1>4. AtRequest(t, q) /\ Rest(t, q) = All(q)
  BY <1>1 DEF AtRequest, Rest
<1>5. CASE s.garbled
  <2>1. q = <<>> /\ q \in Seq(Requests(c))
    BY <1>5 DEF ToRun
  <2>2. All(q) = <<>>
    BY <2>1, AllOf
  <2>3. Begins(Cat(t.buff, i), Rest(t, q))
    <3>1. <<>> \in Bytes
      BY EmptyBytes
    <3>2. Begins(Cat(<<>>, <<>>), <<>>)
      BY <3>1, BeginsSelf, Zenon
    <3>3. t.buff = <<>> /\ i = <<>> /\ Rest(t, q) = <<>>
      BY <1>1, <1>2, <1>4, <1>5, <2>2, Zenon
    <3>. QED BY <3>2, <3>3, Zenon
  <2>4. InStream(t, i, q, closed)
    BY <1>1, <1>2, <1>5, <2>3 DEF InStream
  <2>. QED BY <1>1, <1>3, <1>4, <2>1, <2>4
<1>6. CASE ~s.garbled
  <2>1. q = Tail(rs)
    BY <1>6 DEF ToRun
  <2>2. SentFrom(s.op, s.pack, rs[1].args) = <<>>
    <3>1. s.pack = Packs(s.op) + 1
      BY Zenon DEF AtRequest
    <3>. QED BY <1>3, <3>1, SentFromType, Zenon
  <2>3. Rest(s, rs) = Cat(SentFrom(s.op, s.pack, rs[1].args), All(q))
    BY <2>1, Zenon DEF Rest
  <2>4. Cat(<<>>, All(q)) = All(q)
    BY <1>3, <2>1, CatEmpty, Zenon
  <2>5. Rest(s, rs) = Rest(t, q)
    BY <1>4, <2>2, <2>3, <2>4, Zenon
  <2>6. InStream(t, i, q, closed)
    BY <1>1, <1>6, <2>5, Zenon DEF InStream
  <2>. QED BY <1>1, <1>3, <1>4, <2>1, <2>6
<1>. QED BY <1>5, <1>6

\* A call comes after what a session has yet to read.
LEMMA SessionIsSent ==
    ASSUME NEW c \in Clients, NEW rs \in Seq(Requests(c)), NEW s \in SessionStates, NEW i \in Bytes,
           AtRequest(s, rs), InStream(s, i, rs, FALSE), s.pc # "gone", NEW r \in Requests(c)
    PROVE  /\ i \o Encoded(r) \in Bytes /\ Append(rs, r) \in Seq(Requests(c))
           /\ AtRequest(s, Append(rs, r)) /\ InStream(s, i \o Encoded(r), Append(rs, r), FALSE)
<1>. DEFINE e == Encoded(r)
            q == Append(rs, r)
            T == All(Tail(rs))
            j == Cat(i, e)
<1>1. e \in Bytes /\ j = i \o Encoded(r)
  BY EncodedParts, Zenon DEF Cat
<1>2. j \in Bytes
  BY <1>1, CatBytes, Zenon
<1>3. q \in Seq(Requests(c)) /\ All(q) = Cat(All(rs), e) /\ All(rs) \in Bytes
  <2>1. q \in Seq(Requests(c))
    OBVIOUS
  <2>. QED BY <2>1, AllOf
<1>4. s.buff \in Bytes /\ Rest(s, rs) \in Bytes
  BY RestType DEF SessionStates
<1>5. rs # <<>> => q # <<>> /\ q[1] = rs[1] /\ Tail(q) = Append(Tail(rs), r)
  OBVIOUS
<1>. HIDE DEF e, q, j
<1>6. AtRequest(s, q)
  BY <1>5, Zenon DEF AtRequest
<1>7. Rest(s, q) = Cat(Rest(s, rs), e)
  <2>1. CASE s.pc = "header"
    BY <1>3, <2>1, Zenon DEF Rest
  <2>2. CASE s.pc # "header"
    <3>. DEFINE v == rs[1].args
    <3>1. /\ rs # <<>> /\ T \in Bytes /\ Tail(rs) \in Seq(Requests(c))
          /\ s.op \in Ops /\ Typed(Args(s.op), v) /\ SentFrom(s.op, s.pack, v) \in Bytes
          /\ \A k \in 1..Packs(s.op) : SentFrom(s.op, k + 1, v) \in Bytes
      BY <2>2, AtWhich
    <3>2. All(Tail(q)) = Cat(T, e)
      <4>1. All(Append(Tail(rs), r)) = Cat(All(Tail(rs)), Encoded(r))
        BY <3>1, AllOf
      <4>. QED BY <1>5, <3>1, <4>1, Zenon DEF e
    <3>3. q[1].args = v
      BY <1>5, <3>1, Zenon
    <3>. HIDE DEF T, v
    <3>4. CASE s.pc = "payload"
      <4>. DEFINE b == Payload(s.op, s.pack, v)
                  F == SentFrom(s.op, s.pack + 1, v)
      <4>1. s.pack \in 1..Packs(s.op) /\ build_args_packs(s.op)[s.pack][1].kind = "vector"
        BY <2>2, <3>4, Zenon DEF AtRequest
      <4>2. b \in Bytes /\ F \in Bytes
        BY <3>1, <4>1, VectorSent, Zenon
      <4>3. Rest(s, rs) = Cat(b, Cat(F, T)) /\ Rest(s, q) = Cat(b, Cat(F, Cat(T, e)))
        <5>1. Rest(s, rs) = Cat(b, Cat(F, T))
          BY <2>2, <3>4, Zenon DEF Rest, T, v
        <5>2. Rest(s, q) = Cat(b, Cat(F, Cat(T, e)))
          BY <2>2, <3>2, <3>3, <3>4, Zenon DEF Rest
        <5>. QED BY <5>1, <5>2
      <4>. HIDE DEF b, F
      <4>4. Cat(F, T) \in Bytes
        BY <3>1, <4>2, CatBytes, Zenon
      <4>5. Cat(F, Cat(T, e)) = Cat(Cat(F, T), e)
        BY <1>1, <3>1, <4>2, CatAssociative, ZenonT(60)
      <4>6. Cat(b, Cat(Cat(F, T), e)) = Cat(Cat(b, Cat(F, T)), e)
        BY <1>1, <4>2, <4>4, CatAssociative, ZenonT(60)
      <4>. QED BY <4>3, <4>5, <4>6, Zenon
    <3>5. CASE s.pc # "payload"
      <4>. DEFINE F == SentFrom(s.op, s.pack, v)
      <4>1. Rest(s, rs) = Cat(F, T)
        BY <2>2, <3>5, Zenon DEF Rest, T, v
      <4>2. Rest(s, q) = Cat(F, Cat(T, e))
        BY <2>2, <3>2, <3>3, <3>5, Zenon DEF Rest
      <4>3. F \in Bytes
        BY <3>1
      <4>. HIDE DEF F
      <4>4. Cat(F, Cat(T, e)) = Cat(Cat(F, T), e)
        BY <1>1, <3>1, <4>3, CatAssociative, Zenon
      <4>. QED BY <4>1, <4>2, <4>4, Zenon
    <3>. QED BY <3>4, <3>5
  <2>. QED BY <2>1, <2>2
<1>8. ~s.garbled /\ Cat(s.buff, i) = Rest(s, rs)
  BY DEF InStream
<1>9. Cat(s.buff, j) = Rest(s, q) /\ Rest(s, q) \in Bytes
  <2>1. Cat(s.buff, Cat(i, e)) = Cat(Cat(s.buff, i), e)
    BY <1>1, <1>4, CatAssociative, Zenon
  <2>2. Cat(Rest(s, rs), e) \in Bytes
    BY <1>1, <1>4, CatBytes, Zenon
  <2>. QED BY <1>7, <1>8, <2>1, <2>2, Zenon DEF j
<1>10. InStream(s, j, q, FALSE)
  <2>1. Begins(Cat(s.buff, j), Rest(s, q))
    BY <1>9, BeginsSelf, Zenon
  <2>2. s.pc \in {"lock", "run"} => s.buff = <<>>
    BY DEF InStream
  <2>. QED BY <1>8, <1>9, <2>1, <2>2, Zenon DEF InStream
<1>. QED BY <1>1, <1>2, <1>3, <1>6, <1>10, Zenon DEF q

\* Of a client that is gone, a part of its last bytes may come.
LEMMA SessionIsLeft ==
    ASSUME NEW c \in Clients, NEW rs \in Seq(Requests(c)), NEW s \in SessionStates, NEW i \in Bytes,
           AtRequest(s, rs), InStream(s, i, rs, FALSE), s.pc # "gone", NEW n \in 0..Len(i)
    PROVE  SubSeq(i, 1, n) \in Bytes /\ InStream(s, SubSeq(i, 1, n), rs, TRUE)
<1>. DEFINE a == SubSeq(i, 1, n)
            b == SubSeq(i, n + 1, Len(i))
<1>1. a \in Bytes /\ b \in Bytes /\ i = Cat(a, b)
  <2>1. n \in Nat /\ n <= Len(i)
    BY EmptyBytes
  <2>. QED BY <2>1, Cutting
<1>. HIDE DEF a, b
<1>2. s.buff \in Bytes
  BY DEF SessionStates
<1>3. ~s.garbled /\ Cat(s.buff, i) = Rest(s, rs) /\ (s.pc \in {"lock", "run"} => s.buff = <<>>)
  BY DEF InStream
<1>4. Cat(s.buff, Cat(a, b)) = Cat(Cat(s.buff, a), b)
  BY <1>1, <1>2, CatAssociative, Zenon
<1>5. Begins(Cat(s.buff, a), Rest(s, rs))
  BY <1>1, <1>3, <1>4, Zenon DEF Begins
<1>6. InStream(s, a, rs, TRUE)
  BY <1>3, <1>5, Zenon DEF InStream
<1>. QED BY <1>1, <1>6 DEF a

-----------------------------------------------------------------------------
(* What the steps make of a client's place in the stream to it.             *)

\* A reply is a header with the ids of the operation, and what it returns.
LEMMA ReplyParts ==
    ASSUME NEW op \in Ops, Return(op), NEW v \in Replies(op)
    PROVE  LET h == command_header(Class(op), Func(op))
               p == Ret(op)
               reply == build_command(Class(op), Func(op), p, v)
           IN  /\ IsPack(p) /\ Typed(p, v) /\ BytesOf(p, v) \in Bytes
               /\ h \in Bytes /\ Len(h) = HeaderSize /\ HeaderSize = 8
               /\ reply \in Bytes /\ reply = Cat(h, BytesOf(p, v)) /\ reply # <<>>
               /\ ClassOf(Cat(h, BytesOf(p, v))) = Class(op)
               /\ FuncOf(Cat(h, BytesOf(p, v))) = Func(op)
<1>. DEFINE h == command_header(Class(op), Func(op))
            p == Ret(op)
            b == BytesOf(p, v)
            reply == build_command(Class(op), Func(op), p, v)
<1>1. /\ p \in Seq(Types) /\ p # <<>>
      /\ (Len(p) > 1 => \A i \in DOMAIN p : p[i].kind = "scalar")
  BY TypesAssumption DEF Return
<1>2. Typed(p, v)
  BY TypesAssumption DEF Replies
<1>3. h \in Bytes /\ Len(h) = HeaderSize /\ HeaderSize = 8
  BY HeaderBytes
<1>. HIDE DEF h, p
<1>4. IsPack(p)
  <2>1. Len(p) \in Nat \ {0} /\ DOMAIN p = 1..Len(p)
    BY <1>1, EmptySeq
  <2>. QED BY <1>1, <2>1 DEF IsPack
<1>5. Fit(p, v)
  BY <1>2, Zenon DEF Typed, Fit
<1>6. b \in Bytes /\ command_serializer(p, v) = b
  BY <1>1, <1>5, BlockedType, Serialized
<1>. HIDE DEF b
<1>7. reply = Cat(h, b)
  BY <1>6, Zenon DEF build_command, Cat, h
<1>8. Cat(h, b) \in Bytes /\ Len(Cat(h, b)) = Len(h) + Len(b) /\ Len(b) \in Nat
  BY <1>3, <1>6, CatBytes, EmptyBytes, Zenon
<1>. HIDE DEF reply
<1>9. reply \in Bytes /\ reply # <<>>
  BY <1>3, <1>7, <1>8, EmptyBytes
<1>10. ClassOf(Cat(h, b)) = Class(op) /\ FuncOf(Cat(h, b)) = Func(op)
  <2>1. Class(op) \in 0..(Radix2 - 1) /\ Func(op) \in 0..(Radix2 - 1)
    BY WireAssumption
  <2>2. b \in Seq(Byte)
    BY <1>6, Zenon DEF Bytes
  <2>3. ClassOf(h \o b) = Class(op) /\ FuncOf(h \o b) = Func(op)
    BY <2>1, <2>2, HeaderReadsBack, Zenon DEF h
  <2>. QED BY <2>3, Zenon DEF Cat
<1>. QED BY <1>2, <1>3, <1>4, <1>6, <1>7, <1>9, <1>10, Zenon DEF h, p, b, reply

\* If that is a vector, it is sent as its length and its elements.
LEMMA DynamicParts ==
    ASSUME NEW op \in Ops, IsDynamic(op), NEW v \in Replies(op)
    PROVE  LET h == command_header(Class(op), Func(op))
               p == Ret(op)
               b == dump_array_to_buffer(p[1], v[1])
           IN  \E length \in Bytes :
                  /\ b \in Bytes /\ BytesOf(p, v) = Cat(length, b)
                  /\ Len(length) = required_buffer_size(p)
                  /\ extract("uint32_t", length) = Len(b)
                  /\ <<elements(p[1].T, b)>> = v
<1>. DEFINE p == Ret(op)
<1>1. IsPack(p) /\ Typed(p, v) /\ p[1].kind = "vector"
  BY ReplyParts DEF IsDynamic
<1>. HIDE DEF p
<1>2. \E length \in Bytes :
         /\ dump_array_to_buffer(p[1], v[1]) \in Bytes
         /\ BytesOf(p, v) = Cat(length, dump_array_to_buffer(p[1], v[1]))
         /\ Len(length) = required_buffer_size(p)
         /\ extract("uint32_t", length) = Len(dump_array_to_buffer(p[1], v[1]))
         /\ <<elements(p[1].T, dump_array_to_buffer(p[1], v[1]))>> = v
  BY <1>1, VectorOfPack
<1>. QED BY <1>2 DEF p

\* An operation that returns something has a reply.
LEMMA SomeReply ==
    ASSUME NEW op \in Ops, Return(op)
    PROVE  \E v \in Replies(op) : TRUE
<1>1. Object0 \in Objects /\ AnyValues(op) # {}
  BY TypesAssumption
<1>2. PICK v \in AnyValues(op) : TRUE
  BY <1>1
<1>3. Result(Object0, op, v) \in Replies(op)
  BY <1>1, <1>2 DEF Replies
<1>. QED BY <1>3

\* A string that begins one that is not longer is that one, and nothing follows.
LEMMA Whole ==
    \A a, i, b \in Bytes : Len(a) = Len(b) /\ Begins(Cat(a, i), b) =>
        a = b /\ i = <<>> /\ Cat(a, i) = b
<1>. SUFFICES ASSUME NEW a \in Bytes, NEW i \in Bytes, NEW b \in Bytes,
                     Len(a) = Len(b), Begins(Cat(a, i), b)
              PROVE  a = b /\ i = <<>> /\ Cat(a, i) = b
  OBVIOUS
<1>1. <<>> \in Bytes /\ Cat(b, <<>>) = b
  BY EmptyBytes, CatEmpty, Zenon
<1>2. a = b /\ Begins(i, <<>>)
  <2>1. Begins(Cat(a, i), Cat(b, <<>>))
    BY <1>1, Zenon
  <2>. QED BY <1>1, <2>1, Took
<1>3. PICK u \in Bytes : <<>> = Cat(i, u)
  BY <1>2, Zenon DEF Begins
<1>4. Len(<<>>) = Len(i) + Len(u)
  BY <1>3, CatBytes, Zenon
<1>5. i = <<>>
  BY <1>4, EmptyBytes
<1>. QED BY <1>1, <1>2, <1>5, Zenon

\* What a client has yet to get is a string of bytes.
LEMMA ReplyRestType ==
    ASSUME NEW k, k.op \in Ops, Return(k.op), NEW v \in Replies(k.op),
           k.pc = "dynamic" => IsDynamic(k.op), k.pc \in {"fixed", "dynamic"}
    PROVE  ReplyRest(k, v) \in Bytes
<1>1. CASE k.pc = "fixed"
  <2>1. build_command(Class(k.op), Func(k.op), Ret(k.op), v) \in Bytes
    BY ReplyParts
  <2>. QED BY <1>1, <2>1, Zenon DEF ReplyRest
<1>2. CASE k.pc = "dynamic"
  <2>1. dump_array_to_buffer(Ret(k.op)[1], v[1]) \in Bytes
    BY <1>2, DynamicParts
  <2>. QED BY <1>2, <2>1, Zenon DEF ReplyRest
<1>. QED BY <1>1, <1>2

\* A client that has got nothing can be one of a server that ended.
LEMMA ClientHasNothing ==
    ASSUME NEW k \in ClientStates, k.op \in Ops, Return(k.op), k.pc = "fixed", k.buff = <<>>
    PROVE  ClientAt(FALSE, k, <<>>, <<>>, <<>>)
<1>1. PICK v \in Replies(k.op) : TRUE
  BY SomeReply
<1>2. ReplyRest(k, v) \in Bytes /\ ReplyRest(k, v) # <<>>
  <2>1. /\ build_command(Class(k.op), Func(k.op), Ret(k.op), v) \in Bytes
        /\ build_command(Class(k.op), Func(k.op), Ret(k.op), v) # <<>>
    BY ReplyParts
  <2>. QED BY <2>1, Zenon DEF ReplyRest
<1>3. Cat(k.buff, <<>>) = <<>> /\ Begins(Cat(k.buff, <<>>), ReplyRest(k, v))
  <2>1. <<>> \in Bytes /\ Cat(<<>>, <<>>) = <<>>
    BY EmptyBytes, CatEmpty, Zenon
  <2>. QED BY <1>2, <2>1, BeginsSelf, Zenon
<1>4. Coming(FALSE, k, <<>>, <<>>, v)
  BY <1>2, <1>3 DEF Coming
<1>5. /\ k.pc # "aborted" /\ k.pc # "closed" /\ k.pc # "idle"
  OBVIOUS
<1>. QED BY <1>4, <1>5, Zenon DEF ClientAt

\* A client that calls.
LEMMA ClientCalls ==
    ASSUME NEW c \in Clients, NEW rs \in Seq(Requests(c)), NEW k \in ClientStates, NEW as, NEW out,
           NEW u \in BOOLEAN, ClientAt(u, k, out, rs, as), k.pc = "idle",
           ~u => rs = <<>>, NEW r \in Requests(c), NEW j \in ClientStates,
           j.pc = (IF Return(r.op) THEN "fixed" ELSE "idle"), j.op = r.op, j.buff = <<>>
    PROVE  ClientAt(u, j, out, IF u THEN Append(rs, r) ELSE rs, as)
<1>. DEFINE q == Append(rs, r)
            m == Len(rs)
<1>1. as = <<>> /\ out = <<>> /\ \A n \in 1..Len(rs) : ~Return(rs[n].op)
  BY Zenon DEF ClientAt
<1>2. /\ m \in Nat /\ q # <<>> /\ Len(q) = m + 1 /\ q[m + 1] = r
      /\ \A n \in 1..m : q[n] = rs[n]
  OBVIOUS
<1>3. r.op \in Ops
  BY RequestType
<1>. HIDE DEF q
<1>4. CASE Return(r.op)
  <2>1. CASE u
    <3>1. \A n \in 1..Len(q) : Return(q[n].op) => n = Len(q)
      BY <1>1, <1>2 DEF m
    <3>2. Pending(u, j, out, q, as)
      BY <1>1, <1>2, <1>4, <2>1, <3>1 DEF Pending
    <3>. QED BY <1>3, <1>4, <2>1, <3>2 DEF ClientAt, q
  <2>2. CASE ~u
    <3>1. ClientAt(FALSE, j, <<>>, <<>>, <<>>)
      BY <1>3, <1>4, ClientHasNothing
    <3>2. u = FALSE /\ rs = <<>>
      BY <2>2
    <3>. QED BY <1>1, <3>1, <3>2, Zenon
  <2>. QED BY <2>1, <2>2
<1>5. CASE ~Return(r.op)
  <2>1. \A n \in 1..Len(q) : ~Return(q[n].op)
    <3>. SUFFICES ASSUME NEW n \in 1..(m + 1) PROVE ~Return(q[n].op)
      BY <1>2
    <3>1. CASE n = m + 1
      BY <1>2, <1>5, <3>1
    <3>2. CASE n # m + 1
      <4>1. n \in 1..m
        BY <1>2, <3>2
      <4>. QED BY <1>1, <1>2, <4>1
    <3>. QED BY <3>1, <3>2
  <2>2. j.pc = "idle"
    BY <1>5
  <2>. QED BY <1>1, <2>1, <2>2 DEF ClientAt, q
<1>. QED BY <1>4, <1>5

\* A client that reads what has come.
LEMMA ClientReadsOn ==
    ASSUME NEW k \in ClientStates, NEW out \in Bytes, NEW rs, NEW as, NEW u,
           ClientAt(u, k, out, rs, as), k.pc \in {"fixed", "dynamic"},
           NEW n \in 1..Len(out), NEW j, j = [k EXCEPT !.buff = @ \o SubSeq(out, 1, n)]
    PROVE  LET rest == SubSeq(out, n + 1, Len(out))
           IN  j \in ClientStates /\ rest \in Bytes /\ ClientAt(u, j, rest, rs, as)
<1>. DEFINE rest == SubSeq(out, n + 1, Len(out))
            had == k.buff
            got == SubSeq(out, 1, n)
<1>1. had \in Bytes /\ k.buff = had
  BY DEF ClientStates
<1>2. /\ got \in Bytes /\ rest \in Bytes /\ out = Cat(got, rest)
  <2>1. n \in 0..Len(out)
    BY EmptyBytes
  <2>. QED BY <2>1, Cutting
<1>3. j.buff = had \o got /\ j.pc = k.pc /\ j.op = k.op /\ j.len = k.len
  BY DEF ClientStates
<1>4. out # <<>>
  BY EmptyBytes
<1>. HIDE DEF rest, had, got
<1>5. Cat(had, got) \in Bytes /\ j.buff = Cat(had, got)
  <2>1. Cat(had, got) \in Bytes
    BY <1>1, <1>2, CatBytes, Zenon
  <2>. QED BY <1>3, <2>1, Zenon DEF Cat
<1>6. Cat(j.buff, rest) = Cat(k.buff, out)
  <2>1. Cat(Cat(had, got), rest) = Cat(had, Cat(got, rest))
    BY <1>1, <1>2, CatAssociative, Zenon
  <2>. QED BY <1>1, <1>2, <1>5, <2>1, Zenon
<1>7. j \in ClientStates
  <2>. DEFINE b == had \o got
  <2>1. j = [k EXCEPT !.buff = b]
    BY <1>1 DEF had, got
  <2>2. b \in Bytes
    BY <1>5, Zenon DEF Cat
  <2>. HIDE DEF b
  <2>. QED BY <2>1, <2>2 DEF ClientStates
<1>8. k.op \in Ops /\ Return(k.op) /\ rs = <<>> /\ \E v \in Replies(k.op) : Coming(u, k, out, as, v)
  BY <1>4, Zenon DEF ClientAt, Pending
<1>9. PICK v \in Replies(k.op) : Coming(u, k, out, as, v)
  BY <1>8
<1>10. ReplyRest(j, v) = ReplyRest(k, v)
  <2>1. j.pc = k.pc /\ j.op = k.op
    BY <1>3
  <2>. QED BY <2>1 DEF ReplyRest
<1>11. Coming(u, j, rest, as, v)
  BY <1>3, <1>6, <1>9, <1>10, Zenon DEF Coming
<1>12. ClientAt(u, j, rest, rs, as)
  BY <1>3, <1>8, <1>11 DEF ClientAt
<1>. QED BY <1>2, <1>7, <1>12 DEF rest

\* How many bytes it waits for, and what it makes of a reply.
Awaited(k) == IF k.pc = "dynamic" THEN k.len ELSE HeaderSize + required_buffer_size(Ret(k.op))

\* One that got the elements of a vector has the answer.
LEMMA ClientGetsElements ==
    ASSUME NEW k \in ClientStates, NEW out \in Bytes, NEW rs, NEW as, NEW u,
           ClientAt(u, k, out, rs, as), k.pc = "dynamic", Len(k.buff) = k.len
    PROVE  /\ IsDynamic(k.op) /\ rs = <<>> /\ out = <<>>
           /\ as = <<<<elements(Ret(k.op)[1].T, k.buff)>>>>
<1>1. /\ k.op \in Ops /\ Return(k.op) /\ rs = <<>>
      /\ \E v \in Replies(k.op) : Coming(u, k, out, as, v)
  BY Zenon DEF ClientAt, Pending
<1>2. PICK v \in Replies(k.op) : Coming(u, k, out, as, v)
  BY <1>1
<1>. DEFINE b == dump_array_to_buffer(Ret(k.op)[1], v[1])
            had == k.buff
<1>3. IsDynamic(k.op) /\ k.len = Len(b)
  BY <1>2, Zenon DEF Coming
<1>4. b \in Bytes /\ <<elements(Ret(k.op)[1].T, b)>> = v
  BY <1>1, <1>3, DynamicParts
<1>5. had \in Bytes /\ Len(had) = Len(b)
  BY <1>3 DEF ClientStates
<1>6. ReplyRest(k, v) = b
  BY Zenon DEF ReplyRest
<1>7. Begins(Cat(had, out), b) /\ (as = <<v>> \/ Cat(had, out) # b)
  BY <1>2, <1>6, Zenon DEF Coming
<1>. HIDE DEF b, had
<1>8. had = b /\ out = <<>> /\ Cat(had, out) = b
  BY <1>4, <1>5, <1>7, Whole, Zenon
<1>9. as = <<v>>
  BY <1>7, <1>8
<1>10. <<elements(Ret(k.op)[1].T, had)>> = v
  BY <1>4, <1>8, Zenon
<1>. QED BY <1>1, <1>3, <1>8, <1>9, <1>10, Zenon DEF had

\* One that got the reply of a fixed size has the answer.
LEMMA ClientGetsFixed ==
    ASSUME NEW k \in ClientStates, NEW out \in Bytes, NEW rs, NEW as, NEW u,
           ClientAt(u, k, out, rs, as), k.pc = "fixed", Len(k.buff) = Awaited(k),
           ~IsDynamic(k.op)
    PROVE  LET payload == SubSeq(k.buff, HeaderSize + 1, Len(k.buff))
               p == Ret(k.op)
           IN  /\ ClassOf(k.buff) = Class(k.op) /\ FuncOf(k.buff) = Func(k.op)
               /\ rs = <<>> /\ out = <<>>
               /\ p[1].kind = "array" => as = <<<<elements(p[1].T, payload)>>>>
               /\ p[1].kind # "array" => as = <<deserialize(p, payload)>>
<1>. DEFINE had == k.buff
            p == Ret(k.op)
            h == command_header(Class(k.op), Func(k.op))
            payload == SubSeq(had, HeaderSize + 1, Len(had))
<1>1. k.op \in Ops /\ Return(k.op)
  BY Zenon DEF ClientAt
<1>2. /\ had \in Bytes /\ Len(had) = HeaderSize + required_buffer_size(p)
      /\ HeaderSize = 8 /\ h \in Bytes /\ Len(h) = 8
  BY <1>1, HeaderBytes DEF ClientStates, Awaited
<1>3. PICK w \in Replies(k.op) : TRUE
  BY <1>1, SomeReply
<1>4. \A v \in Replies(k.op) :
         LET b == BytesOf(p, v)
         IN  /\ b \in Bytes /\ ReplyRest(k, v) = Cat(h, b) /\ Len(b) = required_buffer_size(p)
             /\ ClassOf(Cat(h, b)) = Class(k.op) /\ FuncOf(Cat(h, b)) = Func(k.op)
             /\ p[1].kind = "array" => <<elements(p[1].T, b)>> = v
             /\ p[1].kind # "array" => deserialize(p, b) = v
  <2>. TAKE v \in Replies(k.op)
  <2>1. /\ IsPack(p) /\ Typed(p, v) /\ BytesOf(p, v) \in Bytes
        /\ ReplyRest(k, v) = Cat(h, BytesOf(p, v))
        /\ ClassOf(Cat(h, BytesOf(p, v))) = Class(k.op)
        /\ FuncOf(Cat(h, BytesOf(p, v))) = Func(k.op)
    BY <1>1, ReplyParts DEF ReplyRest
  <2>. HIDE DEF h
  <2>2. p[1].kind \in {"scalar", "array"}
    <3>1. p \in Seq(Types) /\ p # <<>>
      BY <1>1, TypesAssumption DEF Return
    <3>2. p[1] \in Types /\ p[1].kind # "vector"
      BY <1>1, <3>1 DEF IsDynamic
    <3>. QED BY <3>2 DEF Types
  <2>. HIDE DEF p
  <2>3. CASE p[1].kind = "array"
    <3>1. Len(BytesOf(p, v)) = required_buffer_size(p) /\ <<elements(p[1].T, BytesOf(p, v))>> = v
      BY <2>1, <2>3, ArrayOfPack
    <3>. QED BY <2>1, <2>3, <3>1, Zenon
  <2>4. CASE p[1].kind = "scalar"
    <3>1. Len(BytesOf(p, v)) = required_buffer_size(p) /\ deserialize(p, BytesOf(p, v)) = v
      BY <2>1, <2>4, ScalarsOfPack
    <3>2. p[1].kind # "array"
      BY <2>4
    <3>. QED BY <2>1, <3>1, <3>2, Zenon
  <2>. QED BY <2>2, <2>3, <2>4
<1>. HIDE DEF h, p
<1>5. required_buffer_size(p) \in Nat
  BY <1>3, <1>4, EmptyBytes
<1>6. had # <<>>
  BY <1>2, <1>5, EmptyBytes
<1>7. rs = <<>> /\ \E v \in Replies(k.op) : Coming(u, k, out, as, v)
  BY <1>6, Zenon DEF ClientAt, Pending, had
<1>8. PICK v \in Replies(k.op) : Coming(u, k, out, as, v)
  BY <1>7
<1>. DEFINE b == BytesOf(p, v)
            all == Cat(h, b)
<1>9. /\ b \in Bytes /\ ReplyRest(k, v) = all /\ Len(b) = required_buffer_size(p)
      /\ ClassOf(all) = Class(k.op) /\ FuncOf(all) = Func(k.op)
      /\ p[1].kind = "array" => <<elements(p[1].T, b)>> = v
      /\ p[1].kind # "array" => deserialize(p, b) = v
  BY <1>4
<1>10. Begins(Cat(had, out), all) /\ (as = <<v>> \/ Cat(had, out) # all)
  BY <1>8, <1>9, Zenon DEF Coming, had
<1>. HIDE DEF b
<1>11. all \in Bytes /\ Len(all) = Len(h) + Len(b)
  BY <1>2, <1>9, CatBytes, Zenon
<1>. HIDE DEF all
<1>12. Len(had) = Len(all)
  BY <1>2, <1>9, <1>11
<1>. HIDE DEF had
<1>13. had = all /\ out = <<>> /\ Cat(had, out) = all
  BY <1>2, <1>10, <1>11, <1>12, Whole, Zenon
<1>14. as = <<v>>
  BY <1>10, <1>13
<1>15. payload = b
  <2>1. SubSeq(Cat(h, b), Len(h) + 1, Len(Cat(h, b))) = b
    BY <1>2, <1>9, CutAfter
  <2>2. HeaderSize = Len(h)
    BY <1>2
  <2>. QED BY <1>13, <2>1, <2>2, Zenon DEF all
<1>. HIDE DEF payload
<1>16. /\ ClassOf(had) = Class(k.op) /\ FuncOf(had) = Func(k.op)
       /\ p[1].kind = "array" => as = <<<<elements(p[1].T, payload)>>>>
       /\ p[1].kind # "array" => as = <<deserialize(p, payload)>>
  BY <1>9, <1>13, <1>14, <1>15, Zenon
<1>. QED BY <1>7, <1>13, <1>16, Zenon DEF had, payload, p

\* One that got a vector's length waits for as many bytes.
LEMMA ClientGetsLength ==
    ASSUME NEW k \in ClientStates, NEW out \in Bytes, NEW rs, NEW as, NEW u,
           ClientAt(u, k, out, rs, as), k.pc = "fixed", Len(k.buff) = Awaited(k), IsDynamic(k.op)
    PROVE  LET payload == SubSeq(k.buff, HeaderSize + 1, Len(k.buff))
               j == [k EXCEPT !.pc = "dynamic", !.buff = <<>>,
                              !.len = extract("uint32_t", payload)]
           IN  /\ ClassOf(k.buff) = Class(k.op) /\ FuncOf(k.buff) = Func(k.op)
               /\ j \in ClientStates /\ ClientAt(u, j, out, rs, as)
<1>. DEFINE had == k.buff
            p == Ret(k.op)
            h == command_header(Class(k.op), Func(k.op))
            payload == SubSeq(had, HeaderSize + 1, Len(had))
            j == [k EXCEPT !.pc = "dynamic", !.buff = <<>>, !.len = extract("uint32_t", payload)]
<1>1. k.op \in Ops /\ Return(k.op)
  BY Zenon DEF ClientAt
<1>2. /\ had \in Bytes /\ Len(had) = HeaderSize + required_buffer_size(p)
      /\ HeaderSize = 8 /\ h \in Bytes /\ Len(h) = 8
  BY <1>1, HeaderBytes DEF ClientStates, Awaited
<1>3. PICK w \in Replies(k.op) : TRUE
  BY <1>1, SomeReply
<1>4. required_buffer_size(p) \in Nat
  <2>1. \E length \in Bytes : Len(length) = required_buffer_size(p)
    BY <1>1, <1>3, DynamicParts
  <2>. QED BY <2>1, EmptyBytes
<1>. HIDE DEF h, p
<1>5. had # <<>>
  BY <1>2, <1>4, EmptyBytes
<1>6. rs = <<>> /\ \E v \in Replies(k.op) : Coming(u, k, out, as, v)
  BY <1>5, Zenon DEF ClientAt, Pending, had
<1>7. PICK v \in Replies(k.op) : Coming(u, k, out, as, v)
  BY <1>6
<1>. DEFINE b == dump_array_to_buffer(p[1], v[1])
            all == BytesOf(p, v)
<1>8. PICK length \in Bytes :
         /\ b \in Bytes /\ all = Cat(length, b) /\ Len(length) = required_buffer_size(p)
         /\ extract("uint32_t", length) = Len(b)
  BY <1>1, DynamicParts DEF p
<1>9. ReplyRest(k, v) = Cat(h, all)
  BY <1>1, ReplyParts DEF ReplyRest, h, p
<1>. HIDE DEF b, all
<1>. DEFINE a == Cat(h, length)
<1>10. a \in Bytes /\ Len(a) = Len(had)
  <2>1. a \in Bytes /\ Len(a) = Len(h) + Len(length)
    BY <1>2, CatBytes, Zenon
  <2>. HIDE DEF a, had
  <2>. QED BY <1>2, <1>8, <2>1
<1>11. ReplyRest(k, v) = Cat(a, b)
  <2>1. Cat(a, b) = Cat(h, Cat(length, b))
    BY <1>2, <1>8, CatAssociative, ZenonT(60)
  <2>. QED BY <1>8, <1>9, <2>1, Zenon
<1>12. ClassOf(a) = Class(k.op) /\ FuncOf(a) = Func(k.op)
  <2>1. Class(k.op) \in 0..(Radix2 - 1) /\ Func(k.op) \in 0..(Radix2 - 1)
    BY <1>1, WireAssumption
  <2>2. length \in Seq(Byte)
    BY Zenon DEF Bytes
  <2>3. ClassOf(h \o length) = Class(k.op) /\ FuncOf(h \o length) = Func(k.op)
    BY <2>1, <2>2, HeaderReadsBack, Zenon DEF h
  <2>. QED BY <2>3, Zenon DEF Cat
<1>13. SubSeq(a, HeaderSize + 1, Len(a)) = length
  <2>1. SubSeq(Cat(h, length), Len(h) + 1, Len(Cat(h, length))) = length
    BY <1>2, CutAfter
  <2>2. HeaderSize = Len(h)
    BY <1>2
  <2>. QED BY <2>1, <2>2, Zenon
<1>14. /\ Begins(Cat(had, out), Cat(a, b))
       /\ \/ as = <<v>> /\ Cat(had, out) = Cat(a, b)
          \/ as = <<>> /\ ~u /\ Cat(had, out) # Cat(a, b)
  BY <1>7, <1>11, Zenon DEF Coming
<1>. HIDE DEF a
<1>15. had = a /\ Begins(out, b)
  <2>1. had \in Bytes /\ Len(had) = Len(a)
    BY <1>2, <1>10, Zenon
  <2>. HIDE DEF had
  <2>. QED BY <1>8, <1>10, <1>14, <2>1, Took, Zenon
<1>16. \/ as = <<v>> /\ out = b
       \/ as = <<>> /\ ~u /\ out # b
  <2>1. CASE as = <<v>> /\ Cat(had, out) = Cat(a, b)
    <3>1. had \in Bytes /\ Len(had) = Len(a)
      BY <1>2, <1>10, Zenon
    <3>2. Cat(a, out) = Cat(a, b) /\ Len(a) = Len(a)
      BY <1>15, <2>1, Zenon
    <3>3. out = b
      BY <1>8, <1>10, <3>2, Took
    <3>. QED BY <2>1, <3>3, Zenon
  <2>2. CASE as = <<>> /\ ~u /\ Cat(had, out) # Cat(a, b)
    <3>1. out # b
      BY <1>15, <2>2, Zenon
    <3>. QED BY <2>2, <3>1, Zenon
  <2>. QED BY <1>14, <2>1, <2>2, Zenon
<1>17. extract("uint32_t", payload) = Len(b) /\ Len(b) \in Nat
  <2>1. payload = length
    BY <1>13, <1>15, Zenon
  <2>2. Len(b) \in Nat
    BY <1>8, EmptyBytes
  <2>. QED BY <1>8, <2>1, <2>2, Zenon
<1>. HIDE DEF payload, had
<1>18. /\ j \in ClientStates /\ j.pc = "dynamic" /\ j.op = k.op /\ j.buff = <<>>
       /\ j.len = Len(b)
  <2>1. <<>> \in Bytes
    BY EmptyBytes
  <2>. QED BY <1>17, <2>1 DEF ClientStates
<1>. HIDE DEF j
<1>19. ReplyRest(j, v) = b
  BY <1>18 DEF ReplyRest, b, p
<1>20. Cat(j.buff, out) = out
  BY <1>18, CatEmpty, Zenon
<1>21. Coming(u, j, out, as, v)
  <2>1. IsDynamic(j.op) /\ j.len = Len(dump_array_to_buffer(Ret(j.op)[1], v[1]))
    BY <1>18, Zenon DEF b, p
  <2>. QED BY <1>15, <1>16, <1>19, <1>20, <2>1, Zenon DEF Coming
<1>22. ClientAt(u, j, out, rs, as)
  BY <1>1, <1>6, <1>18, <1>21 DEF ClientAt
<1>. QED BY <1>12, <1>15, <1>18, <1>22, Zenon DEF had, j, payload

\* The bytes to a client once an operation has run, and its answer.
WithReply(op, out, y) ==
    IF Return(op) THEN Cat(out, build_command(Class(op), Func(op), Ret(op), y)) ELSE out
Answer(op, y) == IF Return(op) THEN <<y>> ELSE <<>>

\* One whose first request runs.
LEMMA ClientIsAnswered ==
    ASSUME NEW c \in Clients, NEW rs \in Seq(Requests(c)), NEW k \in ClientStates,
           NEW out \in Bytes, NEW as, NEW u, u, ClientAt(u, k, out, rs, as), rs # <<>>,
           k.pc \notin {"closed", "aborted"},
           NEW x \in Objects, NEW op, op = rs[1].op, NEW v \in AnyValues(op)
    PROVE  LET y == Result(x, op, v)
           IN  WithReply(op, out, y) \in Bytes
               /\ ClientAt(u, k, WithReply(op, out, y), Tail(rs), Answer(op, y))
<1>. DEFINE y == Result(x, op, v)
            reply == build_command(Class(op), Func(op), Ret(op), y)
            q == Tail(rs)
            m == Len(rs)
<1>1. rs[1] \in Requests(c) /\ m \in Nat \ {0}
  BY EmptySeq
<1>2. op \in Ops
  BY <1>1, RequestType
<1>3. /\ m = 1 => q = <<>>
      /\ m > 1 => q # <<>> /\ q[Len(q)] = rs[m]
      /\ Len(q) = m - 1
      /\ \A i \in 1..Len(q) : q[i] = rs[i + 1] /\ i + 1 \in 1..m /\ (i + 1 = m => i = Len(q))
  <2>1. q \in Seq(Requests(c)) /\ Len(q) = m - 1 /\ \A i \in 1..(m - 1) : q[i] = rs[i + 1]
    BY <1>1
  <2>. HIDE DEF q
  <2>2. m = 1 => q = <<>>
    BY <2>1, EmptySeq
  <2>3. m > 1 => q # <<>> /\ q[Len(q)] = rs[m]
    BY <1>1, <2>1
  <2>. HIDE DEF m
  <2>. QED BY <1>1, <2>1, <2>2, <2>3
<1>. HIDE DEF q, m
<1>4. k.pc \in {"idle", "fixed", "dynamic"}
  BY DEF ClientStates
<1>5. CASE k.pc = "idle"
  <2>1. as = <<>> /\ out = <<>> /\ k.buff = <<>> /\ \A i \in 1..m : ~Return(rs[i].op)
    BY <1>5, Zenon DEF ClientAt, m
  <2>2. ~Return(op)
    BY <1>1, <2>1
  <2>3. \A i \in 1..Len(q) : ~Return(q[i].op)
    BY <1>3, <2>1
  <2>4. ClientAt(u, k, out, q, <<>>)
    BY <1>5, <2>1, <2>3 DEF ClientAt
  <2>5. WithReply(op, out, y) = out /\ Answer(op, y) = <<>>
    BY <2>2, Zenon DEF WithReply, Answer
  <2>6. out \in Bytes
    OBVIOUS
  <2>. QED BY <2>4, <2>5, <2>6, Zenon DEF q
<1>6. CASE k.pc \in {"fixed", "dynamic"}
  <2>1. Pending(u, k, out, rs, as) /\ k.op \in Ops /\ Return(k.op)
    BY <1>6, Zenon DEF ClientAt
  <2>2. /\ k.pc = "fixed" /\ as = <<>> /\ out = <<>> /\ k.buff = <<>> /\ rs[m].op = k.op
        /\ \A i \in 1..m : Return(rs[i].op) => i = m
    BY <2>1, Zenon DEF Pending, m
  <2>3. CASE Return(op)
    <3>1. m = 1 /\ q = <<>> /\ k.op = op
      BY <1>1, <1>3, <2>2, <2>3
    <3>2. y \in Replies(op)
      BY DEF Replies
    <3>3. reply \in Bytes
      BY <1>2, <2>3, <3>2, ReplyParts
    <3>. HIDE DEF y
    <3>4. ReplyRest(k, y) = reply
      BY <2>2, <3>1 DEF ReplyRest
    <3>. HIDE DEF reply
    <3>5. /\ Cat(<<>>, reply) = reply /\ Begins(reply, reply)
      BY <3>3, CatEmpty, BeginsSelf, Zenon
    <3>6. Cat(out, reply) = reply
      BY <2>2, <3>5, Zenon
    <3>7. Coming(u, k, reply, <<y>>, y)
      BY <2>2, <3>4, <3>5 DEF Coming
    <3>8. ClientAt(u, k, reply, q, <<y>>)
      BY <2>1, <2>2, <3>1, <3>2, <3>7 DEF ClientAt
    <3>9. WithReply(op, out, y) = reply /\ Answer(op, y) = <<y>>
      BY <2>3, <3>6, Zenon DEF WithReply, Answer, reply
    <3>. QED BY <3>3, <3>8, <3>9, Zenon DEF q, y
  <2>4. CASE ~Return(op)
    <3>1. m > 1
      BY <1>1, <2>1, <2>2, <2>4
    <3>2. \A i \in 1..Len(q) : Return(q[i].op) => i = Len(q)
      BY <1>3, <2>2
    <3>3. Pending(u, k, out, q, <<>>)
      BY <1>3, <2>2, <3>1, <3>2 DEF Pending
    <3>4. ClientAt(u, k, out, q, <<>>)
      BY <2>1, <2>2, <3>3 DEF ClientAt
    <3>5. WithReply(op, out, y) = out /\ Answer(op, y) = <<>>
      BY <2>4, Zenon DEF WithReply, Answer
    <3>6. out \in Bytes
      OBVIOUS
    <3>. QED BY <3>4, <3>5, <3>6, Zenon DEF q
  <2>. QED BY <2>3, <2>4
<1>. QED BY <1>4, <1>5, <1>6

\* One whose server ends, and to which no more comes than a part of what was sent.
LEMMA ClientIsCutOff ==
    ASSUME NEW k \in ClientStates, NEW out \in Bytes, NEW rs, NEW as, NEW u \in BOOLEAN,
           ClientAt(u, k, out, rs, as)
    PROVE  /\ ClientAt(FALSE, k, out, <<>>, as)
           /\ ~u => \A n \in 0..(Len(out) - 1) :
                 SubSeq(out, 1, n) \in Bytes /\ ClientAt(FALSE, k, SubSeq(out, 1, n), rs, <<>>)
<1>1. k.pc \in {"idle", "fixed", "dynamic", "closed", "aborted"}
  BY DEF ClientStates
<1>2. ClientAt(FALSE, k, out, <<>>, as)
  <2>1. CASE k.pc \in {"idle", "closed", "aborted"}
    <3>1. \A i \in 1..Len(<<>>) : ~Return(<<>>[i].op)
      OBVIOUS
    <3>2. k.pc \notin {"fixed", "dynamic", "aborted"}
      BY <2>1 DEF ClientAt
    <3>. QED BY <3>1, <3>2, Zenon DEF ClientAt
  <2>2. CASE k.pc \in {"fixed", "dynamic"}
    <3>1. k.op \in Ops /\ Return(k.op)
      BY <2>2, Zenon DEF ClientAt
    <3>2. CASE Pending(u, k, out, rs, as)
      <4>1. as = <<>> /\ out = <<>> /\ k.pc = "fixed" /\ k.buff = <<>>
        BY <3>2, Zenon DEF Pending
      <4>2. ClientAt(FALSE, k, <<>>, <<>>, <<>>)
        BY <3>1, <4>1, ClientHasNothing
      <4>. QED BY <4>1, <4>2, Zenon
    <3>3. ASSUME NEW v \in Replies(k.op), Coming(u, k, out, as, v)
          PROVE  ClientAt(FALSE, k, out, <<>>, as)
      <4>1. Coming(FALSE, k, out, as, v)
        BY <3>3, Zenon DEF Coming
      <4>. QED BY <2>2, <3>1, <4>1 DEF ClientAt
    <3>. QED BY <2>2, <3>2, <3>3, Zenon DEF ClientAt
  <2>. QED BY <1>1, <2>1, <2>2
<1>3. ASSUME ~u, NEW n \in 0..(Len(out) - 1)
      PROVE  SubSeq(out, 1, n) \in Bytes /\ ClientAt(FALSE, k, SubSeq(out, 1, n), rs, <<>>)
  <2>. DEFINE a == SubSeq(out, 1, n)
              z == SubSeq(out, n + 1, Len(out))
              had == k.buff
  <2>1. Len(out) \in Nat /\ n \in Nat /\ n < Len(out)
    BY EmptyBytes
  <2>2. a \in Bytes /\ z \in Bytes /\ Len(z) = Len(out) - n /\ out = Cat(a, z)
    BY <2>1, Cutting
  <2>. HIDE DEF a, z
  <2>3. Len(z) > 0
    BY <2>1, <2>2
  <2>4. out # <<>>
    BY <2>1, EmptyBytes
  <2>5. k.pc \in {"fixed", "dynamic", "closed", "aborted"}
    BY <1>1, <2>4, Zenon DEF ClientAt
  <2>6. CASE k.pc \in {"closed", "aborted"}
    BY <2>2, <2>6 DEF ClientAt, a
  <2>7. CASE k.pc \in {"fixed", "dynamic"}
    <3>1. k.op \in Ops /\ Return(k.op) /\ rs = <<>>
          /\ \E v \in Replies(k.op) : Coming(u, k, out, as, v)
      BY <2>4, <2>7, Zenon DEF ClientAt, Pending
    <3>2. PICK v \in Replies(k.op) : Coming(u, k, out, as, v)
      BY <3>1
    <3>. DEFINE R == ReplyRest(k, v)
    <3>3. had \in Bytes
      BY DEF ClientStates
    <3>. HIDE DEF had
    <3>4. Cat(had, out) = Cat(Cat(had, a), z) /\ Cat(had, a) \in Bytes
      <4>1. Cat(Cat(had, a), z) = Cat(had, Cat(a, z))
        BY <2>2, <3>3, CatAssociative, Zenon
      <4>2. Cat(had, a) \in Bytes
        BY <2>2, <3>3, CatBytes, Zenon
      <4>. QED BY <2>2, <4>1, <4>2, Zenon
    <3>5. PICK w \in Bytes : R = Cat(Cat(had, out), w)
      BY <3>2, Zenon DEF Coming, Begins, had
    <3>. HIDE DEF R
    <3>. DEFINE d == Cat(had, a)
                t == Cat(z, w)
    <3>6. t \in Bytes /\ Len(t) = Len(z) + Len(w)
      BY <2>2, CatBytes, Zenon
    <3>7. R = Cat(d, t)
      <4>1. Cat(Cat(d, z), w) = Cat(d, Cat(z, w))
        BY <2>2, <3>4, CatAssociative, Zenon
      <4>. QED BY <3>4, <3>5, <4>1, Zenon
    <3>. HIDE DEF d, t
    <3>8. d # R
      <4>1. Len(R) = Len(d) + Len(t)
        BY <3>4, <3>6, <3>7, CatBytes, Zenon DEF d
      <4>2. Len(w) \in Nat /\ Len(d) \in Nat
        BY <3>4, EmptyBytes DEF d
      <4>3. Len(R) # Len(d)
        BY <2>3, <2>2, <2>1, <3>6, <4>1, <4>2
      <4>. QED BY <4>3
    <3>9. Begins(d, R)
      BY <3>6, <3>7, Zenon DEF Begins
    <3>10. Coming(FALSE, k, a, <<>>, v)
      <4>1. k.pc = "dynamic" => /\ IsDynamic(k.op)
                                /\ k.len = Len(dump_array_to_buffer(Ret(k.op)[1], v[1]))
        BY <3>2, Zenon DEF Coming
      <4>. QED BY <3>8, <3>9, <4>1, Zenon DEF Coming, d, R, had
    <3>11. ClientAt(FALSE, k, a, rs, <<>>)
      BY <2>7, <3>1, <3>10 DEF ClientAt
    <3>. QED BY <2>2, <3>11 DEF a
  <2>. QED BY <2>5, <2>6, <2>7
<1>. QED BY <1>2, <1>3

-----------------------------------------------------------------------------
(* The steps keep the invariant.                                            *)

\* What the invariant says of one client and its session.
LEMMA Now ==
    ASSUME Inv, NEW c \in Clients
    PROVE  /\ TypeOK /\ Placed(c) /\ Apart
           /\ up \in BOOLEAN /\ Closed(c) \in BOOLEAN
           /\ client[c] \in ClientStates /\ session[c] \in SessionStates
           /\ toServer[c] \in Bytes /\ toClient[c] \in Bytes
           /\ requests[c] \in Seq(Requests(c))
           /\ SessionAt(up, session[c], toServer[c], requests[c], Closed(c))
           /\ ClientAt(up, client[c], toClient[c], requests[c], answers[c])
           /\ up => HasRead(session[c], requests[c], args[session[c].op])
           /\ session[c].pc # "gone" =>
                 /\ up /\ AtRequest(session[c], requests[c])
                 /\ InStream(session[c], toServer[c], requests[c], Closed(c))
                 /\ HasRead(session[c], requests[c], args[session[c].op])
           /\ ~up => session[c].pc = "gone" /\ requests[c] = <<>>
<1>1. TypeOK /\ Placed(c) /\ Apart
  BY Zenon DEF Inv
<1>2. /\ SessionAt(up, session[c], toServer[c], requests[c], Closed(c))
      /\ ClientAt(up, client[c], toClient[c], requests[c], answers[c])
      /\ up => HasRead(session[c], requests[c], args[session[c].op])
  BY <1>1, Zenon DEF Placed
<1>3. /\ up \in BOOLEAN
      /\ client[c] \in ClientStates /\ session[c] \in SessionStates
      /\ toServer[c] \in Bytes /\ toClient[c] \in Bytes
      /\ requests[c] \in Seq(Requests(c))
  BY <1>1 DEF TypeOK
<1>4. Closed(c) \in BOOLEAN
  BY DEF Closed
<1>5. /\ session[c].pc # "gone" =>
          /\ up /\ AtRequest(session[c], requests[c])
          /\ InStream(session[c], toServer[c], requests[c], Closed(c))
      /\ ~up => session[c].pc = "gone" /\ requests[c] = <<>>
  BY <1>2, Zenon DEF SessionAt
<1>. QED BY <1>1, <1>2, <1>3, <1>4, <1>5, Zenon

\* A step that only concerns a client and its session; and the session has no
\* mutex that it did not have.
OnlyAt(c) ==
    /\ up' = up
    /\ \A d \in Clients \ {c} :
          /\ client'[d] = client[d] /\ session'[d] = session[d]
          /\ toServer'[d] = toServer[d] /\ toClient'[d] = toClient[d]
          /\ requests'[d] = requests[d] /\ answers'[d] = answers[d]
          /\ Locked(session[d]) => args'[session[d].op] = args[session[d].op]
NoNewMutex(c) ==
    Locked(session'[c]) => Locked(session[c]) /\ session'[c].op = session[c].op
Free(c) ==
    Locked(session'[c]) => \A d \in Clients \ {c} :
        Locked(session[d]) => Class(session[d].op) # Class(session'[c].op)

\* No other session has a mutex that this one had.
LEMMA FreeIfNotNew ==
    ASSUME Inv, NEW c \in Clients, NoNewMutex(c)
    PROVE  Free(c)
<1>1. Apart
  BY DEF Inv
<1>. QED BY <1>1, Zenon DEF NoNewMutex, Free, Apart

\* A step that concerns one client keeps the invariant if it does so there.
LEMMA FrameOne ==
    ASSUME Inv, NEW c \in Clients, OnlyAt(c), Free(c), TypeOK', Placed(c)'
    PROVE  Inv'
<1>1. ASSUME NEW d \in Clients PROVE Placed(d)'
  <2>1. CASE d = c
    BY <2>1
  <2>2. CASE d # c
    <3>1. /\ up' = up /\ client'[d] = client[d] /\ session'[d] = session[d]
          /\ toServer'[d] = toServer[d] /\ toClient'[d] = toClient[d]
          /\ requests'[d] = requests[d] /\ answers'[d] = answers[d]
          /\ Locked(session[d]) => args'[session[d].op] = args[session[d].op]
      BY <2>2, Zenon DEF OnlyAt
    <3>2. /\ SessionAt(up, session[d], toServer[d], requests[d], Closed(d))
          /\ ClientAt(up, client[d], toClient[d], requests[d], answers[d])
          /\ up => HasRead(session[d], requests[d], args[session[d].op])
      BY Now
    <3>3. Closed(d)' = Closed(d)
      BY <3>1, Zenon DEF Closed
    <3>4. up' => HasRead(session'[d], requests'[d], args'[session'[d].op])
      <4>1. CASE Locked(session[d])
        BY <3>1, <3>2, <4>1, Zenon
      <4>2. CASE ~Locked(session[d])
        BY <3>1, <4>2, Zenon DEF HasRead
      <4>. QED BY <4>1, <4>2
    <3>5. SessionAt(up', session'[d], toServer'[d], requests'[d], Closed(d)')
      BY <3>1, <3>2, <3>3, Zenon
    <3>6. ClientAt(up', client'[d], toClient'[d], requests'[d], answers'[d])
      BY <3>1, <3>2, Zenon
    <3>. QED BY <3>4, <3>5, <3>6, Zenon DEF Placed
  <2>. QED BY <2>1, <2>2
<1>2. Apart'
  <2>1. Apart
    BY DEF Inv
  <2>2. \A d \in Clients \ {c} : session'[d] = session[d]
    BY Zenon DEF OnlyAt
  <2>. SUFFICES ASSUME NEW a \in Clients, NEW b \in Clients, a # b,
                       Locked(session'[a]), Locked(session'[b])
                PROVE  Class(session'[a].op) # Class(session'[b].op)
    BY Zenon DEF Apart
  <2>3. CASE a # c /\ b # c
    BY <2>1, <2>2, <2>3, Zenon DEF Apart
  <2>4. CASE a = c
    <3>1. b # c /\ session'[b] = session[b]
      BY <2>2, <2>4
    <3>2. Class(session[b].op) # Class(session'[c].op)
      BY <2>4, <3>1, Zenon DEF Free
    <3>. QED BY <2>4, <3>1, <3>2, Zenon
  <2>5. CASE b = c
    <3>1. a # c /\ session'[a] = session[a]
      BY <2>2, <2>5
    <3>2. Class(session[a].op) # Class(session'[c].op)
      BY <2>5, <3>1, Zenon DEF Free
    <3>. QED BY <2>5, <3>1, <3>2, Zenon
  <2>. QED BY <2>3, <2>4, <2>5
<1>. QED BY <1>1, <1>2 DEF Inv

\* A step of the session that leaves the arguments of the drivers alone.
LEMMA SessionMoves ==
    ASSUME Inv, NEW c \in Clients, up, session[c].pc # "gone",
           NEW t \in SessionStates, NEW j \in Bytes, t.pc # "gone",
           UNCHANGED <<up, client, toClient, args, object, requests, answers>>,
           session' = [session EXCEPT ![c] = t], toServer' = [toServer EXCEPT ![c] = j],
           AtRequest(t, requests[c]), InStream(t, j, requests[c], Closed(c)),
           HasRead(t, requests[c], args[t.op]), Free(c)
    PROVE  Inv'
<1>1. TypeOK /\ ClientAt(up, client[c], toClient[c], requests[c], answers[c])
  BY Now
<1>2. /\ session'[c] = t /\ toServer'[c] = j
      /\ \A d \in Clients \ {c} : session'[d] = session[d] /\ toServer'[d] = toServer[d]
      /\ session' \in [Clients -> SessionStates] /\ toServer' \in [Clients -> Bytes]
  BY <1>1 DEF TypeOK
<1>3. TypeOK'
  BY <1>1, <1>2 DEF TypeOK
<1>4. OnlyAt(c)
  BY <1>2 DEF OnlyAt
<1>5. Placed(c)'
  <2>1. SessionAt(up, t, j, requests[c], Closed(c))
    BY Zenon DEF SessionAt
  <2>2. Closed(c)' = Closed(c)
    BY DEF Closed
  <2>. QED BY <1>1, <1>2, <2>1, <2>2 DEF Placed
<1>. QED BY <1>3, <1>4, <1>5, FrameOne

\* rcv_n_bytes: some bytes go from the stream to the session.
LEMMA rcv_n_bytesKeeps == ASSUME Inv, NEW c \in Clients, rcv_n_bytes(c) PROVE Inv'
<1>. DEFINE s == session[c]
            i == toServer[c]
<1>1. PICK n \in Reads(s.buff, Wanted(c), i) :
         /\ session' = [session EXCEPT ![c].buff = @ \o SubSeq(i, 1, n)]
         /\ toServer' = [toServer EXCEPT ![c] = SubSeq(@, n + 1, Len(@))]
  BY DEF rcv_n_bytes
<1>2. /\ s \in SessionStates /\ i \in Bytes /\ Closed(c) \in BOOLEAN /\ up
      /\ requests[c] \in Seq(Requests(c)) /\ AtRequest(s, requests[c])
      /\ InStream(s, i, requests[c], Closed(c)) /\ TypeOK
      /\ HasRead(s, requests[c], args[s.op])
      /\ s.pc \in {"header", "args", "payload"}
  BY Now DEF rcv_n_bytes, Reading
<1>3. n \in 1..Len(i)
  <2>1. Len(i) \in Nat /\ Len(s.buff) \in Nat
    BY <1>2, EmptyBytes DEF SessionStates
  <2>2. n <= Len(i) /\ n \in 1..(Wanted(c) - Len(s.buff))
    BY <1>1 DEF Reads
  <2>. QED BY <2>1, <2>2
<1>. DEFINE t == [s EXCEPT !.buff = @ \o SubSeq(i, 1, n)]
            j == SubSeq(i, n + 1, Len(i))
<1>4. session' = [session EXCEPT ![c] = t] /\ toServer' = [toServer EXCEPT ![c] = j]
  BY <1>1, <1>2 DEF TypeOK
<1>5. /\ t.pc = s.pc /\ t.op = s.op /\ t.pack = s.pack /\ t.garbled = s.garbled
  BY <1>2 DEF SessionStates
<1>6. session'[c] = t
  BY <1>4, <1>2 DEF TypeOK
<1>. HIDE DEF s, i
<1>7. /\ t \in SessionStates /\ j \in Bytes /\ AtRequest(t, requests[c])
      /\ InStream(t, j, requests[c], Closed(c))
  BY <1>2, <1>3, SessionReads
<1>. HIDE DEF t, j
<1>8. HasRead(t, requests[c], args[t.op])
  BY <1>2, <1>5 DEF HasRead, Locked
<1>9. Free(c)
  <2>1. NoNewMutex(c)
    BY <1>5, <1>6 DEF NoNewMutex, Locked, s
  <2>. QED BY <2>1, FreeIfNotNew
<1>10. UNCHANGED <<up, client, toClient, args, object, requests, answers>>
  BY DEF rcv_n_bytes
<1>11. t.pc # "gone" /\ session[c].pc # "gone"
  BY <1>2, <1>5 DEF s
<1>. QED BY <1>2, <1>4, <1>7, <1>8, <1>9, <1>10, <1>11, SessionMoves

\* read_command: the header names the operation of the first request.
LEMMA read_commandKeeps == ASSUME Inv, NEW c \in Clients, read_command(c) PROVE Inv'
<1>. DEFINE s == session[c]
            rs == requests[c]
            b == s.buff
            named == {o \in Ops : Class(o) = ClassOf(b) /\ Func(o) = FuncOf(b)}
            t == [s EXCEPT !.pc = "lock", !.buff = <<>>, !.pack = 1, !.op = rs[1].op]
<1>1. /\ s \in SessionStates /\ toServer[c] \in Bytes /\ Closed(c) \in BOOLEAN /\ up
      /\ rs \in Seq(Requests(c)) /\ AtRequest(s, rs)
      /\ InStream(s, toServer[c], rs, Closed(c)) /\ TypeOK
      /\ s.pc = "header"
  BY Now DEF read_command
<1>2. Len(b) = HeaderSize
  BY DEF read_command, Complete, Wanted
<1>3. /\ rs # <<>> /\ rs[1] \in Requests(c) /\ rs[1].op \in Ops
      /\ ClassOf(b) = Class(rs[1].op) /\ FuncOf(b) = Func(rs[1].op)
      /\ \A u \in SessionStates :
            u.pc = "lock" /\ u.op = rs[1].op /\ u.buff = <<>> /\ u.pack = 1 /\ ~u.garbled =>
               AtRequest(u, rs) /\ InStream(u, toServer[c], rs, Closed(c))
  <2>. HIDE DEF s, rs
  <2>. QED BY <1>1, <1>2, SessionStarts, Zenon
<1>4. named = {rs[1].op}
  <2>1. \A o \in Ops : Class(o) = Class(rs[1].op) /\ Func(o) = Func(rs[1].op) => o = rs[1].op
    BY <1>3, WireAssumption
  <2>. HIDE DEF b, rs
  <2>. QED BY <1>3, <2>1
<1>5. session' = [session EXCEPT ![c] = t]
  <2>1. (CHOOSE o \in named : TRUE) = rs[1].op /\ named # {}
    <3>. HIDE DEF named, rs
    <3>. QED BY <1>4
  <2>2. session' = [session EXCEPT ![c] =
             IF named = {} THEN [@ EXCEPT !.buff = <<>>]
             ELSE [@ EXCEPT !.pc = "lock", !.buff = <<>>, !.pack = 1,
                            !.op = CHOOSE o \in named : TRUE]]
    BY Zenon DEF read_command
  <2>. HIDE DEF named, rs
  <2>. QED BY <2>1, <2>2
<1>6. ~s.garbled
  BY <1>1 DEF InStream
<1>7. /\ t \in SessionStates /\ t.pc = "lock" /\ t.op = rs[1].op /\ t.buff = <<>>
      /\ t.pack = 1 /\ ~t.garbled
  <2>1. <<>> \in Bytes /\ rs[1].op \in AnOp
    BY <1>3, EmptyBytes DEF AnOp
  <2>. HIDE DEF rs
  <2>. QED BY <1>1, <1>6, <2>1 DEF SessionStates
<1>8. session'[c] = t
  BY <1>1, <1>5 DEF TypeOK
<1>. HIDE DEF s, rs, t
<1>9. AtRequest(t, rs) /\ InStream(t, toServer[c], rs, Closed(c))
  BY <1>3, <1>7
<1>10. HasRead(t, rs, args[t.op]) /\ Free(c)
  BY <1>7, <1>8 DEF HasRead, Locked, Free
<1>11. /\ UNCHANGED <<up, client, toServer, toClient, args, object, requests, answers>>
       /\ toServer = [toServer EXCEPT ![c] = toServer[c]]
  BY <1>1 DEF read_command, TypeOK
<1>12. t.pc # "gone" /\ session[c].pc # "gone"
  BY <1>1, <1>7 DEF s
<1>. QED BY <1>1, <1>5, <1>7, <1>9, <1>10, <1>11, <1>12, SessionMoves DEF rs

\* The mutex is taken if no other session has it.
LEMMA lockKeeps == ASSUME Inv, NEW c \in Clients, lock(c) PROVE Inv'
<1>. DEFINE s == session[c]
            rs == requests[c]
            t == [s EXCEPT !.pc = IF Packs(s.op) = 0 THEN "run" ELSE "args"]
<1>1. /\ s \in SessionStates /\ toServer[c] \in Bytes /\ Closed(c) \in BOOLEAN /\ up
      /\ rs \in Seq(Requests(c)) /\ AtRequest(s, rs)
      /\ InStream(s, toServer[c], rs, Closed(c)) /\ TypeOK
      /\ s.pc = "lock"
  BY Now DEF lock
<1>2. session' = [session EXCEPT ![c] = t] /\ session'[c] = t
  BY <1>1 DEF lock, TypeOK
<1>3. t.op = s.op /\ t.pack = s.pack /\ t.pc # "gone"
  BY <1>1 DEF SessionStates
<1>. HIDE DEF s, rs
<1>4. t \in SessionStates /\ AtRequest(t, rs) /\ InStream(t, toServer[c], rs, Closed(c))
  BY <1>1, SessionLocks
<1>. HIDE DEF t
<1>5. HasRead(t, rs, args[t.op])
  <2>1. s.op \in Ops /\ s.pack = 1
    BY <1>1, AtWhich DEF AtRequest
  <2>2. Before(t.op, t.pack) = 0
    BY <1>3, <2>1, BeforeAll
  <2>. QED BY <2>2 DEF HasRead
<1>6. Free(c)
  <2>1. \A d \in Clients \ {c} : ~(Mutexed(d) /\ Class(session[d].op) = Class(s.op))
    BY DEF lock, s
  <2>. QED BY <1>2, <1>3, <2>1, Zenon DEF Free, Mutexed, Locked
<1>7. /\ UNCHANGED <<up, client, toServer, toClient, args, object, requests, answers>>
      /\ toServer = [toServer EXCEPT ![c] = toServer[c]]
  BY <1>1 DEF lock, TypeOK
<1>8. session[c].pc # "gone"
  BY <1>1 DEF s
<1>. QED BY <1>1, <1>2, <1>3, <1>4, <1>5, <1>6, <1>7, <1>8, SessionMoves DEF rs

\* Once a pack is assigned, the members up to it are the request's.
LEMMA WithRead ==
    ASSUME NEW op \in Ops, NEW k \in 1..Packs(op), NEW v, Typed(Args(op), v),
           NEW a, Typed(Args(op), a), \A i \in 1..Before(op, k) : a[i] = v[i]
    PROVE  \A i \in 1..Before(op, k + 1) : With(op, k, a, PackOf(op, k, v))[i] = v[i]
<1>. DEFINE w == PackOf(op, k, v)
            m == Before(op, k)
            l == Len(w)
<1>1. /\ m \in Nat /\ l \in Nat \ {0} /\ Before(op, k + 1) = m + l /\ m + l <= Len(Args(op))
      /\ \A i \in 1..l : w[i] = v[m + i]
  BY OnePack, PackFits
<1>2. DOMAIN a = 1..Len(Args(op)) /\ Len(Args(op)) \in Nat
  <2>1. Args(op) \in Seq(Types)
    BY TypesAssumption
  <2>2. DOMAIN a = DOMAIN Args(op)
    BY Zenon DEF Typed
  <2>. QED BY <2>1, <2>2
<1>3. With(op, k, a, w) = [i \in DOMAIN a |-> IF i \in (m + 1)..(m + l) THEN w[i - m] ELSE a[i]]
  BY Zenon DEF With
<1>. HIDE DEF w, m, l
<1>4. SUFFICES ASSUME NEW i \in 1..(m + l) PROVE With(op, k, a, w)[i] = v[i]
  BY <1>1 DEF w
<1>5. With(op, k, a, w)[i] = IF i \in (m + 1)..(m + l) THEN w[i - m] ELSE a[i]
  BY <1>1, <1>2, <1>3
<1>6. CASE i \in 1..m
  <2>1. i \notin (m + 1)..(m + l)
    BY <1>1, <1>6
  <2>. QED BY <1>5, <1>6, <2>1 DEF m
<1>7. CASE i \in (m + 1)..(m + l)
  <2>1. i - m \in 1..l /\ m + (i - m) = i
    BY <1>1, <1>7
  <2>2. w[i - m] = v[m + (i - m)]
    BY <1>1, <2>1
  <2>. QED BY <1>5, <1>7, <2>1, <2>2
<1>. QED BY <1>1, <1>6, <1>7

\* Arguments are assigned under the mutex of their driver.
LEMMA SessionAssigns ==
    ASSUME Inv, NEW c \in Clients, session[c].pc \in {"args", "payload"},
           NEW w \in AnyValues(session[c].op),
           NEW t, t = AtNext(session[c]) \/ t = AtNextGarbled(session[c]),
           t = AtNext(session[c]) => w = requests[c][1].args /\ ~session[c].garbled,
           session' = [session EXCEPT ![c] = t],
           args' = [args EXCEPT ![session[c].op] =
                      With(session[c].op, session[c].pack, @,
                           PackOf(session[c].op, session[c].pack, w))],
           UNCHANGED <<up, client, toServer, toClient, object, requests, answers>>,
           InStream(t, toServer[c], requests[c], Closed(c))
    PROVE  Inv'
<1>. DEFINE s == session[c]
            rs == requests[c]
            op == s.op
            k == s.pack
            x == With(op, k, args[op], PackOf(op, k, w))
<1>1. /\ s \in SessionStates /\ up /\ rs \in Seq(Requests(c)) /\ AtRequest(s, rs)
      /\ HasRead(s, rs, args[op]) /\ TypeOK /\ Apart
      /\ ClientAt(up, client[c], toClient[c], rs, answers[c])
  BY Now
<1>2. Locked(s)
  BY DEF Locked
<1>. HIDE DEF s, rs
<1>3. /\ t \in SessionStates /\ AtRequest(t, rs) /\ t.pc \in {"args", "run"}
      /\ t.op = op /\ t.pack = k + 1
      /\ t = AtNext(s) => ~t.garbled
      /\ t = AtNextGarbled(s) => t.garbled
      /\ k \in 1..Packs(op)
  BY <1>1, NextPack DEF s
<1>4. /\ op \in Ops /\ rs[1].args \in AnyValues(op) /\ Typed(Args(op), rs[1].args)
  <2>1. s.pc \notin {"header", "gone"}
    BY DEF s
  <2>. QED BY <1>1, <2>1, AtWhich
<1>5. args[op] \in AnyValues(op) /\ DOMAIN args = Ops /\ \A o \in Ops : args[o] \in AnyValues(o)
  BY <1>1, <1>4 DEF TypeOK
<1>6. x \in AnyValues(op)
  BY <1>3, <1>4, <1>5, TypesAssumption DEF s
<1>7. args' = [args EXCEPT ![op] = x]
  BY DEF s
<1>. HIDE DEF op, k, x
<1>8. /\ args'[op] = x /\ DOMAIN args' = Ops /\ \A o \in Ops : args'[o] \in AnyValues(o)
      /\ \A o \in Ops \ {op} : args'[o] = args[o]
  BY <1>4, <1>5, <1>6, <1>7
<1>9. /\ session'[c] = t
      /\ \A d \in Clients \ {c} : session'[d] = session[d]
      /\ session' \in [Clients -> SessionStates]
  BY <1>1, <1>3 DEF TypeOK
<1>10. TypeOK'
  BY <1>1, <1>8, <1>9 DEF TypeOK
<1>11. OnlyAt(c)
  <2>1. ASSUME NEW d \in Clients \ {c}, Locked(session[d])
        PROVE  args'[session[d].op] = args[session[d].op]
    <3>1. Class(session[d].op) # Class(op)
      BY <1>1, <1>2, <2>1, Zenon DEF Apart, s, op
    <3>2. session[d].op # op
      BY <3>1
    <3>3. session[d].op \in Ops
      <4>1. /\ session[d] \in SessionStates /\ requests[d] \in Seq(Requests(d))
            /\ session[d].pc \notin {"header", "gone"} /\ AtRequest(session[d], requests[d])
        BY <2>1, Now DEF Locked
      <4>. QED BY <4>1, AtWhich
    <3>. QED BY <1>8, <3>2, <3>3
  <2>. QED BY <1>9, <2>1, Zenon DEF OnlyAt
<1>12. HasRead(t, rs, x)
  <2>. SUFFICES ASSUME ~t.garbled PROVE \A i \in 1..Before(op, k + 1) : x[i] = rs[1].args[i]
    BY <1>3, Zenon DEF HasRead
  <2>1. w = rs[1].args /\ ~s.garbled
    BY <1>3 DEF s, rs
  <2>2. \A i \in 1..Before(op, k) : args[op][i] = rs[1].args[i]
    BY <1>1, <1>2, <2>1, Zenon DEF HasRead, op, k
  <2>3. Typed(Args(op), args[op])
    BY <1>4, <1>5, TypesAssumption
  <2>. QED BY <1>3, <1>4, <2>1, <2>2, <2>3, WithRead DEF x
<1>13. Placed(c)'
  <2>1. SessionAt(up, t, toServer[c], rs, Closed(c))
    BY <1>1, <1>3 DEF SessionAt, rs
  <2>2. Closed(c)' = Closed(c)
    BY DEF Closed
  <2>3. HasRead(t, rs, args'[t.op])
    BY <1>3, <1>8, <1>12
  <2>. QED BY <1>1, <1>9, <2>1, <2>2, <2>3 DEF Placed, rs
<1>14. Free(c)
  <2>1. NoNewMutex(c)
    BY <1>2, <1>3, <1>9 DEF NoNewMutex, s, op
  <2>. QED BY <2>1, FreeIfNotNew
<1>. QED BY <1>10, <1>11, <1>13, <1>14, FrameOne

\* recv_args: the session has the bytes that were sent for the pack.
LEMMA recv_argsKeeps == ASSUME Inv, NEW c \in Clients, recv_args(c) PROVE Inv'
<1>. DEFINE s == session[c]
            rs == requests[c]
            i == toServer[c]
            p == build_args_packs(s.op)[s.pack]
            b == s.buff
            v == rs[1].args
<1>1. /\ s \in SessionStates /\ i \in Bytes /\ Closed(c) \in BOOLEAN /\ up
      /\ rs \in Seq(Requests(c)) /\ AtRequest(s, rs)
      /\ InStream(s, i, rs, Closed(c)) /\ TypeOK
      /\ HasRead(s, rs, args[s.op]) /\ s.pc \in {"args", "payload"}
  BY Now DEF recv_args
<1>2. /\ s.pc = "args" => Len(b) = required_buffer_size(p)
      /\ s.pc = "payload" => Len(b) = s.len
  BY DEF recv_args, Complete, Wanted, Pack
<1>3. UNCHANGED <<up, client, toServer, toClient, object, requests, answers>>
  BY DEF recv_args, Assign
<1>4. /\ s.op \in Ops /\ v \in AnyValues(s.op) /\ s.pack \in 1..Packs(s.op)
  <2>1. s.pc \notin {"header", "gone"}
    BY <1>1
  <2>2. s.pack \in 1..Packs(s.op)
    BY <1>1 DEF AtRequest
  <2>. HIDE DEF s, rs
  <2>. QED BY <1>1, <2>1, <2>2, AtWhich
<1>5. CASE s.pc = "args" /\ p[1].kind = "vector"
  <2>. DEFINE t == [s EXCEPT !.pc = "payload", !.buff = <<>>, !.len = Announced(s)]
  <2>1. session' = [session EXCEPT ![c] = t] /\ args' = args
    <3>1. /\ session' = [session EXCEPT ![c].pc = "payload", ![c].buff = <<>>,
                                        ![c].len = Announced(s)]
          /\ args' = args
      BY <1>5 DEF recv_args, Pack, Announced
    <3>. QED BY <1>1, <3>1 DEF TypeOK
  <2>2. t \in SessionStates /\ AtRequest(t, rs) /\ InStream(t, i, rs, Closed(c))
    <3>. HIDE DEF s, rs, i, b
    <3>. QED BY <1>1, <1>2, <1>5, SessionReadsLength DEF b
  <2>3. /\ t.pc = "payload" /\ t.op = s.op /\ t.pack = s.pack /\ t.garbled = s.garbled
    BY <1>1 DEF SessionStates
  <2>4. session'[c] = t
    BY <1>1, <2>1 DEF TypeOK
  <2>. HIDE DEF t
  <2>5. HasRead(t, rs, args[t.op])
    BY <1>1, <2>3 DEF HasRead, Locked
  <2>6. Free(c)
    <3>1. NoNewMutex(c)
      BY <1>5, <2>3, <2>4 DEF NoNewMutex, Locked
    <3>. QED BY <3>1, FreeIfNotNew
  <2>7. toServer' = [toServer EXCEPT ![c] = i]
    BY <1>1, <1>3 DEF TypeOK
  <2>8. t.pc # "gone" /\ session[c].pc # "gone"
    BY <1>1, <2>3
  <2>. QED BY <1>1, <1>3, <2>1, <2>2, <2>5, <2>6, <2>7, <2>8, SessionMoves
<1>6. CASE ~(s.pc = "args" /\ p[1].kind = "vector")
  <2>. DEFINE t == AtNext(s)
              w == IF p[1].kind = "scalar" THEN deserialize(p, b) ELSE <<elements(p[1].T, b)>>
  <2>1. /\ session' = [session EXCEPT ![c] = t]
        /\ args' = [args EXCEPT ![s.op] = With(s.op, s.pack, @, w)]
    <3>1. Assign(c, w, FALSE)
      BY <1>6 DEF recv_args, Pack
    <3>2. /\ session' = [session EXCEPT ![c].buff = <<>>, ![c].pack = @ + 1,
             ![c].pc = IF s.pack = Packs(s.op) THEN "run" ELSE "args", ![c].garbled = FALSE]
          /\ args' = [args EXCEPT ![s.op] = With(s.op, s.pack, @, w)]
      BY <3>1, Zenon DEF Assign
    <3>. QED BY <1>1, <3>2 DEF TypeOK, AtNext
  <2>2. ~s.garbled /\ InStream(t, i, rs, Closed(c)) /\ w = PackOf(s.op, s.pack, v)
    <3>1. CASE s.pc = "args"
      <4>1. p[1].kind # "vector" /\ Len(s.buff) = required_buffer_size(p)
        BY <1>2, <1>6, <3>1
      <4>2. /\ ~s.garbled /\ InStream(t, i, rs, Closed(c))
            /\ p[1].kind = "scalar" => deserialize(p, b) = PackOf(s.op, s.pack, v)
            /\ p[1].kind # "scalar" => <<elements(p[1].T, b)>> = PackOf(s.op, s.pack, v)
        <5>. HIDE DEF s, rs, i
        <5>. QED BY <1>1, <3>1, <4>1, SessionReadsPack
      <4>. QED BY <4>2, Zenon
    <3>2. CASE s.pc = "payload"
      <4>1. Len(s.buff) = s.len
        BY <1>2, <3>2
      <4>2. /\ ~s.garbled /\ InStream(t, i, rs, Closed(c)) /\ p[1].kind = "vector"
            /\ <<elements(p[1].T, b)>> = PackOf(s.op, s.pack, v)
        <5>. HIDE DEF s, rs, i
        <5>. QED BY <1>1, <3>2, <4>1, SessionReadsElements
      <4>3. p[1].kind # "scalar"
        BY <4>2
      <4>. QED BY <4>2, <4>3, Zenon
    <3>. QED BY <1>1, <3>1, <3>2
  <2>. HIDE DEF t, w, v
  <2>3. t = AtNext(s)
    BY DEF t
  <2>4. t = AtNext(s) \/ t = AtNextGarbled(s)
    BY <2>3
  <2>5. args' = [args EXCEPT ![s.op] = With(s.op, s.pack, @, PackOf(s.op, s.pack, v))]
    BY <2>1, <2>2, Zenon
  <2>. HIDE DEF p, b
  <2>. QED BY <1>1, <1>3, <1>4, <2>1, <2>2, <2>4, <2>5, SessionAssigns DEF v
<1>. QED BY <1>5, <1>6

\* recv_nothing: the client is gone, and the arguments are garbled.
LEMMA recv_nothingKeeps == ASSUME Inv, NEW c \in Clients, recv_nothing(c) PROVE Inv'
<1>. DEFINE s == session[c]
            rs == requests[c]
            t == AtNextGarbled(s)
<1>1. /\ s \in SessionStates /\ up /\ rs \in Seq(Requests(c)) /\ AtRequest(s, rs)
      /\ TypeOK /\ s.pc \in {"args", "payload"}
  BY Now DEF recv_nothing
<1>2. PICK w \in AnyValues(s.op) : Assign(c, PackOf(s.op, s.pack, w), TRUE)
  BY DEF recv_nothing
<1>3. /\ session' = [session EXCEPT ![c].buff = <<>>, ![c].pack = @ + 1,
             ![c].pc = IF s.pack = Packs(s.op) THEN "run" ELSE "args", ![c].garbled = TRUE]
      /\ args' = [args EXCEPT ![s.op] = With(s.op, s.pack, @, PackOf(s.op, s.pack, w))]
      /\ UNCHANGED <<up, client, toServer, toClient, object, requests, answers>>
  BY <1>2, Zenon DEF Assign
<1>4. session' = [session EXCEPT ![c] = t]
  BY <1>1, <1>3 DEF TypeOK, AtNextGarbled
<1>5. t.garbled /\ ~AtNext(s).garbled
  BY <1>1 DEF AtNext, AtNextGarbled, SessionStates
<1>6. toServer[c] = <<>> /\ Closed(c) = TRUE
  <2>1. Closed(c) /\ toServer[c] = <<>>
    BY DEF recv_nothing, EndOfFile
  <2>2. Closed(c) \in BOOLEAN
    BY Now
  <2>. QED BY <2>1, <2>2
<1>7. InStream(t, <<>>, rs, TRUE)
  <2>. HIDE DEF s, rs
  <2>. QED BY <1>1, SessionReadsNothing
<1>8. InStream(t, toServer[c], rs, Closed(c))
  BY <1>6, <1>7, Zenon
<1>9. t # AtNext(s)
  BY <1>5
<1>10. t = AtNext(s) \/ t = AtNextGarbled(s)
  OBVIOUS
<1>. HIDE DEF t
<1>. QED BY <1>1, <1>3, <1>4, <1>8, <1>9, <1>10, SessionAssigns

\* A session ends when its client is gone.
LEMMA SessionEndsKeeps == ASSUME Inv, NEW c \in Clients, SessionEnds(c) PROVE Inv'
<1>. DEFINE s == session[c]
            t == [s EXCEPT !.pc = "gone"]
<1>1. /\ s \in SessionStates /\ up /\ TypeOK
      /\ ClientAt(up, client[c], toClient[c], requests[c], answers[c])
  BY Now DEF SessionEnds
<1>2. /\ session' = [session EXCEPT ![c] = t] /\ requests' = [requests EXCEPT ![c] = <<>>]
      /\ UNCHANGED <<up, client, toServer, toClient, args, object, answers>>
  BY <1>1 DEF SessionEnds, TypeOK
<1>3. Closed(c)
  BY DEF SessionEnds, EndOfFile
<1>4. t \in SessionStates /\ t.pc = "gone" /\ <<>> \in Seq(Requests(c))
  BY <1>1 DEF SessionStates
<1>. HIDE DEF t
<1>5. /\ session'[c] = t /\ requests'[c] = <<>>
      /\ \A d \in Clients \ {c} : session'[d] = session[d] /\ requests'[d] = requests[d]
      /\ session' \in [Clients -> SessionStates]
      /\ requests' = [d \in Clients |-> requests'[d]]
  BY <1>1, <1>2, <1>4 DEF TypeOK
<1>6. TypeOK'
  <2>1. \A d \in Clients : requests'[d] \in Seq(Requests(d))
    BY <1>1, <1>4, <1>5 DEF TypeOK
  <2>. QED BY <1>1, <1>2, <1>5, <2>1 DEF TypeOK
<1>7. OnlyAt(c)
  BY <1>2, <1>5, Zenon DEF OnlyAt
<1>8. Free(c)
  BY <1>4, <1>5 DEF Free, Locked
<1>9. Placed(c)'
  <2>1. Closed(c)'
    BY <1>2, <1>3, Zenon DEF Closed
  <2>2. SessionAt(up, t, toServer[c], <<>>, Closed(c)')
    BY <1>4, <2>1 DEF SessionAt
  <2>3. HasRead(t, <<>>, args[t.op])
    BY <1>4 DEF HasRead, Locked
  <2>4. ClientAt(up, client[c], toClient[c], <<>>, answers[c])
    <3>1. client[c].pc \in {"closed", "aborted"}
      BY <1>3 DEF Closed
    <3>. QED BY <1>1, <3>1 DEF ClientAt
  <2>. QED BY <1>2, <1>5, <2>2, <2>3, <2>4 DEF Placed
<1>. QED BY <1>6, <1>7, <1>8, <1>9, FrameOne

\* execute_operation: the client that waits for the result gets it.
LEMMA execute_operationKeeps == ASSUME Inv, NEW c \in Clients, execute_operation(c) PROVE Inv'
<1>. DEFINE s == session[c]
            rs == requests[c]
            i == toServer[c]
            k == client[c]
            out == toClient[c]
            op == s.op
            a == args[op]
            y == Result(object, op, a)
            reply == build_command(Class(op), Func(op), Ret(op), y)
            t == [s EXCEPT !.pc = "header", !.garbled = FALSE]
            q == IF s.garbled THEN <<>> ELSE Tail(rs)
            put == IF Return(op) /\ ~Closed(c) THEN out \o reply ELSE out
            as == IF Return(op) /\ ~Closed(c) THEN <<y>> ELSE <<>>
<1>1. /\ s \in SessionStates /\ i \in Bytes /\ Closed(c) \in BOOLEAN /\ up
      /\ rs \in Seq(Requests(c)) /\ AtRequest(s, rs) /\ k \in ClientStates
      /\ InStream(s, i, rs, Closed(c)) /\ TypeOK /\ out \in Bytes
      /\ ClientAt(up, k, out, rs, answers[c]) /\ s.pc = "run"
  BY Now DEF execute_operation
<1>2. /\ session' = [session EXCEPT ![c] = t] /\ requests' = [requests EXCEPT ![c] = q]
      /\ toClient' = [toClient EXCEPT ![c] = put] /\ answers' = [answers EXCEPT ![c] = as]
      /\ object' = Effect(object, op, a)
      /\ UNCHANGED <<up, client, toServer, args>>
  BY <1>1 DEF execute_operation, TypeOK
<1>3. t.pc = "header"
  BY <1>1 DEF SessionStates
<1>4. op = rs[1].op /\ op \in Ops /\ rs # <<>>
  <2>1. s.pc \notin {"header", "gone"}
    BY <1>1
  <2>. HIDE DEF s, rs
  <2>. QED BY <1>1, <2>1, AtWhich
<1>5. a \in AnyValues(op) /\ object \in Objects /\ object' \in Objects
  BY <1>1, <1>2, <1>4, TypesAssumption DEF TypeOK
<1>. HIDE DEF s, rs, k, out, i
<1>6. t \in SessionStates /\ q \in Seq(Requests(c)) /\ AtRequest(t, q)
      /\ InStream(t, i, q, Closed(c))
  <2>1. t = HasRun(s) /\ q = ToRun(s, rs)
    BY Zenon DEF HasRun, ToRun
  <2>. HIDE DEF t, q
  <2>2. /\ rs \in Seq(Requests(c)) /\ s \in SessionStates /\ i \in Bytes /\ Closed(c) \in BOOLEAN
        /\ AtRequest(s, rs) /\ InStream(s, i, rs, Closed(c)) /\ s.pc = "run"
    BY <1>1
  <2>. HIDE DEF a, y, reply, op
  <2>. QED BY <2>1, <2>2, SessionRan
<1>. HIDE DEF t
<1>7. put \in Bytes /\ ClientAt(up, k, put, q, as)
  <2>1. CASE Closed(c)
    <3>1. k.pc \in {"closed", "aborted"} /\ k.pc # "aborted"
      BY <1>1, <2>1 DEF Closed, ClientAt, k
    <3>2. as = <<>> /\ put = out
      BY <2>1
    <3>. HIDE DEF as, put
    <3>. QED BY <1>1, <3>1, <3>2 DEF ClientAt
  <2>2. CASE ~Closed(c)
    <3>1. k.pc \notin {"closed", "aborted"}
      BY <2>2 DEF Closed, k
    <3>2. q = Tail(rs)
      BY <1>1, <2>2 DEF InStream
    <3>4. put = WithReply(op, out, y) /\ as = Answer(op, y)
      BY <2>2, Zenon DEF WithReply, Answer, Cat
    <3>5. /\ rs \in Seq(Requests(c)) /\ k \in ClientStates /\ out \in Bytes /\ rs # <<>>
          /\ ClientAt(up, k, out, rs, answers[c]) /\ up
      BY <1>1, <1>4
    <3>. HIDE DEF a, op
    <3>6. /\ WithReply(op, out, y) \in Bytes
          /\ ClientAt(up, k, WithReply(op, out, y), Tail(rs), Answer(op, y))
      BY <1>4, <1>5, <3>1, <3>5, ClientIsAnswered
    <3>. HIDE DEF put, as, q, y
    <3>. QED BY <3>2, <3>4, <3>6, Zenon
  <2>. QED BY <2>1, <2>2
<1>. HIDE DEF put, as, q, op, a
<1>8. /\ session'[c] = t /\ requests'[c] = q /\ toClient'[c] = put /\ answers'[c] = as
      /\ \A d \in Clients \ {c} :
            /\ session'[d] = session[d] /\ requests'[d] = requests[d]
            /\ toClient'[d] = toClient[d] /\ answers'[d] = answers[d]
  BY <1>1, <1>2 DEF TypeOK
<1>9. TypeOK'
  <2>1. session' \in [Clients -> SessionStates]
    BY <1>1, <1>2, <1>6 DEF TypeOK
  <2>2. toClient' \in [Clients -> Bytes]
    BY <1>1, <1>2, <1>7 DEF TypeOK
  <2>3. /\ requests' = [d \in Clients |-> requests'[d]]
        /\ answers' = [d \in Clients |-> answers'[d]]
    BY <1>1, <1>2 DEF TypeOK
  <2>4. \A d \in Clients : requests'[d] \in Seq(Requests(d))
    BY <1>1, <1>6, <1>8 DEF TypeOK
  <2>. QED BY <1>1, <1>2, <1>5, <2>1, <2>2, <2>3, <2>4 DEF TypeOK
<1>10. OnlyAt(c)
  BY <1>2, <1>8, Zenon DEF OnlyAt
<1>11. Free(c)
  BY <1>3, <1>8 DEF Free, Locked
<1>12. Placed(c)'
  <2>1. SessionAt(up, t, toServer[c], q, Closed(c))
    BY <1>1, <1>3, <1>6 DEF SessionAt, i
  <2>2. Closed(c)' = Closed(c)
    BY <1>2 DEF Closed
  <2>3. HasRead(t, q, args[t.op])
    BY <1>3 DEF HasRead, Locked
  <2>4. ClientAt(up, k, put, q, as)
    BY <1>7
  <2>. QED BY <1>2, <1>8, <2>1, <2>2, <2>3, <2>4 DEF Placed, k
<1>. QED BY <1>9, <1>10, <1>11, <1>12, FrameOne

\* A step of the client, which may send a request.
LEMMA ClientMoves ==
    ASSUME Inv, NEW c \in Clients, NEW k \in ClientStates, NEW i \in Bytes, NEW out \in Bytes,
           NEW rs \in Seq(Requests(c)), NEW as, NEW closed \in BOOLEAN,
           closed <=> k.pc \in {"closed", "aborted"},
           client' = [client EXCEPT ![c] = k], toServer' = [toServer EXCEPT ![c] = i],
           toClient' = [toClient EXCEPT ![c] = out], requests' = [requests EXCEPT ![c] = rs],
           answers' = [answers EXCEPT ![c] = as], UNCHANGED <<up, session, args, object>>,
           SessionAt(up, session[c], i, rs, closed), ClientAt(up, k, out, rs, as),
           up => HasRead(session[c], rs, args[session[c].op])
    PROVE  Inv'
<1>1. TypeOK
  BY Now
<1>2. /\ client'[c] = k /\ toServer'[c] = i /\ toClient'[c] = out
      /\ requests'[c] = rs /\ answers'[c] = as
      /\ \A d \in Clients \ {c} :
            /\ client'[d] = client[d] /\ toServer'[d] = toServer[d] /\ toClient'[d] = toClient[d]
            /\ requests'[d] = requests[d] /\ answers'[d] = answers[d]
  BY <1>1 DEF TypeOK
<1>3. TypeOK'
  <2>1. client' \in [Clients -> ClientStates]
    BY <1>1 DEF TypeOK
  <2>2. toServer' \in [Clients -> Bytes] /\ toClient' \in [Clients -> Bytes]
    BY <1>1 DEF TypeOK
  <2>3. /\ requests' = [d \in Clients |-> requests'[d]]
        /\ answers' = [d \in Clients |-> answers'[d]]
    BY <1>1 DEF TypeOK
  <2>4. \A d \in Clients : requests'[d] \in Seq(Requests(d))
    BY <1>1, <1>2 DEF TypeOK
  <2>. QED BY <1>1, <2>1, <2>2, <2>3, <2>4 DEF TypeOK
<1>4. OnlyAt(c)
  BY <1>2, Zenon DEF OnlyAt
<1>5. Free(c)
  <2>1. NoNewMutex(c)
    BY DEF NoNewMutex
  <2>. QED BY <2>1, FreeIfNotNew
<1>6. Placed(c)'
  <2>1. Closed(c)' = closed
    BY <1>2 DEF Closed
  <2>. QED BY <1>2, <2>1 DEF Placed
<1>. QED BY <1>3, <1>4, <1>5, <1>6, FrameOne

\* A step of the client that neither sends anything nor leaves.
LEMMA ClientGoesOn ==
    ASSUME Inv, NEW c \in Clients, ~Closed(c), NEW k \in ClientStates, NEW out \in Bytes, NEW as,
           k.pc \notin {"closed", "aborted"},
           client' = [client EXCEPT ![c] = k], toClient' = [toClient EXCEPT ![c] = out],
           answers' = [answers EXCEPT ![c] = as],
           UNCHANGED <<up, session, args, object, toServer, requests>>,
           ClientAt(up, k, out, requests[c], as)
    PROVE  Inv'
<1>. DEFINE i == toServer[c]
            rs == requests[c]
            closed == Closed(c)
<1>1. /\ i \in Bytes /\ rs \in Seq(Requests(c)) /\ closed \in BOOLEAN /\ TypeOK
      /\ SessionAt(up, session[c], i, rs, closed)
      /\ up => HasRead(session[c], rs, args[session[c].op])
  BY Now
<1>2. toServer' = [toServer EXCEPT ![c] = i] /\ requests' = [requests EXCEPT ![c] = rs]
  BY <1>1 DEF TypeOK
<1>3. closed <=> k.pc \in {"closed", "aborted"}
  OBVIOUS
<1>. HIDE DEF i, rs, closed
<1>4. ClientAt(up, k, out, rs, as)
  BY DEF rs
<1>. QED BY <1>1, <1>2, <1>3, <1>4, ClientMoves

\* recv_all: some bytes go from the stream to the client.
LEMMA ClientReadsKeeps == ASSUME Inv, NEW c \in Clients, ClientReads(c) PROVE Inv'
<1>. DEFINE k == client[c]
            out == toClient[c]
            rs == requests[c]
            as == answers[c]
<1>1. PICK n \in Reads(k.buff, Expected(c), out) :
         /\ client' = [client EXCEPT ![c].buff = @ \o SubSeq(out, 1, n)]
         /\ toClient' = [toClient EXCEPT ![c] = SubSeq(@, n + 1, Len(@))]
  BY DEF ClientReads
<1>2. /\ k \in ClientStates /\ out \in Bytes /\ ClientAt(up, k, out, rs, as) /\ TypeOK
      /\ k.pc \in {"fixed", "dynamic"}
  BY Now DEF ClientReads, Waiting
<1>3. n \in 1..Len(out)
  <2>1. Len(out) \in Nat
    BY <1>2, EmptyBytes
  <2>2. n <= Len(out) /\ n \in 1..(Expected(c) - Len(k.buff))
    BY <1>1 DEF Reads
  <2>3. n \in Nat \ {0}
    BY <2>2
  <2>. QED BY <2>1, <2>2, <2>3
<1>. DEFINE j == [k EXCEPT !.buff = @ \o SubSeq(out, 1, n)]
            rest == SubSeq(out, n + 1, Len(out))
<1>4. client' = [client EXCEPT ![c] = j] /\ toClient' = [toClient EXCEPT ![c] = rest]
  BY <1>1, <1>2 DEF TypeOK
<1>5. j.pc = k.pc
  BY <1>2 DEF ClientStates
<1>. HIDE DEF k, out, rs, as
<1>6. j \in ClientStates /\ rest \in Bytes /\ ClientAt(up, j, rest, rs, as)
  BY <1>2, <1>3, ClientReadsOn
<1>7. answers' = [answers EXCEPT ![c] = as]
  BY <1>2 DEF ClientReads, TypeOK, as
<1>8. UNCHANGED <<up, session, args, object, toServer, requests>>
  BY DEF ClientReads
<1>9. ~Closed(c) /\ j.pc \notin {"closed", "aborted"}
  BY <1>2, <1>5 DEF Closed, k
<1>. HIDE DEF j, rest
<1>. QED BY <1>4, <1>6, <1>7, <1>8, <1>9, ClientGoesOn DEF rs

\* What a client makes of a reply: the answer, or how long it is.
LEMMA command_deserializerDoes ==
    ASSUME Inv, NEW c \in Clients, command_deserializer(c)
    PROVE  /\ ~Closed(c) /\ UNCHANGED <<up, toServer, toClient, session, args, object, requests>>
           /\ \/ \E v : /\ Returned(c, v) /\ answers[c] = <<v>>
                        /\ requests[c] = <<>> /\ toClient[c] = <<>>
              \/ /\ UNCHANGED <<answers, result>>
                 /\ \E j \in ClientStates : /\ client' = [client EXCEPT ![c] = j]
                                            /\ j.pc = "dynamic"
                                            /\ ClientAt(up, j, toClient[c], requests[c], answers[c])
<1>. DEFINE k == client[c]
            out == toClient[c]
            rs == requests[c]
            as == answers[c]
            p == Ret(k.op)
            b == k.buff
            payload == SubSeq(b, HeaderSize + 1, Len(b))
<1>1. /\ k \in ClientStates /\ out \in Bytes /\ ClientAt(up, k, out, rs, as) /\ TypeOK
      /\ k.pc \in {"fixed", "dynamic"} /\ Len(b) = Awaited(k)
  BY Now DEF command_deserializer, Waiting, Expected, Awaited
<1>2. /\ ~Closed(c)
      /\ UNCHANGED <<up, toServer, toClient, session, args, object, requests>>
  BY <1>1 DEF command_deserializer, Closed
<1>3. CASE k.pc = "dynamic"
  <2>1. Returned(c, <<elements(p[1].T, b)>>)
    BY <1>3, Zenon DEF command_deserializer
  <2>2. Len(b) = k.len
    BY <1>1, <1>3 DEF Awaited
  <2>3. rs = <<>> /\ out = <<>> /\ as = <<<<elements(p[1].T, b)>>>>
    <3>. HIDE DEF k, out, rs, as
    <3>. QED BY <1>1, <1>3, <2>2, ClientGetsElements
  <2>. QED BY <1>2, <2>1, <2>3, Zenon
<1>4. CASE k.pc = "fixed" /\ IsDynamic(k.op)
  <2>. DEFINE j == [k EXCEPT !.pc = "dynamic", !.buff = <<>>,
                             !.len = extract("uint32_t", payload)]
  <2>1. /\ ClassOf(b) = Class(k.op) /\ FuncOf(b) = Func(k.op)
        /\ j \in ClientStates /\ ClientAt(up, j, out, rs, as)
    <3>. HIDE DEF k, out, rs, as
    <3>. QED BY <1>1, <1>4, ClientGetsLength
  <2>2. Checked(c)
    BY <2>1 DEF Checked
  <2>3. /\ client' = [client EXCEPT ![c].pc = "dynamic", ![c].buff = <<>>,
                                    ![c].len = extract("uint32_t", payload)]
        /\ UNCHANGED <<answers, result>>
    BY <1>4, <2>2, Zenon DEF command_deserializer
  <2>4. client' = [client EXCEPT ![c] = j]
    <3>. HIDE DEF payload
    <3>. QED BY <1>1, <2>3 DEF TypeOK
  <2>5. j.pc = "dynamic"
    BY <1>1 DEF ClientStates
  <2>. HIDE DEF j
  <2>. QED BY <1>2, <2>1, <2>3, <2>4, <2>5, Zenon
<1>5. CASE k.pc = "fixed" /\ ~IsDynamic(k.op)
  <2>1. /\ ClassOf(b) = Class(k.op) /\ FuncOf(b) = Func(k.op)
        /\ rs = <<>> /\ out = <<>>
        /\ p[1].kind = "array" => as = <<<<elements(p[1].T, payload)>>>>
        /\ p[1].kind # "array" => as = <<deserialize(p, payload)>>
    <3>. HIDE DEF k, out, rs, as
    <3>. QED BY <1>1, <1>5, ClientGetsFixed
  <2>2. Checked(c)
    BY <2>1 DEF Checked
  <2>3. CASE p[1].kind = "array"
    <3>1. Returned(c, <<elements(p[1].T, payload)>>)
      BY <1>5, <2>2, <2>3 DEF command_deserializer
    <3>. QED BY <1>2, <2>1, <2>3, <3>1, Zenon
  <2>4. CASE p[1].kind # "array"
    <3>1. Returned(c, deserialize(p, payload))
      BY <1>5, <2>2, <2>4 DEF command_deserializer
    <3>. QED BY <1>2, <2>1, <2>4, <3>1, Zenon
  <2>. QED BY <2>3, <2>4
<1>. QED BY <1>1, <1>3, <1>4, <1>5

\* command_deserializer: no reply is one to another call.
LEMMA command_deserializerKeeps ==
    ASSUME Inv, NEW c \in Clients, command_deserializer(c) PROVE Inv'
<1>. DEFINE k == client[c]
            out == toClient[c]
<1>1. ~Closed(c) /\ UNCHANGED <<up, toServer, toClient, session, args, object, requests>>
  BY command_deserializerDoes
<1>2. /\ k \in ClientStates /\ out \in Bytes /\ TypeOK
      /\ ClientAt(up, k, out, requests[c], answers[c])
      /\ toClient' = [toClient EXCEPT ![c] = out]
  BY <1>1, Now DEF TypeOK
<1>3. ASSUME NEW v, Returned(c, v), requests[c] = <<>>, out = <<>>
      PROVE  Inv'
  <2>. DEFINE j == [k EXCEPT !.pc = "idle", !.buff = <<>>]
  <2>1. client' = [client EXCEPT ![c] = j] /\ answers' = [answers EXCEPT ![c] = <<>>]
    BY <1>2, <1>3 DEF Returned, TypeOK
  <2>2. j \in ClientStates /\ j.pc = "idle" /\ j.buff = <<>>
    <3>1. <<>> \in Bytes
      BY EmptyBytes
    <3>. QED BY <1>2, <3>1 DEF ClientStates
  <2>. HIDE DEF j
  <2>3. ClientAt(up, j, out, requests[c], <<>>)
    BY <1>3, <2>2 DEF ClientAt
  <2>4. j.pc \notin {"closed", "aborted"}
    BY <2>2
  <2>. HIDE DEF out
  <2>. QED BY <1>1, <1>2, <2>1, <2>2, <2>3, <2>4, ClientGoesOn
<1>4. ASSUME NEW j \in ClientStates, client' = [client EXCEPT ![c] = j], j.pc = "dynamic",
             ClientAt(up, j, out, requests[c], answers[c]), answers' = answers
      PROVE  Inv'
  <2>. DEFINE as == answers[c]
  <2>1. answers' = [answers EXCEPT ![c] = as]
    BY <1>2, <1>4 DEF TypeOK
  <2>2. j.pc \notin {"closed", "aborted"} /\ ClientAt(up, j, out, requests[c], as)
    BY <1>4
  <2>. HIDE DEF out, as
  <2>. QED BY <1>1, <1>2, <1>4, <2>1, <2>2, ClientGoesOn
<1>. QED BY <1>3, <1>4, command_deserializerDoes, Zenon

\* A client that throws is gone.
LEMMA ClientThrowsKeeps == ASSUME Inv, NEW c \in Clients, ClientThrows(c) PROVE Inv'
<1>. DEFINE j == [client[c] EXCEPT !.pc = "closed"]
            i == toServer[c]
            out == toClient[c]
            rs == requests[c]
            as == <<>>
<1>1. /\ TypeOK /\ client[c] \in ClientStates /\ i \in Bytes /\ out \in Bytes
      /\ rs \in Seq(Requests(c)) /\ ~up /\ session[c].pc = "gone" /\ rs = <<>>
  BY Now DEF ClientThrows
<1>2. /\ client' = [client EXCEPT ![c] = j] /\ answers' = [answers EXCEPT ![c] = as]
      /\ UNCHANGED <<up, session, args, object>>
      /\ toServer' = [toServer EXCEPT ![c] = i] /\ toClient' = [toClient EXCEPT ![c] = out]
      /\ requests' = [requests EXCEPT ![c] = rs]
  BY <1>1 DEF ClientThrows, TypeOK
<1>3. j \in ClientStates /\ j.pc = "closed"
  BY <1>1 DEF ClientStates
<1>. HIDE DEF j, i, out, rs
<1>4. SessionAt(up, session[c], i, rs, TRUE)
  BY <1>1 DEF SessionAt
<1>5. ClientAt(up, j, out, rs, as)
  BY <1>3 DEF ClientAt
<1>6. up => HasRead(session[c], rs, args[session[c].op])
  BY <1>1
<1>7. TRUE <=> j.pc \in {"closed", "aborted"}
  BY <1>3
<1>. HIDE DEF as
<1>. QED BY <1>1, <1>2, <1>3, <1>4, <1>5, <1>6, <1>7, ClientMoves

\* A client that ends leaves a part of what it sent.
LEMMA ClientEndsKeeps == ASSUME Inv, NEW c \in Clients, ClientEnds(c) PROVE Inv'
<1>. DEFINE s == session[c]
            i == toServer[c]
            j == [client[c] EXCEPT !.pc = "closed"]
            out == <<>>
            rs == requests[c]
            as == <<>>
<1>1. /\ TypeOK /\ client[c] \in ClientStates /\ s \in SessionStates
      /\ i \in Bytes /\ rs \in Seq(Requests(c)) /\ SessionAt(up, s, i, rs, Closed(c))
      /\ up => HasRead(s, rs, args[s.op])
      /\ client[c].pc \in {"idle", "fixed", "dynamic"}
  BY Now DEF ClientEnds
<1>2. PICK n \in {k \in Cuts \cup {0, Len(i)} : k <= Len(i)} :
          toServer' = [toServer EXCEPT ![c] = SubSeq(@, 1, n)]
  BY DEF ClientEnds
<1>. DEFINE part == SubSeq(i, 1, n)
<1>3. n \in 0..Len(i)
  <2>1. Len(i) \in Nat
    BY <1>1, EmptyBytes
  <2>2. Cuts \subseteq Nat
    BY WireAssumption
  <2>3. n \in Nat /\ n <= Len(i)
    BY <1>2, <2>1, <2>2
  <2>. QED BY <2>1, <2>3
<1>4. /\ client' = [client EXCEPT ![c] = j] /\ answers' = [answers EXCEPT ![c] = as]
      /\ UNCHANGED <<up, session, args, object>>
      /\ toServer' = [toServer EXCEPT ![c] = part] /\ toClient' = [toClient EXCEPT ![c] = out]
      /\ requests' = [requests EXCEPT ![c] = rs]
  BY <1>1, <1>2 DEF ClientEnds, TypeOK
<1>5. j \in ClientStates /\ j.pc = "closed" /\ out \in Bytes
  BY <1>1, EmptyBytes DEF ClientStates
<1>6. Closed(c) = FALSE
  BY <1>1 DEF Closed
<1>. HIDE DEF s, i, rs, j, out, as
<1>7. part \in Bytes /\ SessionAt(up, s, part, rs, TRUE)
  <2>1. CASE up /\ s.pc # "gone"
    <3>1. AtRequest(s, rs) /\ InStream(s, i, rs, FALSE)
      BY <1>1, <1>6, <2>1 DEF SessionAt
    <3>2. part \in Bytes /\ InStream(s, part, rs, TRUE)
      BY <1>1, <1>3, <2>1, <3>1, SessionIsLeft
    <3>. HIDE DEF part
    <3>. QED BY <2>1, <3>1, <3>2 DEF SessionAt
  <2>2. CASE ~(up /\ s.pc # "gone")
    <3>1. part \in Bytes
      BY <1>1, <1>3, Cutting
    <3>2. s.pc = "gone" /\ rs = <<>>
      BY <1>1, <2>2 DEF SessionAt
    <3>. HIDE DEF part
    <3>. QED BY <2>2, <3>1, <3>2 DEF SessionAt
  <2>. QED BY <2>1, <2>2
<1>8. ClientAt(up, j, out, rs, as)
  BY <1>5 DEF ClientAt, as
<1>9. TRUE <=> j.pc \in {"closed", "aborted"}
  BY <1>5
<1>. HIDE DEF part
<1>. QED BY <1>1, <1>4, <1>5, <1>7, <1>8, <1>9, ClientMoves DEF s

\* What a session has read of a request does not change with the next ones.
LEMMA HasReadStill ==
    ASSUME NEW c \in Clients, NEW rs \in Seq(Requests(c)), NEW r \in Requests(c),
           NEW s, NEW a, AtRequest(s, rs), HasRead(s, rs, a)
    PROVE  HasRead(s, Append(rs, r), a)
<1>1. CASE Locked(s)
  <2>1. rs # <<>>
    BY <1>1 DEF Locked, AtRequest
  <2>2. Append(rs, r)[1] = rs[1]
    BY <2>1
  <2>. QED BY <2>2, Zenon DEF HasRead
<1>2. CASE ~Locked(s)
  BY <1>2, Zenon DEF HasRead
<1>. QED BY <1>1, <1>2

\* A call adds a request, and its bytes to the stream.
LEMMA CallKeeps ==
    ASSUME Inv, NEW c \in Clients, NEW op \in Ops, NEW v \in Values(c, op), Call(c, op, v)
    PROVE  Inv'
<1>. DEFINE s == session[c]
            i == toServer[c]
            k == client[c]
            out == toClient[c]
            rs == requests[c]
            as == answers[c]
            r == [op |-> op, args |-> v]
            j == [pc |-> IF Return(op) THEN "fixed" ELSE "idle",
                  op |-> op, buff |-> <<>>, len |-> 0]
            sent == IF up THEN i \o Encoded(r) ELSE i
            q == IF up THEN Append(rs, r) ELSE rs
<1>1. /\ TypeOK /\ k \in ClientStates /\ s \in SessionStates /\ up \in BOOLEAN
      /\ i \in Bytes /\ out \in Bytes /\ rs \in Seq(Requests(c))
      /\ SessionAt(up, s, i, rs, Closed(c)) /\ ClientAt(up, k, out, rs, as)
      /\ up => HasRead(s, rs, args[s.op])
      /\ ~up => rs = <<>>
      /\ k.pc = "idle"
  BY Now DEF Call
<1>2. /\ client' = [client EXCEPT ![c] = j] /\ toServer' = [toServer EXCEPT ![c] = sent]
      /\ requests' = [requests EXCEPT ![c] = q]
      /\ UNCHANGED <<up, toClient, session, args, object, answers>>
  <2>1. /\ client' = [client EXCEPT ![c] = j]
        /\ toServer' = [toServer EXCEPT ![c] = IF up THEN @ \o Encoded(r) ELSE @]
        /\ requests' = [requests EXCEPT ![c] = IF up THEN Append(@, r) ELSE @]
        /\ UNCHANGED <<up, toClient, session, args, object, answers>>
    BY Zenon DEF Call
  <2>. HIDE DEF j, r
  <2>. QED BY <1>1, <2>1 DEF TypeOK
<1>3. toClient' = [toClient EXCEPT ![c] = out] /\ answers' = [answers EXCEPT ![c] = as]
  BY <1>1, <1>2 DEF TypeOK
<1>4. r \in Requests(c) /\ r.op = op
  BY DEF Requests
<1>5. /\ j \in ClientStates /\ j.pc = (IF Return(op) THEN "fixed" ELSE "idle")
      /\ j.op = op /\ j.buff = <<>> /\ j.pc \notin {"closed", "aborted"}
  <2>1. <<>> \in Bytes
    BY EmptyBytes
  <2>. QED BY <2>1 DEF ClientStates, AnOp
<1>6. Closed(c) = FALSE
  BY <1>1 DEF Closed
<1>. HIDE DEF s, i, k, out, rs, as, r, j
<1>7. ClientAt(up, j, out, q, as)
  BY <1>1, <1>4, <1>5, ClientCalls
<1>8. /\ sent \in Bytes /\ q \in Seq(Requests(c)) /\ SessionAt(up, s, sent, q, FALSE)
      /\ up => HasRead(s, q, args[s.op])
  <2>1. CASE up
    <3>1. s.pc # "gone" /\ AtRequest(s, rs) /\ InStream(s, i, rs, FALSE)
      BY <1>1, <1>6, <2>1 DEF SessionAt
    <3>2. /\ i \o Encoded(r) \in Bytes /\ Append(rs, r) \in Seq(Requests(c))
          /\ AtRequest(s, Append(rs, r)) /\ InStream(s, i \o Encoded(r), Append(rs, r), FALSE)
      BY <1>1, <1>4, <3>1, SessionIsSent
    <3>3. HasRead(s, Append(rs, r), args[s.op])
      BY <1>1, <1>4, <2>1, <3>1, HasReadStill
    <3>4. sent = i \o Encoded(r) /\ q = Append(rs, r)
      BY <2>1, Zenon
    <3>. HIDE DEF sent, q
    <3>5. sent \in Bytes /\ q \in Seq(Requests(c)) /\ AtRequest(s, q) /\ InStream(s, sent, q, FALSE)
          /\ HasRead(s, q, args[s.op])
      BY <3>2, <3>3, <3>4, Zenon
    <3>. QED BY <2>1, <3>1, <3>5, Zenon DEF SessionAt
  <2>2. CASE ~up
    <3>1. s.pc = "gone" /\ rs = <<>> /\ sent = i /\ q = rs
      BY <1>1, <2>2 DEF SessionAt
    <3>. HIDE DEF sent, q
    <3>. QED BY <1>1, <2>2, <3>1 DEF SessionAt
  <2>. QED BY <2>1, <2>2
<1>9. FALSE <=> j.pc \in {"closed", "aborted"}
  BY <1>5
<1>. HIDE DEF sent, q
<1>. QED BY <1>1, <1>2, <1>3, <1>5, <1>7, <1>8, <1>9, ClientMoves DEF s

\* A client may have got a part of its reply.
LEMMA BytesLostKeeps == ASSUME Inv, NEW c \in Clients, BytesLost(c) PROVE Inv'
<1>. DEFINE k == client[c]
            out == toClient[c]
            rs == requests[c]
            i == toServer[c]
            as == <<>>
<1>1. /\ TypeOK /\ k \in ClientStates /\ out \in Bytes /\ ~up /\ up \in BOOLEAN
      /\ i \in Bytes /\ rs \in Seq(Requests(c)) /\ Closed(c) \in BOOLEAN
      /\ ClientAt(up, k, out, rs, answers[c]) /\ SessionAt(up, session[c], i, rs, Closed(c))
  BY Now DEF BytesLost
<1>2. PICK n \in 0..(Len(out) - 1) : toClient' = [toClient EXCEPT ![c] = SubSeq(@, 1, n)]
  BY DEF BytesLost
<1>. DEFINE part == SubSeq(out, 1, n)
<1>3. /\ client' = [client EXCEPT ![c] = k] /\ answers' = [answers EXCEPT ![c] = as]
      /\ UNCHANGED <<up, session, args, object>>
      /\ toServer' = [toServer EXCEPT ![c] = i] /\ toClient' = [toClient EXCEPT ![c] = part]
      /\ requests' = [requests EXCEPT ![c] = rs]
  BY <1>1, <1>2 DEF BytesLost, TypeOK
<1>4. Closed(c) <=> k.pc \in {"closed", "aborted"}
  BY DEF Closed
<1>5. up = FALSE
  BY <1>1
<1>. HIDE DEF k, out, rs, i, as
<1>6. part \in Bytes /\ ClientAt(FALSE, k, part, rs, as)
  BY <1>1, <1>2, ClientIsCutOff DEF as
<1>. HIDE DEF part
<1>7. ClientAt(up, k, part, rs, as)
  BY <1>5, <1>6, Zenon
<1>. QED BY <1>1, <1>3, <1>4, <1>6, <1>7, ClientMoves

\* When the server ends, no request is left.
LEMMA ServerEndsKeeps == ASSUME Inv, ServerEnds PROVE Inv'
<1>1. TypeOK
  BY DEF Inv
<1>2. ASSUME NEW c \in Clients
      PROVE  /\ session'[c] \in SessionStates /\ session'[c].pc = "gone"
             /\ toServer'[c] = <<>> /\ requests'[c] = <<>>
             /\ Placed(c)'
  <2>1. session[c] \in SessionStates
    BY Now
  <2>2. session'[c] = [session[c] EXCEPT !.pc = "gone"] /\ toServer'[c] = <<>> /\ requests'[c] = <<>>
    BY DEF ServerEnds
  <2>3. session'[c] \in SessionStates /\ session'[c].pc = "gone"
    BY <2>1, <2>2 DEF SessionStates
  <2>4. /\ client[c] \in ClientStates /\ toClient[c] \in Bytes /\ up \in BOOLEAN
        /\ ClientAt(up, client[c], toClient[c], requests[c], answers[c])
    BY Now
  <2>5. ClientAt(FALSE, client[c], toClient[c], <<>>, answers[c])
    BY <2>4, ClientIsCutOff
  <2>6. up' = FALSE /\ UNCHANGED <<client, toClient, answers>>
    BY DEF ServerEnds
  <2>7. ClientAt(up', client'[c], toClient'[c], requests'[c], answers'[c])
    BY <2>2, <2>5, <2>6, Zenon
  <2>8. SessionAt(up', session'[c], toServer'[c], requests'[c], Closed(c)')
    BY <2>2, <2>3, <2>6 DEF SessionAt
  <2>. QED BY <2>2, <2>3, <2>6, <2>7, <2>8 DEF Placed
<1>3. TypeOK'
  <2>1. /\ session' \in [Clients -> SessionStates] /\ toServer' \in [Clients -> Bytes]
        /\ requests' = [c \in Clients |-> requests'[c]]
    BY <1>2, EmptyBytes DEF ServerEnds
  <2>2. ASSUME NEW c \in Clients PROVE requests'[c] \in Seq(Requests(c))
    <3>1. <<>> \in Seq(Requests(c))
      OBVIOUS
    <3>. QED BY <1>2, <3>1, Zenon
  <2>. QED BY <1>1, <2>1, <2>2 DEF ServerEnds, TypeOK
<1>4. Apart'
  BY <1>2 DEF Apart, Locked
<1>. QED BY <1>2, <1>3, <1>4 DEF Inv

\* In the beginning nothing is sent.
LEMMA InitInv == Init => Inv
<1>. SUFFICES ASSUME Init PROVE Inv
  OBVIOUS
<1>1. ASSUME NEW c \in Clients
      PROVE  /\ client[c] = [pc |-> "idle", op |-> CHOOSE o \in Ops : TRUE, buff |-> <<>>, len |-> 0]
             /\ session[c] = Start /\ toServer[c] = <<>> /\ toClient[c] = <<>>
             /\ requests[c] = <<>> /\ answers[c] = <<>>
  BY DEF Init
<1>2. <<>> \in Bytes
  BY EmptyBytes
<1>3. ASSUME NEW c \in Clients
      PROVE  client[c] \in ClientStates /\ session[c] \in SessionStates
  <2>. DEFINE o == CHOOSE o \in Ops : TRUE
  <2>1. o \in AnOp
    BY Zenon DEF AnOp
  <2>2. /\ client[c] = [pc |-> "idle", op |-> o, buff |-> <<>>, len |-> 0]
        /\ session[c] = [pc |-> "header", op |-> o, buff |-> <<>>, pack |-> 1,
                         len |-> 0, garbled |-> FALSE]
    BY <1>1, Zenon DEF Start
  <2>. HIDE DEF o
  <2>. QED BY <1>2, <2>1, <2>2 DEF ClientStates, SessionStates
<1>4. TypeOK
  <2>1. client \in [Clients -> ClientStates] /\ session \in [Clients -> SessionStates]
    BY <1>3 DEF Init
  <2>2. toServer \in [Clients -> Bytes] /\ toClient \in [Clients -> Bytes]
    BY <1>2 DEF Init
  <2>3. /\ requests = [c \in Clients |-> requests[c]] /\ answers = [c \in Clients |-> answers[c]]
        /\ \A c \in Clients : requests[c] \in Seq(Requests(c))
    BY <1>1 DEF Init
  <2>4. DOMAIN args = Ops /\ \A o \in Ops : args[o] \in AnyValues(o)
    <3>1. \A o \in Ops : args[o] = CHOOSE v \in AnyValues(o) : TRUE
      BY DEF Init
    <3>2. \A o \in Ops : AnyValues(o) # {}
      BY TypesAssumption
    <3>. QED BY <3>1, <3>2 DEF Init
  <2>5. up \in BOOLEAN /\ object \in Objects
    BY TypesAssumption DEF Init
  <2>. QED BY <2>1, <2>2, <2>3, <2>4, <2>5 DEF TypeOK
<1>5. ASSUME NEW c \in Clients PROVE Placed(c)
  <2>1. /\ session[c].pc = "header" /\ session[c].buff = <<>> /\ ~session[c].garbled
        /\ client[c].pc = "idle" /\ client[c].buff = <<>> /\ up
    BY <1>1 DEF Start, Init
  <2>2. All(<<>>) = <<>>
    <3>1. <<>> \in Seq(Requests(c))
      OBVIOUS
    <3>. QED BY <3>1, AllOf
  <2>3. AtRequest(session[c], <<>>) /\ Rest(session[c], <<>>) = <<>>
    BY <2>1, <2>2 DEF AtRequest, Rest
  <2>4. Cat(<<>>, <<>>) = <<>> /\ Begins(<<>>, <<>>)
    BY <1>2, CatEmpty, BeginsSelf, Zenon
  <2>5. InStream(session[c], <<>>, <<>>, Closed(c))
    BY <2>1, <2>3, <2>4 DEF InStream
  <2>6. SessionAt(up, session[c], <<>>, <<>>, Closed(c))
    BY <2>1, <2>3, <2>5 DEF SessionAt
  <2>7. ClientAt(up, client[c], <<>>, <<>>, <<>>)
    BY <2>1 DEF ClientAt
  <2>8. HasRead(session[c], <<>>, args[session[c].op])
    BY <2>1 DEF HasRead, Locked
  <2>. QED BY <1>1, <2>6, <2>7, <2>8 DEF Placed
<1>6. Apart
  <2>1. ASSUME NEW c \in Clients PROVE session[c].pc = "header"
    <3>1. session[c] = Start /\ Start.pc = "header"
      BY <1>1 DEF Start
    <3>. QED BY <3>1
  <2>. QED BY <2>1 DEF Apart, Locked
<1>. QED BY <1>4, <1>5, <1>6 DEF Inv

\* Every step keeps the invariant.
LEMMA NextInv == ASSUME Inv, [Next]_vars PROVE Inv'
<1>1. CASE ServerEnds
  BY <1>1, ServerEndsKeeps
<1>2. ASSUME NEW c \in Clients, ClientStep(c) PROVE Inv'
  <2>1. ASSUME NEW op \in Ops, NEW v \in Values(c, op), Call(c, op, v) PROVE Inv'
    BY <2>1, CallKeeps
  <2>2. CASE ClientReads(c)
    BY <2>2, ClientReadsKeeps
  <2>3. CASE command_deserializer(c)
    BY <2>3, command_deserializerKeeps
  <2>4. CASE ClientThrows(c)
    BY <2>4, ClientThrowsKeeps
  <2>5. CASE ClientEnds(c)
    BY <2>5, ClientEndsKeeps
  <2>. QED BY <1>2, <2>1, <2>2, <2>3, <2>4, <2>5, Zenon DEF ClientStep
<1>3. ASSUME NEW c \in Clients, SessionStep(c) PROVE Inv'
  <2>1. CASE rcv_n_bytes(c)
    BY <2>1, rcv_n_bytesKeeps
  <2>2. CASE read_command(c)
    BY <2>2, read_commandKeeps
  <2>3. CASE lock(c)
    BY <2>3, lockKeeps
  <2>4. CASE recv_args(c)
    BY <2>4, recv_argsKeeps
  <2>5. CASE recv_nothing(c)
    BY <2>5, recv_nothingKeeps
  <2>6. CASE execute_operation(c)
    BY <2>6, execute_operationKeeps
  <2>7. CASE SessionEnds(c)
    BY <2>7, SessionEndsKeeps
  <2>. QED BY <1>3, <2>1, <2>2, <2>3, <2>4, <2>5, <2>6, <2>7, Zenon DEF SessionStep
<1>4. ASSUME NEW c \in Clients, BytesLost(c) PROVE Inv'
  BY <1>4, BytesLostKeeps
<1>5. CASE UNCHANGED vars
  <2>1. /\ TypeOK' = TypeOK /\ Apart' = Apart
        /\ \A c \in Clients : Placed(c)' = Placed(c)
    BY <1>5 DEF vars, TypeOK, Apart, Placed, Closed
  <2>. QED BY <2>1 DEF Inv
<1>. QED BY <1>1, <1>2, <1>3, <1>4, <1>5, Zenon DEF Next

\* The invariant, of the protocol of session.cpp:44 and koheron-client.hpp:838 with
\* any clients, operations and types.
THEOREM AlwaysInv == Spec => []Inv
<1>. QED BY InitInv, NextInv, PTL DEF Spec

\* The session and its client are in step (session.cpp:44, koheron-client.hpp:838).
THEOREM AlwaysInStep == Spec => []InStep
<1>. QED BY AlwaysInv, InvInStep, PTL

-----------------------------------------------------------------------------
(* The steps are those of RemoteCalls, or do not show there.                *)

\* The clients that are there, as RemoteCalls names them, and what shows of a state.
Present == {c \in Clients : ~Closed(c)}
Shown == <<object, requests, answers, result, Present>>

\* Who is present, after a step that changes one client.
LEMMA StillPresent ==
    ASSUME TypeOK, NEW c \in Clients, NEW k, client' = [client EXCEPT ![c] = k]
    PROVE  /\ (k.pc \in {"closed", "aborted"} <=> Closed(c)) => Present' = Present
           /\ k.pc = "closed" => Present' = Present \ {c}
<1>1. client'[c] = k /\ \A d \in Clients \ {c} : client'[d] = client[d]
  BY DEF TypeOK
<1>2. /\ Closed(c)' <=> k.pc \in {"closed", "aborted"}
      /\ \A d \in Clients \ {c} : Closed(d)' = Closed(d)
  BY <1>1 DEF Closed
<1>. QED BY <1>2 DEF Present

\* The initial states are those of RemoteCalls.
LEMMA InitPromise == Init => Promise!Init
<1>. SUFFICES ASSUME Init PROVE Promise!Init
  OBVIOUS
<1>1. \A c \in Clients : ~Closed(c)
  BY DEF Init, Closed
<1>2. {c \in Clients : ~Closed(c)} = Clients
  BY <1>1
<1>. QED BY <1>2 DEF Init, Promise!Init

\* A call is one, if the server runs.
LEMMA CallShows ==
    ASSUME Inv, NEW c \in Clients, NEW op \in Ops, NEW v \in Values(c, op), Call(c, op, v)
    PROVE  Promise!Call(c, op, v) \/ Shown' = Shown
<1>. DEFINE rs == requests[c]
            j == [pc |-> IF Return(op) THEN "fixed" ELSE "idle",
                  op |-> op, buff |-> <<>>, len |-> 0]
<1>1. /\ TypeOK /\ rs \in Seq(Requests(c)) /\ client[c].pc = "idle"
      /\ ClientAt(up, client[c], toClient[c], rs, answers[c])
  BY Now DEF Call
<1>2. /\ client' = [client EXCEPT ![c] = j]
      /\ requests' = [requests EXCEPT ![c] = IF up THEN Append(@, [op |-> op, args |-> v]) ELSE @]
      /\ UNCHANGED <<object, answers, result>>
  BY Zenon DEF Call
<1>3. Present' = Present
  <2>1. ~Closed(c) /\ j.pc \notin {"closed", "aborted"}
    BY <1>1 DEF Closed
  <2>. HIDE DEF j
  <2>. QED BY <1>1, <1>2, <2>1, StillPresent
<1>4. CASE ~up
  <2>1. requests' = requests
    BY <1>1, <1>2, <1>4 DEF TypeOK
  <2>. QED BY <1>2, <1>3, <2>1, Zenon DEF Shown
<1>5. CASE up
  <2>1. requests' = [requests EXCEPT ![c] = Append(@, [op |-> op, args |-> v])]
    BY <1>2, <1>5
  <2>2. answers[c] = <<>> /\ \A i \in 1..Len(rs) : ~Return(rs[i].op)
    BY <1>1, Zenon DEF ClientAt
  <2>3. \A i \in DOMAIN rs : ~Return(rs[i].op)
    BY <1>1, <2>2
  <2>4. c \in Present
    BY <1>1 DEF Present, Closed
  <2>. QED BY <1>2, <1>3, <2>1, <2>2, <2>3, <2>4, Zenon DEF Promise!Call, Present
<1>. QED BY <1>4, <1>5

\* The bytes a client gets do not show,
LEMMA ClientReadsShows == ASSUME Inv, NEW c \in Clients, ClientReads(c) PROVE Shown' = Shown
<1>1. TypeOK /\ client[c] \in ClientStates
  BY Now
<1>2. PICK n : client' = [client EXCEPT ![c].buff = @ \o SubSeq(toClient[c], 1, n)]
  BY DEF ClientReads
<1>. DEFINE k == [client[c] EXCEPT !.buff = @ \o SubSeq(toClient[c], 1, n)]
<1>3. client' = [client EXCEPT ![c] = k]
  BY <1>1, <1>2 DEF TypeOK
<1>4. k.pc = client[c].pc
  BY <1>1 DEF ClientStates
<1>. HIDE DEF k
<1>5. Present' = Present
  BY <1>1, <1>3, <1>4, StillPresent DEF Closed
<1>. QED BY <1>5 DEF ClientReads, Shown

\* and its reply is the return of its call.
LEMMA command_deserializerShows ==
    ASSUME Inv, NEW c \in Clients, command_deserializer(c)
    PROVE  Promise!Return(c) \/ Shown' = Shown
<1>1. /\ TypeOK /\ client[c] \in ClientStates /\ ~Closed(c)
      /\ UNCHANGED <<object, requests>>
  BY Now, command_deserializerDoes
<1>2. ASSUME NEW v, Returned(c, v), answers[c] = <<v>>
      PROVE  Promise!Return(c)
  <2>. DEFINE j == [client[c] EXCEPT !.pc = "idle", !.buff = <<>>]
  <2>1. client' = [client EXCEPT ![c] = j]
    BY <1>1, <1>2 DEF Returned, TypeOK
  <2>2. j.pc = "idle"
    BY <1>1 DEF ClientStates
  <2>. HIDE DEF j
  <2>3. Present' = Present
    BY <1>1, <2>1, <2>2, StillPresent
  <2>4. answers[c] # <<>> /\ Head(answers[c]) = v
    BY <1>2
  <2>5. result' = [result EXCEPT ![c] = Head(answers[c])]
    BY <1>2, <2>4, Zenon DEF Returned
  <2>. QED BY <1>1, <1>2, <2>3, <2>4, <2>5, Zenon DEF Promise!Return, Returned, Present
<1>3. ASSUME NEW j, client' = [client EXCEPT ![c] = j], j.pc = "dynamic",
             UNCHANGED <<answers, result>>
      PROVE  Shown' = Shown
  <2>1. Present' = Present
    BY <1>1, <1>3, StillPresent
  <2>. QED BY <1>1, <1>3, <2>1 DEF Shown
<1>. QED BY <1>2, <1>3, command_deserializerDoes, Zenon

\* A client that throws or ends leaves.
LEMMA LeavingShows ==
    ASSUME Inv, NEW c \in Clients, ClientThrows(c) \/ ClientEnds(c)
    PROVE  Promise!Leave(c)
<1>. DEFINE k == [client[c] EXCEPT !.pc = "closed"]
<1>1. TypeOK /\ client[c] \in ClientStates
  BY Now
<1>2. client' = [client EXCEPT ![c] = k]
  BY <1>1 DEF ClientThrows, ClientEnds, TypeOK
<1>3. k.pc = "closed"
  BY <1>1 DEF ClientStates
<1>. HIDE DEF k
<1>4. Present' = Present \ {c}
  BY <1>1, <1>2, <1>3, StillPresent
<1>5. c \in Present
  BY DEF Present, Closed, ClientThrows, ClientEnds, Waiting
<1>6. /\ answers' = [answers EXCEPT ![c] = <<>>]
      /\ UNCHANGED <<object, requests, result>>
  BY DEF ClientThrows, ClientEnds
<1>. QED BY <1>4, <1>5, <1>6, Zenon DEF Promise!Leave, Present

\* An operation runs on the arguments it was called with, all of which its
\* session has read, or on what there is of them when the client has left.
LEMMA execute_operationShows ==
    ASSUME Inv, NEW c \in Clients, execute_operation(c)
    PROVE  Promise!Run(c) \/ Promise!RunPart(c)
<1>. DEFINE s == session[c]
            rs == requests[c]
            op == s.op
            a == args[op]
            y == Result(object, op, a)
<1>1. /\ s \in SessionStates /\ rs \in Seq(Requests(c)) /\ AtRequest(s, rs) /\ TypeOK
      /\ InStream(s, toServer[c], rs, Closed(c)) /\ HasRead(s, rs, a) /\ s.pc = "run"
  BY Now DEF execute_operation
<1>2. op = rs[1].op /\ op \in Ops /\ rs # <<>> /\ Typed(Args(op), rs[1].args)
      /\ Head(rs) = rs[1]
  <2>1. s.pc \notin {"header", "gone"}
    BY <1>1
  <2>. HIDE DEF s, rs
  <2>2. op = rs[1].op /\ op \in Ops /\ rs # <<>> /\ Typed(Args(op), rs[1].args)
    BY <1>1, <2>1, AtWhich
  <2>. QED BY <2>2
<1>3. a \in AnyValues(op) /\ Typed(Args(op), a)
  BY <1>1, <1>2, TypesAssumption DEF TypeOK
<1>4. /\ object' = Effect(object, op, a)
      /\ answers' = [answers EXCEPT ![c] = IF Return(op) /\ ~Closed(c) THEN <<y>> ELSE <<>>]
      /\ requests' = [requests EXCEPT ![c] = IF s.garbled THEN <<>> ELSE Tail(@)]
      /\ UNCHANGED <<result, client>>
  BY Zenon DEF execute_operation
<1>5. answers' = [answers EXCEPT ![c] = IF c \in Present /\ Return(op) THEN <<y>> ELSE <<>>]
  <2>1. c \in Present <=> ~Closed(c)
    BY DEF Present
  <2>. HIDE DEF y, op
  <2>. QED BY <1>4, <2>1
<1>6. Present' = Present
  BY <1>4 DEF Present, Closed
<1>7. Promise!Runs(c, op, a)
  BY <1>4, <1>5, <1>6, Zenon DEF Promise!Runs, Present
<1>. HIDE DEF s, op, a
<1>8. CASE ~s.garbled
  <2>1. a = rs[1].args
    <3>1. \A i \in 1..Before(op, s.pack) : a[i] = rs[1].args[i]
      BY <1>1, <1>8, Zenon DEF HasRead, Locked, op
    <3>2. Before(op, s.pack) = Len(Args(op))
      <4>1. s.pack = Packs(op) + 1
        BY <1>1, Zenon DEF AtRequest, op
      <4>. QED BY <1>2, <4>1, BeforeAll
    <3>3. DOMAIN Args(op) = 1..Len(Args(op))
      BY <1>2, TypesAssumption
    <3>. DEFINE u == rs[1].args
    <3>4. /\ a = [i \in DOMAIN Args(op) |-> a[i]] /\ u = [i \in DOMAIN Args(op) |-> u[i]]
      BY <1>2, <1>3, Zenon DEF Typed
    <3>5. \A i \in DOMAIN Args(op) : a[i] = u[i]
      BY <3>1, <3>2, <3>3
    <3>. HIDE DEF u
    <3>6. a = u
      BY <3>4, <3>5
    <3>. QED BY <3>6 DEF u
  <2>2. requests' = [requests EXCEPT ![c] = Tail(@)]
    BY <1>4, <1>8
  <2>3. Promise!Runs(c, Head(requests[c]).op, Head(requests[c]).args)
    BY <1>2, <1>7, <2>1, Zenon
  <2>. QED BY <1>2, <2>2, <2>3, Zenon DEF Promise!Run
<1>9. CASE s.garbled
  <2>1. Closed(c)
    BY <1>1, <1>9, Zenon DEF InStream
  <2>2. c \notin Present
    BY <2>1 DEF Present
  <2>3. requests' = [requests EXCEPT ![c] = <<>>]
    BY <1>4, <1>9
  <2>4. \E v \in AnyValues(Head(requests[c]).op) : Promise!Runs(c, Head(requests[c]).op, v)
    BY <1>2, <1>3, <1>7, Zenon
  <2>. QED BY <1>2, <2>2, <2>3, <2>4, Zenon DEF Promise!RunPart, Present
<1>. QED BY <1>8, <1>9

\* Of a session, only the operation shows and its end.
LEMMA SessionStepShows ==
    ASSUME Inv, NEW c \in Clients, SessionStep(c)
    PROVE  Promise!Run(c) \/ Promise!RunPart(c) \/ Promise!Drop(c) \/ Shown' = Shown
<1>1. CASE rcv_n_bytes(c) \/ read_command(c) \/ lock(c)
  <2>1. UNCHANGED <<object, requests, answers, result, client>>
    BY <1>1 DEF rcv_n_bytes, read_command, lock
  <2>. QED BY <2>1 DEF Shown, Present, Closed
<1>2. CASE recv_args(c) \/ recv_nothing(c)
  <2>1. UNCHANGED <<object, requests, answers, result, client>>
    BY <1>2 DEF recv_args, recv_nothing, Assign
  <2>. QED BY <2>1 DEF Shown, Present, Closed
<1>3. CASE execute_operation(c)
  BY <1>3, execute_operationShows
<1>4. CASE SessionEnds(c)
  <2>1. /\ requests' = [requests EXCEPT ![c] = <<>>] /\ Closed(c)
        /\ UNCHANGED <<object, answers, result, client>>
    BY <1>4 DEF SessionEnds, EndOfFile
  <2>2. c \notin Present /\ Present' = Present
    BY <2>1 DEF Present, Closed
  <2>. QED BY <2>1, <2>2, Zenon DEF Promise!Drop, Present
<1>. QED BY <1>1, <1>2, <1>3, <1>4 DEF SessionStep

\* When the server ends, it stops; bytes lost after that are a late part of this.
LEMMA StoppingShows ==
    ASSUME Inv, ServerEnds \/ \E c \in Clients : BytesLost(c)
    PROVE  Promise!Stop
<1>1. TypeOK
  BY DEF Inv
<1>2. Present' = Present /\ UNCHANGED <<object, result>>
  BY DEF ServerEnds, BytesLost, Present, Closed
<1>3. requests' = [c \in Clients |-> <<>>]
  <2>1. CASE ServerEnds
    BY <2>1 DEF ServerEnds
  <2>2. CASE \E c \in Clients : BytesLost(c)
    <3>1. ~up /\ requests' = requests
      BY <2>2 DEF BytesLost
    <3>2. \A c \in Clients : requests[c] = <<>>
      BY <3>1, Now
    <3>. QED BY <1>1, <3>1, <3>2 DEF TypeOK
  <2>. QED BY <2>1, <2>2
<1>4. ASSUME NEW c \in Clients PROVE answers'[c] \in {answers[c], <<>>}
  BY <1>1 DEF ServerEnds, BytesLost, TypeOK
<1>. QED BY <1>2, <1>3, <1>4, Zenon DEF Promise!Stop, Present

\* Every step is one of RemoteCalls or a stutter.
LEMMA NextPromise == ASSUME Inv, [Next]_vars PROVE [Promise!Next]_(Promise!vars)
<1>1. SUFFICES Promise!Next \/ Shown' = Shown
  BY Zenon DEF Promise!vars, Shown, Present
<1>2. CASE ServerEnds
  BY <1>2, StoppingShows, Zenon DEF Promise!Next
<1>3. ASSUME NEW c \in Clients, ClientStep(c) PROVE Promise!Next \/ Shown' = Shown
  <2>1. ASSUME NEW op \in Ops, NEW v \in Values(c, op), Call(c, op, v)
        PROVE  Promise!Next \/ Shown' = Shown
    <3>1. Promise!Call(c, op, v) \/ Shown' = Shown
      BY <2>1, CallShows
    <3>. QED BY <3>1, Zenon DEF Promise!Next
  <2>2. CASE ClientReads(c)
    BY <2>2, ClientReadsShows
  <2>3. CASE command_deserializer(c)
    BY <2>3, command_deserializerShows, Zenon DEF Promise!Next
  <2>4. CASE ClientThrows(c) \/ ClientEnds(c)
    BY <2>4, LeavingShows, Zenon DEF Promise!Next
  <2>. QED BY <1>3, <2>1, <2>2, <2>3, <2>4, Zenon DEF ClientStep
<1>4. ASSUME NEW c \in Clients, SessionStep(c) PROVE Promise!Next \/ Shown' = Shown
  BY <1>4, SessionStepShows, Zenon DEF Promise!Next
<1>5. ASSUME NEW c \in Clients, BytesLost(c) PROVE Promise!Next
  BY <1>5, StoppingShows, Zenon DEF Promise!Next
<1>6. CASE UNCHANGED vars
  BY <1>6 DEF vars, Shown, Present, Closed
<1>. QED BY <1>2, <1>3, <1>4, <1>5, <1>6, Zenon DEF Next

\* The protocol keeps the promise of RemoteCalls (session.cpp:44 and the code
\* that server.py generates).
THEOREM PromiseKept == Spec => KeepsPromise
<1>. QED BY AlwaysInv, InitPromise, NextPromise, PTL DEF Spec, KeepsPromise, Promise!Spec
=============================================================================
