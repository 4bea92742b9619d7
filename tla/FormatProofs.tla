---------------------------- MODULE FormatProofs ----------------------------
(***************************************************************************)
(* Proofs about the formats of FormatChecks, for inputs of any size: the   *)
(* run checks them up to a bound.  First induction and the existence of    *)
(* recursive functions, then CTH1 streams, invites, signed statements, the *)
(* phases of a history, the three walks over a stream, the text of         *)
(* stickers, varints and protobuf messages, records and contact cards.     *)
(***************************************************************************)
EXTENDS FormatChecks, SequenceTheorems, WellFoundedInduction, TLAPS

(* A set of naturals with 0 in it and closed under successor is Nat.        *)
LEMMA SetInduction ==
    ASSUME NEW T, T \subseteq Nat, 0 \in T, \A n \in T : n + 1 \in T
    PROVE  T = Nat
<1> SUFFICES ASSUME Nat \ T # {} PROVE FALSE
  OBVIOUS
<1> DEFINE R == OpToRel(<, Nat)
           U == Nat \ T
<1>1. IsWellFoundedOn(R, Nat)
  BY NatLessThanWellFounded, Zenon
<1>2. \E x \in U : \A y \in U : ~(<<y, x>> \in R)
  <2>1. U \subseteq Nat /\ U # {}
    OBVIOUS
  <2> HIDE DEF R, U
  <2> QED BY <1>1, <2>1, WFMin
<1>3. PICK x \in U : \A y \in U : ~(<<y, x>> \in R)
  BY <1>2, Zenon
<1>4. \A y \in U : ~(y < x)
  BY <1>3 DEF OpToRel
<1>5. x # 0 /\ x - 1 \in Nat /\ (x - 1) + 1 = x
  OBVIOUS
<1>6. x - 1 \in T
  BY <1>4, <1>5
<1> QED BY <1>5, <1>6

(* Putting pieces together from the left, as Joined of KnstFrame does,      *)
(* defines a function whatever the pieces are.                              *)
IsJoin(g, a, p) == g = [i \in Nat |-> IF i = 0 THEN a ELSE g[i - 1] \o p[i - 1]]

(* The pieces p[0], p[1], ... can be put one after the other behind a.      *)
LEMMA JoinExists ==
    ASSUME NEW a, NEW p
    PROVE  \E g : IsJoin(g, a, p)
<1> DEFINE Upto(g, n) == g[0] = a /\ \A i \in Nat : i < n => g[i + 1] = g[i] \o p[i]
           T == {n \in Nat : \E g : Upto(g, n)}
<1>1. 0 \in T
  <2> DEFINE g == [i \in {0} |-> a]
  <2>1. Upto(g, 0)
    OBVIOUS
  <2> QED BY <2>1
<1>2. ASSUME NEW n \in T
      PROVE  n + 1 \in T
  <2>1. PICK g : Upto(g, n)
    OBVIOUS
  <2> DEFINE h == [i \in Nat |-> IF i <= n THEN g[i] ELSE g[n] \o p[n]]
  <2>2. n \in Nat /\ \A i \in Nat : h[i] = IF i <= n THEN g[i] ELSE g[n] \o p[n]
    OBVIOUS
  <2>3. g[0] = a /\ \A i \in Nat : i < n => g[i + 1] = g[i] \o p[i]
    BY <2>1
  <2> HIDE DEF h
  <2>4. ASSUME NEW i \in Nat, i < n + 1
        PROVE  h[i + 1] = h[i] \o p[i]
    <3>1. h[i] = g[i] /\ i + 1 \in Nat
      BY <2>2, <2>4
    <3>2. CASE i < n
      <4>1. i + 1 <= n
        BY <2>2, <3>2
      <4>2. h[i + 1] = g[i + 1] /\ g[i + 1] = g[i] \o p[i]
        BY <2>2, <2>3, <3>1, <3>2, <4>1
      <4> QED BY <3>1, <4>2
    <3>3. CASE i = n
      <4>1. ~(i + 1 <= n)
        BY <2>2, <3>3
      <4> QED BY <2>2, <3>1, <3>3, <4>1
    <3>4. i < n \/ i = n
      BY <2>2, <2>4
    <3> QED BY <3>2, <3>3, <3>4, Zenon
  <2>5. h[0] = a
    BY <2>2, <2>3
  <2>6. \E k : Upto(k, n + 1)
    BY <2>4, <2>5, Zenon
  <2> HIDE DEF Upto
  <2> QED BY <2>2, <2>6
<1>3. T = Nat
  <2>1. T \subseteq Nat
    OBVIOUS
  <2> HIDE DEF T
  <2> QED BY <1>1, <1>2, <2>1, SetInduction
<1> DEFINE G(n) == CHOOSE g : Upto(g, n)
<1>4. ASSUME NEW n \in Nat
      PROVE  G(n)[0] = a /\ \A i \in Nat : i < n => G(n)[i + 1] = G(n)[i] \o p[i]
  <2>1. \E g : Upto(g, n)
    BY <1>3, Zenon
  <2>2. Upto(G(n), n)
    BY <2>1, Zenon
  <2> HIDE DEF G
  <2> QED BY <2>2
<1> HIDE DEF G, T
<1>5. ASSUME NEW n \in Nat
      PROVE  G(n)[n] = G(n + 1)[n]
  <2> DEFINE U == {i \in Nat : i <= n => G(n)[i] = G(n + 1)[i]}
  <2>0. n + 1 \in Nat
    OBVIOUS
  <2>1. 0 \in U
    BY <1>4, <2>0
  <2>2. ASSUME NEW i \in U
        PROVE  i + 1 \in U
    <3> SUFFICES ASSUME i + 1 <= n
                 PROVE  G(n)[i + 1] = G(n + 1)[i + 1]
      OBVIOUS
    <3>1. i \in Nat /\ i < n /\ i < n + 1 /\ G(n)[i] = G(n + 1)[i]
      OBVIOUS
    <3>2. G(n)[i + 1] = G(n)[i] \o p[i]
      BY <1>4, <3>1
    <3>3. G(n + 1)[i + 1] = G(n + 1)[i] \o p[i]
      BY <1>4, <2>0, <3>1
    <3> QED BY <3>1, <3>2, <3>3
  <2>3. U = Nat
    <3>1. U \subseteq Nat
      OBVIOUS
    <3> HIDE DEF U
    <3> QED BY <2>1, <2>2, <3>1, SetInduction
  <2> QED BY <2>3
<1> DEFINE F == [n \in Nat |-> G(n)[n]]
<1>6. ASSUME NEW i \in Nat
      PROVE  F[i] = IF i = 0 THEN a ELSE F[i - 1] \o p[i - 1]
  <2>1. CASE i = 0
    BY <1>4, <2>1
  <2>2. CASE i # 0
    <3>1. i - 1 \in Nat /\ (i - 1) + 1 = i /\ i - 1 < i
      BY <2>2
    <3>2. G(i)[(i - 1) + 1] = G(i)[i - 1] \o p[i - 1]
      BY <1>4, <2>2, <3>1
    <3>3. G(i - 1)[i - 1] = G((i - 1) + 1)[i - 1]
      BY <1>5, <3>1
    <3> QED BY <2>2, <3>1, <3>2, <3>3
  <2> QED BY <2>1, <2>2
<1>7. F = [i \in Nat |-> IF i = 0 THEN a ELSE F[i - 1] \o p[i - 1]]
  <2>1. F = [n \in Nat |-> F[n]]
    OBVIOUS
  <2> HIDE DEF F
  <2> QED BY <1>6, <2>1
<1> QED BY <1>7, Zenon DEF IsJoin

(* A function defined by a first value and a step within a set. *)
IsSteps(g, S, a, step) ==
    g \in [Nat -> S] /\ g[0] = a /\ \A n \in Nat : g[n + 1] = step[n][g[n]]

(* A function that steps from each number to the next exists, and stays in  *)
(* S.                                                                       *)
LEMMA StepsExist ==
    ASSUME NEW S, NEW a \in S, NEW step \in [Nat -> [S -> S]]
    PROVE  \E g : IsSteps(g, S, a, step)
<1> DEFINE Upto(g, n) == g[0] = a /\ \A i \in Nat : i < n => g[i + 1] = step[i][g[i]]
           T == {n \in Nat : \E g \in [Nat -> S] : Upto(g, n)}
<1>1. 0 \in T
  <2> DEFINE g == [i \in Nat |-> a]
  <2>1. g \in [Nat -> S] /\ Upto(g, 0)
    OBVIOUS
  <2> QED BY <2>1
<1>2. ASSUME NEW n \in T
      PROVE  n + 1 \in T
  <2>1. PICK g \in [Nat -> S] : Upto(g, n)
    OBVIOUS
  <2> DEFINE h == [i \in Nat |-> IF i <= n THEN g[i] ELSE step[n][g[n]]]
  <2>2. n \in Nat /\ \A i \in Nat : h[i] = IF i <= n THEN g[i] ELSE step[n][g[n]]
    OBVIOUS
  <2>3. g[0] = a /\ \A i \in Nat : i < n => g[i + 1] = step[i][g[i]]
    BY <2>1
  <2>0. h \in [Nat -> S]
    <3>1. step[n][g[n]] \in S
      BY <2>2
    <3> QED BY <3>1
  <2> HIDE DEF h
  <2>4. ASSUME NEW i \in Nat, i < n + 1
        PROVE  h[i + 1] = step[i][h[i]]
    <3>1. h[i] = g[i] /\ i + 1 \in Nat
      BY <2>2, <2>4
    <3>2. CASE i < n
      <4>1. i + 1 <= n
        BY <2>2, <3>2
      <4>2. h[i + 1] = g[i + 1] /\ g[i + 1] = step[i][g[i]]
        BY <2>2, <2>3, <3>1, <3>2, <4>1
      <4> QED BY <3>1, <4>2
    <3>3. CASE i = n
      <4>1. ~(i + 1 <= n)
        BY <2>2, <3>3
      <4> QED BY <2>2, <3>1, <3>3, <4>1
    <3>4. i < n \/ i = n
      BY <2>2, <2>4
    <3> QED BY <3>2, <3>3, <3>4, Zenon
  <2>5. h[0] = a
    BY <2>2, <2>3
  <2>6. \E k \in [Nat -> S] : Upto(k, n + 1)
    BY <2>0, <2>4, <2>5, Zenon
  <2> HIDE DEF Upto
  <2> QED BY <2>2, <2>6
<1>3. T = Nat
  <2>1. T \subseteq Nat
    OBVIOUS
  <2> HIDE DEF T
  <2> QED BY <1>1, <1>2, <2>1, SetInduction
<1> DEFINE G(n) == CHOOSE g \in [Nat -> S] : Upto(g, n)
<1>4. ASSUME NEW n \in Nat
      PROVE  /\ G(n) \in [Nat -> S]
             /\ G(n)[0] = a /\ \A i \in Nat : i < n => G(n)[i + 1] = step[i][G(n)[i]]
  <2>1. \E g \in [Nat -> S] : Upto(g, n)
    BY <1>3, Zenon
  <2>2. G(n) \in [Nat -> S] /\ Upto(G(n), n)
    BY <2>1, Zenon
  <2> HIDE DEF G
  <2> QED BY <2>2
<1> HIDE DEF G, T
<1>5. ASSUME NEW n \in Nat
      PROVE  G(n)[n] = G(n + 1)[n]
  <2> DEFINE U == {i \in Nat : i <= n => G(n)[i] = G(n + 1)[i]}
  <2>0. n + 1 \in Nat
    OBVIOUS
  <2>1. 0 \in U
    BY <1>4, <2>0
  <2>2. ASSUME NEW i \in U
        PROVE  i + 1 \in U
    <3> SUFFICES ASSUME i + 1 <= n
                 PROVE  G(n)[i + 1] = G(n + 1)[i + 1]
      OBVIOUS
    <3>1. i \in Nat /\ i < n /\ i < n + 1 /\ G(n)[i] = G(n + 1)[i]
      OBVIOUS
    <3>2. G(n)[i + 1] = step[i][G(n)[i]]
      BY <1>4, <3>1
    <3>3. G(n + 1)[i + 1] = step[i][G(n + 1)[i]]
      BY <1>4, <2>0, <3>1
    <3> QED BY <3>1, <3>2, <3>3
  <2>3. U = Nat
    <3>1. U \subseteq Nat
      OBVIOUS
    <3> HIDE DEF U
    <3> QED BY <2>1, <2>2, <3>1, SetInduction
  <2> QED BY <2>3
<1> DEFINE F == [n \in Nat |-> G(n)[n]]
<1>6. F \in [Nat -> S] /\ F[0] = a
  BY <1>4
<1>7. ASSUME NEW n \in Nat
      PROVE  F[n + 1] = step[n][F[n]]
  <2>1. n + 1 \in Nat /\ n < n + 1
    OBVIOUS
  <2>2. G(n + 1)[n + 1] = step[n][G(n + 1)[n]]
    BY <1>4, <2>1
  <2>3. F[n] = G(n)[n] /\ F[n + 1] = G(n + 1)[n + 1]
    BY <2>1
  <2> QED BY <1>5, <2>2, <2>3
<1> HIDE DEF F
<1>8. IsSteps(F, S, a, step)
  BY <1>6, <1>7 DEF IsSteps
<1> QED BY <1>8

(* Putting pieces together from the right, as seal_stream of HistoryFile    *)
(* does, defines a function when the pieces end somewhere.                  *)
IsRest(g, last, a, p) == g = [i \in Nat |-> IF i \in last THEN a ELSE p[i] \o g[i + 1]]

(* What is left from each place on exists when every walk comes to an end.  *)
LEMMA RestExists ==
    ASSUME NEW last, NEW a, NEW p, NEW n \in Nat, \A i \in Nat : i >= n => i \in last
    PROVE  \E g : IsRest(g, last, a, p)
<1> DEFINE Value(g, i) == IF i \in last THEN a ELSE p[i] \o g[i + 1]
           From(g, d) == \A i \in Nat : i + d >= n => g[i] = Value(g, i)
           T == {d \in Nat : \E g : From(g, d)}
<1>1. 0 \in T
  <2> DEFINE g == [i \in Nat |-> a]
  <2>1. From(g, 0)
    OBVIOUS
  <2> QED BY <2>1
<1>2. ASSUME NEW d \in T
      PROVE  d + 1 \in T
  <2>1. PICK g : From(g, d)
    OBVIOUS
  <2> DEFINE h == [i \in Nat |-> IF i + d >= n THEN g[i] ELSE Value(g, i)]
  <2>2. d \in Nat /\ \A i \in Nat : h[i] = IF i + d >= n THEN g[i] ELSE Value(g, i)
    OBVIOUS
  <2>3. \A i \in Nat : i + d >= n => g[i] = Value(g, i)
    BY <2>1
  <2> HIDE DEF h
  <2>4. ASSUME NEW i \in Nat, i + (d + 1) >= n
        PROVE  h[i] = Value(h, i)
    <3>1. i + 1 \in Nat /\ (i + 1) + d >= n
      BY <2>2, <2>4
    <3>2. h[i + 1] = g[i + 1]
      BY <2>2, <3>1
    <3>3. h[i] = Value(g, i)
      BY <2>2, <2>3
    <3> QED BY <3>2, <3>3
  <2>5. \E k : From(k, d + 1)
    BY <2>4, Zenon
  <2> HIDE DEF From
  <2> QED BY <2>2, <2>5
<1>3. T = Nat
  <2>1. T \subseteq Nat
    OBVIOUS
  <2> HIDE DEF T
  <2> QED BY <1>1, <1>2, <2>1, SetInduction
<1>4. PICK g : From(g, n)
  BY <1>3, Zenon
<1>5. \A i \in Nat : g[i] = Value(g, i)
  BY <1>4
<1> DEFINE h == [i \in Nat |-> g[i]]
<1>6. \A i \in Nat : h[i] = Value(h, i)
  <2>1. \A i \in Nat : h[i] = g[i] /\ i + 1 \in Nat
    OBVIOUS
  <2> HIDE DEF h
  <2> QED BY <1>5, <2>1
<1>7. h = [i \in Nat |-> h[i]]
  OBVIOUS
<1> HIDE DEF h
<1>8. h = [i \in Nat |-> Value(h, i)]
  BY <1>6, <1>7
<1> QED BY <1>8, Zenon DEF IsRest

-----------------------------------------------------------------------------
(* Sequences and their parts.                                               *)

(* Division with remainder. *)
LEMMA Divided ==
    ASSUME NEW x \in Nat, NEW m \in Nat \ {0}
    PROVE  /\ x \div m \in Nat /\ x % m \in Nat /\ x % m < m
           /\ (x \div m) * m + (x % m) = x
<1> DEFINE u == x \div m
           v == x % m
<1>1. u \in Nat /\ v \in 0 .. m - 1 /\ x = u * m + v
  OBVIOUS
<1> HIDE DEF u, v
<1>2. u * m + v = x /\ v \in Nat /\ v < m
  BY <1>1
<1> QED BY <1>1, <1>2, Zenon DEF u, v

(* The cells of two sequences put together. *)
LEMMA Concatenated ==
    ASSUME NEW S, NEW a \in Seq(S), NEW c \in Seq(S)
    PROVE  /\ a \o c \in Seq(S) /\ Len(a \o c) = Len(a) + Len(c)
           /\ Len(a) \in Nat /\ Len(c) \in Nat
           /\ \A i \in 1 .. Len(a) : (a \o c)[i] = a[i]
           /\ \A i \in 1 .. Len(c) : (a \o c)[Len(a) + i] = c[i]
<1> DEFINE w == a \o c
<1>1. /\ w \in Seq(S) /\ Len(w) = Len(a) + Len(c)
      /\ \A i \in 1 .. Len(a) + Len(c) : w[i] = IF i <= Len(a) THEN a[i] ELSE c[i - Len(a)]
  BY ConcatProperties, Zenon
<1>2. Len(a) \in Nat /\ Len(c) \in Nat
  BY LenProperties
<1> HIDE DEF w
<1>3. \A i \in 1 .. Len(a) : w[i] = a[i]
  BY ONLY <1>1, <1>2
<1>4. ASSUME NEW i \in 1 .. Len(c) PROVE w[Len(a) + i] = c[i]
  <2>1. Len(a) + i \in 1 .. Len(a) + Len(c) /\ ~(Len(a) + i <= Len(a)) /\ (Len(a) + i) - Len(a) = i
    BY ONLY <1>2
  <2> QED BY ONLY <1>1, <2>1
<1> QED BY <1>1, <1>2, <1>3, <1>4 DEF w

(* A part of a sequence: its length and its elements.                       *)
LEMMA PartOf ==
    ASSUME NEW S, NEW f \in Seq(S), NEW i \in 1 .. Len(f) + 1, NEW j \in 0 .. Len(f)
    PROVE  /\ SubSeq(f, i, j) \in Seq(S)
           /\ Len(SubSeq(f, i, j)) = IF i <= j THEN j - i + 1 ELSE 0
           /\ \A k \in 1 .. j - i + 1 : SubSeq(f, i, j)[k] = f[i + k - 1]
<1>1. Len(f) \in Nat
  BY LenProperties
<1>2. i \in Int /\ j \in Int
  BY <1>1
<1>3. \A k \in i .. j : f[k] \in S
  <2>1. i .. j \subseteq 1 .. Len(f)
    BY <1>1
  <2> QED BY <2>1, ElementOfSeq
<1> QED BY <1>2, <1>3, SubSeqProperties

(* A beginning of a sequence: its length and its elements.                  *)
LEMMA Beginning ==
    ASSUME NEW S, NEW W \in Seq(S), NEW l \in 0 .. Len(W)
    PROVE  /\ SubSeq(W, 1, l) \in Seq(S) /\ Len(SubSeq(W, 1, l)) = l
           /\ \A i \in 1 .. l : SubSeq(W, 1, l)[i] = W[i]
<1>1. Len(W) \in Nat /\ l \in Int
  BY LenProperties
<1>2. \A i \in 1 .. l : W[i] \in S
  BY <1>1, ElementOfSeq
<1> DEFINE P == SubSeq(W, 1, l)
<1>3. /\ P \in Seq(S) /\ Len(P) = IF 1 <= l THEN l - 1 + 1 ELSE 0
      /\ \A i \in 1 .. l - 1 + 1 : P[i] = W[1 + i - 1]
  BY <1>1, <1>2, SubSeqProperties
<1> HIDE DEF P
<1>4. Len(P) = l
  BY <1>1, <1>3
<1>5. ASSUME NEW i \in 1 .. l PROVE P[i] = W[i]
  <2>1. i \in 1 .. l - 1 + 1 /\ 1 + i - 1 = i
    BY <1>1
  <2> QED BY <1>3, <2>1
<1> QED BY <1>3, <1>4, <1>5 DEF P

(* Where a sequence is found again inside another. *)
LEMMA SliceIs ==
    ASSUME NEW S, NEW w \in Seq(S), NEW T, NEW x \in Seq(T), NEW k \in Nat,
           k + Len(x) <= Len(w), \A i \in 1 .. Len(x) : w[k + i] = x[i]
    PROVE  SubSeq(w, k + 1, k + Len(x)) = x
<1>1. Len(x) \in Nat /\ Len(w) \in Nat
  BY LenProperties
<1> DEFINE q == SubSeq(w, k + 1, k + Len(x))
<1>2. /\ q \in Seq(S) /\ Len(q) = Len(x)
      /\ \A i \in 1 .. Len(x) : q[i] = w[k + i]
  <2> DEFINE from == k + 1
             to == k + Len(x)
  <2>1. from \in 1 .. Len(w) + 1 /\ to \in 0 .. Len(w)
    BY <1>1
  <2>2. /\ to - from + 1 = Len(x) /\ (IF from <= to THEN to - from + 1 ELSE 0) = Len(x)
        /\ \A i \in 1 .. Len(x) : from + i - 1 = k + i
    BY <1>1
  <2> HIDE DEF from, to
  <2>3. /\ SubSeq(w, from, to) \in Seq(S)
        /\ Len(SubSeq(w, from, to)) = IF from <= to THEN to - from + 1 ELSE 0
        /\ \A i \in 1 .. to - from + 1 : SubSeq(w, from, to)[i] = w[from + i - 1]
    BY <2>1, PartOf
  <2>4. q = SubSeq(w, from, to)
    BY DEF from, to
  <2> QED BY ONLY <2>2, <2>3, <2>4, <1>1
<1> HIDE DEF q
<1>3. \A i \in 1 .. Len(x) : q[i] = x[i]
  BY <1>2
<1>4. q = x
  BY ONLY <1>1, <1>2, <1>3, SeqEqual
<1> QED BY <1>4 DEF q

-----------------------------------------------------------------------------
(* The length field.                                                        *)

(* The weights of the bytes of a length.                                    *)
LEMMA PlaceFacts ==
    /\ Place[0] = 1
    /\ \A k \in Nat : Place[k] \in Nat \ {0} /\ Place[k + 1] = BASE * Place[k]
<1>0. BASE \in Nat \ {0}
  BY StreamAssumption
<1> DEFINE S == Nat \ {0}
           one == 1
           step == [k \in Nat |-> [v \in S |-> BASE * v]]
<1>1. step \in [Nat -> [S -> S]] /\ one \in S
  BY <1>0
<1>2. PICK g \in [Nat -> S] : g[0] = one /\ \A k \in Nat : g[k + 1] = step[k][g[k]]
  <2> HIDE DEF step, S, one
  <2>1. \E g : IsSteps(g, S, one, step)
    BY <1>1, StepsExist
  <2> QED BY <2>1 DEF IsSteps
<1>3. \A k \in Nat : g[k + 1] = BASE * g[k]
  BY <1>2
<1>4. \A k \in Nat : g[k] = IF k = 0 THEN 1 ELSE BASE * g[k - 1]
  <2>1. ASSUME NEW k \in Nat, k # 0
        PROVE  g[k] = BASE * g[k - 1]
    <3>1. k - 1 \in Nat /\ (k - 1) + 1 = k
      BY <2>1
    <3> QED BY <1>3, <3>1
  <2> QED BY <1>2, <2>1
<1>5. g = [k \in Nat |-> IF k = 0 THEN 1 ELSE BASE * g[k - 1]]
  <2>1. g = [k \in Nat |-> g[k]]
    BY <1>2
  <2> QED BY <1>4, <2>1
<1>6. Place = [k \in Nat |-> IF k = 0 THEN 1 ELSE BASE * Place[k - 1]]
  BY <1>5, Zenon DEF Place
<1>7. \A k \in Nat : Place[k] = IF k = 0 THEN 1 ELSE BASE * Place[k - 1]
  BY <1>6, Zenon
<1>8. Place[0] = 1 /\ \A k \in Nat : Place[k + 1] = BASE * Place[k]
  <2>1. ASSUME NEW k \in Nat
        PROVE  Place[k + 1] = BASE * Place[k]
    <3>1. k + 1 \in Nat /\ k + 1 # 0 /\ (k + 1) - 1 = k
      OBVIOUS
    <3>2. Place[k + 1] = BASE * Place[(k + 1) - 1]
      BY <1>7, <3>1
    <3> QED BY <3>1, <3>2
  <2> QED BY <1>7, <2>1
<1> DEFINE T == {k \in Nat : Place[k] \in Nat \ {0}}
<1>9. T = Nat
  <2>1. T \subseteq Nat /\ 0 \in T
    BY <1>8
  <2>2. ASSUME NEW k \in T PROVE k + 1 \in T
    BY <1>0, <1>8
  <2> HIDE DEF T
  <2> QED BY <2>1, <2>2, SetInduction
<1>10. \A k \in Nat : Place[k] \in Nat \ {0}
  BY <1>9, Zenon
<1> QED BY <1>8, <1>10

(* Division with remainder is unique. *)
LEMMA RemainderUnique ==
    ASSUME NEW x \in Nat, NEW q \in Nat, NEW m \in Nat \ {0}, NEW r \in 0 .. m - 1,
           x = q * m + r
    PROVE  x % m = r
<1> DEFINE u == x \div m
           v == x % m
<1>1. u \in Nat /\ v \in 0 .. m - 1 /\ x = u * m + v
  OBVIOUS
<1> HIDE DEF u, v
<1>2. u = q
  <2>1. CASE u < q
    <3>1. (u + 1) * m <= q * m /\ (u + 1) * m = u * m + m /\ u * m \in Nat /\ q * m \in Nat
      BY <1>1, <2>1
    <3> QED BY <1>1, <3>1
  <2>2. CASE q < u
    <3>1. (q + 1) * m <= u * m /\ (q + 1) * m = q * m + m /\ u * m \in Nat /\ q * m \in Nat
      BY <1>1, <2>2
    <3> QED BY <1>1, <3>1
  <2> QED BY <1>1, <2>1, <2>2
<1>3. u * m \in Nat
  BY <1>1
<1> QED BY <1>1, <1>2, <1>3 DEF v

(* A number's digits below p * BASE: those below p, and one more. *)
LEMMA OneMoreDigit ==
    ASSUME NEW n \in Nat, NEW p \in Nat \ {0}
    PROVE  n % (BASE * p) = (n % p) + ((n \div p) % BASE) * p
<1>0. BASE \in Nat \ {0}
  BY StreamAssumption
<1> DEFINE q == n \div p
           r == n % p
           d == q % BASE
           e == q \div BASE
           B == BASE
<1>1. q \in Nat /\ r \in 0 .. p - 1 /\ n = q * p + r
  OBVIOUS
<1>2. d \in 0 .. B - 1 /\ e \in Nat /\ q = e * B + d
  BY <1>0, <1>1
<1> HIDE DEF q, r, d, e, B
<1>3. B \in Nat \ {0}
  BY <1>0 DEF B
<1>4. q * p = (e * B) * p + d * p
  BY <1>1, <1>2, <1>3
<1>5. (e * B) * p = e * (B * p) /\ B * p \in Nat \ {0} /\ d * p \in Nat /\ e * (B * p) \in Nat
  BY <1>1, <1>2, <1>3
<1>6. n = e * (B * p) + (r + d * p)
  BY <1>1, <1>4, <1>5
<1>7. r + d * p \in 0 .. B * p - 1
  <2>1. (d + 1) * p <= B * p /\ (d + 1) * p = d * p + p
    BY <1>2, <1>3
  <2> QED BY <1>1, <1>5, <2>1
<1> DEFINE m == B * p
           s == r + d * p
<1> HIDE DEF m, s
<1>8. n = e * m + s /\ s \in 0 .. m - 1 /\ m \in Nat \ {0}
  BY <1>5, <1>6, <1>7 DEF m, s
<1>9. n % m = s
  BY <1>2, <1>8, RemainderUnique
<1> QED BY <1>9 DEF m, s, B, r, d, q

(* The length that is read back is the one that was written. *)
LEMMA LengthReadBack ==
    ASSUME NEW n \in 0 .. Place[LEN_BYTES] - 1, NEW raw, NEW i,
           \A k \in 1 .. LEN_BYTES : raw[i + k - 1] = PackLen(n)[k]
    PROVE  UnpackLen(raw, i) = n
<1>0. LEN_BYTES \in Nat /\ Place[LEN_BYTES] \in Nat \ {0} /\ n \in Nat
  BY StreamAssumption, PlaceFacts
<1> DEFINE L == LEN_BYTES
           sum == CHOOSE g : g = [k \in 0 .. L |->
                     IF k = 0 THEN 0 ELSE g[k - 1] + raw[i + k - 1] * Place[k - 1]]
           w == [k \in 0 .. L |-> n % Place[k]]
<1>1. UnpackLen(raw, i) = sum[L]
  BY DEF UnpackLen
<1>2. \A k \in 1 .. L : raw[i + k - 1] = (n \div Place[k - 1]) % BASE
  BY DEF PackLen
<1>3. ASSUME NEW k \in 0 .. L
      PROVE  w[k] = IF k = 0 THEN 0 ELSE w[k - 1] + raw[i + k - 1] * Place[k - 1]
  <2>1. CASE k = 0
    <3>1. n % 1 = 0
      BY <1>0
    <3> QED BY <1>0, <2>1, <3>1, PlaceFacts
  <2>2. CASE k # 0
    <3>1. k - 1 \in Nat /\ (k - 1) + 1 = k /\ k - 1 \in 0 .. L /\ k \in 1 .. L
      BY <1>0, <2>2
    <3>2. Place[k - 1] \in Nat \ {0} /\ Place[k] = BASE * Place[k - 1]
      BY <3>1, PlaceFacts
    <3>3. n % (BASE * Place[k - 1])
            = (n % Place[k - 1]) + ((n \div Place[k - 1]) % BASE) * Place[k - 1]
      BY <1>0, <3>2, OneMoreDigit
    <3>4. w[k] = n % Place[k] /\ w[k - 1] = n % Place[k - 1]
      BY <3>1
    <3> QED BY <1>2, <2>2, <3>1, <3>2, <3>3, <3>4
  <2> QED BY <2>1, <2>2
<1>4. w = [k \in 0 .. L |-> w[k]]
  OBVIOUS
<1> HIDE DEF w
<1>5. w = [k \in 0 .. L |->
            IF k = 0 THEN 0 ELSE w[k - 1] + raw[i + k - 1] * Place[k - 1]]
  BY <1>3, <1>4
<1>6. sum = [k \in 0 .. L |->
              IF k = 0 THEN 0 ELSE sum[k - 1] + raw[i + k - 1] * Place[k - 1]]
  BY <1>5, Zenon
<1> HIDE DEF sum
<1>7. \A k \in 0 .. L :
         sum[k] = IF k = 0 THEN 0 ELSE sum[k - 1] + raw[i + k - 1] * Place[k - 1]
  BY <1>6, Zenon
<1> DEFINE T == {k \in Nat : k <= L => sum[k] = w[k]}
<1>8. T = Nat
  <2>1. T \subseteq Nat /\ 0 \in T
    BY <1>0, <1>3, <1>7
  <2>2. ASSUME NEW k \in T PROVE k + 1 \in T
    <3> SUFFICES ASSUME k + 1 <= L PROVE sum[k + 1] = w[k + 1]
      OBVIOUS
    <3>1. k + 1 \in 0 .. L /\ k + 1 # 0 /\ (k + 1) - 1 = k /\ sum[k] = w[k]
      BY <1>0
    <3>2. /\ sum[k + 1] = sum[(k + 1) - 1] + raw[i + (k + 1) - 1] * Place[(k + 1) - 1]
          /\ w[k + 1] = w[(k + 1) - 1] + raw[i + (k + 1) - 1] * Place[(k + 1) - 1]
      BY <1>3, <1>7, <3>1
    <3> QED BY <3>1, <3>2
  <2> HIDE DEF T
  <2> QED BY <2>1, <2>2, SetInduction
<1>9. sum[L] = n % Place[L]
  <2>1. sum[L] = w[L]
    BY <1>0, <1>8
  <2> QED BY <1>0, <2>1 DEF w
<1>10. n % Place[L] = n
  BY <1>0
<1> QED BY <1>1, <1>9, <1>10

-----------------------------------------------------------------------------
(* A stream, record by record.                                              *)

Records == [type : 1 .. BASE - 1, payload : Seq(0 .. BASE - 1)]

(* Lists of records with payloads within the cap. *)
RecordLists == {h \in Seq(Records) : \A k \in DOMAIN h : Len(h[k].payload) <= MAX_RECORD_BYTES}
(* The beginnings of a stream that stop between two records, and where.     *)
UpTo(h) ==
    CHOOSE g : g = [n \in 0 .. Len(h) |->
                      IF n = 0 THEN <<MAGIC, VERSION>> ELSE g[n - 1] \o record(h[n])]
End(h, n) == Len(UpTo(h)[n])

(* Where a record's type, length and payload stand in its bytes.            *)
LEMMA RecordLayout ==
    ASSUME NEW r \in Records
    PROVE  /\ record(r) \in Seq(Nat)
           /\ Len(record(r)) = 1 + LEN_BYTES + Len(r.payload)
           /\ record(r)[1] = r.type
           /\ \A k \in 1 .. LEN_BYTES : record(r)[1 + k] = PackLen(Len(r.payload))[k]
           /\ \A k \in 1 .. Len(r.payload) : record(r)[1 + LEN_BYTES + k] = r.payload[k]
           /\ Len(r.payload) \in Nat
<1> DEFINE l == PackLen(Len(r.payload))
           t == <<r.type>>
<1>0. LEN_BYTES \in Nat /\ BASE \in Nat \ {0}
  BY StreamAssumption
<1>1. r.payload \in Seq(Nat) /\ Len(r.payload) \in Nat /\ r.type \in Nat
  <2>1. r.payload \in Seq(0 .. BASE - 1) /\ r.type \in 1 .. BASE - 1
    BY DEF Records
  <2>2. 0 .. BASE - 1 \subseteq Nat /\ 1 .. BASE - 1 \subseteq Nat
    BY <1>0
  <2> QED BY <2>1, <2>2, SeqMonotonic, LenProperties
<1>2. l \in Seq(Nat) /\ Len(l) = LEN_BYTES
  <2>1. ASSUME NEW k \in 1 .. LEN_BYTES
        PROVE  (Len(r.payload) \div Place[k - 1]) % BASE \in Nat
    <3>1. Place[k - 1] \in Nat \ {0}
      <4>1. k - 1 \in Nat
        BY <1>0
      <4> QED BY <4>1, PlaceFacts
    <3>2. \A x \in Nat, y \in Nat \ {0} : x \div y \in Nat
      OBVIOUS
    <3>3. Len(r.payload) \div Place[k - 1] \in Nat
      BY <1>1, <3>1, <3>2
    <3> QED BY <1>0, <3>3
  <2> QED BY <1>0, <2>1 DEF PackLen
<1>3. t \in Seq(Nat) /\ Len(t) = 1 /\ t[1] = r.type
  BY <1>1
<1>4. record(r) = (t \o l) \o r.payload
  BY DEF record
<1> HIDE DEF l, t
<1> DEFINE a == t \o l
<1>5. /\ a \in Seq(Nat) /\ Len(a) = 1 + LEN_BYTES
      /\ \A i \in 1 .. 1 + LEN_BYTES : a[i] = IF i <= 1 THEN t[i] ELSE l[i - 1]
  <2>1. /\ a \in Seq(Nat) /\ Len(a) = Len(t) + Len(l)
        /\ \A i \in 1 .. Len(t) + Len(l) : a[i] = IF i <= Len(t) THEN t[i] ELSE l[i - Len(t)]
    BY <1>2, <1>3, ConcatProperties, Zenon
  <2> HIDE DEF a
  <2> QED BY <1>2, <1>3, <2>1
<1> HIDE DEF a
<1> DEFINE z == a \o r.payload
<1>6. /\ z \in Seq(Nat) /\ Len(z) = 1 + LEN_BYTES + Len(r.payload)
      /\ \A i \in 1 .. 1 + LEN_BYTES + Len(r.payload) :
            z[i] = IF i <= 1 + LEN_BYTES THEN a[i] ELSE r.payload[i - (1 + LEN_BYTES)]
  <2>1. /\ z \in Seq(Nat) /\ Len(z) = Len(a) + Len(r.payload)
        /\ \A i \in 1 .. Len(a) + Len(r.payload) :
              z[i] = IF i <= Len(a) THEN a[i] ELSE r.payload[i - Len(a)]
    BY <1>1, <1>5, ConcatProperties, Zenon
  <2> HIDE DEF z
  <2> QED BY <1>5, <2>1
<1>7. record(r) = z
  BY <1>4 DEF a
<1> HIDE DEF z
<1>8. z[1] = r.type
  <2>1. 1 \in 1 .. 1 + LEN_BYTES /\ 1 \in 1 .. 1 + LEN_BYTES + Len(r.payload) /\ 1 <= 1 + LEN_BYTES
    <3>1. \A x, y \in Nat : 1 \in 1 .. 1 + x /\ 1 \in 1 .. 1 + x + y /\ 1 <= 1 + x
      OBVIOUS
    <3>2. LEN_BYTES \in Nat /\ Len(r.payload) \in Nat
      BY <1>0, <1>1
    <3> QED BY <3>1, <3>2, Zenon
  <2>2. z[1] = a[1]
    BY ONLY <2>1, <1>6, Zenon
  <2>3. a[1] = t[1]
    BY <2>1, <1>5
  <2> QED BY <1>3, <2>2, <2>3
<1>9. ASSUME NEW k \in 1 .. LEN_BYTES
      PROVE  z[1 + k] = l[k]
  <2>1. 1 + k \in 1 .. 1 + LEN_BYTES /\ ~(1 + k <= 1) /\ (1 + k) - 1 = k
    BY <1>0
  <2>2. 1 + k \in 1 .. 1 + LEN_BYTES + Len(r.payload) /\ 1 + k <= 1 + LEN_BYTES
    <3>1. \A x \in Nat : 1 + k \in 1 .. 1 + LEN_BYTES + x
      BY <1>0
    <3>2. 1 + k <= 1 + LEN_BYTES
      BY <1>0
    <3> QED BY <1>1, <3>1, <3>2, Zenon
  <2> QED BY <1>5, <1>6, <2>1, <2>2
<1>10. ASSUME NEW k \in 1 .. Len(r.payload)
       PROVE  z[1 + LEN_BYTES + k] = r.payload[k]
  <2>1. /\ 1 + LEN_BYTES + k \in 1 .. 1 + LEN_BYTES + Len(r.payload)
        /\ ~(1 + LEN_BYTES + k <= 1 + LEN_BYTES)
        /\ (1 + LEN_BYTES + k) - (1 + LEN_BYTES) = k
    BY <1>0, <1>1
  <2> QED BY <1>6, <2>1
<1> QED BY <1>1, <1>6, <1>7, <1>8, <1>9, <1>10 DEF l

(* A stream's records, one after the other.                                 *)
LEMMA UpToSteps ==
    ASSUME NEW h \in RecordLists
    PROVE  /\ Len(h) \in Nat /\ \A n \in 1 .. Len(h) : h[n] \in Records
           /\ UpTo(h)[0] = <<MAGIC, VERSION>>
           /\ \A n \in 0 .. Len(h) - 1 : UpTo(h)[n + 1] = UpTo(h)[n] \o record(h[n + 1])
           /\ \A n \in 0 .. Len(h) : UpTo(h)[n] \in Seq(Nat)
           /\ stream(h) = Append(UpTo(h)[Len(h)], RT_END)
<1> DEFINE L == Len(h)
           a == <<MAGIC, VERSION>>
           p == [i \in Nat |-> record(h[i + 1])]
           u == UpTo(h)
<1>1. L \in Nat /\ \A n \in 1 .. L : h[n] \in Records
  <2>1. h \in Seq(Records)
    BY DEF RecordLists
  <2> QED BY <2>1, LenProperties, ElementOfSeq
<1>2. PICK g : IsJoin(g, a, p)
  <2> HIDE DEF a, p
  <2> QED BY JoinExists
<1>3. \A i \in Nat : g[i] = IF i = 0 THEN a ELSE g[i - 1] \o p[i - 1]
  <2> HIDE DEF a, p
  <2> QED BY <1>2, Zenon DEF IsJoin
<1> DEFINE f == [n \in 0 .. L |-> g[n]]
<1>4. ASSUME NEW n \in 0 .. L
      PROVE  f[n] = IF n = 0 THEN a ELSE f[n - 1] \o record(h[n])
  <2>1. CASE n = 0
    <3>1. g[0] = a
      BY <1>3
    <3> QED BY <1>1, <2>1, <3>1
  <2>2. CASE n # 0
    <3>1. n \in Nat /\ n - 1 \in Nat /\ n - 1 \in 0 .. L /\ (n - 1) + 1 = n
      BY <1>1, <2>2
    <3>2. f[n] = g[n] /\ f[n - 1] = g[n - 1]
      BY <3>1
    <3>3. p[n - 1] = record(h[n])
      BY <3>1
    <3>4. g[n] = g[n - 1] \o p[n - 1]
      BY <1>3, <2>2, <3>1, Zenon
    <3> QED BY <2>2, <3>2, <3>3, <3>4
  <2> QED BY <2>1, <2>2
<1>5. f = [n \in 0 .. L |-> f[n]]
  OBVIOUS
<1> HIDE DEF f, a
<1>6. f = [n \in 0 .. L |-> IF n = 0 THEN a ELSE f[n - 1] \o record(h[n])]
  BY <1>4, <1>5
<1>7. u = [n \in 0 .. L |-> IF n = 0 THEN a ELSE u[n - 1] \o record(h[n])]
  BY <1>6, Zenon DEF UpTo, a
<1> HIDE DEF u
<1>8. \A n \in 0 .. L : u[n] = IF n = 0 THEN a ELSE u[n - 1] \o record(h[n])
  BY <1>7, Zenon
<1>9. ASSUME NEW n \in 0 .. L - 1
      PROVE  u[n + 1] = u[n] \o record(h[n + 1])
  <2>1. n + 1 \in 0 .. L /\ n + 1 # 0 /\ (n + 1) - 1 = n
    BY <1>1
  <2>2. u[n + 1] = u[(n + 1) - 1] \o record(h[n + 1])
    BY <1>8, <2>1, Zenon
  <2> QED BY <2>1, <2>2
<1>10. u[0] = a
  <2>1. 0 \in 0 .. L
    BY <1>1
  <2> QED BY <1>8, <2>1
<1> DEFINE T == {n \in Nat : n <= L => u[n] \in Seq(Nat)}
<1>11. T = Nat
  <2>1. a \in Seq(Nat)
    BY DEF a, MAGIC, VERSION
  <2>2. T \subseteq Nat /\ 0 \in T
    BY <1>10, <2>1
  <2>3. ASSUME NEW n \in T PROVE n + 1 \in T
    <3> SUFFICES ASSUME n + 1 <= L PROVE u[n + 1] \in Seq(Nat)
      OBVIOUS
    <3>1. n \in 0 .. L - 1 /\ n + 1 \in 1 .. L /\ u[n] \in Seq(Nat)
      BY <1>1
    <3>2. record(h[n + 1]) \in Seq(Nat)
      BY <1>1, <3>1, RecordLayout
    <3> QED BY <1>9, <3>1, <3>2, ConcatProperties
  <2> HIDE DEF T
  <2> QED BY <2>2, <2>3, SetInduction
<1>12. \A n \in 0 .. L : u[n] \in Seq(Nat)
  <2>1. ASSUME NEW n \in 0 .. L PROVE u[n] \in Seq(Nat)
    <3>1. n \in T /\ n <= L
      BY <1>11, <1>1
    <3> QED BY <3>1
  <2> QED BY <2>1
<1>13. stream(h) = Append(u[L], RT_END)
  BY DEF stream, UpTo, u
<1> QED BY <1>1, <1>9, <1>10, <1>12, <1>13 DEF u, a

(* One more record: where it ends, and that what came before stays. *)
LEMMA EndStep ==
    ASSUME NEW h \in RecordLists, NEW n \in 0 .. Len(h) - 1
    PROVE  /\ End(h, n) \in Nat /\ Len(h[n + 1].payload) \in Nat
           /\ End(h, n + 1) = End(h, n) + (1 + LEN_BYTES + Len(h[n + 1].payload))
           /\ \A j \in 1 .. End(h, n) : UpTo(h)[n + 1][j] = UpTo(h)[n][j]
           /\ \A j \in 1 .. 1 + LEN_BYTES + Len(h[n + 1].payload) :
                 UpTo(h)[n + 1][End(h, n) + j] = record(h[n + 1])[j]
<1> DEFINE u == UpTo(h)[n]
           v == UpTo(h)[n + 1]
           w == record(h[n + 1])
           k == 1 + LEN_BYTES + Len(h[n + 1].payload)
<1>1. n \in 0 .. Len(h) /\ n + 1 \in 1 .. Len(h)
  BY UpToSteps
<1>2. v = u \o w /\ u \in Seq(Nat) /\ h[n + 1] \in Records
  BY <1>1, UpToSteps
<1>3. w \in Seq(Nat) /\ Len(w) = k /\ Len(h[n + 1].payload) \in Nat
  BY <1>2, RecordLayout
<1>4. Len(u) \in Nat /\ Len(w) \in Nat
  BY <1>2, <1>3, LenProperties
<1>5. End(h, n) = Len(u) /\ End(h, n + 1) = Len(v)
  BY DEF End
<1> HIDE DEF u, v, w, k
<1>6. /\ Len(v) = Len(u) + Len(w)
      /\ \A i \in 1 .. Len(u) + Len(w) : v[i] = IF i <= Len(u) THEN u[i] ELSE w[i - Len(u)]
  BY <1>2, <1>3, ConcatProperties
<1>7. \A j \in 1 .. Len(u) : v[j] = u[j]
  BY <1>4, <1>6
<1>8. ASSUME NEW j \in 1 .. Len(w)
      PROVE  v[Len(u) + j] = w[j]
  <2>1. /\ Len(u) + j \in 1 .. Len(u) + Len(w) /\ ~(Len(u) + j <= Len(u))
        /\ (Len(u) + j) - Len(u) = j
    BY <1>4
  <2> QED BY <1>6, <2>1
<1> QED BY <1>3, <1>4, <1>5, <1>6, <1>7, <1>8 DEF u, v, w, k

(* What is written first stays at the beginning of the stream.              *)
LEMMA BeginningsStay ==
    ASSUME NEW h \in RecordLists, NEW n \in 0 .. Len(h), NEW m \in n .. Len(h)
    PROVE  /\ End(h, n) \in Nat /\ End(h, m) \in Nat /\ End(h, n) <= End(h, m)
           /\ \A j \in 1 .. End(h, n) : UpTo(h)[m][j] = UpTo(h)[n][j]
<1> DEFINE Stays(d) ==
             /\ End(h, n) <= End(h, n + d) /\ End(h, n + d) \in Nat
             /\ \A j \in 1 .. End(h, n) : UpTo(h)[n + d][j] = UpTo(h)[n][j]
           T == {d \in Nat : n + d <= Len(h) => Stays(d)}
<1>1. Len(h) \in Nat /\ n \in Nat /\ m \in Nat
  BY UpToSteps
<1>2. \A i \in 0 .. Len(h) : End(h, i) \in Nat
  <2>1. ASSUME NEW i \in 0 .. Len(h) PROVE Len(UpTo(h)[i]) \in Nat
    <3>1. UpTo(h)[i] \in Seq(Nat)
      BY UpToSteps
    <3> QED BY <3>1, LenProperties
  <2> QED BY <2>1 DEF End
<1>3. 0 \in T
  <2>1. n + 0 = n
    BY <1>1
  <2> QED BY <1>2, <2>1
<1>4. ASSUME NEW d \in T
      PROVE  d + 1 \in T
  <2> SUFFICES ASSUME n + (d + 1) <= Len(h) PROVE Stays(d + 1)
    OBVIOUS
  <2> DEFINE i == n + d
  <2>1. i \in 0 .. Len(h) - 1 /\ n + (d + 1) = i + 1 /\ i <= Len(h)
    BY <1>1
  <2>2. /\ End(h, n) <= End(h, i)
        /\ \A j \in 1 .. End(h, n) : UpTo(h)[i][j] = UpTo(h)[n][j]
    BY <2>1
  <2> HIDE DEF i
  <2>3. /\ End(h, i) \in Nat /\ End(h, i) <= End(h, i + 1) /\ End(h, i + 1) \in Nat
        /\ \A j \in 1 .. End(h, i) : UpTo(h)[i + 1][j] = UpTo(h)[i][j]
    <3>1. LEN_BYTES \in Nat
      BY StreamAssumption
    <3>2. \A e, k \in Nat : e <= e + (1 + LEN_BYTES + k) /\ e + (1 + LEN_BYTES + k) \in Nat
      BY <3>1
    <3>3. /\ End(h, i) \in Nat /\ Len(h[i + 1].payload) \in Nat
          /\ End(h, i + 1) = End(h, i) + (1 + LEN_BYTES + Len(h[i + 1].payload))
          /\ \A j \in 1 .. End(h, i) : UpTo(h)[i + 1][j] = UpTo(h)[i][j]
      BY <2>1, EndStep
    <3> QED BY <3>2, <3>3, Zenon
  <2>4. End(h, n) \in Nat
    BY <1>2
  <2>5. End(h, n) <= End(h, i + 1)
    BY <2>2, <2>3, <2>4
  <2>6. \A j \in 1 .. End(h, n) : UpTo(h)[i + 1][j] = UpTo(h)[n][j]
    BY <2>2, <2>3, <2>4
  <2> QED BY <2>1, <2>3, <2>5, <2>6
<1>5. T = Nat
  <2>1. T \subseteq Nat
    OBVIOUS
  <2> HIDE DEF T
  <2> QED BY <1>3, <1>4, <2>1, SetInduction
<1>6. m - n \in Nat /\ n + (m - n) = m /\ m <= Len(h)
  BY <1>1
<1>7. Stays(m - n)
  <2>1. m - n \in T
    BY <1>5, <1>6
  <2> QED BY <1>6, <2>1
<1> QED BY <1>2, <1>6, <1>7

(* What stands where in a stream. *)
LEMMA StreamLayout ==
    ASSUME NEW h \in RecordLists
    PROVE  /\ stream(h) \in Seq(Nat) /\ Len(h) \in Nat
           /\ Len(stream(h)) = End(h, Len(h)) + 1
           /\ stream(h)[End(h, Len(h)) + 1] = RT_END
           /\ End(h, 0) = 2 /\ stream(h)[1] = MAGIC /\ stream(h)[2] = VERSION
           /\ \A n \in 0 .. Len(h) : End(h, n) \in 2 .. End(h, Len(h))
           /\ \A n \in 0 .. Len(h) - 1 : \A j \in 1 .. 1 + LEN_BYTES + Len(h[n + 1].payload) :
                 stream(h)[End(h, n) + j] = record(h[n + 1])[j]
<1> DEFINE L == Len(h)
           all == UpTo(h)[L]
           s == stream(h)
<1>1. /\ L \in Nat /\ UpTo(h)[0] = <<MAGIC, VERSION>>
      /\ all \in Seq(Nat) /\ s = Append(all, RT_END)
  <2>1. L \in Nat
    BY UpToSteps
  <2>2. L \in 0 .. L
    BY <2>1
  <2> QED BY <2>1, <2>2, UpToSteps, Zenon
<1>2. End(h, 0) = 2 /\ UpTo(h)[0][1] = MAGIC /\ UpTo(h)[0][2] = VERSION
  BY <1>1 DEF End
<1>3. \A n \in 0 .. L : End(h, 0) <= End(h, n) /\ End(h, n) <= End(h, L) /\ End(h, n) \in Nat
  <2>1. ASSUME NEW n \in 0 .. L
        PROVE  End(h, 0) <= End(h, n) /\ End(h, n) <= End(h, L) /\ End(h, n) \in Nat
    <3>1. 0 \in 0 .. L /\ n \in 0 .. L /\ L \in n .. L /\ L \in 0 .. L
      BY <1>1
    <3> QED BY <3>1, BeginningsStay
  <2> QED BY <2>1
<1>4. Len(all) = End(h, L) /\ Len(all) \in Nat
  BY <1>1, LenProperties DEF End
<1> HIDE DEF all, s
<1>5. /\ s \in Seq(Nat) /\ Len(s) = Len(all) + 1
      /\ \A i \in 1 .. Len(all) : s[i] = all[i]
      /\ s[Len(all) + 1] = RT_END
  <2>1. RT_END \in Nat
    BY DEF RT_END
  <2> QED BY <1>1, <2>1, AppendProperties
<1>6. ASSUME NEW n \in 0 .. L, NEW i \in 1 .. End(h, n)
      PROVE  s[i] = UpTo(h)[n][i]
  <2>1. L \in n .. L
    BY <1>1
  <2>2. all[i] = UpTo(h)[n][i]
    BY <2>1, BeginningsStay DEF all
  <2>3. i \in 1 .. Len(all)
    BY <1>3, <1>4
  <2> QED BY <1>5, <2>2, <2>3
<1>7. s[1] = MAGIC /\ s[2] = VERSION
  <2>1. 0 \in 0 .. L /\ 1 \in 1 .. End(h, 0) /\ 2 \in 1 .. End(h, 0)
    BY <1>1, <1>2
  <2> QED BY <1>2, <1>6, <2>1
<1>8. ASSUME NEW n \in 0 .. L - 1, NEW j \in 1 .. 1 + LEN_BYTES + Len(h[n + 1].payload)
      PROVE  s[End(h, n) + j] = record(h[n + 1])[j]
  <2>1. n + 1 \in 0 .. L
    BY <1>1
  <2>2. /\ End(h, n) \in Nat /\ Len(h[n + 1].payload) \in Nat
        /\ End(h, n + 1) = End(h, n) + (1 + LEN_BYTES + Len(h[n + 1].payload))
        /\ UpTo(h)[n + 1][End(h, n) + j] = record(h[n + 1])[j]
    BY EndStep
  <2>3. End(h, n) + j \in 1 .. End(h, n + 1)
    <3>1. LEN_BYTES \in Nat
      BY StreamAssumption
    <3>2. \A e, k \in Nat : \A i \in 1 .. 1 + LEN_BYTES + k :
             e + i \in 1 .. e + (1 + LEN_BYTES + k)
      BY <3>1
    <3>3. End(h, n) + j \in 1 .. End(h, n) + (1 + LEN_BYTES + Len(h[n + 1].payload))
      BY <2>2, <3>2, Zenon
    <3> QED BY <2>2, <3>3
  <2> QED BY <1>6, <2>1, <2>2, <2>3
<1>9. \A n \in 0 .. L : End(h, n) \in 2 .. End(h, L)
  BY <1>1, <1>2, <1>3
<1> QED BY <1>1, <1>2, <1>4, <1>5, <1>7, <1>8, <1>9 DEF s

-----------------------------------------------------------------------------
(* The reader's walk.                                                       *)

(* What parse_cth1 makes of place i, given what it makes of later places. *)
Visit(raw, later, i) ==
    IF i > Len(raw) THEN NoEnd
    ELSE IF raw[i] = RT_END
    THEN IF EndsHere(raw, i) THEN Parsed(<<>>) ELSE Malformed
    ELSE IF i + LEN_BYTES > Len(raw) THEN Malformed
    ELSE LET plen == UnpackLen(raw, i + 1)
             start == i + 1 + LEN_BYTES
         IN  IF ~Fits(raw, start, plen) THEN Malformed
             ELSE LET rest == later[start + plen]
                  IN  IF ~rest.ok THEN Malformed
                      ELSE Parsed(<<Rec(raw[i], SubSeq(raw, start, start + plen - 1))>>
                                    \o rest.recs)

Walk(raw) == CHOOSE g : g = [i \in 1 .. Len(raw) + 1 |-> Visit(raw, g, i)]

(* parse_cth1 is a walk from the byte behind the version.                   *)
LEMMA ParseIsWalk ==
    ASSUME NEW raw
    PROVE  parse_cth1(raw) = IF Len(raw) >= 3 /\ raw[1] = MAGIC /\ raw[2] = VERSION
                              THEN Walk(raw)[3] ELSE Malformed
BY Zenon DEF parse_cth1, Walk, Visit

(* A length is what its bytes sum up to. *)
IsSum(sum, raw, i) ==
    /\ sum \in [0 .. LEN_BYTES -> Nat] /\ sum[0] = 0
    /\ \A k \in 1 .. LEN_BYTES : sum[k] = sum[k - 1] + raw[i + k - 1] * Place[k - 1]
    /\ UnpackLen(raw, i) = sum[LEN_BYTES]

(* The length that is read is the sum of its weighted bytes.                *)
LEMMA LengthIsSum ==
    ASSUME NEW raw, NEW i, \A k \in 1 .. LEN_BYTES : raw[i + k - 1] \in Nat
    PROVE  \E sum : IsSum(sum, raw, i)
<1>0. LEN_BYTES \in Nat
  BY StreamAssumption
<1> DEFINE L == LEN_BYTES
           sum == CHOOSE g : g = [k \in 0 .. L |->
                     IF k = 0 THEN 0 ELSE g[k - 1] + raw[i + k - 1] * Place[k - 1]]
           zero == 0
           step == [k \in Nat |-> [v \in Nat |->
                      IF k < L THEN v + raw[i + (k + 1) - 1] * Place[k] ELSE v]]
<1>1. UnpackLen(raw, i) = sum[L]
  BY DEF UnpackLen
<1>2. step \in [Nat -> [Nat -> Nat]] /\ zero \in Nat
  <2>1. ASSUME NEW k \in Nat, NEW v \in Nat, k < L
        PROVE  v + raw[i + (k + 1) - 1] * Place[k] \in Nat
    <3>1. k + 1 \in 1 .. L
      BY <1>0, <2>1
    <3>2. raw[i + (k + 1) - 1] \in Nat
      BY <3>1
    <3>3. Place[k] \in Nat
      BY PlaceFacts
    <3>4. \A x, y, z \in Nat : x + y * z \in Nat
      OBVIOUS
    <3> QED BY <3>2, <3>3, <3>4
  <2> QED BY <2>1
<1>3. PICK g : IsSteps(g, Nat, zero, step)
  <2> HIDE DEF step, zero
  <2> QED BY <1>2, StepsExist
<1>4. g \in [Nat -> Nat] /\ g[0] = 0 /\ \A k \in Nat : g[k + 1] = step[k][g[k]]
  <2> HIDE DEF step
  <2> QED BY <1>3 DEF IsSteps
<1> DEFINE w == [k \in 0 .. L |-> g[k]]
<1>5. ASSUME NEW k \in 0 .. L
      PROVE  w[k] = IF k = 0 THEN 0 ELSE w[k - 1] + raw[i + k - 1] * Place[k - 1]
  <2>1. CASE k = 0
    BY <1>4, <2>1
  <2>2. CASE k # 0
    <3>1. k - 1 \in Nat /\ (k - 1) + 1 = k /\ k - 1 \in 0 .. L /\ k - 1 < L
      BY <1>0, <2>2
    <3>2. w[k] = g[k] /\ w[k - 1] = g[k - 1]
      BY <3>1
    <3>3. step[k - 1] = [v \in Nat |-> v + raw[i + k - 1] * Place[k - 1]]
      BY <3>1
    <3>4. g[k] = step[k - 1][g[k - 1]] /\ g[k - 1] \in Nat
      BY <1>4, <3>1
    <3> QED BY <2>2, <3>2, <3>3, <3>4
  <2> QED BY <2>1, <2>2
<1>6. w = [k \in 0 .. L |-> w[k]] /\ \A k \in 0 .. L : w[k] \in Nat
  BY <1>0, <1>4
<1> HIDE DEF w, step
<1>7. w = [k \in 0 .. L |->
            IF k = 0 THEN 0 ELSE w[k - 1] + raw[i + k - 1] * Place[k - 1]]
  BY <1>5, <1>6
<1>8. sum = [k \in 0 .. L |->
              IF k = 0 THEN 0 ELSE sum[k - 1] + raw[i + k - 1] * Place[k - 1]]
  BY <1>7, Zenon
<1> HIDE DEF sum
<1>9. \A k \in 0 .. L :
         sum[k] = IF k = 0 THEN 0 ELSE sum[k - 1] + raw[i + k - 1] * Place[k - 1]
  BY <1>8, Zenon
<1> DEFINE T == {k \in Nat : k <= L => sum[k] = w[k]}
<1>10. T = Nat
  <2>1. T \subseteq Nat /\ 0 \in T
    BY <1>0, <1>5, <1>9
  <2>2. ASSUME NEW k \in T PROVE k + 1 \in T
    <3> SUFFICES ASSUME k + 1 <= L PROVE sum[k + 1] = w[k + 1]
      OBVIOUS
    <3>1. k + 1 \in 0 .. L /\ k + 1 # 0 /\ (k + 1) - 1 = k /\ sum[k] = w[k]
      BY <1>0
    <3>2. /\ sum[k + 1] = sum[(k + 1) - 1] + raw[i + (k + 1) - 1] * Place[(k + 1) - 1]
          /\ w[k + 1] = w[(k + 1) - 1] + raw[i + (k + 1) - 1] * Place[(k + 1) - 1]
      BY <1>5, <1>9, <3>1
    <3> QED BY <3>1, <3>2
  <2> HIDE DEF T
  <2> QED BY <2>1, <2>2, SetInduction
<1>11. \A k \in 0 .. L : sum[k] \in Nat
  <2>1. ASSUME NEW k \in 0 .. L PROVE sum[k] \in Nat
    <3>1. k \in Nat /\ k <= L
      BY <1>0
    <3>2. sum[k] = w[k]
      BY <1>10, <3>1
    <3> QED BY <1>6, <3>2
  <2> QED BY <2>1
<1>12. sum \in [0 .. L -> Nat]
  <2>1. sum = [k \in 0 .. L |-> sum[k]]
    BY <1>8, <1>9
  <2> QED BY <1>11, <2>1
<1>13. sum[0] = 0 /\ \A k \in 1 .. L : sum[k] = sum[k - 1] + raw[i + k - 1] * Place[k - 1]
  BY <1>0, <1>9
<1>14. IsSum(sum, raw, i)
  BY <1>1, <1>12, <1>13 DEF IsSum
<1> QED BY <1>14, Zenon

(* Whatever the bytes, a length is a natural. *)
LEMMA LengthIsNat ==
    ASSUME NEW raw, NEW i, \A k \in 1 .. LEN_BYTES : raw[i + k - 1] \in Nat
    PROVE  UnpackLen(raw, i) \in Nat
<1>1. PICK sum : IsSum(sum, raw, i)
  BY LengthIsSum
<1>2. LEN_BYTES \in 0 .. LEN_BYTES
  BY StreamAssumption
<1> QED BY <1>1, <1>2 DEF IsSum

(* A length that was read is written with the same bytes. *)
LEMMA LengthWrittenBack ==
    ASSUME NEW raw, NEW i, \A k \in 1 .. LEN_BYTES : raw[i + k - 1] \in 0 .. BASE - 1
    PROVE  \A k \in 1 .. LEN_BYTES : PackLen(UnpackLen(raw, i))[k] = raw[i + k - 1]
<1>0. LEN_BYTES \in Nat \ {0} /\ BASE \in Nat \ {0} /\ 0 .. BASE - 1 \subseteq Nat
  BY StreamAssumption
<1>1. PICK sum : IsSum(sum, raw, i)
  BY <1>0, LengthIsSum
<1>2. /\ sum[0] = 0 /\ \A k \in 0 .. LEN_BYTES : sum[k] \in Nat
      /\ \A k \in 1 .. LEN_BYTES : sum[k] = sum[k - 1] + raw[i + k - 1] * Place[k - 1]
      /\ UnpackLen(raw, i) = sum[LEN_BYTES]
  BY <1>1 DEF IsSum
<1> DEFINE L == LEN_BYTES
           n == sum[L]
           T == {k \in Nat : k <= L => sum[k] < Place[k]}
           U == {d \in Nat : d <= L => n % Place[L - d] = sum[L - d]}
<1>3. n \in Nat
  BY <1>0, <1>2
<1>4. ASSUME NEW k \in 0 .. L
      PROVE  sum[k] < Place[k]
  <2>1. T \subseteq Nat /\ 0 \in T
    BY <1>2, PlaceFacts
  <2>2. ASSUME NEW j \in T PROVE j + 1 \in T
    <3> SUFFICES ASSUME j + 1 <= L PROVE sum[j + 1] < Place[j + 1]
      OBVIOUS
    <3>1. j \in Nat /\ j + 1 \in 1 .. L /\ j \in 0 .. L /\ (j + 1) - 1 = j /\ j <= L
      BY <1>0
    <3>2. PICK x \in Nat : x = sum[j]
      BY <1>2, <3>1
    <3>3. PICK p \in Nat \ {0} : p = Place[j] /\ Place[j + 1] = BASE * p
      BY <3>1, PlaceFacts
    <3>4. PICK b \in 0 .. BASE - 1 : b = raw[i + (j + 1) - 1]
      BY <3>1
    <3>5. sum[j + 1] = x + b * p
      <4>1. sum[j + 1] = sum[(j + 1) - 1] + raw[i + (j + 1) - 1] * Place[(j + 1) - 1]
        BY <1>2, <3>1
      <4> QED BY <3>1, <3>2, <3>3, <3>4, <4>1
    <3>6. x < p
      BY <3>1, <3>2, <3>3
    <3>7. x + b * p < BASE * p
      <4>1. (b + 1) * p <= BASE * p /\ (b + 1) * p = b * p + p
        BY ONLY <1>0, <3>3, <3>4, b \in 0 .. BASE - 1, p \in Nat \ {0}
      <4>2. b * p \in Nat /\ BASE * p \in Nat
        BY <1>0
      <4> QED BY <3>6, <4>1, <4>2
    <3> QED BY <3>3, <3>5, <3>7
  <2>3. T = Nat
    <3> HIDE DEF T
    <3> QED BY <2>1, <2>2, SetInduction
  <2>4. k \in T /\ k <= L
    BY <1>0, <2>3
  <2> QED BY <2>4
<1> HIDE DEF n, T
(* Both split n at Place[k]: into what is below, the digit, what is above. *)
<1>5. ASSUME NEW k \in 1 .. L, n % Place[k] = sum[k]
      PROVE  n % Place[k - 1] = sum[k - 1] /\ (n \div Place[k - 1]) % BASE = raw[i + k - 1]
  <2>1. k - 1 \in 0 .. L /\ k - 1 \in Nat /\ (k - 1) + 1 = k
    BY <1>0
  <2>2. PICK p \in Nat \ {0} : p = Place[k - 1] /\ Place[k] = BASE * p
    BY <2>1, PlaceFacts
  <2>3. PICK b \in 0 .. BASE - 1 : b = raw[i + k - 1]
    OBVIOUS
  <2>4. PICK x \in Nat : x = sum[k - 1] /\ x < p
    BY <1>2, <1>4, <2>1, <2>2
  <2>5. PICK y \in Nat : y = n % p /\ y < p
    BY <1>3, <2>2
  <2>6. PICK c \in Nat : c = (n \div p) % BASE
    <3>1. n \div p \in Nat
      BY <1>3
    <3> QED BY <1>0, <3>1
  <2>7. y + c * p = x + b * p
    <3>1. n % (BASE * p) = y + c * p
      BY <1>3, <2>5, <2>6, OneMoreDigit
    <3>2. sum[k] = x + b * p
      BY <1>2, <2>2, <2>3, <2>4
    <3> QED BY <1>5, <2>2, <3>1, <3>2
  <2>8. b \in Nat
    BY <1>0
  <2>9. x = y
    <3>1. \A u, v \in Nat : \A w \in Nat : w < p => (u = v * p + w => u % p = w)
      <4> SUFFICES ASSUME NEW u \in Nat, NEW v \in Nat, NEW w \in Nat, w < p, u = v * p + w
                   PROVE  u % p = w
        OBVIOUS
      <4>1. w \in 0 .. p - 1
        OBVIOUS
      <4> QED BY <4>1, RemainderUnique
    <3>2. PICK z \in Nat : z = c * p + y /\ z = b * p + x
      <4>1. c * p \in Nat /\ b * p \in Nat
        BY <2>6, <2>8
      <4> QED BY <2>4, <2>5, <2>7, <4>1
    <3> QED BY <2>4, <2>5, <2>6, <2>8, <3>1, <3>2
  <2>10. b = c
    <3>1. c * p = b * p
      <4>1. c * p \in Nat /\ b * p \in Nat
        BY <2>6, <2>8
      <4> QED BY <2>7, <2>9, <4>1
    <3>2. \A u, v \in Nat : u * p = v * p => u = v
      OBVIOUS
    <3> QED BY <2>6, <2>8, <3>1, <3>2
  <2> QED BY <2>2, <2>3, <2>4, <2>5, <2>6, <2>9, <2>10
<1>6. ASSUME NEW k \in 0 .. L
      PROVE  n % Place[k] = sum[k]
  <2>1. 0 \in U
    <3>1. L - 0 = L /\ L \in 0 .. L
      BY <1>0
    <3>2. n % Place[L] = n
      <4>1. Place[L] \in Nat \ {0} /\ n < Place[L]
        BY <1>0, <1>4, <3>1, PlaceFacts DEF n
      <4> QED BY <1>3, <4>1
    <3> QED BY <3>1, <3>2 DEF n
  <2>2. ASSUME NEW d \in U PROVE d + 1 \in U
    <3> SUFFICES ASSUME d + 1 <= L PROVE n % Place[L - (d + 1)] = sum[L - (d + 1)]
      OBVIOUS
    <3>1. d \in Nat /\ d <= L /\ L - d \in 1 .. L /\ (L - d) - 1 = L - (d + 1)
      BY <1>0
    <3>2. n % Place[L - d] = sum[L - d]
      BY <3>1
    <3>3. n % Place[(L - d) - 1] = sum[(L - d) - 1]
      BY <1>5, <3>1, <3>2
    <3> QED BY <3>1, <3>3
  <2>3. U = Nat
    <3>1. U \subseteq Nat
      OBVIOUS
    <3> HIDE DEF U
    <3> QED BY <2>1, <2>2, <3>1, SetInduction
  <2>4. L - k \in Nat /\ L - k <= L /\ L - (L - k) = k
    BY <1>0
  <2>5. L - k \in U
    BY <2>3, <2>4
  <2> QED BY <2>4, <2>5
<1>7. ASSUME NEW k \in 1 .. L
      PROVE  PackLen(n)[k] = raw[i + k - 1]
  <2>1. k \in 0 .. L
    BY <1>0
  <2>2. (n \div Place[k - 1]) % BASE = raw[i + k - 1]
    BY <1>5, <1>6, <2>1
  <2> QED BY <2>2 DEF PackLen
<1> QED BY <1>2, <1>7 DEF n

(* A place is judged by later places only. *)
LEMMA VisitLooksAhead ==
    ASSUME NEW raw \in Seq(Nat), NEW i \in 1 .. Len(raw) + 1, NEW g, NEW h,
           \A j \in i + 1 .. Len(raw) + 1 : g[j] = h[j]
    PROVE  Visit(raw, g, i) = Visit(raw, h, i)
<1>0. LEN_BYTES \in Nat /\ Len(raw) \in Nat
  BY StreamAssumption, LenProperties
<1> DEFINE plen == UnpackLen(raw, i + 1)
           start == i + 1 + LEN_BYTES
<1>1. CASE i + LEN_BYTES <= Len(raw) /\ Fits(raw, start, plen)
  <2>1. plen \in Nat
    <3>1. ASSUME NEW k \in 1 .. LEN_BYTES
          PROVE  raw[(i + 1) + k - 1] \in Nat
      <4>1. (i + 1) + k - 1 \in 1 .. Len(raw)
        BY <1>0, <1>1
      <4> QED BY <4>1, ElementOfSeq
    <3> QED BY <3>1, LengthIsNat
  <2> HIDE DEF plen
  <2>2. start + plen \in i + 1 .. Len(raw) + 1
    BY <1>0, <1>1, <2>1 DEF Fits
  <2>3. g[start + plen] = h[start + plen]
    BY <2>2
  <2> QED BY <2>3 DEF Visit, plen
<1>2. CASE ~(i + LEN_BYTES <= Len(raw)) \/ ~Fits(raw, start, plen)
  <2>1. i + LEN_BYTES > Len(raw) \/ ~Fits(raw, start, plen)
    BY <1>0, <1>2
  <2> QED BY <2>1 DEF Visit
<1> QED BY <1>1, <1>2

(* The walk has one result at every place of the stream.                    *)
LEMMA WalkIsDefined ==
    ASSUME NEW raw \in Seq(Nat)
    PROVE  \A i \in 1 .. Len(raw) + 1 : Walk(raw)[i] = Visit(raw, Walk(raw), i)
<1> DEFINE M == Len(raw) + 1
           From(g, d) == \A i \in 1 .. M : i + d > M => g[i] = Visit(raw, g, i)
           T == {d \in Nat : \E g : From(g, d)}
<1>0. Len(raw) \in Nat /\ M \in Nat
  BY LenProperties
<1>1. 0 \in T
  <2>1. \A g : From(g, 0)
    BY <1>0
  <2> QED BY <2>1
<1>2. ASSUME NEW d \in T
      PROVE  d + 1 \in T
  <2>1. PICK g : From(g, d)
    OBVIOUS
  <2> DEFINE h == [i \in 1 .. M |-> IF i + d > M THEN g[i] ELSE Visit(raw, g, i)]
  <2>2. d \in Nat /\ \A i \in 1 .. M : h[i] = IF i + d > M THEN g[i] ELSE Visit(raw, g, i)
    OBVIOUS
  <2>3. \A i \in 1 .. M : i + d > M => g[i] = Visit(raw, g, i)
    BY <2>1
  <2> HIDE DEF h
  <2>4. ASSUME NEW i \in 1 .. M, i + (d + 1) > M
        PROVE  h[i] = Visit(raw, h, i)
    <3>1. ASSUME NEW j \in i + 1 .. M PROVE g[j] = h[j]
      <4>1. j \in 1 .. M /\ j + d > M
        BY <1>0, <2>2, <2>4
      <4> QED BY <2>2, <4>1
    <3>2. Visit(raw, g, i) = Visit(raw, h, i)
      BY <3>1, VisitLooksAhead
    <3>3. h[i] = Visit(raw, g, i)
      BY <2>2, <2>3
    <3> QED BY <3>2, <3>3
  <2>5. \E k : From(k, d + 1)
    BY <2>4, Zenon
  <2> HIDE DEF From
  <2> QED BY <2>2, <2>5
<1>3. T = Nat
  <2>1. T \subseteq Nat
    OBVIOUS
  <2> HIDE DEF T
  <2> QED BY <1>1, <1>2, <2>1, SetInduction
<1>4. PICK g : From(g, M)
  BY <1>0, <1>3, Zenon
<1>5. \A i \in 1 .. M : g[i] = Visit(raw, g, i)
  BY <1>0, <1>4
<1> DEFINE h == [i \in 1 .. M |-> g[i]]
<1>6. ASSUME NEW i \in 1 .. M PROVE h[i] = Visit(raw, h, i)
  <2>1. \A j \in 1 .. M : h[j] = g[j]
    OBVIOUS
  <2> HIDE DEF h
  <2>2. \A j \in i + 1 .. M : g[j] = h[j]
    BY <1>0, <2>1
  <2>3. Visit(raw, g, i) = Visit(raw, h, i)
    BY <2>2, VisitLooksAhead
  <2> QED BY <1>5, <2>1, <2>3
<1>7. h = [i \in 1 .. M |-> h[i]]
  OBVIOUS
<1> HIDE DEF h
<1>8. h = [i \in 1 .. M |-> Visit(raw, h, i)]
  BY <1>6, <1>7
<1>9. Walk(raw) = [i \in 1 .. M |-> Visit(raw, Walk(raw), i)]
  BY <1>8, Zenon DEF Walk
<1> QED BY <1>9, Zenon

-----------------------------------------------------------------------------
(* At the start of a record the reader finds that record, unless the stream *)
(* is cut within it.                                                        *)
LEMMA VisitRecord ==
    ASSUME NEW h \in RecordLists, NEW l \in 0 .. Len(stream(h)), NEW n \in 0 .. Len(h) - 1,
           End(h, n) <= l, NEW g
    PROVE  Visit(SubSeq(stream(h), 1, l), g, End(h, n) + 1) =
             IF l < End(h, n + 1) THEN Malformed
             ELSE IF ~g[End(h, n + 1) + 1].ok THEN Malformed
             ELSE Parsed(<<h[n + 1]>> \o g[End(h, n + 1) + 1].recs)
<1> DEFINE W == stream(h)
           P == SubSeq(W, 1, l)
           r == h[n + 1]
           size == Len(r.payload)
           i == End(h, n) + 1
           start == i + 1 + LEN_BYTES
<1>1. LEN_BYTES \in Nat \ {0} /\ W \in Seq(Nat) /\ Len(h) \in Nat
  <2>1. LEN_BYTES \in Nat \ {0}
    BY StreamAssumption
  <2>2. W \in Seq(Nat) /\ Len(h) \in Nat
    BY StreamLayout, Zenon
  <2> QED BY <2>1, <2>2
<1>2. P \in Seq(Nat) /\ Len(P) = l /\ \A j \in 1 .. l : P[j] = W[j]
  BY <1>1, Beginning
<1>3. n \in 0 .. Len(h) /\ n + 1 \in 1 .. Len(h) /\ l \in Nat
  BY <1>1, <1>2, LenProperties
<1>4. r \in Records /\ size \in 0 .. MAX_RECORD_BYTES
  <2>1. r \in Records
    BY <1>3, UpToSteps
  <2>2. size \in Nat
    BY <2>1, RecordLayout
  <2>3. h \in Seq(Records)
    BY DEF RecordLists
  <2>4. n + 1 \in DOMAIN h
    BY <1>3, <2>3, LenProperties
  <2>5. size <= MAX_RECORD_BYTES
    BY <2>4 DEF RecordLists
  <2>6. MAX_RECORD_BYTES \in Nat
    BY StreamAssumption, PlaceFacts
  <2> QED BY <2>1, <2>2, <2>5, <2>6
<1>5. /\ record(r)[1] = r.type /\ r.type \in 1 .. BASE - 1
      /\ \A k \in 1 .. LEN_BYTES : record(r)[1 + k] = PackLen(size)[k]
      /\ \A k \in 1 .. size : record(r)[1 + LEN_BYTES + k] = r.payload[k]
  BY <1>4, RecordLayout DEF Records
<1>6. End(h, n) \in Nat /\ End(h, n + 1) = End(h, n) + (1 + LEN_BYTES + size)
  BY EndStep
<1>7. \A j \in 1 .. 1 + LEN_BYTES + size : W[End(h, n) + j] = record(r)[j]
  BY StreamLayout
<1>8. MAX_RECORD_BYTES \in Nat /\ size \in 0 .. Place[LEN_BYTES] - 1
  <2>1. Place[LEN_BYTES] \in Nat /\ MAX_RECORD_BYTES \in 1 .. Place[LEN_BYTES] - 1
    BY <1>1, StreamAssumption, PlaceFacts
  <2> HIDE DEF size
  <2> QED BY <1>4, <2>1
<1> DEFINE v == Visit(P, g, i)
           e == End(h, n)
           f == End(h, n + 1)
<1> HIDE DEF W, P, r, size, e, f
<1>9. e \in Nat /\ f = e + (1 + LEN_BYTES + size) /\ e <= l /\ i = e + 1 /\ size \in Nat
  BY <1>4, <1>6, <1>8 DEF e, f
<1>10. \A j \in 1 .. 1 + LEN_BYTES + size : e + j <= l => P[e + j] = record(r)[j]
  <2> SUFFICES ASSUME NEW j \in 1 .. 1 + LEN_BYTES + size, e + j <= l
               PROVE  P[e + j] = record(r)[j]
    OBVIOUS
  <2>1. e + j \in 1 .. l
    BY <1>1, <1>3, <1>9
  <2>2. W[e + j] = record(r)[j]
    BY <1>7, Zenon DEF e
  <2> QED BY <1>2, <2>1, <2>2
<1> HIDE DEF i
<1>11. CASE i > l
  <2>1. l < f
    BY <1>1, <1>3, <1>9, <1>11
  <2>2. v = Malformed
    BY <1>2, <1>11 DEF Visit, NoEnd
  <2> QED BY <2>1, <2>2 DEF P, W, i, f, e
<1>12. CASE i <= l
  <2>1. P[i] = r.type /\ P[i] # RT_END
    <3>1. 1 \in 1 .. 1 + LEN_BYTES + size
      BY <1>1, <1>9
    <3>2. P[i] = record(r)[1]
      BY <1>9, <1>10, <1>12, <3>1
    <3>3. 1 .. BASE - 1 \subseteq Nat \ {0}
      BY StreamAssumption
    <3> QED BY <1>5, <3>2, <3>3 DEF RT_END
  <2>2. ~(i > l)
    BY <1>3, <1>9, <1>12
  <2>3. CASE i + LEN_BYTES > l
    <3>1. l < f
      BY <1>1, <1>3, <1>9, <2>3
    <3>2. v = Malformed
      BY <1>2, <2>1, <2>2, <2>3 DEF Visit
    <3> QED BY <3>1, <3>2 DEF P, W, i, f, e
  <2>4. CASE ~(i + LEN_BYTES > l)
    <3>1. UnpackLen(P, i + 1) = size
      <4>1. ASSUME NEW k \in 1 .. LEN_BYTES
            PROVE  P[(i + 1) + k - 1] = PackLen(size)[k]
        <5>1. (i + 1) + k - 1 = e + (1 + k) /\ e + (1 + k) <= l
          BY <1>1, <1>3, <1>9, <2>4
        <5>2. 1 + k \in 1 .. 1 + LEN_BYTES + size
          BY <1>1, <1>9
        <5>3. P[e + (1 + k)] = record(r)[1 + k]
          BY <1>10, <5>1, <5>2
        <5> QED BY <1>5, <5>1, <5>3
      <4> QED BY <1>8, <4>1, LengthReadBack
    <3>2. start \in Nat /\ start + size = f + 1 /\ start + size - 1 = f
      BY <1>1, <1>9
    <3>3. Fits(P, start, size) <=> f <= l
      BY <1>2, <1>4, <1>8, <3>2 DEF Fits
    <3>4. CASE ~(f <= l)
      <4>1. l < f
        BY <1>1, <1>3, <1>9, <3>4
      <4>2. v = Malformed
        BY <1>2, <2>1, <2>2, <2>4, <3>1, <3>3, <3>4 DEF Visit
      <4> QED BY <4>1, <4>2 DEF P, W, i, f, e
    <3>5. CASE f <= l
      <4>1. ~(l < f)
        BY <1>1, <1>3, <1>9, <3>5
      <4>2. SubSeq(P, start, start + size - 1) = r.payload
        <5> DEFINE q == SubSeq(P, start, f)
        <5>1. r.payload \in Seq(0 .. BASE - 1)
          BY <1>4 DEF Records
        <5>2. \A j \in start .. f : P[j] \in Nat
          <6>1. start .. f \subseteq 1 .. Len(P)
            BY <1>2, <1>3, <1>9, <3>2, <3>5, <1>1
          <6> QED BY <1>2, <6>1, ElementOfSeq
        <5>3. /\ q \in Seq(Nat) /\ Len(q) = IF start <= f THEN f - start + 1 ELSE 0
              /\ \A j \in 1 .. f - start + 1 : q[j] = P[start + j - 1]
          <6>1. start \in Int /\ f \in Int
            BY <1>1, <1>9, <3>2
          <6> QED BY <5>2, <6>1, SubSeqProperties
        <5>4. f - start + 1 = size /\ Len(q) = size
          <6>1. f - start + 1 = size /\ (start <= f \/ size = 0)
            BY <1>1, <1>9, <3>2
          <6>2. ~(start <= f) => size = 0
            BY <6>1
          <6> QED BY ONLY <5>3, <6>1, <6>2
        <5>5. ASSUME NEW j \in 1 .. size PROVE q[j] = r.payload[j]
          <6>1. start + j - 1 = e + (1 + LEN_BYTES + j) /\ e + (1 + LEN_BYTES + j) <= l
            BY <1>1, <1>3, <1>9, <3>5
          <6>2. 1 + LEN_BYTES + j \in 1 .. 1 + LEN_BYTES + size
            BY <1>1, <1>9
          <6>3. P[e + (1 + LEN_BYTES + j)] = record(r)[1 + LEN_BYTES + j]
            BY <1>10, <6>1, <6>2
          <6> QED BY <1>5, <5>3, <5>4, <6>1, <6>3
        <5> HIDE DEF q
        <5>6. q = r.payload
          <6>1. r.payload \in [1 .. size -> 0 .. BASE - 1]
            BY <5>1, LenProperties DEF size
          <6>2. q \in [1 .. size -> Nat]
            BY <5>3, <5>4, LenProperties
          <6>3. q = [j \in 1 .. size |-> q[j]] /\ r.payload = [j \in 1 .. size |-> r.payload[j]]
            BY <6>1, <6>2
          <6> QED BY <5>5, <6>3
        <5> QED BY <3>2, <5>6 DEF q
      <4>3. Rec(P[i], r.payload) = r
        BY <1>4, <2>1 DEF Rec, Records
      <4>4. v = IF ~g[start + size].ok THEN Malformed
                ELSE Parsed(<<Rec(P[i], SubSeq(P, start, start + size - 1))>>
                              \o g[start + size].recs)
        BY <1>2, <2>1, <2>2, <2>4, <3>1, <3>3, <3>5 DEF Visit
      <4>5. v = IF ~g[f + 1].ok THEN Malformed ELSE Parsed(<<r>> \o g[f + 1].recs)
        BY <3>2, <4>2, <4>3, <4>4
      <4> QED BY <4>1, <4>5 DEF P, W, i, f, e, r
    <3> QED BY <3>4, <3>5
  <2> QED BY <2>3, <2>4
<1> QED BY <1>3, <1>9, <1>11, <1>12

(* A stream reads back as the records it was written from, and no beginning *)
(* of it that is cut short is a stream (parse_cth1 of                       *)
(* check_history_snapshot.py against stream of the generator).              *)
THEOREM StreamReadBack ==
    ASSUME NEW h \in RecordLists, NEW l \in 0 .. Len(stream(h))
    PROVE  parse_cth1(SubSeq(stream(h), 1, l)) =
             IF l = Len(stream(h)) THEN Parsed(h) ELSE Malformed
<1> DEFINE W == stream(h)
           P == SubSeq(W, 1, l)
           L == Len(h)
           walk == Walk(P)
           Claim(n) == End(h, n) <= l =>
               walk[End(h, n) + 1] =
                 IF l = Len(W) THEN Parsed(SubSeq(h, n + 1, L)) ELSE Malformed
           T == {d \in Nat : d <= L => Claim(L - d)}
<1>1. W \in Seq(Nat) /\ L \in Nat /\ Len(W) = End(h, L) + 1 /\ W[End(h, L) + 1] = RT_END
  BY StreamLayout
<1>2. P \in Seq(Nat) /\ Len(P) = l /\ \A j \in 1 .. l : P[j] = W[j]
  BY <1>1, Beginning
<1>3. l \in Nat /\ \A n \in 0 .. L : End(h, n) \in 2 .. End(h, L)
  BY <1>2, LenProperties, StreamLayout
<1>4. \A i \in 1 .. l + 1 : walk[i] = Visit(P, walk, i)
  BY <1>2, WalkIsDefined
<1>5. h \in Seq(Records)
  BY DEF RecordLists
<1> HIDE DEF walk
<1>6. 0 \in T
  <2> SUFFICES ASSUME End(h, L) <= l
               PROVE  walk[End(h, L) + 1] =
                        IF l = Len(W) THEN Parsed(SubSeq(h, L + 1, L)) ELSE Malformed
    <3>1. L - 0 = L
      BY <1>1
    <3> QED BY <3>1
  <2> DEFINE e == End(h, L)
  <2>1. e \in Nat /\ e <= l /\ e + 1 \in 1 .. l + 1
    <3>1. L \in 0 .. L
      BY <1>1
    <3> QED BY <1>1, <1>3, <3>1
  <2>2. SubSeq(h, L + 1, L) = <<>>
    BY <1>1, SubSeqEmpty
  <2> HIDE DEF e, P, W
  <2>3. walk[e + 1] = Visit(P, walk, e + 1) /\ Len(W) = e + 1 /\ W[e + 1] = RT_END
    BY <1>1, <1>4, <2>1 DEF e
  <2>4. CASE l = Len(W)
    <3>1. ~(e + 1 > l) /\ P[e + 1] = RT_END /\ e + 1 = l
      BY <1>2, <1>3, <2>1, <2>3, <2>4
    <3>2. walk[e + 1] = Parsed(<<>>)
      BY <1>2, <2>3, <3>1 DEF Visit, EndsHere
    <3> QED BY <2>2, <2>4, <3>2 DEF e
  <2>5. CASE l # Len(W)
    <3>1. e + 1 > l
      BY <1>1, <1>3, <2>1, <2>3, <2>5 DEF W
    <3>2. walk[e + 1] = Malformed
      BY <1>2, <2>3, <3>1 DEF Visit, NoEnd
    <3> QED BY <2>5, <3>2 DEF e
  <2> QED BY <2>4, <2>5
<1>7. ASSUME NEW d \in T
      PROVE  d + 1 \in T
  <2> SUFFICES ASSUME d + 1 <= L PROVE Claim(L - (d + 1))
    OBVIOUS
  <2>0. PICK n \in Nat : n = L - (d + 1)
    <3>1. \A a, b \in Nat : b + 1 <= a => a - (b + 1) \in Nat
      OBVIOUS
    <3>2. L - (d + 1) \in Nat
      BY <1>1, <3>1
    <3> QED BY <3>2, Zenon
  <2>1. n \in 0 .. L - 1 /\ L - d = n + 1 /\ n + 1 \in 1 .. L /\ d <= L /\ n + 1 \in 0 .. L
    BY <1>1, <2>0
  <2>2. Claim(n + 1)
    BY <2>1
  <2> SUFFICES Claim(n)
    BY <2>0
  <2> SUFFICES ASSUME End(h, n) <= l
               PROVE  walk[End(h, n) + 1] =
                        IF l = Len(W) THEN Parsed(SubSeq(h, n + 1, L)) ELSE Malformed
    OBVIOUS
  <2> DEFINE f == End(h, n + 1)
  <2>3. /\ f \in Nat /\ f < Len(W)
        /\ End(h, n) + 1 \in 1 .. l + 1
    <3>1. n \in 0 .. L
      BY <1>1, <2>1
    <3>2. f \in 2 .. End(h, L) /\ End(h, n) \in 2 .. End(h, L)
      BY <1>3, <2>1, <3>1
    <3>3. End(h, L) \in Nat
      <4>1. L \in 0 .. L
        BY <1>1
      <4> QED BY <1>3, <4>1
    <3>4. \A a, b \in Nat : a \in 2 .. b => a < b + 1 /\ a + 1 \in 1 .. b + 1
      OBVIOUS
    <3>5. f \in Nat /\ f < Len(W) /\ End(h, n) \in Nat
      <4>1. 2 .. End(h, L) \subseteq Nat
        BY <3>3
      <4>2. f \in Nat /\ End(h, n) \in Nat
        BY <3>2, <4>1
      <4> QED BY <1>1, <3>2, <3>3, <3>4, <4>2
    <3>6. \A a, b \in Nat : a <= b => a + 1 \in 1 .. b + 1
      OBVIOUS
    <3> QED BY <1>3, <3>5, <3>6
  <2>4. walk[End(h, n) + 1] =
          IF l < f THEN Malformed
          ELSE IF ~walk[f + 1].ok THEN Malformed
          ELSE Parsed(<<h[n + 1]>> \o walk[f + 1].recs)
    BY <1>4, <2>1, <2>3, VisitRecord
  <2>5. f <= l => walk[f + 1] =
          IF l = Len(W) THEN Parsed(SubSeq(h, (n + 1) + 1, L)) ELSE Malformed
    BY <2>2
  <2> HIDE DEF f, W, P
  <2>6. CASE l < f
    <3>1. l # Len(W)
      BY <1>3, <2>3, <2>6
    <3> QED BY <2>4, <2>6, <3>1
  <2>7. CASE ~(l < f)
    <3>1. f <= l
      BY <1>3, <2>3, <2>7
    <3>2. CASE l # Len(W)
      <4>1. ~walk[f + 1].ok
        BY <2>5, <3>1, <3>2 DEF Malformed
      <4> QED BY <2>4, <2>7, <3>2, <4>1
    <3>3. CASE l = Len(W)
      <4>1. SubSeq(h, n + 1, L) = <<h[n + 1]>> \o SubSeq(h, (n + 1) + 1, L)
        <5>1. n + 1 \in 1 .. Len(h) /\ L \in n + 1 .. Len(h)
          BY <1>1, <2>1
        <5> QED BY <1>5, <5>1, SubSeqRecursiveFirst
      <4> DEFINE rest == SubSeq(h, (n + 1) + 1, L)
      <4> HIDE DEF rest
      <4>2. walk[f + 1] = Parsed(rest)
        BY <2>5, <3>1, <3>3 DEF rest
      <4>3. walk[f + 1].ok /\ walk[f + 1].recs = rest
        BY <4>2 DEF Parsed
      <4> QED BY <2>4, <2>7, <3>3, <4>1, <4>3 DEF rest
    <3> QED BY <3>2, <3>3
  <2> QED BY <2>6, <2>7
<1>8. T = Nat
  <2>1. T \subseteq Nat
    OBVIOUS
  <2> HIDE DEF T
  <2> QED BY <1>6, <1>7, <2>1, SetInduction
<1>9. Claim(0)
  <2>1. L \in T /\ L <= L /\ L - L = 0
    BY <1>1, <1>8
  <2> HIDE DEF Claim
  <2> QED BY <2>1
<1>10. End(h, 0) = 2 /\ SubSeq(h, 0 + 1, L) = h /\ W[1] = MAGIC /\ W[2] = VERSION
  BY <1>5, StreamLayout, SubSeqFull
<1>11. parse_cth1(P) = IF Len(P) >= 3 /\ P[1] = MAGIC /\ P[2] = VERSION
                       THEN walk[3] ELSE Malformed
  BY ParseIsWalk DEF walk
<1>12. Len(W) \in Nat /\ Len(W) >= 3
  <2>1. 0 \in 0 .. L /\ L \in 0 .. L
    BY <1>1
  <2> QED BY <1>1, <1>3, <2>1
<1> HIDE DEF P, W
<1>13. CASE l >= 3
  <2>1. P[1] = MAGIC /\ P[2] = VERSION
    BY <1>2, <1>3, <1>10, <1>13
  <2>2. 2 <= l /\ 2 + 1 = 3
    BY <1>3, <1>13
  <2>3. walk[3] = IF l = Len(W) THEN Parsed(h) ELSE Malformed
    BY <1>9, <1>10, <2>2
  <2> QED BY <1>2, <1>11, <1>13, <2>1, <2>3 DEF P, W
<1>14. CASE ~(l >= 3)
  BY <1>2, <1>3, <1>11, <1>12, <1>14 DEF P, W
<1> QED BY <1>13, <1>14

(* One more record at the end of a list leaves what came before it. *)
LEMMA UpToAppend ==
    ASSUME NEW h \in RecordLists, NEW r \in Records, Len(r.payload) <= MAX_RECORD_BYTES
    PROVE  /\ Append(h, r) \in RecordLists /\ Len(Append(h, r)) = Len(h) + 1
           /\ UpTo(Append(h, r))[Len(h) + 1] = UpTo(h)[Len(h)] \o record(r)
<1>1. PICK g : g = Append(h, r)
  OBVIOUS
<1>2. h \in Seq(Records) /\ Len(h) \in Nat
  BY LenProperties DEF RecordLists
<1>3. /\ g \in Seq(Records) /\ Len(g) = Len(h) + 1 /\ g[Len(h) + 1] = r
      /\ \A n \in 1 .. Len(h) : g[n] = h[n]
  BY <1>1, <1>2, AppendProperties
<1>4. g \in RecordLists
  <2>1. ASSUME NEW k \in DOMAIN g PROVE Len(g[k].payload) <= MAX_RECORD_BYTES
    <3>1. k \in 1 .. Len(h) + 1
      BY <1>3, LenProperties
    <3>2. CASE k = Len(h) + 1
      BY <1>3, <3>2
    <3>3. CASE k # Len(h) + 1
      <4>1. k \in 1 .. Len(h)
        BY <1>2, <3>1, <3>3
      <4>2. k \in DOMAIN h
        BY <1>2, <4>1, LenProperties
      <4> QED BY <1>3, <4>1, <4>2 DEF RecordLists
    <3> QED BY <3>2, <3>3
  <2> QED BY <1>3, <2>1 DEF RecordLists
<1> DEFINE T == {n \in Nat : n <= Len(h) => UpTo(g)[n] = UpTo(h)[n]}
<1>5. T = Nat
  <2>1. T \subseteq Nat /\ 0 \in T
    BY <1>4, UpToSteps
  <2>2. ASSUME NEW n \in T PROVE n + 1 \in T
    <3> SUFFICES ASSUME n + 1 <= Len(h) PROVE UpTo(g)[n + 1] = UpTo(h)[n + 1]
      OBVIOUS
    <3>1. /\ n \in Nat /\ n <= Len(h) /\ n \in 0 .. Len(h) - 1 /\ n \in 0 .. Len(g) - 1
          /\ n + 1 \in 1 .. Len(h)
      BY <1>2, <1>3
    <3>2. UpTo(g)[n] = UpTo(h)[n]
      BY <3>1
    <3>3. UpTo(g)[n + 1] = UpTo(g)[n] \o record(g[n + 1])
      BY <1>4, <3>1, UpToSteps
    <3>4. UpTo(h)[n + 1] = UpTo(h)[n] \o record(h[n + 1])
      BY <3>1, UpToSteps
    <3>5. g[n + 1] = h[n + 1]
      BY <1>3, <3>1
    <3> QED BY <3>2, <3>3, <3>4, <3>5
  <2> HIDE DEF T
  <2> QED BY <2>1, <2>2, SetInduction
<1>6. UpTo(g)[Len(h)] = UpTo(h)[Len(h)]
  BY <1>2, <1>5
<1>7. UpTo(g)[Len(h) + 1] = UpTo(g)[Len(h)] \o record(g[Len(h) + 1])
  <2>1. Len(h) \in 0 .. Len(g) - 1
    BY <1>2, <1>3
  <2> QED BY <1>4, <2>1, UpToSteps
<1> QED BY <1>1, <1>3, <1>4, <1>6, <1>7

(* A record that the reader finds is written with the bytes it was found in. *)
LEMMA RecordWrittenBack ==
    ASSUME NEW raw \in Seq(Nat), NEW i \in 1 .. Len(raw),
           \A j \in i .. Len(raw) : raw[j] \in 0 .. BASE - 1,
           raw[i] # RT_END, i + LEN_BYTES <= Len(raw),
           NEW plen, plen = UnpackLen(raw, i + 1), Fits(raw, i + 1 + LEN_BYTES, plen),
           NEW r, r = Rec(raw[i], SubSeq(raw, i + 1 + LEN_BYTES, i + 1 + LEN_BYTES + plen - 1))
    PROVE  /\ plen \in Nat /\ r \in Records /\ Len(r.payload) <= MAX_RECORD_BYTES
           /\ record(r) = SubSeq(raw, i, i + LEN_BYTES + plen)
           /\ i + LEN_BYTES + plen <= Len(raw)
<1>0. LEN_BYTES \in Nat \ {0} /\ BASE \in Nat \ {0} /\ Len(raw) \in Nat
  BY StreamAssumption, LenProperties
<1>1. ASSUME NEW k \in 1 .. LEN_BYTES PROVE raw[(i + 1) + k - 1] \in 0 .. BASE - 1
  <2>1. (i + 1) + k - 1 \in i .. Len(raw)
    BY <1>0
  <2> QED BY <2>1
<1>2. 0 .. BASE - 1 \subseteq Nat
  BY <1>0
<1>3. plen \in Nat /\ \A k \in 1 .. LEN_BYTES : PackLen(plen)[k] = raw[(i + 1) + k - 1]
  BY <1>1, <1>2, LengthIsNat, LengthWrittenBack
<1>4. PICK start \in Nat : start = i + 1 + LEN_BYTES
  BY <1>0
<1>5. plen <= MAX_RECORD_BYTES /\ start + plen - 1 <= Len(raw)
  BY <1>4 DEF Fits
<1>6. PICK e \in Nat : e = i + LEN_BYTES + plen /\ e = start + plen - 1 /\ e <= Len(raw)
                       /\ e >= i
  BY <1>0, <1>3, <1>4, <1>5
<1> DEFINE body == SubSeq(raw, start, e)
<1>7. /\ body \in Seq(0 .. BASE - 1) /\ Len(body) = plen
      /\ \A k \in 1 .. plen : body[k] = raw[start + k - 1]
  <2>1. \A j \in start .. e : raw[j] \in 0 .. BASE - 1
    <3>1. start .. e \subseteq i .. Len(raw)
      BY <1>0, <1>4, <1>6
    <3> QED BY <3>1
  <2>2. start \in Int /\ e \in Int
    BY <1>4, <1>6
  <2>3. /\ body \in Seq(0 .. BASE - 1)
        /\ Len(body) = IF start <= e THEN e - start + 1 ELSE 0
        /\ \A k \in 1 .. e - start + 1 : body[k] = raw[start + k - 1]
    BY <2>1, <2>2, SubSeqProperties
  <2>4. e - start + 1 = plen /\ (start <= e \/ plen = 0)
    BY ONLY <1>3, <1>4, <1>6, start \in Nat, e \in Nat
  <2> HIDE DEF body
  <2> QED BY <2>3, <2>4
<1>8. r = Rec(raw[i], body)
  BY <1>4, <1>6
<1> HIDE DEF body
<1>9. r.type = raw[i] /\ r.payload = body
  BY <1>8 DEF Rec
<1>10. r \in Records
  <2>1. raw[i] \in 1 .. BASE - 1
    <3>1. raw[i] \in 0 .. BASE - 1
      BY <1>0
    <3> QED BY <1>0, <3>1 DEF RT_END
  <2>2. \A x \in 1 .. BASE - 1, y \in Seq(0 .. BASE - 1) : Rec(x, y) \in Records
    BY DEF Rec, Records
  <2> QED BY <1>7, <1>8, <2>1, <2>2
<1> DEFINE w == record(r)
           q == SubSeq(raw, i, e)
<1>11. /\ w \in Seq(Nat) /\ Len(w) = 1 + LEN_BYTES + plen /\ w[1] = raw[i]
       /\ \A k \in 1 .. LEN_BYTES : w[1 + k] = PackLen(plen)[k]
       /\ \A k \in 1 .. plen : w[1 + LEN_BYTES + k] = body[k]
  BY <1>7, <1>9, <1>10, RecordLayout
<1>12. /\ q \in Seq(Nat) /\ Len(q) = 1 + LEN_BYTES + plen
       /\ \A k \in 1 .. 1 + LEN_BYTES + plen : q[k] = raw[i + k - 1]
  <2>1. i \in 1 .. Len(raw) + 1 /\ e \in 0 .. Len(raw)
    BY <1>0, <1>6
  <2>2. /\ q \in Seq(Nat) /\ Len(q) = IF i <= e THEN e - i + 1 ELSE 0
        /\ \A k \in 1 .. e - i + 1 : q[k] = raw[i + k - 1]
    <3>1. raw \in Seq(Nat)
      OBVIOUS
    <3> QED BY ONLY <2>1, <3>1, PartOf
  <2>3. e - i + 1 = 1 + LEN_BYTES + plen /\ i <= e
    BY ONLY <1>0, <1>3, <1>6, e \in Nat, <2>1
  <2> HIDE DEF q
  <2> QED BY <2>2, <2>3
<1> HIDE DEF w, q
<1>13. ASSUME NEW k \in 1 .. 1 + LEN_BYTES + plen PROVE w[k] = q[k]
  <2>0. q[k] = raw[i + k - 1]
    BY <1>12
  <2>1. CASE k = 1
    <3>1. i + 1 - 1 = i
      BY <1>0
    <3> QED BY <1>11, <2>0, <2>1, <3>1
  <2>2. CASE k \in 2 .. 1 + LEN_BYTES
    <3>1. k - 1 \in 1 .. LEN_BYTES /\ 1 + (k - 1) = k /\ (i + 1) + (k - 1) - 1 = i + k - 1
      BY <1>0, <2>2
    <3>2. w[1 + (k - 1)] = PackLen(plen)[k - 1]
      BY <1>11, <3>1
    <3>3. PackLen(plen)[k - 1] = raw[(i + 1) + (k - 1) - 1]
      BY <1>3, <3>1
    <3> QED BY <2>0, <3>1, <3>2, <3>3
  <2>3. CASE k > 1 + LEN_BYTES
    <3>1. PICK j \in 1 .. plen : k = 1 + LEN_BYTES + j
      <4>1. k - (1 + LEN_BYTES) \in 1 .. plen /\ k = 1 + LEN_BYTES + (k - (1 + LEN_BYTES))
        BY <1>0, <1>3, <2>3
      <4> QED BY <4>1
    <3>2. start + j - 1 = i + k - 1
      BY <1>0, <1>3, <1>4, <3>1
    <3> QED BY <1>7, <1>11, <2>0, <3>1, <3>2
  <2>4. k = 1 \/ k \in 2 .. 1 + LEN_BYTES \/ k > 1 + LEN_BYTES
    BY ONLY <1>0, <1>3, k \in 1 .. 1 + LEN_BYTES + plen
  <2> QED BY <2>1, <2>2, <2>3, <2>4, Zenon
<1>14. w = q
  <2>1. /\ w = [k \in 1 .. 1 + LEN_BYTES + plen |-> w[k]]
        /\ q = [k \in 1 .. 1 + LEN_BYTES + plen |-> q[k]]
    BY <1>11, <1>12, LenProperties
  <2> QED BY <1>13, <2>1
<1> QED BY <1>3, <1>5, <1>6, <1>7, <1>9, <1>10, <1>14 DEF w, q

(* A list of records has one writing: what parse_cth1 accepts is byte for   *)
(* byte the stream that the generator writes for the records it found.      *)
(* (The magic may lie outside the bytes when BASE is small.)                *)
THEOREM StreamIsTheOnlyOne ==
    ASSUME NEW raw \in Seq(Nat), \A j \in 3 .. Len(raw) : raw[j] \in 0 .. BASE - 1,
           parse_cth1(raw).ok
    PROVE  parse_cth1(raw).recs \in RecordLists /\ stream(parse_cth1(raw).recs) = raw
<1> DEFINE N == Len(raw)
           walk == Walk(raw)
           Left(i, q) == UpTo(q)[Len(q)] = SubSeq(raw, 1, i - 1)
           Right(i, q) == q \o walk[i].recs \in RecordLists /\ stream(q \o walk[i].recs) = raw
           Claim(i) == walk[i].ok =>
               walk[i].recs \in Seq(Records) /\ \A q \in RecordLists : Left(i, q) => Right(i, q)
           T == {d \in Nat : \A i \in 3 .. N + 1 : i + d >= N + 1 => Claim(i)}
<1>0. N \in Nat /\ LEN_BYTES \in Nat \ {0}
  BY StreamAssumption, LenProperties
<1>1. \A i \in 1 .. N + 1 : walk[i] = Visit(raw, walk, i)
  BY WalkIsDefined
<1> HIDE DEF walk
<1>2. ASSUME NEW i \in 3 .. N + 1, \A j \in i + 1 .. N + 1 : Claim(j)
      PROVE  Claim(i)
  <2> SUFFICES ASSUME walk[i].ok
               PROVE  walk[i].recs \in Seq(Records) /\ \A q \in RecordLists : Left(i, q) => Right(i, q)
    OBVIOUS
  <2>1. walk[i] = Visit(raw, walk, i) /\ ~Malformed.ok
    <3>1. i \in 1 .. N + 1
      BY <1>0
    <3> QED BY <1>1, <3>1 DEF Malformed
  <2>2. i <= N /\ ~(i > N)
    <3>1. ~(i > N)
      BY <2>1 DEF Visit, NoEnd
    <3> QED BY <1>0, <3>1
  <2>3. CASE raw[i] = RT_END
    <3>1. i = N /\ walk[i] = Parsed(<<>>)
      BY <2>1, <2>2, <2>3 DEF Visit, EndsHere
    <3>2. walk[i].recs = <<>>
      BY <3>1 DEF Parsed
    <3>3. ASSUME NEW q \in RecordLists, Left(i, q) PROVE Right(i, q)
      <4>1. q \in Seq(Records)
        BY DEF RecordLists
      <4>2. q \o <<>> = q
        BY <4>1, ConcatEmptySeq
      <4>3. stream(q) = Append(SubSeq(raw, 1, N - 1), raw[N])
        BY <2>3, <3>1, <3>3, UpToSteps
      <4>4. Append(SubSeq(raw, 1, N - 1), raw[N]) = raw
        <5> DEFINE a == SubSeq(raw, 1, N - 1)
                   b == Append(a, raw[N])
        <5>1. a \in Seq(Nat) /\ Len(a) = N - 1 /\ \A k \in 1 .. N - 1 : a[k] = raw[k]
          <6>1. N - 1 \in 0 .. Len(raw)
            BY <1>0, <2>2
          <6> QED BY <6>1, Beginning
        <5> HIDE DEF a
        <5>2. /\ b \in Seq(Nat) /\ Len(b) = Len(a) + 1 /\ b[Len(a) + 1] = raw[N]
              /\ \A k \in 1 .. Len(a) : b[k] = a[k]
          <6>1. raw[N] \in Nat
            <7>1. N \in 1 .. Len(raw)
              BY <1>0, <2>2
            <7> QED BY <7>1, ElementOfSeq
          <6> QED BY <5>1, <6>1, AppendProperties
        <5> HIDE DEF b
        <5>3. Len(a) + 1 = N
          BY <1>0, <5>1
        <5>4. ASSUME NEW k \in 1 .. N PROVE b[k] = raw[k]
          <6>1. k = N \/ k \in 1 .. N - 1
            BY <1>0
          <6> QED BY <5>1, <5>2, <5>3, <6>1
        <5>5. b = [k \in 1 .. N |-> b[k]] /\ raw = [k \in 1 .. N |-> raw[k]]
          BY <5>2, <5>3, LenProperties
        <5>6. b = raw
          BY <5>4, <5>5
        <5> QED BY <5>6 DEF b, a
      <4> QED BY <3>2, <4>2, <4>3, <4>4
    <3>4. <<>> \in Seq(Records)
      BY EmptySeq
    <3> QED BY <3>2, <3>3, <3>4
  <2>4. CASE raw[i] # RT_END
    <3>1. ~(i + LEN_BYTES > N)
      BY <2>1, <2>2, <2>4 DEF Visit
    <3>2. PICK plen : plen = UnpackLen(raw, i + 1)
      OBVIOUS
    <3>3. Fits(raw, i + 1 + LEN_BYTES, plen)
      BY <2>1, <2>2, <2>4, <3>1, <3>2 DEF Visit
    <3>4. PICK r : r = Rec(raw[i], SubSeq(raw, i + 1 + LEN_BYTES, i + 1 + LEN_BYTES + plen - 1))
      OBVIOUS
    <3>5. /\ plen \in Nat /\ r \in Records /\ Len(r.payload) <= MAX_RECORD_BYTES
          /\ record(r) = SubSeq(raw, i, i + LEN_BYTES + plen)
          /\ i + LEN_BYTES + plen <= N
      <4>1. \A j \in i .. Len(raw) : raw[j] \in 0 .. BASE - 1
        BY <1>0
      <4>2. i \in 1 .. Len(raw) /\ i + LEN_BYTES <= Len(raw)
        BY <1>0, <2>2, <3>1
      <4> QED BY <2>4, <3>2, <3>3, <3>4, <4>1, <4>2, RecordWrittenBack
    <3>6. PICK j : j = i + 1 + LEN_BYTES + plen /\ j \in i + 1 .. N + 1 /\ j \in 3 .. N + 1
                   /\ j - 1 = i + LEN_BYTES + plen
      BY <1>0, <3>5
    <3>7. walk[j].ok /\ walk[i] = Parsed(<<r>> \o walk[j].recs)
      <4>1. walk[i] = IF ~walk[j].ok THEN Malformed ELSE Parsed(<<r>> \o walk[j].recs)
        BY <2>1, <2>2, <2>4, <3>1, <3>2, <3>3, <3>4, <3>6 DEF Visit
      <4> QED BY <2>1, <4>1
    <3>8. PICK rest \in Seq(Records) : rest = walk[j].recs
      BY <1>2, <3>6, <3>7
    <3> DEFINE one == <<r>>
    <3>9. one \in Seq(Records) /\ walk[i].recs = one \o rest
      <4>1. walk[i].recs = <<r>> \o walk[j].recs
        BY <3>7 DEF Parsed
      <4> QED BY <3>5, <3>8, <4>1
    <3>10. ASSUME NEW q \in RecordLists PROVE Append(q, r) = q \o one
      <4>1. q \in Seq(Records)
        BY DEF RecordLists
      <4> QED BY <3>5, <4>1, AppendIsConcat
    <3> HIDE DEF one
    <3>11. ASSUME NEW q \in RecordLists, Left(i, q) PROVE Right(i, q)
      <4>1. PICK p : p = Append(q, r)
        OBVIOUS
      <4>2. /\ p \in RecordLists /\ Len(p) = Len(q) + 1
            /\ UpTo(p)[Len(q) + 1] = UpTo(q)[Len(q)] \o record(r)
        BY <3>5, <4>1, UpToAppend
      <4>3. Left(j, p)
        <5>1. UpTo(p)[Len(p)] = SubSeq(raw, 1, i - 1) \o SubSeq(raw, i, j - 1)
          BY <3>5, <3>6, <3>11, <4>2
        <5>2. SubSeq(raw, 1, i - 1) \o SubSeq(raw, (i - 1) + 1, j - 1) = SubSeq(raw, 1, j - 1)
          <6>1. 1 \in 1 .. Len(raw) + 1 /\ i - 1 \in 1 - 1 .. Len(raw)
                /\ j - 1 \in i - 1 .. Len(raw)
            BY ONLY <1>0, <1>2, <3>6, i \in 3 .. N + 1
          <6> QED BY <6>1, ConcatAdjacentSubSeq
        <5>3. (i - 1) + 1 = i
          BY <1>0
        <5> QED BY <5>1, <5>2, <5>3
      <4>4. p \o rest \in RecordLists /\ stream(p \o rest) = raw
        BY <1>2, <3>6, <3>7, <3>8, <4>2, <4>3
      <4>5. p \o rest = q \o (one \o rest)
        <5>1. q \in Seq(Records)
          BY DEF RecordLists
        <5>2. (q \o one) \o rest = q \o (one \o rest)
          <6>1. one \in Seq(Records) /\ rest \in Seq(Records)
            BY <3>8, <3>9
          <6>2. PICK a, b, c : a = q /\ b = one /\ c = rest
            OBVIOUS
          <6>3. a \in Seq(Records) /\ b \in Seq(Records) /\ c \in Seq(Records)
            BY <5>1, <6>1, <6>2
          <6>4. (a \o b) \o c = a \o (b \o c)
            BY ONLY <6>3, ConcatAssociative
          <6> QED BY <6>2, <6>4, Zenon
        <5> QED BY <3>10, <4>1, <5>2
      <4> QED BY <3>9, <4>4, <4>5
    <3>12. one \o rest \in Seq(Records)
      BY <3>8, <3>9, ConcatProperties
    <3> QED BY <3>9, <3>11, <3>12
  <2> QED BY <2>3, <2>4
<1> HIDE DEF Claim
<1>3. T = Nat
  <2>1. T \subseteq Nat
    OBVIOUS
  <2>2. 0 \in T
    <3>1. ASSUME NEW i \in 3 .. N + 1, i + 0 >= N + 1 PROVE Claim(i)
      <4>1. \A j \in i + 1 .. N + 1 : Claim(j)
        BY <1>0, <3>1
      <4> QED BY <1>2, <4>1
    <3> QED BY <3>1
  <2>3. ASSUME NEW d \in T PROVE d + 1 \in T
    <3>1. ASSUME NEW i \in 3 .. N + 1, i + (d + 1) >= N + 1 PROVE Claim(i)
      <4>1. ASSUME NEW j \in i + 1 .. N + 1 PROVE Claim(j)
        <5>1. j \in 3 .. N + 1 /\ j + d >= N + 1
          BY <1>0, <3>1
        <5> QED BY <5>1
      <4> QED BY <1>2, <4>1
    <3> QED BY <3>1
  <2> HIDE DEF T
  <2> QED BY <2>1, <2>2, <2>3, SetInduction
<1>4. /\ N >= 3 /\ raw[1] = MAGIC /\ raw[2] = VERSION
      /\ parse_cth1(raw) = walk[3] /\ walk[3].ok
  <2>1. parse_cth1(raw) = IF N >= 3 /\ raw[1] = MAGIC /\ raw[2] = VERSION
                           THEN walk[3] ELSE Malformed
    BY ParseIsWalk DEF walk
  <2>2. ~Malformed.ok
    BY DEF Malformed
  <2> QED BY <2>1, <2>2
<1>5. Claim(3)
  <2>1. N \in T
    BY <1>0, <1>3, Zenon
  <2>2. 3 \in 3 .. N + 1 /\ 3 + N >= N + 1
    BY <1>0, <1>4
  <2> QED BY <2>1, <2>2
<1> DEFINE none == <<>>
<1>6. none \in RecordLists /\ Len(none) = 0
  BY EmptySeq DEF RecordLists
<1>7. Left(3, none)
  <2>1. UpTo(none)[0] = <<MAGIC, VERSION>>
    BY <1>6, UpToSteps
  <2>2. SubSeq(raw, 1, 3 - 1) = <<MAGIC, VERSION>>
    <3> DEFINE a == SubSeq(raw, 1, 2)
               b == <<MAGIC, VERSION>>
    <3>1. a \in Seq(Nat) /\ Len(a) = 2 /\ \A k \in 1 .. 2 : a[k] = raw[k]
      <4>1. 2 \in 0 .. Len(raw)
        BY <1>0, <1>4
      <4> QED BY <4>1, Beginning
    <3>2. b \in Seq(Nat) /\ Len(b) = 2 /\ b[1] = MAGIC /\ b[2] = VERSION
      BY DEF MAGIC, VERSION
    <3> HIDE DEF a, b
    <3>3. \A k \in 1 .. 2 : a[k] = b[k]
      <4>1. ASSUME NEW k \in 1 .. 2 PROVE a[k] = b[k]
        <5>1. k = 1 \/ k = 2
          OBVIOUS
        <5>2. a[1] = b[1] /\ a[2] = b[2]
          <6>1. 1 \in 1 .. 2 /\ 2 \in 1 .. 2
            OBVIOUS
          <6> QED BY <1>4, <3>1, <3>2, <6>1
        <5> QED BY <5>1, <5>2
      <4> QED BY <4>1
    <3>4. a = [k \in 1 .. 2 |-> a[k]] /\ b = [k \in 1 .. 2 |-> b[k]]
      BY <3>1, <3>2, LenProperties
    <3>5. a = b
      BY <3>3, <3>4
    <3> QED BY <3>5 DEF a, b
  <2> HIDE DEF none
  <2> QED BY <1>6, <2>1, <2>2
<1>8. walk[3].recs \in Seq(Records) /\ Right(3, none)
  <2> HIDE DEF none
  <2> QED BY <1>4, <1>5, <1>6, <1>7 DEF Claim
<1>9. none \o walk[3].recs = walk[3].recs
  BY <1>8, ConcatEmptySeq
<1> HIDE DEF none
<1> QED BY <1>4, <1>8, <1>9

-----------------------------------------------------------------------------
(* The stream that FormatChecks writes byte by byte, for any bytes and of   *)
(* any length: the run writes up to ten.                                    *)

(* Beyond magic and version, the bytes of a stream. *)
BytesInv ==
    subject = "stream" =>
        data \in Seq(Nat) /\ \A j \in 3 .. Len(data) : data[j] \in 0 .. BASE - 1

(* The stream that grows is made of the bytes it is given.                  *)
LEMMA BytesAreBytes ==
    ASSUME StreamBytes \subseteq 0 .. BASE - 1
    PROVE  Inputs => []BytesInv
<1>0. BASE \in Nat /\ StreamBytes \subseteq Nat
  <2>1. BASE \in Nat
    BY StreamAssumption
  <2> QED BY <2>1
<1>1. PickInput => BytesInv
  <2> SUFFICES ASSUME PickInput, subject = "stream"
               PROVE  data \in Seq(Nat) /\ \A j \in 3 .. Len(data) : data[j] \in 0 .. BASE - 1
    BY DEF BytesInv
  <2>1. data \in {<<>>, <<67>>, <<1, 1>>, <<67, 1>>, <<67, 2>>}
    BY DEF PickInput, MAGIC, VERSION
  <2>2. data \in Seq(Nat) /\ Len(data) <= 2
    <3>1. <<>> \in Seq(Nat) /\ Len(<<>>) <= 2
      BY EmptySeq
    <3>2. <<67>> \in Seq(Nat) /\ Len(<<67>>) <= 2
      OBVIOUS
    <3>3. \A x, y \in Nat : <<x, y>> \in Seq(Nat) /\ Len(<<x, y>>) <= 2
      OBVIOUS
    <3>4. 67 \in Nat /\ 1 \in Nat /\ 2 \in Nat
      OBVIOUS
    <3> QED BY <2>1, <3>1, <3>2, <3>3, <3>4, Zenon
  <2> QED BY <2>2
<1>2. BytesInv /\ [WriteMore]_inputs => BytesInv'
  <2> SUFFICES ASSUME BytesInv, [WriteMore]_inputs, subject' = "stream"
               PROVE  /\ data' \in Seq(Nat)
                      /\ \A j \in 3 .. Len(data') : data'[j] \in 0 .. BASE - 1
    BY DEF BytesInv
  <2>1. subject = "stream"
    BY DEF WriteMore, WriteStream, WritePhase, WriteBlob,
           WriteText, inputs
  <2>2. data \in Seq(Nat) /\ \A j \in 3 .. Len(data) : data[j] \in 0 .. BASE - 1
    BY <2>1 DEF BytesInv
  <2>3. ASSUME NEW b \in StreamBytes, data' = Append(data, b)
        PROVE  /\ data' \in Seq(Nat)
               /\ \A j \in 3 .. Len(data') : data'[j] \in 0 .. BASE - 1
    <3>1. /\ data' \in Seq(Nat) /\ Len(data') = Len(data) + 1 /\ Len(data) \in Nat
          /\ \A j \in 1 .. Len(data) : data'[j] = data[j]
          /\ data'[Len(data) + 1] = b
      <4>1. b \in Nat
        BY <1>0
      <4> QED BY <2>2, <2>3, <4>1, AppendProperties, LenProperties
    <3>2. ASSUME NEW j \in 3 .. Len(data') PROVE data'[j] \in 0 .. BASE - 1
      <4>1. CASE j = Len(data) + 1
        BY <3>1, <4>1
      <4>2. CASE j # Len(data) + 1
        <5>1. j \in 1 .. Len(data) /\ j \in 3 .. Len(data)
          BY <3>1, <4>2
        <5> QED BY <2>2, <3>1, <5>1
      <4> QED BY <4>1, <4>2
    <3> QED BY <3>1, <3>2
  <2>4. CASE data' = data
    BY <2>2, <2>4
  <2>5. data' = data \/ \E b \in StreamBytes : data' = Append(data, b)
    BY <2>1 DEF WriteMore, WriteStream, WritePhase, WriteBlob,
                WriteText, inputs
  <2> QED BY <2>3, <2>4, <2>5
<1> QED BY <1>1, <1>2, PTL DEF Inputs

(* Whatever the bytes and however long the stream: parse_cth1 accepts only  *)
(* what the generator writes for the records it finds, none over the cap.   *)
THEOREM AnyStreamHasOneWriting ==
    ASSUME StreamBytes \subseteq 0 .. BASE - 1
    PROVE  Inputs => []OneWriting
<1>1. BytesInv => OneWriting
  <2> SUFFICES ASSUME BytesInv, subject = "stream", parse_cth1(data).ok
               PROVE  /\ stream(parse_cth1(data).recs) = data
                      /\ \A k \in DOMAIN parse_cth1(data).recs :
                            Len(parse_cth1(data).recs[k].payload) <= MAX_RECORD_BYTES
    BY DEF OneWriting
  <2>1. parse_cth1(data).recs \in RecordLists /\ stream(parse_cth1(data).recs) = data
    BY StreamIsTheOnlyOne DEF BytesInv
  <2> QED BY <2>1 DEF RecordLists
<1> QED BY <1>1, BytesAreBytes, PTL

(* A stream that is cut short, wherever, is refused: parse_cth1 accepts no  *)
(* beginning of what it accepts.                                            *)
THEOREM NoStreamBeginsAStream ==
    ASSUME StreamBytes \subseteq 0 .. BASE - 1
    PROVE  Inputs => []NoStreamBeginsAnother
<1>1. BytesInv => NoStreamBeginsAnother
  <2> SUFFICES ASSUME BytesInv, subject = "stream", parse_cth1(data).ok,
                      NEW n \in 0 .. Len(data) - 1
               PROVE  ~parse_cth1(SubSeq(data, 1, n)).ok
    BY DEF NoStreamBeginsAnother
  <2>1. PICK h \in RecordLists : stream(h) = data
    BY StreamIsTheOnlyOne DEF BytesInv
  <2>2. Len(data) \in Nat
    BY LenProperties DEF BytesInv
  <2>3. n \in 0 .. Len(stream(h)) /\ n # Len(stream(h))
    BY <2>1, <2>2
  <2>4. parse_cth1(SubSeq(data, 1, n)) = Malformed
    BY <2>1, <2>3, StreamReadBack
  <2> QED BY <2>4 DEF Malformed
<1> QED BY <1>1, BytesAreBytes, PTL

-----------------------------------------------------------------------------
(* Invites.                                                                 *)

LowerHex == [value : Nat, case : {"lower"}]
AnyHex == [value : Nat, case : {"lower", "upper"}]

(* Every invite of the version, whatever its texts and numbers are; device  *)
(* id and address are written in lower case, as the vectors have them.      *)
Invites ==
    [v : {V5}, jti : AnyHex, uuid : AnyHex, device_id : LowerHex, server : Seq(Nat), ts : Nat,
     un : Seq(Nat), ttl : Nat, addr : LowerHex]

(* Where the fields are in the binary b of the invite f. *)
LaidOut(f, sig, b) ==
    LET l == Len(f.server)
        u == Len(f.un)
        e == IF f.un = <<>> THEN 10 + l ELSE 11 + l + u
    IN  /\ Len(b) = e + 2
        /\ b[1] = CIV1 /\ b[2] = (IF f.un = <<>> THEN 0 ELSE FLAG_HAS_USERNAME) /\ b[3] = f.v
        /\ b[4] = f.jti.value /\ b[5] = f.uuid.value /\ b[6] = f.device_id.value
        /\ b[7] = f.ts \div STAMP /\ b[8] = f.ts % STAMP /\ b[9] = sig /\ b[10] = l
        /\ \A i \in 1 .. l : b[10 + i] = f.server[i]
        /\ f.un # <<>> => b[11 + l] = u /\ \A i \in 1 .. u : b[11 + l + i] = f.un[i]
        /\ b[e + 1] = f.ttl /\ b[e + 2] = f.addr.value

(* Where every field of an invite stands in its binary (the table of        *)
(* offsets in check_invite.py): fixed fields at fixed places, texts behind  *)
(* their lengths.                                                           *)
LEMMA InviteLayout ==
    ASSUME NEW f \in Invites, NEW sig
    PROVE  /\ binary(f, sig) \in Seq(Nat \cup {sig})
           /\ LaidOut(f, sig, binary(f, sig))
<1> DEFINE S == Nat \cup {sig}
           l == Len(f.server)
           u == Len(f.un)
           flag == IF f.un = <<>> THEN 0 ELSE FLAG_HAS_USERNAME
           h == <<CIV1, flag, f.v, f.jti.value, f.uuid.value, f.device_id.value,
                  f.ts \div STAMP, f.ts % STAMP, sig, l>>
           n == UsernamePart(f.un)
           t == <<f.ttl, f.addr.value>>
           b == binary(f, sig)
<1>1. /\ f.v = 5 /\ f.jti.value \in Nat /\ f.uuid.value \in Nat /\ f.device_id.value \in Nat
      /\ f.ts \in Nat /\ f.ttl \in Nat /\ f.addr.value \in Nat
      /\ f.server \in Seq(Nat) /\ f.un \in Seq(Nat)
  BY DEF Invites, AnyHex, LowerHex, V5
<1>2. l \in Nat /\ u \in Nat /\ f.server \in Seq(S) /\ f.un \in Seq(S)
  BY <1>1, LenProperties, SeqMonotonic
<1>3. f.ts \div STAMP \in Nat /\ f.ts % STAMP \in Nat /\ flag \in Nat
  BY <1>1 DEF STAMP, FLAG_HAS_USERNAME
<1>4. /\ h \in Seq(S) /\ Len(h) = 10
      /\ h[1] = CIV1 /\ h[2] = flag /\ h[3] = f.v
      /\ h[4] = f.jti.value /\ h[5] = f.uuid.value /\ h[6] = f.device_id.value
      /\ h[7] = f.ts \div STAMP /\ h[8] = f.ts % STAMP /\ h[9] = sig /\ h[10] = l
  <2>1. CIV1 \in S /\ flag \in S /\ f.v \in S /\ f.jti.value \in S /\ f.uuid.value \in S
        /\ f.device_id.value \in S /\ f.ts \div STAMP \in S /\ f.ts % STAMP \in S /\ sig \in S
        /\ l \in S
    BY <1>1, <1>2, <1>3 DEF CIV1
  <2> QED BY <2>1
<1>5. /\ n \in Seq(S) /\ Len(n) = (IF f.un = <<>> THEN 0 ELSE 1 + u)
      /\ f.un # <<>> => n[1] = u /\ \A i \in 1 .. u : n[1 + i] = f.un[i]
  <2>1. CASE f.un = <<>>
    BY <2>1, EmptySeq DEF UsernamePart
  <2>2. CASE f.un # <<>>
    <3> DEFINE c == <<u>>
    <3>1. c \in Seq(S) /\ Len(c) = 1 /\ c[1] = u
      BY <1>2
    <3> HIDE DEF c
    <3>2. /\ c \o f.un \in Seq(S) /\ Len(c \o f.un) = Len(c) + u
          /\ \A i \in 1 .. Len(c) : (c \o f.un)[i] = c[i]
          /\ \A i \in 1 .. u : (c \o f.un)[Len(c) + i] = f.un[i]
      BY ONLY <1>2, <3>1, Concatenated
    <3>3. n = c \o f.un
      BY <2>2 DEF UsernamePart, c
    <3> QED BY <1>2, <2>2, <3>1, <3>2, <3>3
  <2> QED BY <2>1, <2>2
<1>6. t \in Seq(S) /\ Len(t) = 2 /\ t[1] = f.ttl /\ t[2] = f.addr.value
  BY <1>1
<1>7. b = ((h \o f.server) \o n) \o t
  BY DEF binary
<1> HIDE DEF h, n, t, b, S, flag
<1> DEFINE p == h \o f.server
<1>8. /\ p \in Seq(S) /\ Len(p) = 10 + l
      /\ \A i \in 1 .. 10 : p[i] = h[i]
      /\ \A i \in 1 .. l : p[10 + i] = f.server[i]
  <2>1. h \in Seq(S) /\ f.server \in Seq(S)
    BY <1>2, <1>4
  <2>2. /\ h \o f.server \in Seq(S) /\ Len(h \o f.server) = Len(h) + Len(f.server)
        /\ \A i \in 1 .. Len(h) : (h \o f.server)[i] = h[i]
        /\ \A i \in 1 .. Len(f.server) : (h \o f.server)[Len(h) + i] = f.server[i]
    BY ONLY <2>1, Concatenated
  <2>3. Len(h) = 10
    BY <1>4
  <2> QED BY ONLY <2>2, <2>3
<1> HIDE DEF p
<1> DEFINE q == p \o n
<1>9. /\ q \in Seq(S) /\ Len(q) = Len(p) + Len(n) /\ Len(n) \in Nat
      /\ \A i \in 1 .. Len(p) : q[i] = p[i]
      /\ \A i \in 1 .. Len(n) : q[Len(p) + i] = n[i]
  <2>1. p \in Seq(S) /\ n \in Seq(S)
    BY <1>5, <1>8
  <2> HIDE DEF n
  <2> QED BY ONLY <2>1, Concatenated
<1> HIDE DEF q
<1>10. /\ q \o t \in Seq(S) /\ Len(q \o t) = Len(q) + Len(t) /\ Len(q) \in Nat
       /\ \A i \in 1 .. Len(q) : (q \o t)[i] = q[i]
       /\ \A i \in 1 .. Len(t) : (q \o t)[Len(q) + i] = t[i]
  <2>1. q \in Seq(S) /\ t \in Seq(S)
    BY <1>6, <1>9
  <2> QED BY ONLY <2>1, Concatenated
<1>11. b = q \o t
  BY <1>7 DEF p, q
<1>12. /\ b \in Seq(S) /\ Len(b) = Len(q) + 2
       /\ \A i \in 1 .. Len(q) : b[i] = q[i]
       /\ b[Len(q) + 1] = f.ttl /\ b[Len(q) + 2] = f.addr.value
  <2>1. 1 \in 1 .. Len(t) /\ 2 \in 1 .. Len(t)
    BY <1>6
  <2> QED BY ONLY <2>1, <1>6, <1>10, <1>11, Zenon
<1> HIDE DEF l, u
<1>13. Len(q) = 10 + l + Len(n)
  BY ONLY <1>2, <1>8, <1>9
<1>14. /\ \A i \in 1 .. 10 : b[i] = h[i]
       /\ \A i \in 1 .. l : b[10 + i] = f.server[i]
       /\ \A i \in 1 .. Len(n) : b[10 + l + i] = n[i]
  <2>1. ASSUME NEW i \in 1 .. 10 PROVE b[i] = h[i]
    <3>1. i \in 1 .. Len(p) /\ i \in 1 .. Len(q)
      BY ONLY <1>2, <1>8, <1>9, <1>13
    <3> QED BY ONLY <1>8, <1>9, <1>12, <3>1, Zenon
  <2>2. ASSUME NEW i \in 1 .. l PROVE b[10 + i] = f.server[i]
    <3>1. 10 + i \in 1 .. Len(p) /\ 10 + i \in 1 .. Len(q)
      BY ONLY <1>2, <1>8, <1>9, <1>13
    <3> QED BY ONLY <1>8, <1>9, <1>12, <3>1, Zenon
  <2>3. ASSUME NEW i \in 1 .. Len(n) PROVE b[10 + l + i] = n[i]
    <3>1. Len(p) + i = 10 + l + i /\ 10 + l + i \in 1 .. Len(q)
      BY ONLY <1>2, <1>8, <1>9, <1>13
    <3>2. q[Len(p) + i] = n[i]
      BY <1>9
    <3> QED BY ONLY <1>12, <3>1, <3>2, Zenon
  <2> QED BY <2>1, <2>2, <2>3
<1>15. /\ b[1] = CIV1 /\ b[2] = flag /\ b[3] = f.v /\ b[4] = f.jti.value
       /\ b[5] = f.uuid.value /\ b[6] = f.device_id.value /\ b[7] = f.ts \div STAMP
       /\ b[8] = f.ts % STAMP /\ b[9] = sig /\ b[10] = l
  <2>1. /\ b[1] = h[1] /\ b[2] = h[2] /\ b[3] = h[3] /\ b[4] = h[4] /\ b[5] = h[5]
        /\ b[6] = h[6] /\ b[7] = h[7] /\ b[8] = h[8] /\ b[9] = h[9] /\ b[10] = h[10]
    BY ONLY <1>14
  <2> QED BY ONLY <1>4, <2>1
<1> DEFINE e == IF f.un = <<>> THEN 10 + l ELSE 11 + l + u
<1>16. Len(q) = e
  <2>1. l \in Nat /\ u \in Nat
    BY <1>2
  <2>2. CASE f.un = <<>>
    <3>1. Len(n) = 0
      BY <1>5, <2>2
    <3> QED BY <2>1, <1>13, <2>2, <3>1
  <2>3. CASE f.un # <<>>
    <3>1. Len(n) = 1 + u
      BY <1>5, <2>3
    <3> QED BY <2>1, <1>13, <2>3, <3>1
  <2> QED BY <2>2, <2>3
<1>17. ASSUME f.un # <<>> PROVE b[11 + l] = u /\ \A i \in 1 .. u : b[11 + l + i] = f.un[i]
  <2>1. Len(n) = 1 + u /\ n[1] = u /\ \A i \in 1 .. u : n[1 + i] = f.un[i]
    BY <1>5, <1>17
  <2>2. b[11 + l] = u
    <3>1. 1 \in 1 .. Len(n) /\ 10 + l + 1 = 11 + l
      <4>1. l \in Nat /\ u \in Nat /\ Len(n) = 1 + u
        BY <1>2, <2>1
      <4> QED BY ONLY <4>1
    <3>2. b[10 + l + 1] = n[1]
      BY ONLY <1>14, <3>1
    <3> QED BY <2>1, <3>1, <3>2
  <2>3. ASSUME NEW i \in 1 .. u PROVE b[11 + l + i] = f.un[i]
    <3>1. 1 + i \in 1 .. Len(n) /\ 10 + l + (1 + i) = 11 + l + i
      <4>1. l \in Nat /\ u \in Nat /\ Len(n) = 1 + u
        BY <1>2, <2>1
      <4> QED BY ONLY <4>1
    <3>2. b[10 + l + (1 + i)] = n[1 + i]
      BY ONLY <1>14, <3>1
    <3> QED BY <2>1, <3>1, <3>2
  <2> QED BY <2>2, <2>3
<1>18. LaidOut(f, sig, b)
  <2>1. Len(b) = e + 2 /\ b[e + 1] = f.ttl /\ b[e + 2] = f.addr.value
    BY ONLY <1>12, <1>16
  <2> HIDE DEF e
  <2> QED BY ONLY <1>14, <1>15, <1>17, <2>1, Zenon DEF LaidOut, flag, e, l, u
<1> QED BY <1>12, <1>18 DEF S, b

(* A reader that follows the same layout finds every field and the          *)
(* signature.                                                               *)
LEMMA InviteIsRead ==
    ASSUME NEW f \in Invites, NEW sig, NEW S, NEW b \in Seq(S), LaidOut(f, sig, b)
    PROVE  ReadInvite(b) = [ok |-> TRUE, signature |-> sig, fields |-> AsRead(f)]
<1> DEFINE l == Len(f.server)
           u == Len(f.un)
           e == IF f.un = <<>> THEN 10 + l ELSE 11 + l + u
           named == Len(b) >= 2 /\ b[2] = FLAG_HAS_USERNAME
           size == IF named /\ Len(b) > 10 + l THEN b[11 + l] ELSE 0
           un == IF named THEN SubSeq(b, 12 + l, 11 + l + size) ELSE <<>>
           at == IF named THEN 12 + l + size ELSE 11 + l
           read == [v |-> b[3], jti |-> Hex(b[4], "lower"), uuid |-> Hex(b[5], "lower"),
                    device_id |-> Hex(b[6], "lower"), server |-> SubSeq(b, 11, 10 + l),
                    ts |-> b[7] * STAMP + b[8], un |-> un, ttl |-> b[at],
                    addr |-> Hex(b[at + 1], "lower")]
<1>1. f.server \in Seq(Nat) /\ f.un \in Seq(Nat) /\ l \in Nat /\ u \in Nat /\ f.ts \in Nat
  BY LenProperties DEF Invites
<1>2. /\ Len(b) = e + 2 /\ b[10] = l
      /\ b[2] = (IF f.un = <<>> THEN 0 ELSE FLAG_HAS_USERNAME)
      /\ \A i \in 1 .. l : b[10 + i] = f.server[i]
      /\ f.un # <<>> => b[11 + l] = u /\ \A i \in 1 .. u : b[11 + l + i] = f.un[i]
      /\ b[e + 1] = f.ttl /\ b[e + 2] = f.addr.value
  BY Zenon DEF LaidOut
<1>10. /\ b[1] = CIV1 /\ b[3] = f.v /\ b[4] = f.jti.value /\ b[5] = f.uuid.value
      /\ b[6] = f.device_id.value /\ b[7] = f.ts \div STAMP /\ b[8] = f.ts % STAMP /\ b[9] = sig
  BY Zenon DEF LaidOut
<1> HIDE DEF l, u
<1>3. Len(b) \in Nat /\ Len(b) >= 12 + l /\ e \in Nat
  <2>1. e \in Nat /\ e >= 10 + l
    BY ONLY <1>1
  <2>2. Len(b) = e + 2
    BY <1>2
  <2> HIDE DEF e
  <2> QED BY ONLY <1>1, <2>1, <2>2
<1>4. named <=> f.un # <<>>
  <2>1. b[2] = (IF f.un = <<>> THEN 0 ELSE 1)
    BY <1>2 DEF FLAG_HAS_USERNAME
  <2>2. Len(b) >= 2
    BY ONLY <1>1, <1>3
  <2> QED BY ONLY <2>1, <2>2 DEF FLAG_HAS_USERNAME
<1>5. SubSeq(b, 11, 10 + l) = f.server
  <2>1. 10 \in Nat /\ 10 + l <= Len(b) /\ 10 + 1 = 11
    BY <1>1, <1>3
  <2>2. SubSeq(b, 10 + 1, 10 + l) = f.server
    <3>1. 10 + Len(f.server) <= Len(b) /\ \A i \in 1 .. Len(f.server) : b[10 + i] = f.server[i]
      BY <1>2, <2>1 DEF l
    <3>2. SubSeq(b, 10 + 1, 10 + Len(f.server)) = f.server
      BY ONLY <1>1, <2>1, <3>1, b \in Seq(S), SliceIs
    <3> QED BY <3>2 DEF l
  <2> QED BY <2>1, <2>2
<1> HIDE DEF named
<1>6. un = f.un /\ at = e + 1
  <2>1. CASE f.un = <<>>
    BY <1>1, <1>4, <2>1
  <2>2. CASE f.un # <<>>
    <3>1. Len(b) = 13 + l + u /\ named /\ size = u
      <4>1. Len(b) > 10 + l
        BY <1>1, <1>3
      <4>2. e = 11 + l + u /\ b[11 + l] = u /\ named
        BY <1>2, <1>4, <2>2
      <4>3. Len(b) = e + 2
        BY <1>2
      <4> HIDE DEF e
      <4> QED BY ONLY <1>1, <4>1, <4>2, <4>3
    <3>2. at = e + 1
      <4>1. e = 11 + l + u /\ at = 12 + l + u
        BY <2>2, <3>1
      <4> HIDE DEF e, at
      <4> QED BY ONLY <1>1, <4>1
    <3> DEFINE k == 11 + l
    <3>3. k \in Nat /\ k + u <= Len(b) /\ k + 1 = 12 + l /\ \A i \in 1 .. u : b[k + i] = f.un[i]
      <4>1. \A i \in 1 .. u : b[k + i] = f.un[i]
        BY <1>2, <2>2
      <4>2. k \in Nat /\ k + u <= Len(b) /\ k + 1 = 12 + l
        BY ONLY <1>1, <3>1
      <4> QED BY <4>1, <4>2
    <3> HIDE DEF k
    <3>4. SubSeq(b, k + 1, k + u) = f.un
      BY ONLY <1>1, <3>3, b \in Seq(S), SliceIs DEF u
    <3>5. SubSeq(b, 12 + l, 11 + l + u) = f.un
      BY <3>3, <3>4 DEF k
    <3> QED BY <3>1, <3>2, <3>5
  <2> QED BY <2>1, <2>2
<1>7. Len(b) >= 10 /\ ~(Len(b) < 10) /\ IsExact(b, at + 1)
  <2>1. Len(b) = e + 2 /\ at = e + 1
    BY <1>2, <1>6
  <2> HIDE DEF e, at
  <2> QED BY ONLY <1>1, <1>3, <2>1 DEF IsExact
<1>8. ReadInvite(b) = [ok |-> TRUE, signature |-> b[9], fields |-> read]
  <2>1. b[1] = CIV1 /\ b[3] = V5 /\ b[10] = l
    BY <1>2, <1>10 DEF Invites
  <2> QED BY ONLY <1>7, <2>1, Zenon DEF ReadInvite, named
<1>9. read = AsRead(f)
  <2>1. b[at] = f.ttl /\ b[at + 1] = f.addr.value
    <3>1. at = e + 1 /\ e \in Nat /\ b[e + 1] = f.ttl /\ b[e + 2] = f.addr.value
      BY <1>2, <1>3, <1>6
    <3> HIDE DEF e, at
    <3>2. (e + 1) + 1 = e + 2
      BY <3>1
    <3> QED BY ONLY <3>1, <3>2
  <2>2. b[7] * STAMP + b[8] = f.ts
    <3> DEFINE hi == f.ts \div STAMP
               lo == f.ts % STAMP
    <3>1. STAMP \in Nat \ {0} /\ f.ts \in Nat
      BY <1>1 DEF STAMP
    <3>2. hi \in Nat /\ lo \in Nat /\ hi * STAMP + lo = f.ts
      BY <3>1, Divided, Zenon
    <3>3. b[7] = hi /\ b[8] = lo
      BY <1>10
    <3> HIDE DEF hi, lo
    <3> QED BY ONLY <3>1, <3>2, <3>3
  <2>3. f.device_id = Hex(f.device_id.value, "lower") /\ f.addr = Hex(f.addr.value, "lower")
    BY DEF Invites, LowerHex, Hex
  <2>4. Lower(f.jti) = Hex(f.jti.value, "lower") /\ Lower(f.uuid) = Hex(f.uuid.value, "lower")
    BY DEF Lower
  <2>5. b[3] = f.v
    BY <1>10
  <2>6. /\ Hex(b[4], "lower") = Lower(f.jti) /\ Hex(b[5], "lower") = Lower(f.uuid)
        /\ Hex(b[6], "lower") = f.device_id /\ Hex(b[at + 1], "lower") = f.addr
    BY ONLY <1>10, <2>1, <2>3, <2>4
  <2> HIDE DEF un, at
  <2> QED BY ONLY <1>5, <1>6, <2>1, <2>2, <2>5, <2>6, Zenon DEF AsRead
<1> QED BY <1>10, <1>8, <1>9

(* Cut short or longer, it is refused. *)
LEMMA OtherLengthIsRefused ==
    ASSUME NEW f \in Invites, NEW sig, NEW S, NEW b \in Seq(S), LaidOut(f, sig, b),
           NEW c \in Seq(S), Len(c) # Len(b),
           \A i \in 1 .. Len(c) : i <= Len(b) => c[i] = b[i]
    PROVE  ReadInvite(c) = Refused
<1> DEFINE l == Len(f.server)
           u == Len(f.un)
           e == IF f.un = <<>> THEN 10 + l ELSE 11 + l + u
           named == Len(c) >= 2 /\ c[2] = FLAG_HAS_USERNAME
           size == IF named /\ Len(c) > 10 + l THEN c[11 + l] ELSE 0
           at == IF named THEN 12 + l + size ELSE 11 + l
<1>1. l \in Nat /\ u \in Nat /\ Len(c) \in Nat
  BY LenProperties DEF Invites
<1>2. /\ Len(b) = e + 2 /\ b[10] = l
      /\ b[2] = (IF f.un = <<>> THEN 0 ELSE FLAG_HAS_USERNAME)
      /\ f.un # <<>> => b[11 + l] = u
  BY DEF LaidOut
<1> HIDE DEF l, u
<1>3. CASE Len(c) < 10
  BY <1>3 DEF ReadInvite
<1>4. CASE ~(Len(c) < 10)
  <2>1. c[2] = b[2] /\ c[10] = l /\ Len(c) >= 10
    <3>1. e \in Nat /\ e >= 10
      BY ONLY <1>1
    <3> HIDE DEF e
    <3>2. 2 \in 1 .. Len(c) /\ 10 \in 1 .. Len(c) /\ 2 <= Len(b) /\ 10 <= Len(b) /\ Len(c) >= 10
      BY ONLY <1>1, <1>2, <1>4, <3>1
    <3>3. c[2] = b[2] /\ c[10] = b[10]
      BY <3>2
    <3> QED BY <1>2, <3>2, <3>3
  <2>2. named <=> f.un # <<>>
    BY <1>1, <1>2, <2>1 DEF FLAG_HAS_USERNAME
  <2> HIDE DEF named
  <2>3. Len(c) # at + 1
    <3>1. CASE f.un = <<>>
      <4>1. at = 11 + l /\ Len(b) = (10 + l) + 2
        BY <1>2, <2>2, <3>1
      <4> HIDE DEF at
      <4> QED BY <1>1, <4>1
    <3>2. CASE f.un # <<>> /\ Len(c) > 10 + l
      <4>1. c[11 + l] = u
        <5>1. 11 + l \in 1 .. Len(c) /\ 11 + l <= Len(b)
          <6>1. Len(b) = (11 + l + u) + 2 /\ Len(c) > 10 + l
            BY <1>2, <3>2
          <6> QED BY ONLY <1>1, <6>1
        <5> QED BY <1>2, <3>2, <5>1
      <4>2. at = 12 + l + u /\ Len(b) = 13 + l + u
        <5>1. at = 12 + l + u /\ Len(b) = (11 + l + u) + 2
          BY <1>2, <2>2, <3>2, <4>1
        <5> HIDE DEF at
        <5> QED BY ONLY <1>1, <5>1
      <4> HIDE DEF at
      <4>3. Len(c) # Len(b)
        OBVIOUS
      <4> QED BY ONLY <1>1, <4>2, <4>3
    <3>3. CASE f.un # <<>> /\ ~(Len(c) > 10 + l)
      <4>1. at = 12 + l
        BY <1>1, <2>2, <3>3
      <4> HIDE DEF at
      <4> QED BY <1>1, <3>3, <4>1
    <3> QED BY <3>1, <3>2, <3>3
  <2> QED BY ONLY <1>4, <2>1, <2>3, Zenon DEF ReadInvite, named, IsExact
<1> QED BY <1>3, <1>4

(* The reader gives back what makes the same string.                        *)
LEMMA CanonicalAsRead ==
    ASSUME NEW f \in Invites
    PROVE  canonical(AsRead(f)) = canonical(f)
<1>1. /\ AsRead(f).v = f.v /\ AsRead(f).device_id = f.device_id /\ AsRead(f).server = f.server
      /\ AsRead(f).ts = f.ts /\ AsRead(f).un = f.un /\ AsRead(f).ttl = f.ttl
      /\ AsRead(f).addr = f.addr
      /\ Lower(AsRead(f).jti) = Lower(f.jti) /\ Lower(AsRead(f).uuid) = Lower(f.uuid)
  BY DEF AsRead, Lower, Hex
<1> HIDE DEF AsRead
<1> QED BY <1>1, Zenon DEF canonical

(* Whoever scans an invite can check it, whatever its texts and numbers:    *)
(* the binary of check_invite.py holds what makes the signed string again.  *)
(* Cut short anywhere, with a byte more or with version 4 it is not read.   *)
THEOREM InviteReadBack ==
    ASSUME NEW f \in Invites
    PROVE  LET b == derive(f).binary IN
           /\ Verifies(b) /\ canonical(ReadInvite(b).fields) = derive(f).canonical
           /\ \A n \in 0 .. Len(b) - 1 : ~ReadInvite(SubSeq(b, 1, n)).ok
           /\ \A r \in RefusedOf(b) : ~ReadInvite(r).ok
<1> DEFINE sig == SignatureOf(f)
           S == Nat \cup {sig}
           g == AsRead(f)
<1>1. PICK b : b = binary(f, sig)
  OBVIOUS
<1>2. b \in Seq(S) /\ LaidOut(f, sig, b)
  BY <1>1, InviteLayout
<1>3. derive(f).binary = b /\ derive(f).canonical = canonical(f)
  BY <1>1 DEF derive
<1>4. canonical(g) = canonical(f)
  BY CanonicalAsRead
<1>5. ReadInvite(b) = [ok |-> TRUE, signature |-> sig, fields |-> g]
  BY <1>2, InviteIsRead
<1> HIDE DEF S, g
<1>6. Verifies(b) /\ canonical(ReadInvite(b).fields) = canonical(f)
  BY ONLY <1>4, <1>5 DEF Verifies, SignatureOf
<1>7. Len(b) \in Nat /\ Len(b) >= 12 /\ b[3] = V5
  <2>1. Len(f.server) \in Nat /\ Len(f.un) \in Nat /\ f.v = V5
    BY LenProperties DEF Invites
  <2> DEFINE l == Len(f.server)
             u == Len(f.un)
             e == IF f.un = <<>> THEN 10 + l ELSE 11 + l + u
  <2>2. e \in Nat /\ e >= 10
    <3>1. l \in Nat /\ u \in Nat
      BY <2>1
    <3> HIDE DEF l, u
    <3> QED BY ONLY <3>1
  <2>3. Len(b) = e + 2 /\ b[3] = f.v
    BY <1>2, Zenon DEF LaidOut
  <2> HIDE DEF e
  <2> QED BY ONLY <2>1, <2>2, <2>3
<1>8. ~Refused.ok
  BY DEF Refused
<1>9. ASSUME NEW n \in 0 .. Len(b) - 1 PROVE ReadInvite(SubSeq(b, 1, n)) = Refused
  <2> DEFINE c == SubSeq(b, 1, n)
  <2>1. c \in Seq(S) /\ Len(c) = n /\ \A i \in 1 .. n : c[i] = b[i]
    BY <1>2, <1>7, Beginning
  <2> HIDE DEF c
  <2>2. Len(c) # Len(b)
    BY <1>7, <2>1
  <2>3. ReadInvite(c) = Refused
    BY ONLY f \in Invites, <1>2, <2>1, <2>2, OtherLengthIsRefused
  <2> QED BY <2>3 DEF c
<1>10. ReadInvite(Append(b, 0)) = Refused
  <2> DEFINE c == Append(b, 0)
             T == S \cup {0}
  <2>1. c \in Seq(T) /\ b \in Seq(T) /\ Len(c) = Len(b) + 1 /\ \A i \in 1 .. Len(b) : c[i] = b[i]
    <3>1. b \in Seq(T) /\ 0 \in T
      BY <1>2, SeqMonotonic
    <3> HIDE DEF T
    <3> QED BY <3>1, AppendProperties
  <2> HIDE DEF c, T
  <2>2. Len(c) # Len(b) /\ \A i \in 1 .. Len(c) : i <= Len(b) => c[i] = b[i]
    BY <1>7, <2>1
  <2>3. ReadInvite(c) = Refused
    BY ONLY f \in Invites, <1>2, <2>1, <2>2, OtherLengthIsRefused
  <2> QED BY <2>3 DEF c
<1>11. ReadInvite([b EXCEPT ![3] = 4]) = Refused
  <2> DEFINE c == [b EXCEPT ![3] = 4]
  <2>1. c[3] = 4 /\ 4 # V5
    BY <1>2, <1>7 DEF V5
  <2> HIDE DEF c
  <2>2. ReadInvite(c) = Refused
    BY ONLY <2>1, Zenon DEF ReadInvite
  <2> QED BY <2>2 DEF c
<1>12. Len(b) - 1 \in 0 .. Len(b) - 1
  BY <1>7
<1>13. \A r \in RefusedOf(b) : ReadInvite(r) = Refused
  BY <1>9, <1>10, <1>11, <1>12 DEF RefusedOf
<1> QED BY <1>3, <1>6, <1>8, <1>9, <1>13

-----------------------------------------------------------------------------
(* Signed statements.                                                       *)

(* The statements of each kind, whatever their values and texts are. *)
SenderCertsOf(V) ==
    [kind : {"sender_cert"}, key : V, user_id : Seq(V), domain : Seq(V), identity_key : Seq(V),
     device_id : Seq(V), issued_at : V, expires_at : V]
ServerSignaturesOf(V) ==
    [kind : {"server_signature"}, user_id : Seq(V), domain : Seq(V), identity_key : V,
     device_id : Seq(V), issued_at : V, expires_at : V]
KtHeadsOf(V) == [kind : {"kt_head"}, key : V, tree_size : V, root_hash : V]
DelegationsOf(V) ==
    [kind : {"delegation"}, key : V, purpose : DOMAIN PURPOSE, not_before : V, not_after : V]
DeviceCertsOf(V) ==
    [kind : {"device_cert"}, signer : V, identity : V, verifying : V, hybrid : V, issued_at : V]
LinkProofsOf(V) == [kind : {"link_proof"}, identity : V, hybrid : V]
AnyOpeningsOf(V) ==
    [kind : {"opening"}, sender_eph : V, typ : V, payload_len : V, sender_identity : V,
     sender_hybrid : V, snapshot_id : V, sender_id : V, receiver_id : V, kyber_key_id : V,
     kem_ct : V]
OpeningsOf(V) == {s \in AnyOpeningsOf(V) : s.snapshot_id = SnapshotOf(s.typ, s.snapshot_id)}
RepliesOf(V) ==
    [kind : {"reply"}, receiver_eph : V, sender_eph : V, receiver_identity : V,
     receiver_hybrid : V, snapshot_id : V, sender_id : V, receiver_id : V, kem_ct : V]
CthfsOf(V) ==
    [kind : {"cthf"}, user_id : V, recipient : V, source : V, snapshot_id : V, sender_eph : V,
     sender_identity : V, sender_hybrid : V, kyber_key_id : V, kem_ct : V]

(* The statements that are signed behind a label, by hybrid keys. *)
LabelledOf(V) ==
    SenderCertsOf(V) \cup KtHeadsOf(V) \cup DelegationsOf(V) \cup DeviceCertsOf(V)
    \cup LinkProofsOf(V) \cup OpeningsOf(V) \cup RepliesOf(V) \cup CthfsOf(V)

(* What is signed of a key-transparency head.                               *)
LEMMA KtHeadSigned ==
    ASSUME NEW V, NEW s \in KtHeadsOf(V)
    PROVE  s.kind = "kt_head" /\ Signed(s) = KtHead(s)
BY DEF KtHeadsOf, Signed

(* Two heads with the same signed bytes are the same head.                  *)
LEMMA KtHeadTold ==
    ASSUME NEW V, NEW s \in KtHeadsOf(V), NEW t \in KtHeadsOf(V), Signed(s) = Signed(t)
    PROVE  s = t
<1>1. KtHead(s) = KtHead(t)
  BY KtHeadSigned
<1>2. s.key = t.key /\ s.tree_size = t.tree_size /\ s.root_hash = t.root_hash
  BY <1>1 DEF KtHead, kid
<1> QED BY <1>2 DEF KtHeadsOf

(* Two delegations of a server key with the same signed bytes are the same. *)
LEMMA DelegationTold ==
    ASSUME NEW V, NEW s \in DelegationsOf(V), NEW t \in DelegationsOf(V), Signed(s) = Signed(t)
    PROVE  s = t
<1>1. Delegation(s) = Delegation(t)
  BY DEF DelegationsOf, Signed
<1>2. /\ s.key = t.key /\ s.not_before = t.not_before /\ s.not_after = t.not_after
      /\ PURPOSE[s.purpose] = PURPOSE[t.purpose]
  BY <1>1 DEF Delegation
<1>3. s.purpose = t.purpose
  BY <1>2 DEF DelegationsOf, PURPOSE
<1> QED BY <1>2, <1>3 DEF DelegationsOf

(* Two device certificates with the same signed bytes are the same.         *)
LEMMA DeviceCertTold ==
    ASSUME NEW V, NEW s \in DeviceCertsOf(V), NEW t \in DeviceCertsOf(V), Signed(s) = Signed(t)
    PROVE  s = t
<1>1. DeviceCert(s) = DeviceCert(t)
  BY DEF DeviceCertsOf, Signed
<1>2. /\ s.signer = t.signer /\ s.identity = t.identity /\ s.verifying = t.verifying
      /\ s.hybrid = t.hybrid /\ s.issued_at = t.issued_at
  BY <1>1 DEF DeviceCert, device_id
<1> QED BY <1>2 DEF DeviceCertsOf

(* Two link proofs with the same signed bytes are the same.                 *)
LEMMA LinkProofTold ==
    ASSUME NEW V, NEW s \in LinkProofsOf(V), NEW t \in LinkProofsOf(V), Signed(s) = Signed(t)
    PROVE  s = t
<1>1. LinkProof(s) = LinkProof(t)
  BY DEF LinkProofsOf, Signed
<1>2. s.identity = t.identity /\ s.hybrid = t.hybrid
  BY <1>1 DEF LinkProof, fingerprint
<1> QED BY <1>2 DEF LinkProofsOf

(* Two history file headers with the same signed bytes are the same.        *)
LEMMA CthfTold ==
    ASSUME NEW V, NEW s \in CthfsOf(V), NEW t \in CthfsOf(V), Signed(s) = Signed(t)
    PROVE  s = t
<1>1. <<"cthf1">> \o CthfFields(s) = <<"cthf1">> \o CthfFields(t)
  BY DEF CthfsOf, Signed, build_cthf
<1>2. CthfFields(s) = CthfFields(t)
  BY <1>1 DEF CthfFields
<1>3. /\ s.user_id = t.user_id /\ s.recipient = t.recipient /\ s.source = t.source
      /\ s.snapshot_id = t.snapshot_id
      /\ s.sender_eph = t.sender_eph /\ s.sender_identity = t.sender_identity
      /\ s.sender_hybrid = t.sender_hybrid /\ s.kyber_key_id = t.kyber_key_id
      /\ s.kem_ct = t.kem_ct
  BY <1>2 DEF CthfFields
<1> QED BY <1>3 DEF CthfsOf

(* Two replies of a history channel with the same signed bytes are the      *)
(* same.                                                                    *)
LEMMA ReplyTold ==
    ASSUME NEW V, NEW s \in RepliesOf(V), NEW t \in RepliesOf(V), Signed(s) = Signed(t)
    PROVE  s = t
<1>1. build_reply(s).tagged = build_reply(t).tagged
  BY DEF RepliesOf, Signed
<1>2. /\ s.receiver_eph = t.receiver_eph /\ s.sender_eph = t.sender_eph
      /\ s.receiver_identity = t.receiver_identity /\ s.receiver_hybrid = t.receiver_hybrid
      /\ s.sender_id = t.sender_id /\ s.receiver_id = t.receiver_id /\ s.kem_ct = t.kem_ct
      /\ s.snapshot_id = t.snapshot_id
  BY <1>1 DEF build_reply
<1> QED BY <1>2 DEF RepliesOf

(* Two openings of a history channel with the same signed bytes are the     *)
(* same.                                                                    *)
LEMMA OpeningTold ==
    ASSUME NEW V, NEW s \in OpeningsOf(V), NEW t \in OpeningsOf(V), Signed(s) = Signed(t)
    PROVE  s = t
<1>1. <<"ctt1v2-s">> \o opening_transcript(s) = <<"ctt1v2-s">> \o opening_transcript(t)
  BY DEF OpeningsOf, AnyOpeningsOf, Signed, build_opening
<1>2. /\ s.sender_eph = t.sender_eph /\ s.typ = t.typ /\ s.payload_len = t.payload_len
      /\ s.sender_identity = t.sender_identity /\ s.sender_hybrid = t.sender_hybrid
      /\ s.sender_id = t.sender_id /\ s.receiver_id = t.receiver_id
      /\ s.kyber_key_id = t.kyber_key_id /\ s.kem_ct = t.kem_ct
      /\ SnapshotOf(s.typ, s.snapshot_id) = SnapshotOf(t.typ, t.snapshot_id)
  BY <1>1 DEF opening_transcript, OpeningBody
<1>3. s.snapshot_id = t.snapshot_id
  BY <1>2 DEF OpeningsOf
<1> QED BY <1>2, <1>3 DEF OpeningsOf, AnyOpeningsOf

(* Two sequences with beginnings of one length are equal part by part.      *)
LEMMA EqualHalves ==
    ASSUME NEW S, NEW x \in Seq(S), NEW y \in Seq(S), NEW a \in Seq(S), NEW c \in Seq(S),
           Len(x) = Len(y), x \o a = y \o c
    PROVE  x = y /\ a = c
<1> DEFINE w == x \o a
<1>1. /\ Len(w) = Len(x) + Len(a) /\ Len(x) \in Nat /\ Len(a) \in Nat
      /\ \A i \in 1 .. Len(x) : w[i] = x[i]
      /\ \A i \in 1 .. Len(a) : w[Len(x) + i] = a[i]
  <2>1. x \in Seq(S) /\ a \in Seq(S)
    OBVIOUS
  <2> QED BY ONLY <2>1, Concatenated
<1>2. /\ Len(w) = Len(x) + Len(c) /\ Len(c) \in Nat
      /\ \A i \in 1 .. Len(x) : w[i] = y[i]
      /\ \A i \in 1 .. Len(c) : w[Len(x) + i] = c[i]
  <2>1. /\ Len(y \o c) = Len(y) + Len(c) /\ Len(c) \in Nat
        /\ \A i \in 1 .. Len(y) : (y \o c)[i] = y[i]
        /\ \A i \in 1 .. Len(c) : (y \o c)[Len(y) + i] = c[i]
    BY Concatenated
  <2> QED BY <2>1
<1> HIDE DEF w
<1>3. Len(a) = Len(c)
  BY ONLY <1>1, <1>2
<1>4. \A i \in 1 .. Len(x) : x[i] = y[i]
  BY ONLY <1>1, <1>2
<1>5. \A i \in 1 .. Len(a) : a[i] = c[i]
  BY ONLY <1>1, <1>2, <1>3
<1> QED BY <1>3, <1>4, <1>5, SeqEqual

(* x with a behind it and y with c behind it are the same, and x and y as   *)
(* long as each other.                                                      *)
StartAlike(x, a, y, c) == Len(x) = Len(y) /\ x \o a = y \o c

LEMMA EqualStarts ==
    ASSUME NEW S, NEW x \in Seq(S), NEW y \in Seq(S), NEW a \in Seq(S), NEW c \in Seq(S),
           StartAlike(x, a, y, c)
    PROVE  x = y /\ a = c
<1>1. Len(x) = Len(y) /\ x \o a = y \o c
  BY DEF StartAlike
<1> QED BY <1>1, EqualHalves

(* Sequences that are alike in length stay so when they are put together.   *)
LEMMA AlikeInLength ==
    ASSUME NEW S, NEW x \in Seq(S), NEW y \in Seq(S), NEW a \in Seq(S), NEW c \in Seq(S),
           Len(x) = Len(y), Len(a) = Len(c)
    PROVE  x \o a \in Seq(S) /\ y \o c \in Seq(S) /\ Len(x \o a) = Len(y \o c)
<1>1. x \o a \in Seq(S) /\ Len(x \o a) = Len(x) + Len(a)
  BY ConcatProperties
<1>2. y \o c \in Seq(S) /\ Len(y \o c) = Len(y) + Len(c)
  BY ConcatProperties
<1> QED BY <1>1, <1>2

(* Five parts and five others, the first four as long as their             *)
(* counterparts, make the same sequence.                                    *)
FiveAlike(x1, x2, x3, x4, x5, y1, y2, y3, y4, y5) ==
    /\ Len(x1) = Len(y1) /\ Len(x2) = Len(y2) /\ Len(x3) = Len(y3) /\ Len(x4) = Len(y4)
    /\ (((x1 \o x2) \o x3) \o x4) \o x5 = (((y1 \o y2) \o y3) \o y4) \o y5

(* Five parts put together are told apart when their lengths are fixed.     *)
LEMMA FiveParts ==
    ASSUME NEW S, NEW x1 \in Seq(S), NEW x2 \in Seq(S), NEW x3 \in Seq(S), NEW x4 \in Seq(S),
           NEW x5 \in Seq(S), NEW y1 \in Seq(S), NEW y2 \in Seq(S), NEW y3 \in Seq(S),
           NEW y4 \in Seq(S), NEW y5 \in Seq(S),
           FiveAlike(x1, x2, x3, x4, x5, y1, y2, y3, y4, y5)
    PROVE  x1 = y1 /\ x2 = y2 /\ x3 = y3 /\ x4 = y4 /\ x5 = y5
<1> DEFINE u2 == x1 \o x2
           v2 == y1 \o y2
           u3 == u2 \o x3
           v3 == v2 \o y3
           u4 == u3 \o x4
           v4 == v3 \o y4
<1>0. Len(x1) = Len(y1) /\ Len(x2) = Len(y2) /\ Len(x3) = Len(y3) /\ Len(x4) = Len(y4)
  BY DEF FiveAlike
<1>1. u4 \o x5 = v4 \o y5
  BY DEF FiveAlike
<1>2. u2 \in Seq(S) /\ v2 \in Seq(S) /\ Len(u2) = Len(v2)
  BY <1>0, AlikeInLength
<1> HIDE DEF u2, v2
<1>3. u3 \in Seq(S) /\ v3 \in Seq(S) /\ Len(u3) = Len(v3)
  BY <1>0, <1>2, AlikeInLength
<1> HIDE DEF u3, v3
<1>4. u4 \in Seq(S) /\ v4 \in Seq(S) /\ Len(u4) = Len(v4)
  BY <1>0, <1>3, AlikeInLength
<1> HIDE DEF u4, v4
<1>5. u4 = v4 /\ x5 = y5
  <2>1. StartAlike(u4, x5, v4, y5)
    BY <1>1, <1>4 DEF StartAlike
  <2>2. u4 \in Seq(S) /\ v4 \in Seq(S) /\ x5 \in Seq(S) /\ y5 \in Seq(S)
    BY <1>4
  <2> QED BY ONLY <2>1, <2>2, EqualStarts
<1>6. u3 = v3 /\ x4 = y4
  <2>1. StartAlike(u3, x4, v3, y4)
    BY <1>3, <1>5 DEF u4, v4, StartAlike
  <2>2. u3 \in Seq(S) /\ v3 \in Seq(S) /\ x4 \in Seq(S) /\ y4 \in Seq(S)
    BY <1>3
  <2> QED BY ONLY <2>1, <2>2, EqualStarts
<1>7. u2 = v2 /\ x3 = y3
  <2>1. StartAlike(u2, x3, v2, y3)
    BY <1>2, <1>6 DEF u3, v3, StartAlike
  <2>2. u2 \in Seq(S) /\ v2 \in Seq(S) /\ x3 \in Seq(S) /\ y3 \in Seq(S)
    BY <1>2
  <2> QED BY ONLY <2>1, <2>2, EqualStarts
<1>8. x1 = y1 /\ x2 = y2
  <2>1. StartAlike(x1, x2, y1, y2)
    BY <1>0, <1>7 DEF u2, v2, StartAlike
  <2>2. x1 \in Seq(S) /\ y1 \in Seq(S) /\ x2 \in Seq(S) /\ y2 \in Seq(S)
    OBVIOUS
  <2> QED BY ONLY <2>1, <2>2, EqualStarts
<1> QED BY <1>5, <1>6, <1>7, <1>8

(* Two certificates with the same bytes in server_signature's layout are    *)
(* the same, given that each of their texts is as long as the other's.      *)
LEMMA ServerSignatureTold ==
    ASSUME NEW V, NEW s \in ServerSignaturesOf(V), NEW t \in ServerSignaturesOf(V),
           Signed(s) = Signed(t), ~CutDifferently(s, t)
    PROVE  s = t
<1> DEFINE Key(r) == <<r.identity_key>>
           Dates(r) == <<r.issued_at, r.expires_at>>
<1>1. (((s.user_id \o s.domain) \o Key(s)) \o s.device_id) \o Dates(s)
      = (((t.user_id \o t.domain) \o Key(t)) \o t.device_id) \o Dates(t)
  BY DEF ServerSignaturesOf, Signed, server_signature
<1>2. ASSUME NEW r \in ServerSignaturesOf(V)
      PROVE  /\ r.user_id \in Seq(V) /\ r.domain \in Seq(V) /\ r.device_id \in Seq(V)
             /\ Key(r) \in Seq(V) /\ Len(Key(r)) = 1 /\ Dates(r) \in Seq(V)
  BY DEF ServerSignaturesOf
<1>3. /\ Len(s.user_id) = Len(t.user_id) /\ Len(s.domain) = Len(t.domain)
      /\ Len(s.device_id) = Len(t.device_id)
  BY DEF CutDifferently, ServerSignaturesOf
<1> HIDE DEF Key, Dates
<1>4. Len(Key(s)) = Len(Key(t))
  BY <1>2
<1>5. /\ s.user_id \in Seq(V) /\ s.domain \in Seq(V) /\ s.device_id \in Seq(V)
      /\ Key(s) \in Seq(V) /\ Dates(s) \in Seq(V)
      /\ t.user_id \in Seq(V) /\ t.domain \in Seq(V) /\ t.device_id \in Seq(V)
      /\ Key(t) \in Seq(V) /\ Dates(t) \in Seq(V)
  BY <1>2
<1>6. /\ s.user_id = t.user_id /\ s.domain = t.domain /\ Key(s) = Key(t)
      /\ s.device_id = t.device_id /\ Dates(s) = Dates(t)
  <2>1. FiveAlike(s.user_id, s.domain, Key(s), s.device_id, Dates(s),
                  t.user_id, t.domain, Key(t), t.device_id, Dates(t))
    BY ONLY <1>1, <1>3, <1>4 DEF FiveAlike
  <2> QED BY ONLY <1>5, <2>1, FiveParts
<1>7. s.identity_key = t.identity_key
  BY <1>6 DEF Key
<1>8. s.issued_at = t.issued_at /\ s.expires_at = t.expires_at
  BY <1>6 DEF Dates
<1> QED BY <1>6, <1>7, <1>8 DEF ServerSignaturesOf

(* Text with its length in front ends where it says. *)
LEMMA TextTold ==
    ASSUME NEW S, Nat \subseteq S, NEW x \in Seq(S), NEW y \in Seq(S), NEW a \in Seq(S),
           NEW c \in Seq(S), lp(x) \o a = lp(y) \o c
    PROVE  x = y /\ a = c
<1> DEFINE w == lp(x) \o a
<1>1. ASSUME NEW z \in Seq(S), NEW r \in Seq(S), lp(z) \o r = w
      PROVE  /\ Len(z) \in Nat /\ Len(r) \in Nat /\ w[1] = Len(z) /\ Len(w) = 1 + Len(z) + Len(r)
             /\ \A i \in 1 .. Len(z) : w[1 + i] = z[i]
             /\ \A i \in 1 .. Len(r) : w[1 + Len(z) + i] = r[i]
  <2> DEFINE l == <<Len(z)>>
  <2>1. l \in Seq(S) /\ Len(l) = 1 /\ l[1] = Len(z) /\ Len(z) \in Nat
    BY LenProperties
  <2>2. lp(z) = l \o z
    BY DEF lp
  <2> HIDE DEF l, w
  <2>3. /\ lp(z) \in Seq(S) /\ Len(lp(z)) = 1 + Len(z)
        /\ lp(z)[1] = Len(z) /\ \A i \in 1 .. Len(z) : lp(z)[1 + i] = z[i]
    <3>1. l \in Seq(S) /\ z \in Seq(S)
      BY <2>1, <1>1
    <3>2. /\ l \o z \in Seq(S) /\ Len(l \o z) = Len(l) + Len(z)
          /\ \A i \in 1 .. Len(l) : (l \o z)[i] = l[i]
          /\ \A i \in 1 .. Len(z) : (l \o z)[Len(l) + i] = z[i]
      BY ONLY <3>1, Concatenated
    <3> QED BY ONLY <2>1, <2>2, <3>2
  <2>4. /\ Len(w) = Len(lp(z)) + Len(r) /\ Len(r) \in Nat
        /\ \A i \in 1 .. Len(lp(z)) : w[i] = lp(z)[i]
        /\ \A i \in 1 .. Len(r) : w[Len(lp(z)) + i] = r[i]
    <3>1. lp(z) \in Seq(S) /\ r \in Seq(S)
      BY <2>3, <1>1
    <3>2. /\ Len(lp(z) \o r) = Len(lp(z)) + Len(r) /\ Len(r) \in Nat
          /\ \A i \in 1 .. Len(lp(z)) : (lp(z) \o r)[i] = lp(z)[i]
          /\ \A i \in 1 .. Len(r) : (lp(z) \o r)[Len(lp(z)) + i] = r[i]
      BY ONLY <3>1, Concatenated
    <3> QED BY <1>1, <3>2
  <2>5. w[1] = Len(z) /\ \A i \in 1 .. Len(z) : w[1 + i] = z[i]
    <3>1. 1 \in 1 .. Len(lp(z)) /\ \A i \in 1 .. Len(z) : 1 + i \in 1 .. Len(lp(z))
      BY <2>1, <2>3
    <3> QED BY ONLY <2>3, <2>4, <3>1
  <2> QED BY ONLY <2>1, <2>3, <2>4, <2>5
<1>2. /\ Len(x) \in Nat /\ Len(a) \in Nat /\ w[1] = Len(x) /\ Len(w) = 1 + Len(x) + Len(a)
      /\ \A i \in 1 .. Len(x) : w[1 + i] = x[i]
      /\ \A i \in 1 .. Len(a) : w[1 + Len(x) + i] = a[i]
  BY <1>1
<1>3. /\ Len(y) \in Nat /\ Len(c) \in Nat /\ w[1] = Len(y) /\ Len(w) = 1 + Len(y) + Len(c)
      /\ \A i \in 1 .. Len(y) : w[1 + i] = y[i]
      /\ \A i \in 1 .. Len(c) : w[1 + Len(y) + i] = c[i]
  BY <1>1
<1> HIDE DEF w
<1>4. Len(x) = Len(y) /\ Len(a) = Len(c)
  BY ONLY <1>2, <1>3
<1>5. x = y
  <2>1. \A i \in 1 .. Len(x) : x[i] = y[i]
    BY ONLY <1>2, <1>3, <1>4
  <2> QED BY <1>4, <2>1, SeqEqual
<1>6. a = c
  <2>1. \A i \in 1 .. Len(a) : a[i] = c[i]
    BY ONLY <1>2, <1>3, <1>4
  <2> QED BY <1>4, <2>1, SeqEqual
<1> QED BY <1>5, <1>6

Cat(p, q) == p \o q

(* Six parts put together from the left and from the right.                 *)
LEMMA SixParts ==
    ASSUME NEW S
    PROVE  \A f, a, b, c, d, e \in Seq(S) :
              Cat(Cat(Cat(Cat(Cat(f, a), b), c), d), e) = Cat(f, Cat(a, Cat(b, Cat(c, Cat(d, e)))))
<1>1. \A p, q, u \in Seq(S) : Cat(Cat(p, q), u) = Cat(p, Cat(q, u))
  BY ConcatAssociative DEF Cat
<1>2. \A p, q \in Seq(S) : Cat(p, q) \in Seq(S)
  BY ConcatProperties DEF Cat
<1> TAKE f, a, b, c, d, e \in Seq(S)
<1>3. Cat(f, a) \in Seq(S) /\ Cat(d, e) \in Seq(S)
  BY <1>2
<1>4. Cat(Cat(f, a), b) \in Seq(S) /\ Cat(c, Cat(d, e)) \in Seq(S)
  BY <1>2, <1>3
<1>5. Cat(Cat(Cat(f, a), b), c) \in Seq(S) /\ Cat(b, Cat(c, Cat(d, e))) \in Seq(S)
  BY <1>2, <1>4
<1>6. Cat(Cat(Cat(Cat(Cat(f, a), b), c), d), e) = Cat(Cat(Cat(Cat(f, a), b), c), Cat(d, e))
  BY <1>1, <1>5
<1>7. Cat(Cat(Cat(Cat(f, a), b), c), Cat(d, e)) = Cat(Cat(Cat(f, a), b), Cat(c, Cat(d, e)))
  BY <1>1, <1>3, <1>4
<1>8. Cat(Cat(Cat(f, a), b), Cat(c, Cat(d, e))) = Cat(Cat(f, a), Cat(b, Cat(c, Cat(d, e))))
  BY <1>1, <1>3, <1>4
<1>9. Cat(Cat(f, a), Cat(b, Cat(c, Cat(d, e)))) = Cat(f, Cat(a, Cat(b, Cat(c, Cat(d, e)))))
  BY <1>1, <1>5
<1>10. Cat(Cat(Cat(Cat(Cat(f, a), b), c), d), e) = Cat(f, Cat(a, Cat(b, Cat(c, Cat(d, e)))))
  BY <1>6, <1>7, <1>8, <1>9
<1> QED BY <1>10

(* Two sender certificates with the same signed bytes are the same: their   *)
(* texts are of any length, and each stands behind its length.              *)
LEMMA SenderCertTold ==
    ASSUME NEW V, NEW s \in SenderCertsOf(V), NEW t \in SenderCertsOf(V), Signed(s) = Signed(t)
    PROVE  s = t
<1> DEFINE S == V \cup Nat \cup {"konstruct/v1/sender-cert", kid(s.key), kid(t.key)}
           Dates(r) == <<r.issued_at, r.expires_at>>
           Fourth(r) == lp(r.device_id) \o Dates(r)
           Third(r) == lp(r.identity_key) \o Fourth(r)
           Second(r) == lp(r.domain) \o Third(r)
           First(r) == lp(r.user_id) \o Second(r)
           Front(r) == <<"konstruct/v1/sender-cert", kid(r.key)>>
<1>1. SenderCert(s) = SenderCert(t) /\ Nat \subseteq S
  BY DEF SenderCertsOf, Signed
<1>2. ASSUME NEW x \in Seq(S) PROVE lp(x) \in Seq(S)
  <2>1. <<Len(x)>> \in Seq(S)
    BY LenProperties
  <2> HIDE DEF S
  <2> QED BY <2>1, ConcatProperties DEF lp
<1>3. ASSUME NEW r \in {s, t}
      PROVE  /\ r.user_id \in Seq(S) /\ r.domain \in Seq(S) /\ r.identity_key \in Seq(S)
             /\ r.device_id \in Seq(S) /\ Dates(r) \in Seq(S) /\ Front(r) \in Seq(S)
  <2>1. /\ r.user_id \in Seq(V) /\ r.domain \in Seq(V) /\ r.identity_key \in Seq(V)
        /\ r.device_id \in Seq(V) /\ r.issued_at \in V /\ r.expires_at \in V
    BY DEF SenderCertsOf
  <2>2. V \subseteq S /\ kid(r.key) \in S /\ "konstruct/v1/sender-cert" \in S
    OBVIOUS
  <2> HIDE DEF S
  <2> QED BY <2>1, <2>2, SeqMonotonic
<1> HIDE DEF S, Dates, Front
<1>4. ASSUME NEW r \in {s, t}
      PROVE  /\ Fourth(r) \in Seq(S) /\ Third(r) \in Seq(S) /\ Second(r) \in Seq(S)
             /\ First(r) \in Seq(S)
  <2>1. Fourth(r) \in Seq(S)
    BY <1>2, <1>3, ConcatProperties
  <2>2. Third(r) \in Seq(S)
    BY <1>2, <1>3, <2>1, ConcatProperties
  <2>3. Second(r) \in Seq(S)
    BY <1>2, <1>3, <2>2, ConcatProperties
  <2>4. First(r) \in Seq(S)
    BY <1>2, <1>3, <2>3, ConcatProperties
  <2> QED BY <2>1, <2>2, <2>3, <2>4
<1>5. ASSUME NEW r \in {s, t} PROVE SenderCert(r) = Front(r) \o First(r)
  <2>1. lp(r.user_id) \in Seq(S) /\ lp(r.domain) \in Seq(S) /\ lp(r.identity_key) \in Seq(S)
        /\ lp(r.device_id) \in Seq(S)
    BY <1>2, <1>3
  <2> DEFINE f == Front(r)
             a == lp(r.user_id)
             b == lp(r.domain)
             c == lp(r.identity_key)
             d == lp(r.device_id)
             e == Dates(r)
  <2>2. SenderCert(r) = Cat(Cat(Cat(Cat(Cat(f, a), b), c), d), e)
    BY Zenon DEF SenderCert, Front, Dates, Cat
  <2>3. f \in Seq(S) /\ a \in Seq(S) /\ b \in Seq(S) /\ c \in Seq(S) /\ d \in Seq(S) /\ e \in Seq(S)
    BY <1>3, <2>1
  <2>4. Front(r) \o First(r) = Cat(f, Cat(a, Cat(b, Cat(c, Cat(d, e)))))
    BY Zenon DEF Cat
  <2> HIDE DEF f, a, b, c, d, e, First
  <2> QED BY <2>2, <2>3, <2>4, SixParts
<1>6. Front(s) = Front(t) /\ First(s) = First(t)
  <2>1. Front(s) \o First(s) = Front(t) \o First(t)
    BY <1>1, <1>5
  <2>2. Len(Front(s)) = 2 /\ Len(Front(t)) = 2
    BY DEF Front
  <2>3. /\ Front(s) \in Seq(S) /\ First(s) \in Seq(S)
        /\ Front(t) \in Seq(S) /\ First(t) \in Seq(S)
    BY <1>3, <1>4
  <2> HIDE DEF First
  <2> QED BY ONLY <2>1, <2>2, <2>3, EqualHalves
<1>7. s.key = t.key
  BY <1>6 DEF Front, kid
<1> HIDE DEF Fourth, Third, Second
<1>8. s.user_id = t.user_id /\ Second(s) = Second(t)
  <2>1. lp(s.user_id) \o Second(s) = lp(t.user_id) \o Second(t)
    BY <1>6
  <2> HIDE DEF First
  <2>2. s.user_id \in Seq(S) /\ t.user_id \in Seq(S) /\ Second(s) \in Seq(S) /\ Second(t) \in Seq(S)
    BY <1>3, <1>4
  <2> QED BY ONLY <1>1, <2>1, <2>2, TextTold
<1>9. s.domain = t.domain /\ Third(s) = Third(t)
  <2>1. lp(s.domain) \o Third(s) = lp(t.domain) \o Third(t)
    BY <1>8 DEF Second
  <2>2. s.domain \in Seq(S) /\ t.domain \in Seq(S) /\ Third(s) \in Seq(S) /\ Third(t) \in Seq(S)
    BY <1>3, <1>4
  <2> QED BY ONLY <1>1, <2>1, <2>2, TextTold
<1>10. s.identity_key = t.identity_key /\ Fourth(s) = Fourth(t)
  <2>1. lp(s.identity_key) \o Fourth(s) = lp(t.identity_key) \o Fourth(t)
    BY <1>9 DEF Third
  <2>2. s.identity_key \in Seq(S) /\ t.identity_key \in Seq(S) /\ Fourth(s) \in Seq(S) /\ Fourth(t) \in Seq(S)
    BY <1>3, <1>4
  <2> QED BY ONLY <1>1, <2>1, <2>2, TextTold
<1>11. s.device_id = t.device_id /\ Dates(s) = Dates(t)
  <2>1. lp(s.device_id) \o Dates(s) = lp(t.device_id) \o Dates(t)
    BY <1>10 DEF Fourth
  <2>2. s.device_id \in Seq(S) /\ t.device_id \in Seq(S) /\ Dates(s) \in Seq(S) /\ Dates(t) \in Seq(S)
    BY <1>3, <1>4
  <2> QED BY ONLY <1>1, <2>1, <2>2, TextTold
<1>12. s.issued_at = t.issued_at /\ s.expires_at = t.expires_at
  BY <1>11 DEF Dates
<1> QED BY <1>7, <1>8, <1>9, <1>10, <1>11, <1>12 DEF SenderCertsOf


(* The label in front of the signed bytes of each kind.                     *)
LabelOf == [sender_cert |-> "konstruct/v1/sender-cert", kt_head |-> "konstruct/v1/kt-head",
            delegation |-> "konstruct/v1/delegation", device_cert |-> "KonstruktDeviceCert-v1",
            link_proof |-> "KonstruktLinkProof-v1", opening |-> "ctt1v2-s", reply |-> "ctt1v2-r",
            cthf |-> "cthf1"]

(* The label in front of the signed bytes tells the kind of a statement.    *)
LEMMA Labelled ==
    ASSUME NEW V, NEW s \in LabelledOf(V)
    PROVE  s.kind \in DOMAIN LabelOf /\ Signed(s)[1] = LabelOf[s.kind]
<1>1. CASE s \in SenderCertsOf(V)
  <2>1. s.kind = "sender_cert" /\ Signed(s) = SenderCert(s)
    BY <1>1 DEF SenderCertsOf, Signed
  <2> DEFINE front == <<"konstruct/v1/sender-cert", kid(s.key)>>
             S == V \cup Nat \cup {"konstruct/v1/sender-cert", kid(s.key)}
             d == <<s.issued_at, s.expires_at>>
  <2>2. /\ front \in Seq(S) /\ Len(front) = 2 /\ front[1] = "konstruct/v1/sender-cert"
        /\ d \in Seq(S) /\ V \subseteq S /\ Nat \subseteq S
    BY <1>1 DEF SenderCertsOf
  <2>3. /\ s.user_id \in Seq(V) /\ s.domain \in Seq(V) /\ s.identity_key \in Seq(V)
        /\ s.device_id \in Seq(V)
    BY <1>1 DEF SenderCertsOf
  <2> HIDE DEF S
  <2>4. /\ s.user_id \in Seq(S) /\ s.domain \in Seq(S) /\ s.identity_key \in Seq(S)
        /\ s.device_id \in Seq(S)
    BY <2>2, <2>3, SeqMonotonic
  <2>5. ASSUME NEW x \in Seq(S) PROVE lp(x) \in Seq(S)
    <3>1. <<Len(x)>> \in Seq(S)
      BY <2>2, LenProperties
    <3> QED BY <3>1, ConcatProperties DEF lp
  <2>6. ASSUME NEW p \in Seq(S), Len(p) >= 2, p[1] = "konstruct/v1/sender-cert", NEW q \in Seq(S)
        PROVE  Cat(p, q) \in Seq(S) /\ Len(Cat(p, q)) >= 2 /\ Cat(p, q)[1] = "konstruct/v1/sender-cert"
    <3> HIDE <2>4, <2>3
    <3>1. /\ p \o q \in Seq(S) /\ Len(p \o q) = Len(p) + Len(q)
          /\ Len(p) \in Nat /\ Len(q) \in Nat /\ \A i \in 1 .. Len(p) : (p \o q)[i] = p[i]
      BY ONLY <2>6, Concatenated
    <3>2. 1 \in 1 .. Len(p) /\ Len(p \o q) >= 2
      BY ONLY <2>6, <3>1
    <3> QED BY ONLY <2>6, <3>1, <3>2 DEF Cat
  <2> DEFINE c1 == Cat(front, lp(s.user_id))
             c2 == Cat(c1, lp(s.domain))
             c3 == Cat(c2, lp(s.identity_key))
             c4 == Cat(c3, lp(s.device_id))
             Begins(c) == c \in Seq(S) /\ Len(c) >= 2 /\ c[1] = "konstruct/v1/sender-cert"
  <2>7. lp(s.user_id) \in Seq(S) /\ lp(s.domain) \in Seq(S) /\ lp(s.identity_key) \in Seq(S)
        /\ lp(s.device_id) \in Seq(S) /\ d \in Seq(S) /\ Begins(front)
    BY <2>2, <2>4, <2>5
  <2> HIDE DEF front, d
  <2>8. Begins(c1)
    BY <2>6, <2>7
  <2>9. Begins(c2)
    BY <2>6, <2>7, <2>8
  <2>10. Begins(c3)
    BY <2>6, <2>7, <2>9
  <2>11. Begins(c4)
    BY <2>6, <2>7, <2>10
  <2>12. Begins(Cat(c4, d))
    BY <2>6, <2>7, <2>11
  <2>13. SenderCert(s) = Cat(c4, d)
    BY Zenon DEF SenderCert, front, d, Cat
  <2> QED BY <2>1, <2>12, <2>13 DEF LabelOf
<1>2. CASE s \in KtHeadsOf(V)
  BY <1>2 DEF KtHeadsOf, Signed, KtHead, LabelOf
<1>3. CASE s \in DelegationsOf(V)
  BY <1>3 DEF DelegationsOf, Signed, Delegation, LabelOf
<1>4. CASE s \in DeviceCertsOf(V)
  BY <1>4 DEF DeviceCertsOf, Signed, DeviceCert, LabelOf
<1>5. CASE s \in LinkProofsOf(V)
  BY <1>5 DEF LinkProofsOf, Signed, LinkProof, LabelOf
<1>6. CASE s \in OpeningsOf(V)
  BY <1>6 DEF OpeningsOf, AnyOpeningsOf, Signed, build_opening, opening_transcript, OpeningBody, LabelOf
<1>7. CASE s \in RepliesOf(V)
  BY <1>7 DEF RepliesOf, Signed, build_reply, LabelOf
<1>8. CASE s \in CthfsOf(V)
  BY <1>8 DEF CthfsOf, Signed, build_cthf, CthfFields, LabelOf
<1> QED BY <1>1, <1>2, <1>3, <1>4, <1>5, <1>6, <1>7, <1>8 DEF LabelledOf

(* A hybrid signature is for one statement, of any kind and with any values *)
(* and texts: what is put in front of the fields (a label, the lengths of   *)
(* texts) makes the signed bytes of two statements differ whenever the      *)
(* statements do.                                                           *)
THEOREM OneSignatureOneStatement ==
    ASSUME NEW V, NEW s \in LabelledOf(V), NEW t \in LabelledOf(V), Signed(s) = Signed(t)
    PROVE  s = t
<1>1. s.kind = t.kind
  <2>1. /\ s.kind \in DOMAIN LabelOf /\ t.kind \in DOMAIN LabelOf
        /\ LabelOf[s.kind] = LabelOf[t.kind]
    BY Labelled
  <2> QED BY <2>1 DEF LabelOf
<1>2. /\ s \in SenderCertsOf(V) <=> s.kind = "sender_cert"
      /\ t \in SenderCertsOf(V) <=> t.kind = "sender_cert"
      /\ s \in KtHeadsOf(V) <=> s.kind = "kt_head"
      /\ t \in KtHeadsOf(V) <=> t.kind = "kt_head"
      /\ s \in DelegationsOf(V) <=> s.kind = "delegation"
      /\ t \in DelegationsOf(V) <=> t.kind = "delegation"
      /\ s \in DeviceCertsOf(V) <=> s.kind = "device_cert"
      /\ t \in DeviceCertsOf(V) <=> t.kind = "device_cert"
      /\ s \in LinkProofsOf(V) <=> s.kind = "link_proof"
      /\ t \in LinkProofsOf(V) <=> t.kind = "link_proof"
      /\ s \in OpeningsOf(V) <=> s.kind = "opening"
      /\ t \in OpeningsOf(V) <=> t.kind = "opening"
      /\ s \in RepliesOf(V) <=> s.kind = "reply"
      /\ t \in RepliesOf(V) <=> t.kind = "reply"
      /\ s \in CthfsOf(V) <=> s.kind = "cthf"
      /\ t \in CthfsOf(V) <=> t.kind = "cthf"
  <2>1. ASSUME NEW r \in LabelledOf(V)
        PROVE  /\ r \in SenderCertsOf(V) <=> r.kind = "sender_cert"
               /\ r \in KtHeadsOf(V) <=> r.kind = "kt_head"
               /\ r \in DelegationsOf(V) <=> r.kind = "delegation"
               /\ r \in DeviceCertsOf(V) <=> r.kind = "device_cert"
               /\ r \in LinkProofsOf(V) <=> r.kind = "link_proof"
               /\ r \in OpeningsOf(V) <=> r.kind = "opening"
               /\ r \in RepliesOf(V) <=> r.kind = "reply"
               /\ r \in CthfsOf(V) <=> r.kind = "cthf"
    <3>1. /\ r \in SenderCertsOf(V) => r.kind = "sender_cert"
          /\ r \in KtHeadsOf(V) => r.kind = "kt_head"
          /\ r \in DelegationsOf(V) => r.kind = "delegation"
          /\ r \in DeviceCertsOf(V) => r.kind = "device_cert"
          /\ r \in LinkProofsOf(V) => r.kind = "link_proof"
          /\ r \in OpeningsOf(V) => r.kind = "opening"
          /\ r \in RepliesOf(V) => r.kind = "reply"
          /\ r \in CthfsOf(V) => r.kind = "cthf"
      BY DEF SenderCertsOf, KtHeadsOf, DelegationsOf, DeviceCertsOf, LinkProofsOf, OpeningsOf,
             AnyOpeningsOf, RepliesOf, CthfsOf
    <3> QED BY <3>1 DEF LabelledOf
  <2> QED BY <2>1
<1> QED
  BY <1>1, <1>2, SenderCertTold, KtHeadTold, DelegationTold, DeviceCertTold, LinkProofTold,
     OpeningTold, ReplyTold, CthfTold DEF LabelledOf

(* The statements that FormatChecks picks are statements over the numbers.  *)
LEMMA StatementsCovered == Statements \subseteq LabelledOf(Nat) \cup ServerSignaturesOf(Nat)
<1>1. SenderCerts \subseteq SenderCertsOf(Nat)
  <2>1. Letters \subseteq Seq(Nat)
    BY DEF Letters
  <2> QED BY <2>1 DEF SenderCerts, SenderCertsOf
<1>2. Fixed("kt_head", {"key", "tree_size", "root_hash"}) \subseteq KtHeadsOf(Nat)
  BY DEF Fixed, KtHeadsOf
<1>3. [kind : {"delegation"}, key : {0, 1}, purpose : DOMAIN PURPOSE, not_before : {0, 1},
       not_after : {1, 2}] \subseteq DelegationsOf(Nat)
  BY DEF DelegationsOf
<1>4. Fixed("device_cert", {"signer", "identity", "verifying", "hybrid", "issued_at"})
         \subseteq DeviceCertsOf(Nat)
  BY DEF Fixed, DeviceCertsOf
<1>5. Fixed("link_proof", {"identity", "hybrid"}) \subseteq LinkProofsOf(Nat)
  BY DEF Fixed, LinkProofsOf
<1> DEFINE names == {"sender_eph", "typ", "payload_len", "sender_identity",
                     "sender_hybrid", "snapshot_id", "sender_id", "receiver_id", "kyber_key_id",
                     "kem_ct"}
<1>6. Fixed("opening", names) \subseteq AnyOpeningsOf(Nat)
  BY DEF Fixed, AnyOpeningsOf
<1>7. Openings \subseteq OpeningsOf(Nat)
  <2>1. ASSUME NEW t \in {2, 3}, NEW r \in AnyOpeningsOf(Nat)
        PROVE  [r EXCEPT !.typ = t] \in AnyOpeningsOf(Nat)
    BY DEF AnyOpeningsOf
  <2>2. {[r EXCEPT !.typ = t] : t \in {2, 3}, r \in Fixed("opening", names)}
           \subseteq AnyOpeningsOf(Nat)
    <3> HIDE DEF names
    <3> QED BY <1>6, <2>1
  <2> QED BY <2>2 DEF Openings, OpeningsOf
<1>8. Fixed("reply", {"receiver_eph", "sender_eph", "receiver_identity", "receiver_hybrid",
                      "snapshot_id", "sender_id", "receiver_id", "kem_ct"}) \subseteq RepliesOf(Nat)
  BY DEF Fixed, RepliesOf
<1>9. Fixed("cthf", {"user_id", "recipient", "source", "snapshot_id", "sender_eph",
                        "sender_identity", "sender_hybrid", "kyber_key_id", "kem_ct"}) \subseteq CthfsOf(Nat)
  BY DEF Fixed, CthfsOf
<1>10. ServerSignatures \subseteq ServerSignaturesOf(Nat)
  <2>1. Letters \subseteq Seq(Nat)
    BY DEF Letters
  <2> QED BY <2>1 DEF ServerSignatures, ServerSignaturesOf
<1> QED BY <1>1, <1>2, <1>3, <1>4, <1>5, <1>7, <1>8, <1>9, <1>10 DEF Statements, LabelledOf

-----------------------------------------------------------------------------
(* What the inputs of FormatChecks are, at any time.                        *)

InputInv ==
    /\ subject = "phases" => data \in Seq(RecordTypes) /\ second \in Seq(RecordTypes)
    /\ subject = "blob" => data \in Seq(BlobFieldInputs)
    /\ subject = "text" => data \in Seq(TextBytes)
    /\ subject = "record" => data \in RecordInputs
    /\ subject = "card" => data \in CardInputs
    /\ subject = "invite" => data \in InviteInputs
    /\ subject = "signed" => data \in Statements /\ second \in Statements

(* What was picked at the start stays what it is, and what grows is made of *)
(* the bytes and types it is given.                                         *)
LEMMA InputsArePicked == Inputs => []InputInv
<1>1. PickInput => InputInv
  <2>1. <<>> \in Seq(RecordTypes) /\ <<>> \in Seq(TextBytes) /\ <<>> \in Seq(BlobFieldInputs)
    BY EmptySeq
  <2> QED BY <2>1 DEF PickInput, InputInv
<1>2. InputInv /\ [WriteMore]_inputs => InputInv'
  <2> SUFFICES ASSUME InputInv, [WriteMore]_inputs PROVE InputInv'
    OBVIOUS
  <2>1. ASSUME NEW b \in StreamBytes, WriteStream(b) PROVE InputInv'
    BY <2>1 DEF InputInv, WriteStream
  <2>2. ASSUME NEW t \in RecordTypes, WritePhase(t) PROVE InputInv'
    <3>1. data \in Seq(RecordTypes) /\ second \in Seq(RecordTypes) /\ subject' = "phases"
      BY <2>2 DEF InputInv, WritePhase
    <3>2. Append(data, t) \in Seq(RecordTypes) /\ Append(second, t) \in Seq(RecordTypes)
      BY <3>1, AppendProperties
    <3>3. data' \in Seq(RecordTypes) /\ second' \in Seq(RecordTypes)
      BY <2>2, <3>1, <3>2 DEF WritePhase
    <3> QED BY <3>1, <3>3 DEF InputInv
  <2>3. ASSUME NEW f \in BlobFieldInputs, WriteBlob(f) PROVE InputInv'
    <3>1. data \in Seq(BlobFieldInputs) /\ subject' = "blob" /\ data' = Append(data, f)
      BY <2>3 DEF InputInv, WriteBlob
    <3>2. data' \in Seq(BlobFieldInputs)
      BY <3>1, AppendProperties
    <3> QED BY <3>1, <3>2 DEF InputInv
  <2>4. ASSUME NEW b \in TextBytes, WriteText(b) PROVE InputInv'
    <3>1. data \in Seq(TextBytes) /\ subject' = "text" /\ data' = Append(data, b)
      BY <2>4 DEF InputInv, WriteText
    <3>2. data' \in Seq(TextBytes)
      BY <3>1, AppendProperties
    <3> QED BY <3>1, <3>2 DEF InputInv
  <2>5. CASE UNCHANGED inputs
    BY <2>5 DEF InputInv, inputs
  <2> QED BY <2>1, <2>2, <2>3, <2>4, <2>5 DEF WriteMore
<1> QED BY <1>1, <1>2, PTL DEF Inputs

-----------------------------------------------------------------------------
(* No two statements of the run share their signature (server_trust and     *)
(* device certificates, the CTT1 and CTHF frames), but for certificates     *)
(* that server_signature covers and that are cut differently.               *)
THEOREM SignaturesTellApart == Inputs => []SignedBytesTellApart
<1>1. InputInv => SignedBytesTellApart
  <2> SUFFICES ASSUME InputInv, subject = "signed", ShareASignature(data, second),
                      ~CutDifferently(data, second)
               PROVE  data = second
    BY DEF SignedBytesTellApart
  <2>1. /\ data \in LabelledOf(Nat) \cup ServerSignaturesOf(Nat)
        /\ second \in LabelledOf(Nat) \cup ServerSignaturesOf(Nat)
    BY StatementsCovered DEF InputInv
  <2>2. \A r \in ServerSignaturesOf(Nat) : r.kind = "server_signature"
    BY DEF ServerSignaturesOf
  <2>3. \A r \in LabelledOf(Nat) : r.kind # "server_signature"
    BY DEF LabelledOf, SenderCertsOf, KtHeadsOf, DelegationsOf, DeviceCertsOf, LinkProofsOf,
           OpeningsOf, AnyOpeningsOf, RepliesOf, CthfsOf
  <2>4. /\ Signed(data) = Signed(second)
        /\ data.kind = "server_signature" <=> second.kind = "server_signature"
    BY DEF ShareASignature
  <2>5. CASE data \in ServerSignaturesOf(Nat)
    <3>1. second \in ServerSignaturesOf(Nat)
      BY <2>1, <2>2, <2>3, <2>4, <2>5
    <3> QED BY <2>4, <2>5, <3>1, ServerSignatureTold
  <2>6. CASE data \in LabelledOf(Nat)
    <3>1. second \in LabelledOf(Nat)
      BY <2>1, <2>2, <2>3, <2>4, <2>6
    <3> QED BY <2>4, <2>6, <3>1, OneSignatureOneStatement
  <2> QED BY <2>1, <2>5, <2>6
<1> QED BY <1>1, InputsArePicked, PTL

-----------------------------------------------------------------------------
(* The two forms of a history.                                              *)

(* What Kept makes of a list from place k on. *)
KeptFrom(list, types) ==
    CHOOSE g : g = [k \in Nat |->
        IF k > Len(list) THEN <<>>
        ELSE (IF list[k] \in types THEN <<list[k]>> ELSE <<>>) \o g[k + 1]]

IsKept(f, list, types) ==
    /\ Len(list) \in Nat /\ f[Len(list) + 1] = <<>>
    /\ \A k \in 1 .. Len(list) : f[k] = (IF list[k] \in types THEN <<list[k]>> ELSE <<>>) \o f[k + 1]

(* Kept, one type of the list at a time.                                    *)
LEMMA KeptSteps ==
    ASSUME NEW S, NEW list \in Seq(S), NEW types
    PROVE  /\ Kept(list, types) = KeptFrom(list, types)[1]
           /\ IsKept(KeptFrom(list, types), list, types)
<1> DEFINE f == KeptFrom(list, types)
           N == Len(list)
           last == {k \in Nat : k > N}
           a == <<>>
           p == [k \in Nat |-> IF list[k] \in types THEN <<list[k]>> ELSE <<>>]
<1>1. N \in Nat
  BY LenProperties
<1>2. \E g : IsRest(g, last, a, p)
  <2>1. N + 1 \in Nat /\ \A i \in Nat : i >= N + 1 => i \in last
    BY <1>1
  <2> HIDE DEF last, a, p
  <2> QED BY <2>1, RestExists
<1>3. PICK g : g = [i \in Nat |-> IF i \in last THEN a ELSE p[i] \o g[i + 1]]
  BY <1>2 DEF IsRest
<1>4. g = [k \in Nat |-> IF k > N THEN <<>>
                         ELSE (IF list[k] \in types THEN <<list[k]>> ELSE <<>>) \o g[k + 1]]
  <2>1. \A i \in Nat : (IF i \in last THEN a ELSE p[i] \o g[i + 1])
            = IF i > N THEN <<>>
              ELSE (IF list[i] \in types THEN <<list[i]>> ELSE <<>>) \o g[i + 1]
    OBVIOUS
  <2> HIDE DEF last, a, p, N
  <2> QED BY <1>3, <2>1
<1>5. f = [k \in Nat |-> IF k > N THEN <<>>
                         ELSE (IF list[k] \in types THEN <<list[k]>> ELSE <<>>) \o f[k + 1]]
  BY <1>4, Zenon DEF KeptFrom
<1> HIDE DEF f
<1>6. \A k \in Nat : f[k] = IF k > N THEN <<>>
                         ELSE (IF list[k] \in types THEN <<list[k]>> ELSE <<>>) \o f[k + 1]
  BY <1>5
<1>7. f[N + 1] = <<>>
  <2>1. N + 1 \in Nat /\ N + 1 > N
    BY <1>1
  <2> HIDE DEF N
  <2> QED BY <1>6, <2>1
<1>8. \A k \in 1 .. N : f[k] = (IF list[k] \in types THEN <<list[k]>> ELSE <<>>) \o f[k + 1]
  <2>1. \A k \in 1 .. N : k \in Nat /\ ~(k > N)
    BY <1>1
  <2> HIDE DEF N
  <2> QED BY <1>6, <2>1
<1>9. Kept(list, types) = f[1]
  BY Zenon DEF Kept, f, KeptFrom
<1> QED BY <1>1, <1>7, <1>8, <1>9, Zenon DEF f, IsKept

(* What is kept is of the types, and is in the list. *)
LEMMA KeptAreOfTypes ==
    ASSUME NEW S, NEW list \in Seq(S), NEW types
    PROVE  \A k \in 1 .. Len(list) + 1 : KeptFrom(list, types)[k] \in Seq(S \cap types)
<1> DEFINE f == KeptFrom(list, types)
           N == Len(list)
           T == {d \in Nat : d <= N => f[(N + 1) - d] \in Seq(S \cap types)}
<1>1. /\ N \in Nat /\ f[N + 1] = <<>>
      /\ \A k \in 1 .. N : f[k] = (IF list[k] \in types THEN <<list[k]>> ELSE <<>>) \o f[k + 1]
  <2>1. IsKept(f, list, types)
    BY KeptSteps
  <2> QED BY <2>1, Zenon DEF IsKept
<1> HIDE DEF f, N
<1>2. 0 \in T
  <2>1. (N + 1) - 0 = N + 1
    BY <1>1
  <2>2. <<>> \in Seq(S \cap types)
    BY EmptySeq
  <2> QED BY <1>1, <2>1, <2>2
<1>3. ASSUME NEW d \in T PROVE d + 1 \in T
  <2> SUFFICES ASSUME d + 1 <= N PROVE f[(N + 1) - (d + 1)] \in Seq(S \cap types)
    OBVIOUS
  <2> DEFINE k == N - d
  <2>1. k \in 1 .. N /\ k + 1 = (N + 1) - d /\ (N + 1) - (d + 1) = k /\ d <= N
    BY <1>1
  <2>2. f[k + 1] \in Seq(S \cap types)
    BY <2>1
  <2> HIDE DEF k
  <2>3. (IF list[k] \in types THEN <<list[k]>> ELSE <<>>) \in Seq(S \cap types)
    <3>1. list[k] \in S
      BY <2>1, ElementOfSeq DEF N
    <3>2. list[k] \in types => <<list[k]>> \in Seq(S \cap types)
      BY <3>1
    <3>3. <<>> \in Seq(S \cap types)
      BY EmptySeq
    <3> QED BY <3>2, <3>3
  <2>4. f[k] \in Seq(S \cap types)
    <3> DEFINE a == IF list[k] \in types THEN <<list[k]>> ELSE <<>>
               b == f[k + 1]
    <3>1. f[k] = a \o b
      BY <1>1, <2>1
    <3>2. a \in Seq(S \cap types) /\ b \in Seq(S \cap types)
      BY <2>2, <2>3
    <3> HIDE DEF a, b
    <3> QED BY <3>1, <3>2, ConcatProperties
  <2> QED BY <2>1, <2>4
<1>4. T = Nat
  <2>1. T \subseteq Nat
    OBVIOUS
  <2> HIDE DEF T
  <2> QED BY <1>2, <1>3, <2>1, SetInduction
<1>5. ASSUME NEW k \in 1 .. N + 1 PROVE f[k] \in Seq(S \cap types)
  <2>1. (N + 1) - k \in Nat /\ (N + 1) - k <= N /\ (N + 1) - ((N + 1) - k) = k
    BY <1>1
  <2>2. (N + 1) - k \in T
    BY <1>4, <2>1
  <2> QED BY <2>1, <2>2
<1> QED BY <1>5 DEF f, N


(* A list with one value put in front. *)
LEMMA InFront ==
    ASSUME NEW S, NEW x \in S, NEW u \in Seq(S)
    PROVE  <<x>> \o u # <<>> /\ Head(<<x>> \o u) = x /\ Tail(<<x>> \o u) = u
<1> DEFINE o == <<x>>
           w == o \o u
           t == Tail(w)
<1>1. o \in Seq(S) /\ Len(o) = 1 /\ o[1] = x
  OBVIOUS
<1> HIDE DEF o
<1>2. /\ w \in Seq(S) /\ Len(w) = 1 + Len(u) /\ Len(u) \in Nat /\ w[1] = x
      /\ \A i \in 1 .. Len(u) : w[1 + i] = u[i]
  <2>1. o \in Seq(S) /\ u \in Seq(S)
    BY <1>1
  <2>2. /\ w \in Seq(S) /\ Len(w) = Len(o) + Len(u) /\ Len(u) \in Nat
        /\ \A i \in 1 .. Len(o) : w[i] = o[i]
        /\ \A i \in 1 .. Len(u) : w[Len(o) + i] = u[i]
    BY ONLY <2>1, Concatenated
  <2> QED BY ONLY <1>1, <2>2
<1> HIDE DEF w
<1>3. w # <<>>
  BY <1>2, EmptySeq
<1>4. Head(w) = w[1] /\ t \in Seq(S) /\ Len(t) = Len(w) - 1 /\ \A i \in 1 .. Len(t) : t[i] = w[i + 1]
  BY <1>2, <1>3, HeadTailProperties
<1> HIDE DEF t
<1>5. Len(t) = Len(u) /\ \A i \in 1 .. Len(u) : t[i] = u[i]
  <2>1. Len(t) = Len(u) /\ \A i \in 1 .. Len(u) : i + 1 = 1 + i
    BY <1>2, <1>4
  <2> QED BY ONLY <1>2, <1>4, <2>1
<1>6. t = u
  <2>1. t \in Seq(S) /\ u \in Seq(S)
    BY <1>4
  <2> QED BY ONLY <1>5, <2>1, SeqEqual
<1> QED BY <1>2, <1>3, <1>4, <1>6 DEF w, o, t

(* The loop over seen_message, when one more type comes first.              *)
LEMMA OneMoreInFront ==
    ASSUME NEW S, NEW x \in S, NEW u \in Seq(S),
           x = RT_MESSAGE \/ (x # RT_REACTION /\ ReactionsFollow(u))
    PROVE  ReactionsFollow(<<x>> \o u)
<1> DEFINE o == <<x>>
           w == o \o u
<1>1. o \in Seq(S) /\ Len(o) = 1 /\ o[1] = x
  OBVIOUS
<1> HIDE DEF o
<1>2. /\ w \in Seq(S) /\ Len(w) = 1 + Len(u) /\ Len(u) \in Nat /\ w[1] = x
      /\ \A i \in 1 .. Len(u) : w[1 + i] = u[i]
  <2>1. o \in Seq(S) /\ u \in Seq(S)
    BY <1>1
  <2>2. /\ w \in Seq(S) /\ Len(w) = Len(o) + Len(u) /\ Len(u) \in Nat
        /\ \A i \in 1 .. Len(o) : w[i] = o[i]
        /\ \A i \in 1 .. Len(u) : w[Len(o) + i] = u[i]
    BY ONLY <2>1, Concatenated
  <2> QED BY ONLY <1>1, <2>2
<1> HIDE DEF w
<1>3. ASSUME NEW k \in DOMAIN w, w[k] = RT_REACTION
      PROVE  \E j \in 1 .. k - 1 : w[j] = RT_MESSAGE
  <2>1. k \in 1 .. 1 + Len(u)
    BY <1>2, LenProperties
  <2>2. k # 1
    BY <1>2, <1>3 DEF RT_MESSAGE, RT_REACTION
  <2>3. CASE x = RT_MESSAGE
    BY <1>2, <2>1, <2>2, <2>3
  <2>4. CASE ReactionsFollow(u)
    <3> DEFINE i == k - 1
    <3>1. i \in 1 .. Len(u) /\ 1 + i = k /\ DOMAIN u = 1 .. Len(u)
      BY <1>2, <2>1, <2>2, LenProperties
    <3> HIDE DEF i
    <3>2. u[i] = RT_REACTION
      BY <1>2, <1>3, <3>1
    <3>3. PICK j \in 1 .. i - 1 : u[j] = RT_MESSAGE
      BY <2>4, <3>1, <3>2 DEF ReactionsFollow
    <3>4. 1 + j \in 1 .. k - 1 /\ j \in 1 .. Len(u)
      BY <1>2, <3>1
    <3> QED BY <1>2, <3>3, <3>4
  <2> QED BY <2>3, <2>4
<1> QED BY <1>3 DEF ReactionsFollow, w, o

(* Taking out what is no message or reaction leaves the order legal.        *)
LEMMA KeptFollow ==
    ASSUME NEW S, NEW list \in Seq(S), NEW types, RT_MESSAGE \in types,
           NEW k \in 1 .. Len(list) + 1,
           \A m \in k .. Len(list) : list[m] = RT_REACTION =>
               \E j \in k .. m - 1 : list[j] = RT_MESSAGE
    PROVE  ReactionsFollow(KeptFrom(list, types)[k])
<1> DEFINE f == KeptFrom(list, types)
           N == Len(list)
           Legal(i) == \A m \in i .. N : list[m] = RT_REACTION =>
                          \E j \in i .. m - 1 : list[j] = RT_MESSAGE
           T == {d \in Nat : d <= N => (Legal((N + 1) - d) => ReactionsFollow(f[(N + 1) - d]))}
<1>1. /\ N \in Nat /\ f[N + 1] = <<>>
      /\ \A i \in 1 .. N : f[i] = (IF list[i] \in types THEN <<list[i]>> ELSE <<>>) \o f[i + 1]
  <2>1. IsKept(f, list, types)
    BY KeptSteps
  <2> QED BY <2>1, Zenon DEF IsKept
<1>2. \A i \in 1 .. N + 1 : f[i] \in Seq(S \cap types)
  BY KeptAreOfTypes
<1>3. \A i \in 1 .. N : list[i] \in S
  BY ElementOfSeq
<1>4. Legal(k) /\ k \in 1 .. N + 1
  OBVIOUS
<1> HIDE DEF f, N
<1>5. 0 \in T
  <2>1. (N + 1) - 0 = N + 1 /\ 0 \in Nat
    BY <1>1
  <2>2. ReactionsFollow(<<>>)
    BY DEF ReactionsFollow
  <2> QED BY <1>1, <2>1, <2>2
<1>6. ASSUME NEW d \in T PROVE d + 1 \in T
  <2> DEFINE i == N - d
  <2> SUFFICES ASSUME d + 1 <= N, Legal((N + 1) - (d + 1)) PROVE ReactionsFollow(f[(N + 1) - (d + 1)])
    OBVIOUS
  <2>1. i \in 1 .. N /\ i + 1 = (N + 1) - d /\ (N + 1) - (d + 1) = i /\ d <= N /\ i + 1 \in 1 .. N + 1
    BY <1>1
  <2>2. Legal(i + 1) => ReactionsFollow(f[i + 1])
    BY <2>1
  <2>3. Legal(i)
    BY <2>1
  <2> HIDE DEF i
  <2>4. list[i] # RT_REACTION
    BY <1>1, <2>1, <2>3
  <2>5. list[i] # RT_MESSAGE => Legal(i + 1)
    <3> SUFFICES ASSUME list[i] # RT_MESSAGE, NEW m \in i + 1 .. N, list[m] = RT_REACTION
                 PROVE  \E j \in i + 1 .. m - 1 : list[j] = RT_MESSAGE
      OBVIOUS
    <3>1. m \in i .. N
      BY <1>1, <2>1
    <3>2. PICK j \in i .. m - 1 : list[j] = RT_MESSAGE
      BY <2>3, <3>1
    <3>3. j \in i + 1 .. m - 1
      BY <1>1, <2>1, <3>1, <3>2
    <3> QED BY <3>2, <3>3
  <2>6. f[i] = (IF list[i] \in types THEN <<list[i]>> ELSE <<>>) \o f[i + 1]
    BY <1>1, <2>1
  <2>7. f[i + 1] \in Seq(S \cap types) /\ list[i] \in S
    BY <1>2, <1>3, <2>1
  <2> HIDE DEF Legal
  <2>8. CASE list[i] \in types
    <3> DEFINE u == f[i + 1]
               x == list[i]
               X == S \cap types
    <3>1. f[i] = <<x>> \o u
      BY <2>6, <2>8
    <3>2. x \in X /\ u \in Seq(X) /\ (x = RT_MESSAGE \/ (x # RT_REACTION /\ ReactionsFollow(u)))
      BY <2>2, <2>4, <2>5, <2>7, <2>8
    <3> HIDE DEF u, x, X
    <3>3. ReactionsFollow(<<x>> \o u)
      BY ONLY <3>2, OneMoreInFront
    <3> QED BY <2>1, <3>1, <3>3
  <2>9. CASE list[i] \notin types
    <3>1. list[i] # RT_MESSAGE
      BY <2>9
    <3>2. f[i] = f[i + 1]
      <4>1. f[i] = <<>> \o f[i + 1]
        BY <2>6, <2>9
      <4> QED BY <2>7, <4>1, ConcatEmptySeq
    <3> QED BY <2>1, <2>2, <2>5, <3>1, <3>2
  <2> QED BY <2>8, <2>9
<1>7. T = Nat
  <2>1. T \subseteq Nat
    OBVIOUS
  <2> HIDE DEF T
  <2> QED BY <1>5, <1>6, <2>1, SetInduction
<1>8. (N + 1) - k \in Nat /\ (N + 1) - k <= N /\ (N + 1) - ((N + 1) - k) = k
  BY <1>1, <1>4
<1>9. (N + 1) - k \in T
  BY <1>7, <1>8
<1> QED BY <1>4, <1>8, <1>9 DEF f

(* Any transcript and any media phase, of any record types, make a legal    *)
(* file, and any legal file is taken apart into the two (phase_ok of        *)
(* check_history_snapshot.py).                                              *)
THEOREM FileAndPhases ==
    ASSUME NEW S, NEW one \in Seq(S), NEW two \in Seq(S)
    PROVE  /\ phase_ok(1, one) /\ phase_ok(2, two) => phase_ok(3, one \o Tail(two))
           /\ phase_ok(3, one) =>
                 /\ phase_ok(1, Kept(one, Nat \ MEDIA_TYPES))
                 /\ phase_ok(2, <<RT_MANIFEST>> \o Kept(one, MEDIA_TYPES))
<1>1. ASSUME phase_ok(1, one), phase_ok(2, two)
      PROVE  phase_ok(3, one \o Tail(two))
  <2> DEFINE a == Tail(one)
             b == Tail(two)
             w == one \o b
             t == Tail(w)
  <2>1. /\ one # <<>> /\ two # <<>> /\ Head(one) = RT_MANIFEST /\ ReactionsFollow(a)
        /\ \A k \in DOMAIN b : b[k] \in MEDIA_TYPES
    BY <1>1 DEF phase_ok, PhaseBody
  <2>2. /\ a \in Seq(S) /\ Len(a) = Len(one) - 1 /\ \A i \in 1 .. Len(a) : a[i] = one[i + 1]
        /\ b \in Seq(S) /\ Len(one) \in Nat \ {0} /\ Head(one) = one[1]
        /\ DOMAIN a = 1 .. Len(a) /\ DOMAIN b = 1 .. Len(b)
    BY <2>1, HeadTailProperties, LenProperties, EmptySeq
  <2> HIDE DEF a, b
  <2>3. /\ w \in Seq(S) /\ Len(w) = Len(one) + Len(b) /\ Len(b) \in Nat
        /\ \A i \in 1 .. Len(one) : w[i] = one[i]
        /\ \A i \in 1 .. Len(b) : w[Len(one) + i] = b[i]
    <3>1. one \in Seq(S) /\ b \in Seq(S)
      BY <2>2
    <3> QED BY ONLY <3>1, Concatenated
  <2> HIDE DEF w
  <2>4. w # <<>>
    BY <2>2, <2>3, EmptySeq
  <2>5. /\ Head(w) = w[1] /\ t \in Seq(S) /\ Len(t) = Len(w) - 1
        /\ \A i \in 1 .. Len(t) : t[i] = w[i + 1]
        /\ DOMAIN t = 1 .. Len(t)
    BY <2>3, <2>4, HeadTailProperties, LenProperties
  <2>6. Head(w) = RT_MANIFEST
    BY <2>1, <2>2, <2>3, <2>5
  <2> HIDE DEF t
  <2>7. ASSUME NEW k \in DOMAIN t, t[k] = RT_REACTION
        PROVE  \E j \in 1 .. k - 1 : t[j] = RT_MESSAGE
    <3>1. k \in 1 .. Len(a) + Len(b) /\ Len(a) \in Nat /\ t[k] = w[k + 1] /\ Len(t) = Len(a) + Len(b)
      BY <2>2, <2>3, <2>5
    <3>2. CASE k <= Len(a)
      <4>1. k \in 1 .. Len(a) /\ k + 1 \in 1 .. Len(one)
        BY <2>2, <3>1, <3>2
      <4>2. a[k] = RT_REACTION
        BY <2>2, <2>3, <2>7, <3>1, <4>1
      <4>3. PICK j \in 1 .. k - 1 : a[j] = RT_MESSAGE
        BY <2>1, <2>2, <4>1, <4>2 DEF ReactionsFollow
      <4>4. j \in 1 .. Len(a) /\ j + 1 \in 1 .. Len(one) /\ j \in 1 .. Len(t)
        BY <2>2, <2>3, <3>1, <4>1
      <4>5. t[j] = a[j]
        BY <2>2, <2>3, <2>5, <4>4
      <4> QED BY <4>3, <4>5
    <3>3. CASE k > Len(a)
      <4> DEFINE i == k - Len(a)
      <4>1. i \in 1 .. Len(b) /\ k + 1 = Len(one) + i
        BY <2>2, <2>3, <3>1, <3>3
      <4> HIDE DEF i
      <4>2. t[k] = b[i]
        BY <2>3, <3>1, <4>1
      <4> QED BY <2>1, <2>2, <2>7, <4>1, <4>2 DEF MEDIA_TYPES, RT_REACTION
    <3> QED BY <2>2, <3>1, <3>2, <3>3
  <2>8. ReactionsFollow(t) /\ PhaseBody(3, t)
    BY <2>7 DEF ReactionsFollow, PhaseBody
  <2> QED BY <2>4, <2>6, <2>8, Zenon DEF phase_ok, t, w, b
<1>2. ASSUME phase_ok(3, one)
      PROVE  phase_ok(1, Kept(one, Nat \ MEDIA_TYPES))
  <2> DEFINE types == Nat \ MEDIA_TYPES
             f == KeptFrom(one, types)
             a == Tail(one)
             u == f[2]
             X == S \cap types
             w == Kept(one, types)
  <2>1. one # <<>> /\ Head(one) = RT_MANIFEST /\ ReactionsFollow(a)
    BY <1>2 DEF phase_ok
  <2>2. /\ a \in Seq(S) /\ Len(a) = Len(one) - 1 /\ \A i \in 1 .. Len(a) : a[i] = one[i + 1]
        /\ Len(one) \in Nat \ {0} /\ Head(one) = one[1]
        /\ DOMAIN a = 1 .. Len(a) /\ one[1] \in S
    BY <2>1, HeadTailProperties, LenProperties, EmptySeq, ElementOfSeq
  <2>3. RT_MANIFEST \in types /\ RT_MESSAGE \in types
    BY DEF RT_MANIFEST, RT_MESSAGE, MEDIA_TYPES
  <2>4. IsKept(f, one, types) /\ w = f[1]
    BY KeptSteps
  <2>5. u \in Seq(X)
    <3>1. 2 \in 1 .. Len(one) + 1
      BY <2>2
    <3> QED BY <3>1, KeptAreOfTypes
  <2> HIDE DEF a, w, types, f
  <2>6. w = <<RT_MANIFEST>> \o u
    <3>1. f[1] = (IF one[1] \in types THEN <<one[1]>> ELSE <<>>) \o f[1 + 1]
      <4>1. 1 \in 1 .. Len(one)
        BY <2>2
      <4>2. \A k \in 1 .. Len(one) :
               f[k] = (IF one[k] \in types THEN <<one[k]>> ELSE <<>>) \o f[k + 1]
        BY <2>4, Zenon DEF IsKept
      <4> QED BY <4>1, <4>2, Zenon
    <3>2. 1 + 1 = 2 /\ one[1] = RT_MANIFEST /\ one[1] \in types
      BY <2>1, <2>2, <2>3
    <3>3. f[1] = <<one[1]>> \o f[2]
      BY <3>1, <3>2
    <3> QED BY <2>4, <3>2, <3>3
  <2>7. ReactionsFollow(u)
    <3>1. ASSUME NEW m \in 2 .. Len(one), one[m] = RT_REACTION
          PROVE  \E j \in 2 .. m - 1 : one[j] = RT_MESSAGE
      <4>1. m - 1 \in DOMAIN a /\ (m - 1) + 1 = m
        BY <2>2
      <4>2. a[m - 1] = RT_REACTION
        BY <2>2, <3>1, <4>1
      <4>3. PICK j \in 1 .. (m - 1) - 1 : a[j] = RT_MESSAGE
        BY <2>1, <4>1, <4>2 DEF ReactionsFollow
      <4>4. j + 1 \in 2 .. m - 1 /\ j \in 1 .. Len(a)
        BY <2>2, <4>1
      <4> QED BY <2>2, <4>3, <4>4
    <3>2. 2 \in 1 .. Len(one) + 1
      BY <2>2
    <3> QED BY <2>3, <3>1, <3>2, KeptFollow DEF f
  <2>8. RT_MANIFEST \in X
    BY <2>1, <2>2, <2>3
  <2> HIDE DEF u, X
  <2>9. w # <<>> /\ Head(w) = RT_MANIFEST /\ Tail(w) = u
    BY <2>5, <2>6, <2>8, InFront
  <2>10. PhaseBody(1, u)
    <3>1. ASSUME NEW k \in DOMAIN u PROVE u[k] \notin MEDIA_TYPES
      <4>1. u[k] \in X
        BY <2>5, LenProperties, ElementOfSeq
      <4> QED BY <4>1 DEF X, types
    <3> QED BY <3>1 DEF PhaseBody
  <2> QED BY <2>7, <2>9, <2>10 DEF phase_ok, w, types
<1>3. ASSUME phase_ok(3, one)
      PROVE  phase_ok(2, <<RT_MANIFEST>> \o Kept(one, MEDIA_TYPES))
  <2> DEFINE f == KeptFrom(one, MEDIA_TYPES)
             u == Kept(one, MEDIA_TYPES)
             X == (S \cap MEDIA_TYPES)
             Y == X \cup {RT_MANIFEST}
             w == <<RT_MANIFEST>> \o u
  <2>1. u = f[1] /\ Len(one) \in Nat
    BY KeptSteps, LenProperties
  <2>2. u \in Seq(X)
    <3>1. 1 \in 1 .. Len(one) + 1
      BY <2>1
    <3>2. f[1] \in Seq(X)
      BY <3>1, KeptAreOfTypes
    <3> QED BY <2>1, <3>2
  <2> HIDE DEF u, f
  <2>3. u \in Seq(Y) /\ RT_MANIFEST \in Y
    BY <2>2, SeqMonotonic
  <2>4. ASSUME NEW k \in DOMAIN u PROVE u[k] \in MEDIA_TYPES
    <3>1. u[k] \in X
      BY <2>2, LenProperties, ElementOfSeq
    <3> QED BY <3>1
  <2>5. PhaseBody(2, u) /\ ReactionsFollow(u)
    BY <2>4 DEF PhaseBody, ReactionsFollow, MEDIA_TYPES, RT_REACTION
  <2> HIDE DEF Y
  <2>6. w # <<>> /\ Head(w) = RT_MANIFEST /\ Tail(w) = u
    BY <2>3, InFront
  <2> QED BY <2>5, <2>6 DEF phase_ok, u
<1> QED BY <1>1, <1>2, <1>3


(* The two ways a history travels, for the phases of the run with any bound *)
(* on their records.                                                        *)
THEOREM HistoriesTravelEitherWay == Inputs => []PhasesMakeAFile
<1>1. InputInv => PhasesMakeAFile
  BY FileAndPhases DEF InputInv, PhasesMakeAFile
<1> QED BY <1>1, InputsArePicked, PTL

(* A walk that looks at later places only, and stops somewhere, is a        *)
(* function: the value at a place is made of the value at the next.         *)
IsWalk(g, S, last, a, wrap, next) ==
    /\ g \in [Nat -> S]
    /\ \A i \in Nat : g[i] = IF i \in last THEN a[i] ELSE wrap[i][g[next[i]]]

(* A walk over places that only goes forward, and stops at the latest at    *)
(* the end, has one value at each place: the recursive definitions of the   *)
(* readers are what their equations say.                                    *)
LEMMA WalkExists ==
    ASSUME NEW S, NEW n \in Nat, NEW last, \A i \in Nat : i >= n => i \in last,
           NEW a \in [Nat -> S], NEW wrap \in [Nat -> [S -> S]], NEW next \in [Nat -> Nat],
           \A i \in Nat : i \notin last => next[i] > i
    PROVE  \E g : IsWalk(g, S, last, a, wrap, next)
<1> DEFINE Value(g, i) == IF i \in last THEN a[i] ELSE wrap[i][g[next[i]]]
           From(g, d) == g \in [Nat -> S] /\ \A i \in Nat : i + d >= n => g[i] = Value(g, i)
           T == {d \in Nat : \E g : From(g, d)}
<1>1. 0 \in T
  <2>1. a \in [Nat -> S] /\ \A i \in Nat : i + 0 >= n => a[i] = Value(a, i)
    OBVIOUS
  <2>2. From(a, 0)
    BY <2>1
  <2> QED BY <2>2
<1>2. ASSUME NEW d \in T
      PROVE  d + 1 \in T
  <2>1. PICK g : From(g, d)
    OBVIOUS
  <2> DEFINE h == [i \in Nat |-> IF i + d >= n THEN g[i] ELSE Value(g, i)]
  <2>2. d \in Nat /\ \A i \in Nat : h[i] = IF i + d >= n THEN g[i] ELSE Value(g, i)
    OBVIOUS
  <2>3. g \in [Nat -> S] /\ \A i \in Nat : i + d >= n => g[i] = Value(g, i)
    BY <2>1
  <2>4. h \in [Nat -> S]
    <3>1. \A i \in Nat : Value(g, i) \in S
      BY <2>3
    <3> HIDE DEF Value
    <3> QED BY <2>3, <3>1
  <2> HIDE DEF h
  <2>5. ASSUME NEW i \in Nat, i + (d + 1) >= n
        PROVE  h[i] = Value(h, i)
    <3>1. h[i] = Value(g, i)
      BY <2>2, <2>3
    <3>2. CASE i \in last
      BY <3>1, <3>2
    <3>3. CASE i \notin last
      <4>1. next[i] \in Nat /\ next[i] + d >= n
        <5>1. next[i] \in Nat /\ next[i] > i
          BY <3>3
        <5> QED BY <2>2, <2>5, <5>1
      <4>2. h[next[i]] = g[next[i]]
        BY <2>2, <4>1
      <4> QED BY <3>1, <3>3, <4>2
    <3> QED BY <3>2, <3>3
  <2>6. \E k : From(k, d + 1)
    BY <2>4, <2>5, Zenon
  <2> HIDE DEF From
  <2> QED BY <2>2, <2>6
<1>3. T = Nat
  <2>1. T \subseteq Nat
    OBVIOUS
  <2> HIDE DEF T
  <2> QED BY <1>1, <1>2, <2>1, SetInduction
<1>4. PICK g : From(g, n)
  BY <1>3, Zenon
<1>5. g \in [Nat -> S] /\ \A i \in Nat : g[i] = Value(g, i)
  BY <1>4
<1> QED BY <1>5, Zenon DEF IsWalk

-----------------------------------------------------------------------------
(* The generator's own walks over a stream.                                 *)

(* What every walk finds where a record starts. *)
LEMMA RecordPlace ==
    ASSUME NEW h \in RecordLists, NEW n \in 0 .. Len(h) - 1, NEW i, i = End(h, n) + 1
    PROVE  LET W == stream(h)
               size == Len(h[n + 1].payload)
               to == End(h, n + 1) + 1
           IN  /\ i \in 1 .. Len(W) /\ to \in Nat /\ W[i] = h[n + 1].type /\ W[i] # RT_END
               /\ i + LEN_BYTES <= Len(W) /\ UnpackLen(W, i + 1) = size
               /\ i + 1 + LEN_BYTES + UnpackLen(W, i + 1) = to
               /\ SubSeq(W, i + 1 + LEN_BYTES, to - 1) = h[n + 1].payload
<1> DEFINE W == stream(h)
           r == h[n + 1]
           size == Len(r.payload)
           e == End(h, n)
           f == End(h, n + 1)
<1>1. LEN_BYTES \in Nat \ {0} /\ W \in Seq(Nat) /\ Len(h) \in Nat
  <2>1. LEN_BYTES \in Nat \ {0}
    BY StreamAssumption
  <2>2. W \in Seq(Nat) /\ Len(h) \in Nat
    BY StreamLayout, Zenon
  <2> QED BY <2>1, <2>2
<1>2. n \in 0 .. Len(h) /\ n + 1 \in 1 .. Len(h) /\ n + 1 \in 0 .. Len(h)
  BY <1>1
<1>3. r \in Records /\ size \in 0 .. MAX_RECORD_BYTES
  <2>1. r \in Records
    BY <1>2, UpToSteps
  <2>2. size \in Nat
    BY <2>1, RecordLayout
  <2>3. h \in Seq(Records)
    BY DEF RecordLists
  <2>4. n + 1 \in DOMAIN h
    BY <1>2, <2>3, LenProperties
  <2>5. size <= MAX_RECORD_BYTES
    BY <2>4 DEF RecordLists
  <2>6. MAX_RECORD_BYTES \in Nat
    BY StreamAssumption, PlaceFacts
  <2> QED BY <2>2, <2>1, <2>5, <2>6
<1>4. /\ record(r)[1] = r.type /\ r.type \in 1 .. BASE - 1
      /\ \A k \in 1 .. LEN_BYTES : record(r)[1 + k] = PackLen(size)[k]
      /\ \A k \in 1 .. size : record(r)[1 + LEN_BYTES + k] = r.payload[k]
  BY <1>3, RecordLayout DEF Records
<1>5. e \in Nat /\ f = e + (1 + LEN_BYTES + size)
  BY EndStep
<1>6. \A j \in 1 .. 1 + LEN_BYTES + size : W[e + j] = record(r)[j]
  BY StreamLayout
<1>7. size \in 0 .. Place[LEN_BYTES] - 1
  <2>1. Place[LEN_BYTES] \in Nat /\ MAX_RECORD_BYTES \in 1 .. Place[LEN_BYTES] - 1
    BY <1>1, StreamAssumption, PlaceFacts
  <2> HIDE DEF size
  <2> QED BY <1>3, <2>1
<1>8. f \in Nat /\ f < Len(W) /\ Len(W) \in Nat
  <2>1. /\ Len(W) = End(h, Len(h)) + 1
        /\ \A m \in 0 .. Len(h) : End(h, m) \in 2 .. End(h, Len(h))
    BY StreamLayout
  <2>2. f \in 2 .. End(h, Len(h)) /\ Len(W) \in Nat
    BY <1>1, <1>2, <2>1, LenProperties
  <2> HIDE DEF f, W
  <2> QED BY <2>1, <2>2
<1>9. r.payload \in Seq(0 .. BASE - 1) /\ size \in Nat
  BY <1>3 DEF Records
<1> HIDE DEF W, r, size, e, f
<1>10. i = e + 1
  BY DEF e
<1>11. i \in 1 .. Len(W) /\ i + LEN_BYTES <= Len(W) /\ (i + 1 + LEN_BYTES) + size = f + 1
  BY ONLY <1>1, <1>5, <1>8, <1>9, <1>10
<1>12. W[i] = r.type /\ W[i] # RT_END
  <2>1. 1 \in 1 .. 1 + LEN_BYTES + size
    BY <1>1, <1>9
  <2>2. W[i] = record(r)[1]
    BY <1>6, <1>10, <2>1
  <2>3. 1 .. BASE - 1 \subseteq Nat \ {0}
    BY StreamAssumption
  <2> QED BY <1>4, <2>2, <2>3 DEF RT_END
<1>13. UnpackLen(W, i + 1) = size
  <2>1. ASSUME NEW k \in 1 .. LEN_BYTES
        PROVE  W[(i + 1) + k - 1] = PackLen(size)[k]
    <3>1. (i + 1) + k - 1 = e + (1 + k) /\ 1 + k \in 1 .. 1 + LEN_BYTES + size
      BY ONLY <1>1, <1>5, <1>9, <1>10, k \in 1 .. LEN_BYTES
    <3> QED BY <1>4, <1>6, <3>1
  <2> QED BY <1>7, <2>1, LengthReadBack
<1>14. SubSeq(W, i + 1 + LEN_BYTES, (f + 1) - 1) = r.payload
  <2> DEFINE k == e + 1 + LEN_BYTES
  <2>1. k \in Nat /\ k + size <= Len(W) /\ k + 1 = i + 1 + LEN_BYTES /\ k + size = (f + 1) - 1
    BY ONLY <1>1, <1>5, <1>8, <1>9, <1>10
  <2>2. ASSUME NEW j \in 1 .. size PROVE W[k + j] = r.payload[j]
    <3>1. k + j = e + (1 + LEN_BYTES + j) /\ 1 + LEN_BYTES + j \in 1 .. 1 + LEN_BYTES + size
      BY <1>1, <1>5, <1>9
    <3> QED BY <1>4, <1>6, <3>1
  <2> HIDE DEF k
  <2>3. SubSeq(W, k + 1, k + Len(r.payload)) = r.payload
    <3>1. size = Len(r.payload)
      BY DEF size
    <3> QED BY <1>1, <1>9, <2>1, <2>2, <3>1, SliceIs
  <2> QED BY <2>1, <2>3 DEF size
<1>15. f + 1 \in Nat /\ i + 1 + LEN_BYTES + UnpackLen(W, i + 1) = f + 1
  BY <1>8, <1>11, <1>13
<1> QED BY <1>11, <1>12, <1>13, <1>14, <1>15 DEF W, r, size, f


(* What parse_record_types makes of place i, given later places. *)
TypesAt(raw, later, i) ==
    IF i > Len(raw) THEN <<>>
    ELSE IF raw[i] = RT_END THEN <<RT_END>>
    ELSE IF i + LEN_BYTES > Len(raw) THEN StructError
    ELSE <<raw[i]>> \o later[i + 1 + LEN_BYTES + UnpackLen(raw, i + 1)]

TypesWalk(raw) == CHOOSE g : g = [i \in Nat |-> TypesAt(raw, g, i)]

(* The same of media_payloads. *)
MediaAt(raw, later, i) ==
    IF i > Len(raw) \/ raw[i] = RT_END THEN <<>>
    ELSE IF i + LEN_BYTES > Len(raw) THEN StructError
    ELSE (IF raw[i] \in MEDIA_TYPES
          THEN <<SubSeq(raw, PayloadAt(i), NextRecord(raw, i) - 1)>> ELSE <<>>)
         \o later[NextRecord(raw, i)]

MediaWalk(raw) == CHOOSE g : g = [i \in Nat |-> MediaAt(raw, g, i)]

(* The generator's two walks over a stream, from the place behind its magic *)
(* and version.                                                             *)
LEMMA WalksAreWalks ==
    ASSUME NEW raw
    PROVE  /\ parse_record_types(raw) = TypesWalk(raw)[3]
           /\ media_payloads(raw) = MediaWalk(raw)[3]
<1>1. parse_record_types(raw) = TypesWalk(raw)[3]
  BY Zenon DEF parse_record_types, TypesWalk, TypesAt
<1>2. media_payloads(raw) = MediaWalk(raw)[3]
  BY Zenon DEF media_payloads, MediaWalk, MediaAt
<1> QED BY <1>1, <1>2, Zenon

(* Where a walk goes next is further on. *)
LEMMA NextIsLater ==
    ASSUME NEW raw \in Seq(Nat), NEW i \in Nat, i + LEN_BYTES <= Len(raw)
    PROVE  /\ i + 1 + LEN_BYTES + UnpackLen(raw, i + 1) \in Nat
           /\ i + 1 + LEN_BYTES + UnpackLen(raw, i + 1) > i
<1>1. LEN_BYTES \in Nat /\ Len(raw) \in Nat
  BY StreamAssumption, LenProperties
<1>2. ASSUME NEW k \in 1 .. LEN_BYTES PROVE raw[(i + 1) + k - 1] \in Nat
  <2>1. (i + 1) + k - 1 \in 1 .. Len(raw)
    BY <1>1
  <2> QED BY <2>1, ElementOfSeq
<1>3. UnpackLen(raw, i + 1) \in Nat
  BY <1>2, LengthIsNat
<1> QED BY <1>1, <1>3

(* parse_record_types, one record at a time.                                *)
LEMMA TypesWalkSteps ==
    ASSUME NEW raw \in Seq(Nat)
    PROVE  \A i \in Nat : TypesWalk(raw)[i] = TypesAt(raw, TypesWalk(raw), i)
<1> DEFINE X == Nat \cup {raw[0]}
           S == Seq(X)
           N == Len(raw)
           last == {i \in Nat : i > N \/ raw[i] = RT_END \/ i + LEN_BYTES > N}
           a == [i \in Nat |-> IF i > N THEN <<>> ELSE IF raw[i] = RT_END THEN <<RT_END>>
                                ELSE StructError]
           to(i) == i + 1 + LEN_BYTES + UnpackLen(raw, i + 1)
           wrap == [i \in Nat |-> [s \in S |-> IF i \in last THEN s ELSE <<raw[i]>> \o s]]
           next == [i \in Nat |-> IF i \in last THEN i ELSE to(i)]
<1>1. N \in Nat /\ LEN_BYTES \in Nat /\ BASE \in Nat
  BY StreamAssumption, LenProperties
<1>2. ASSUME NEW i \in Nat, i \notin last
      PROVE  /\ ~(i > N) /\ raw[i] # RT_END /\ ~(i + LEN_BYTES > N) /\ raw[i] \in X
             /\ to(i) \in Nat /\ to(i) > i
  <2>1. ~(i > N) /\ raw[i] # RT_END /\ ~(i + LEN_BYTES > N)
    BY <1>2
  <2>2. to(i) \in Nat /\ to(i) > i
    BY <1>1, <2>1, NextIsLater
  <2>3. raw[i] \in X
    <3>1. i = 0 \/ i \in 1 .. N
      BY <1>1, <2>1
    <3> QED BY <3>1, ElementOfSeq
  <2> QED BY <2>1, <2>2, <2>3
<1>3. a \in [Nat -> S]
  <2>1. <<>> \in S /\ <<RT_END>> \in S /\ StructError \in S
    <3>1. <<>> \in S
      BY EmptySeq
    <3>2. RT_END \in X /\ BASE \in X
      BY <1>1 DEF RT_END
    <3> HIDE DEF X
    <3> QED BY <3>1, <3>2 DEF StructError
  <2> HIDE DEF S, N
  <2> QED BY <2>1
<1>4. wrap \in [Nat -> [S -> S]]
  <2>1. ASSUME NEW i \in Nat, NEW s \in S, i \notin last PROVE <<raw[i]>> \o s \in S
    <3>1. raw[i] \in X
      BY <1>2, <2>1
    <3> HIDE DEF X
    <3>2. <<raw[i]>> \in Seq(X)
      BY <3>1
    <3> QED BY <3>2, ConcatProperties
  <2> HIDE DEF S, last
  <2> QED BY <2>1
<1>5. next \in [Nat -> Nat] /\ \A i \in Nat : i \notin last => next[i] > i
  <2> HIDE DEF last, to
  <2> QED BY <1>2
<1>6. N + 1 \in Nat /\ \A i \in Nat : i >= N + 1 => i \in last
  BY <1>1
<1>7. \E g : IsWalk(g, S, last, a, wrap, next)
  <2> HIDE DEF S, last, a, wrap, next, N
  <2> QED BY <1>3, <1>4, <1>5, <1>6, WalkExists
<1>8. PICK g \in [Nat -> S] : \A i \in Nat : g[i] = IF i \in last THEN a[i] ELSE wrap[i][g[next[i]]]
  BY <1>7 DEF IsWalk
<1>9. ASSUME NEW i \in Nat PROVE g[i] = TypesAt(raw, g, i)
  <2>1. CASE i \in last
    <3>1. g[i] = a[i]
      BY <1>8, <2>1
    <3>2. a[i] = TypesAt(raw, g, i)
      BY <2>1, Zenon DEF TypesAt
    <3> QED BY <3>1, <3>2
  <2>2. CASE i \notin last
    <3>1. next[i] = to(i) /\ to(i) \in Nat /\ g[to(i)] \in S
      <4> HIDE DEF last, to, S
      <4>1. next[i] = to(i) /\ to(i) \in Nat
        BY <1>2, <2>2
      <4> QED BY <4>1
    <3>2. wrap[i][g[to(i)]] = <<raw[i]>> \o g[to(i)]
      <4> HIDE DEF last, to, S
      <4> QED BY <2>2, <3>1
    <3>3. g[i] = <<raw[i]>> \o g[to(i)]
      <4> HIDE DEF last, to, S, wrap, a, next
      <4> QED BY <1>8, <2>2, <3>1, <3>2
    <3> QED BY <1>2, <2>2, <3>3, Zenon DEF TypesAt
  <2> QED BY <2>1, <2>2
<1>10. g = [i \in Nat |-> g[i]]
  OBVIOUS
<1>11. g = [i \in Nat |-> TypesAt(raw, g, i)]
  <2> HIDE DEF S, last, a, wrap, next, N
  <2> QED BY <1>9, <1>10
<1> DEFINE f == TypesWalk(raw)
<1>12. f = [i \in Nat |-> TypesAt(raw, f, i)]
  BY <1>11, Zenon DEF TypesWalk
<1> HIDE DEF f
<1> QED BY <1>12 DEF f


(* media_payloads, one record at a time.                                    *)
LEMMA MediaWalkSteps ==
    ASSUME NEW raw \in Seq(Nat)
    PROVE  \A i \in Nat : MediaWalk(raw)[i] = MediaAt(raw, MediaWalk(raw), i)
<1> DEFINE P(i) == SubSeq(raw, PayloadAt(i), NextRecord(raw, i) - 1)
           X == {P(i) : i \in Nat} \cup {BASE}
           S == Seq(X)
           N == Len(raw)
           last == {i \in Nat : i > N \/ raw[i] = RT_END \/ i + LEN_BYTES > N}
           a == [i \in Nat |-> IF i > N \/ raw[i] = RT_END THEN <<>> ELSE StructError]
           to(i) == NextRecord(raw, i)
           one(i) == IF raw[i] \in MEDIA_TYPES THEN <<SubSeq(raw, PayloadAt(i), to(i) - 1)>> ELSE <<>>
           wrap == [i \in Nat |-> [s \in S |-> IF i \in last THEN s ELSE one(i) \o s]]
           next == [i \in Nat |-> IF i \in last THEN i ELSE to(i)]
<1>1. N \in Nat /\ LEN_BYTES \in Nat
  BY StreamAssumption, LenProperties
<1>0. BASE \in X /\ \A i \in Nat : P(i) \in X
  <2> HIDE DEF P
  <2> QED OBVIOUS
<1> HIDE DEF X
<1>2. ASSUME NEW i \in Nat, i \notin last
      PROVE  /\ ~(i > N \/ raw[i] = RT_END) /\ ~(i + LEN_BYTES > N) /\ one(i) \in S
             /\ to(i) \in Nat /\ to(i) > i
  <2>1. ~(i > N \/ raw[i] = RT_END) /\ ~(i + LEN_BYTES > N)
    BY <1>2
  <2>2. to(i) \in Nat /\ to(i) > i
    BY <1>1, <2>1, NextIsLater DEF NextRecord
  <2>3. SubSeq(raw, PayloadAt(i), to(i) - 1) \in X
    BY <1>0, Zenon
  <2>4. one(i) \in S
    <3> HIDE DEF X, to
    <3>1. <<SubSeq(raw, PayloadAt(i), to(i) - 1)>> \in Seq(X)
      <4> DEFINE v == SubSeq(raw, PayloadAt(i), to(i) - 1)
      <4>1. v \in X
        BY <2>3
      <4> HIDE DEF v
      <4>2. <<v>> \in Seq(X)
        BY <4>1
      <4> QED BY <4>2 DEF v
    <3>2. <<>> \in Seq(X)
      BY EmptySeq
    <3> QED BY <3>1, <3>2
  <2> QED BY <2>1, <2>2, <2>4
<1>3. a \in [Nat -> S]
  <2>1. <<>> \in S /\ StructError \in S
    <3>1. <<>> \in S
      BY EmptySeq
    <3> QED BY <1>0, <3>1 DEF StructError
  <2> HIDE DEF S, N
  <2> QED BY <2>1
<1>4. wrap \in [Nat -> [S -> S]]
  <2>1. ASSUME NEW i \in Nat, NEW s \in S, i \notin last PROVE one(i) \o s \in S
    <3>1. one(i) \in S
      BY <1>2, <2>1
    <3> HIDE DEF X, one
    <3> QED BY <3>1, ConcatProperties
  <2> HIDE DEF S, last, one
  <2> QED BY <2>1
<1>5. next \in [Nat -> Nat] /\ \A i \in Nat : i \notin last => next[i] > i
  <2> HIDE DEF last, to
  <2> QED BY <1>2
<1>6. N + 1 \in Nat /\ \A i \in Nat : i >= N + 1 => i \in last
  BY <1>1
<1>7. \E g : IsWalk(g, S, last, a, wrap, next)
  <2> HIDE DEF S, last, a, wrap, next, N
  <2> QED BY <1>3, <1>4, <1>5, <1>6, WalkExists
<1>8. PICK g \in [Nat -> S] : \A i \in Nat : g[i] = IF i \in last THEN a[i] ELSE wrap[i][g[next[i]]]
  BY <1>7 DEF IsWalk
<1>9. ASSUME NEW i \in Nat PROVE g[i] = MediaAt(raw, g, i)
  <2>1. CASE i \in last
    <3>1. g[i] = a[i]
      BY <1>8, <2>1
    <3>2. a[i] = MediaAt(raw, g, i)
      BY <2>1, Zenon DEF MediaAt
    <3> QED BY <3>1, <3>2
  <2>2. CASE i \notin last
    <3>1. next[i] = to(i) /\ to(i) \in Nat /\ g[to(i)] \in S
      <4> HIDE DEF last, to, S
      <4>1. next[i] = to(i) /\ to(i) \in Nat
        BY <1>2, <2>2
      <4> QED BY <4>1
    <3>2. wrap[i][g[to(i)]] = one(i) \o g[to(i)]
      <4> HIDE DEF last, to, S, one
      <4> QED BY <2>2, <3>1
    <3>3. g[i] = one(i) \o g[to(i)]
      <4> HIDE DEF last, to, S, wrap, a, next, one
      <4> QED BY <1>8, <2>2, <3>1, <3>2
    <3> QED BY <1>2, <2>2, <3>3, Zenon DEF MediaAt
  <2> QED BY <2>1, <2>2
<1>10. g = [i \in Nat |-> g[i]]
  OBVIOUS
<1>11. g = [i \in Nat |-> MediaAt(raw, g, i)]
  <2> HIDE DEF S, last, a, wrap, next, N
  <2> QED BY <1>9, <1>10
<1> DEFINE f == MediaWalk(raw)
<1>12. f = [i \in Nat |-> MediaAt(raw, f, i)]
  BY <1>11, Zenon DEF MediaWalk
<1> HIDE DEF f
<1> QED BY <1>12 DEF f

(* A part of a sequence begins with its first value. *)
LEMMA HeadOfPart ==
    ASSUME NEW S, NEW t \in Seq(S), NEW n \in Nat, n + 1 <= Len(t)
    PROVE  <<t[n + 1]>> \o SubSeq(t, n + 2, Len(t)) = SubSeq(t, n + 1, Len(t))
<1> DEFINE o == <<t[n + 1]>>
           r == SubSeq(t, n + 2, Len(t))
           w == o \o r
           q == SubSeq(t, n + 1, Len(t))
<1>1. Len(t) \in Nat /\ n + 1 \in 1 .. Len(t)
  BY LenProperties
<1>2. o \in Seq(S) /\ Len(o) = 1 /\ o[1] = t[n + 1]
  <2>1. t[n + 1] \in S
    BY <1>1, ElementOfSeq
  <2> QED BY <2>1
<1>3. /\ r \in Seq(S) /\ Len(r) = Len(t) - (n + 1)
      /\ \A k \in 1 .. Len(t) - (n + 1) : r[k] = t[n + 1 + k]
  <2> DEFINE i == n + 2
  <2>1. i \in 1 .. Len(t) + 1 /\ Len(t) \in 0 .. Len(t)
    BY <1>1
  <2>2. /\ (IF i <= Len(t) THEN Len(t) - i + 1 ELSE 0) = Len(t) - (n + 1)
        /\ Len(t) - i + 1 = Len(t) - (n + 1)
        /\ \A k \in Nat : i + k - 1 = n + 1 + k
    BY <1>1
  <2> HIDE DEF i
  <2>3. /\ SubSeq(t, i, Len(t)) \in Seq(S)
        /\ Len(SubSeq(t, i, Len(t))) = IF i <= Len(t) THEN Len(t) - i + 1 ELSE 0
        /\ \A k \in 1 .. Len(t) - i + 1 : SubSeq(t, i, Len(t))[k] = t[i + k - 1]
    BY <2>1, PartOf
  <2>4. r = SubSeq(t, i, Len(t))
    BY DEF i
  <2> HIDE DEF r
  <2>5. r \in Seq(S) /\ Len(r) = Len(t) - (n + 1)
    BY ONLY <2>2, <2>3, <2>4
  <2>6. ASSUME NEW k \in 1 .. Len(t) - (n + 1) PROVE r[k] = t[n + 1 + k]
    <3>1. k \in Nat /\ k \in 1 .. Len(t) - i + 1
      BY ONLY <1>1, <2>2, <2>6
    <3> QED BY ONLY <2>2, <2>3, <2>4, <3>1
  <2> QED BY <2>5, <2>6
<1>4. /\ q \in Seq(S) /\ Len(q) = Len(t) - n
      /\ \A k \in 1 .. Len(t) - n : q[k] = t[n + k]
  <2> DEFINE i == n + 1
  <2>1. i \in 1 .. Len(t) + 1 /\ Len(t) \in 0 .. Len(t)
    BY <1>1
  <2>2. /\ (IF i <= Len(t) THEN Len(t) - i + 1 ELSE 0) = Len(t) - n
        /\ Len(t) - i + 1 = Len(t) - n
        /\ \A k \in Nat : i + k - 1 = n + k
    BY <1>1
  <2> HIDE DEF i
  <2>3. /\ SubSeq(t, i, Len(t)) \in Seq(S)
        /\ Len(SubSeq(t, i, Len(t))) = IF i <= Len(t) THEN Len(t) - i + 1 ELSE 0
        /\ \A k \in 1 .. Len(t) - i + 1 : SubSeq(t, i, Len(t))[k] = t[i + k - 1]
    BY <2>1, PartOf
  <2>4. q = SubSeq(t, i, Len(t))
    BY DEF i
  <2> HIDE DEF q
  <2>5. q \in Seq(S) /\ Len(q) = Len(t) - n
    BY ONLY <2>2, <2>3, <2>4
  <2>6. ASSUME NEW k \in 1 .. Len(t) - n PROVE q[k] = t[n + k]
    <3>1. k \in Nat /\ k \in 1 .. Len(t) - i + 1
      BY ONLY <1>1, <2>2, <2>6
    <3> QED BY ONLY <2>2, <2>3, <2>4, <3>1
  <2> QED BY <2>5, <2>6
<1> HIDE DEF o, r, q
<1>5. /\ w \in Seq(S) /\ Len(w) = Len(o) + Len(r)
      /\ \A k \in 1 .. Len(o) : w[k] = o[k]
      /\ \A k \in 1 .. Len(r) : w[Len(o) + k] = r[k]
  <2>1. o \in Seq(S) /\ r \in Seq(S)
    BY <1>2, <1>3
  <2> QED BY ONLY <2>1, Concatenated
<1> HIDE DEF w
<1>6. Len(w) = Len(q)
  BY ONLY <1>1, <1>2, <1>3, <1>4, <1>5
<1>7. ASSUME NEW k \in 1 .. Len(q) PROVE w[k] = q[k]
  <2>1. CASE k = 1
    <3>1. 1 \in 1 .. Len(o) /\ 1 \in 1 .. Len(t) - n
      BY <1>1, <1>2
    <3> QED BY <1>2, <1>4, <1>5, <2>1, <3>1
  <2>2. CASE k # 1
    <3> DEFINE j == k - 1
    <3>1. j \in 1 .. Len(r) /\ j \in 1 .. Len(t) - (n + 1) /\ k = Len(o) + j /\ k \in 1 .. Len(t) - n
          /\ n + k = n + 1 + j
      BY <1>1, <1>2, <1>3, <1>4, <2>2
    <3> HIDE DEF j
    <3> QED BY <1>3, <1>4, <1>5, <3>1
  <2> QED BY <2>1, <2>2
<1>8. w = q
  <2>1. w \in Seq(S) /\ q \in Seq(S)
    BY <1>4, <1>5
  <2> QED BY ONLY <1>6, <1>7, <2>1, SeqEqual
<1> QED BY <1>8 DEF w, q, o, r

(* parse_record_types finds the types of the records a stream was written   *)
(* from, and End.                                                           *)
LEMMA TypesReadBack ==
    ASSUME NEW h \in RecordLists
    PROVE  parse_record_types(stream(h)) = Append(Types(h), RT_END)
<1> DEFINE W == stream(h)
           L == Len(h)
           t == Append(Types(h), RT_END)
           walk == TypesWalk(W)
           At(n) == walk[End(h, n) + 1]
           T == {d \in Nat : d <= L => At(L - d) = SubSeq(t, (L - d) + 1, L + 1)}
<1>1. W \in Seq(Nat) /\ L \in Nat /\ Len(W) = End(h, L) + 1 /\ W[End(h, L) + 1] = RT_END
      /\ End(h, 0) = 2 /\ End(h, L) \in Nat
  <2>1. W \in Seq(Nat) /\ L \in Nat /\ Len(W) = End(h, L) + 1 /\ W[End(h, L) + 1] = RT_END
        /\ End(h, 0) = 2 /\ \A n \in 0 .. L : End(h, n) \in 2 .. End(h, L)
    BY StreamLayout, Zenon
  <2>2. L \in 0 .. L
    BY <2>1
  <2>3. End(h, L) \in Nat
    BY <2>2, BeginningsStay, LenProperties DEF RecordLists
  <2> QED BY <2>1, <2>3
<1>2. \A i \in Nat : walk[i] = TypesAt(W, walk, i)
  BY <1>1, TypesWalkSteps
<1>3. /\ t \in Seq(Nat) /\ Len(t) = L + 1 /\ t[L + 1] = RT_END
      /\ \A n \in 1 .. L : t[n] = h[n].type
  <2>1. \A n \in 1 .. L : h[n] \in Records
    BY UpToSteps
  <2>2. \A n \in 1 .. L : h[n].type \in Nat
    <3>1. \A r \in Records : r.type \in Nat
      BY StreamAssumption DEF Records
    <3> QED BY <2>1, <3>1
  <2>3. DOMAIN h = 1 .. L
    BY LenProperties DEF RecordLists
  <2> DEFINE u == Types(h)
  <2>4. u = [n \in 1 .. L |-> h[n].type]
    BY <2>3 DEF Types
  <2>5. u \in [1 .. L -> Nat]
    <3> HIDE DEF L
    <3> QED BY <2>2, <2>4
  <2>6. u \in Seq(Nat) /\ Len(u) = L
    <3> HIDE DEF u, L
    <3> QED BY ONLY <1>1, <2>5, IsASeq, SMT
  <2>7. \A n \in 1 .. L : u[n] = h[n].type
    <3> HIDE DEF L
    <3> QED BY <2>4
  <2> HIDE DEF u, L
  <2>8. RT_END \in Nat
    BY DEF RT_END
  <2>9. /\ Append(u, RT_END) \in Seq(Nat) /\ Len(Append(u, RT_END)) = Len(u) + 1
        /\ \A n \in 1 .. Len(u) : Append(u, RT_END)[n] = u[n]
        /\ Append(u, RT_END)[Len(u) + 1] = RT_END
    BY <2>6, <2>8, AppendProperties
  <2> QED BY <2>6, <2>7, <2>9 DEF u
<1> HIDE DEF W, t, walk, L
<1>4. 0 \in T
  <2>1. L - 0 = L /\ End(h, L) + 1 \in Nat /\ ~(End(h, L) + 1 > Len(W))
    BY <1>1
  <2>2. At(L) = <<RT_END>>
    BY <1>1, <1>2, <2>1 DEF TypesAt
  <2>3. SubSeq(t, L + 1, L + 1) = <<RT_END>>
    <3> DEFINE x == <<RT_END>>
    <3>1. x \in Seq(Nat) /\ Len(x) = 1 /\ x[1] = RT_END
      BY DEF RT_END
    <3> HIDE DEF x
    <3>2. SubSeq(t, L + 1, L + Len(x)) = x
      BY <1>1, <1>3, <3>1, SliceIs
    <3> QED BY <3>1, <3>2 DEF x
  <2> QED BY <2>1, <2>2, <2>3
<1>5. ASSUME NEW d \in T PROVE d + 1 \in T
  <2> SUFFICES ASSUME d + 1 <= L
               PROVE  At(L - (d + 1)) = SubSeq(t, (L - (d + 1)) + 1, L + 1)
    OBVIOUS
  <2> DEFINE n == L - (d + 1)
             i == End(h, n) + 1
             rest == SubSeq(t, n + 2, L + 1)
  <2>1. n \in 0 .. L - 1 /\ n + 1 = L - d /\ d <= L /\ d \in Nat /\ (L - d) + 1 = n + 2
    BY <1>1
  <2>2. At(n + 1) = rest
    BY <2>1
  <2> HIDE DEF n
  <2>3. /\ i \in 1 .. Len(W) /\ W[i] = h[n + 1].type /\ W[i] # RT_END
        /\ i + LEN_BYTES <= Len(W)
        /\ i + 1 + LEN_BYTES + UnpackLen(W, i + 1) = End(h, n + 1) + 1
    BY <2>1, RecordPlace DEF W, L
  <2>4. At(n) = <<t[n + 1]>> \o rest
    <3>1. ~(i > Len(W)) /\ ~(i + LEN_BYTES > Len(W)) /\ i \in Nat
      <4>1. Len(W) \in Nat /\ LEN_BYTES \in Nat
        BY <1>1, StreamAssumption, LenProperties
      <4> HIDE DEF i
      <4> QED BY <2>3, <4>1
    <3>2. n + 1 \in 1 .. L
      BY <1>1, <2>1
    <3>3. walk[i] = <<W[i]>> \o walk[i + 1 + LEN_BYTES + UnpackLen(W, i + 1)]
      <4> HIDE DEF i
      <4>1. walk[i] = TypesAt(W, walk, i)
        BY <1>2, <3>1
      <4> QED BY <2>3, <3>1, <4>1, Zenon DEF TypesAt
    <3> HIDE DEF rest
    <3> QED BY <1>3, <2>2, <2>3, <3>2, <3>3
  <2>5. <<t[n + 1]>> \o rest = SubSeq(t, n + 1, L + 1)
    <3>1. n \in Nat /\ n + 1 <= L + 1 /\ t \in Seq(Nat) /\ Len(t) = L + 1
      BY <1>1, <1>3, <2>1
    <3> QED BY <3>1, HeadOfPart
  <2> QED BY <2>1, <2>4, <2>5 DEF n
<1>6. T = Nat
  <2>1. T \subseteq Nat
    OBVIOUS
  <2> HIDE DEF T
  <2> QED BY <1>4, <1>5, <2>1, SetInduction
<1>7. At(0) = SubSeq(t, 1, L + 1)
  <2>1. L \in T /\ L - L = 0 /\ 0 + 1 = 1 /\ L <= L
    <3> HIDE DEF T
    <3> QED BY <1>1, <1>6
  <2>2. At(L - L) = SubSeq(t, (L - L) + 1, L + 1)
    BY <2>1
  <2> QED BY <2>1, <2>2
<1>8. SubSeq(t, 1, L + 1) = t
  <2>1. /\ SubSeq(t, 1, Len(t)) \in Seq(Nat) /\ Len(SubSeq(t, 1, Len(t))) = Len(t)
        /\ \A i \in 1 .. Len(t) : SubSeq(t, 1, Len(t))[i] = t[i]
    <3>1. Len(t) \in 0 .. Len(t)
      BY <1>1, <1>3
    <3> QED BY <1>3, <3>1, Beginning
  <2>2. SubSeq(t, 1, Len(t)) = t
    BY <1>3, <2>1, SeqEqual
  <2> QED BY <1>3, <2>2
<1> QED BY <1>1, <1>7, <1>8, WalksAreWalks DEF walk, W, t

(* What PayloadsOf makes of a list of records from place k on. *)
PayloadsFrom(recs, types) ==
    CHOOSE g : g = [k \in Nat |->
        IF k > Len(recs) THEN <<>>
        ELSE (IF recs[k].type \in types THEN <<recs[k].payload>> ELSE <<>>) \o g[k + 1]]

ArePayloads(f, recs, types) ==
    /\ Len(recs) \in Nat /\ f[Len(recs) + 1] = <<>>
    /\ \A k \in 1 .. Len(recs) :
          f[k] = (IF recs[k].type \in types THEN <<recs[k].payload>> ELSE <<>>) \o f[k + 1]

(* PayloadsOf goes through the records one by one. *)
LEMMA PayloadSteps ==
    ASSUME NEW S, NEW recs \in Seq(S), NEW types
    PROVE  /\ PayloadsOf(recs, types) = PayloadsFrom(recs, types)[1]
           /\ ArePayloads(PayloadsFrom(recs, types), recs, types)
<1> DEFINE f == PayloadsFrom(recs, types)
           N == Len(recs)
           last == {k \in Nat : k > N}
           a == <<>>
           p == [k \in Nat |-> IF recs[k].type \in types THEN <<recs[k].payload>> ELSE <<>>]
<1>1. N \in Nat
  BY LenProperties
<1>2. \E g : IsRest(g, last, a, p)
  <2>1. N + 1 \in Nat /\ \A i \in Nat : i >= N + 1 => i \in last
    BY <1>1
  <2> HIDE DEF last, a, p
  <2> QED BY <2>1, RestExists
<1>3. PICK g : g = [i \in Nat |-> IF i \in last THEN a ELSE p[i] \o g[i + 1]]
  BY <1>2 DEF IsRest
<1>4. g = [k \in Nat |-> IF k > N THEN <<>>
                         ELSE (IF recs[k].type \in types THEN <<recs[k].payload>> ELSE <<>>) \o g[k + 1]]
  <2>1. \A i \in Nat : (IF i \in last THEN a ELSE p[i] \o g[i + 1])
            = IF i > N THEN <<>>
              ELSE (IF recs[i].type \in types THEN <<recs[i].payload>> ELSE <<>>) \o g[i + 1]
    OBVIOUS
  <2> HIDE DEF last, a, p, N
  <2> QED BY <1>3, <2>1
<1>5. f = [k \in Nat |-> IF k > N THEN <<>>
                         ELSE (IF recs[k].type \in types THEN <<recs[k].payload>> ELSE <<>>) \o f[k + 1]]
  BY <1>4, Zenon DEF PayloadsFrom
<1> HIDE DEF f
<1>6. \A k \in Nat : f[k] = IF k > N THEN <<>>
                         ELSE (IF recs[k].type \in types THEN <<recs[k].payload>> ELSE <<>>) \o f[k + 1]
  BY <1>5
<1>7. f[N + 1] = <<>>
  <2>1. N + 1 \in Nat /\ N + 1 > N
    BY <1>1
  <2> HIDE DEF N
  <2> QED BY <1>6, <2>1
<1>8. \A k \in 1 .. N :
          f[k] = (IF recs[k].type \in types THEN <<recs[k].payload>> ELSE <<>>) \o f[k + 1]
  <2>1. \A k \in 1 .. N : k \in Nat /\ ~(k > N)
    BY <1>1
  <2> HIDE DEF N
  <2> QED BY <1>6, <2>1
<1>9. PayloadsOf(recs, types) = f[1]
  BY Zenon DEF PayloadsOf, f, PayloadsFrom
<1> QED BY <1>1, <1>7, <1>8, <1>9, Zenon DEF f, ArePayloads

(* media_payloads finds the payloads of the media records that a stream was *)
(* written from.                                                            *)
LEMMA MediaReadBack ==
    ASSUME NEW h \in RecordLists
    PROVE  media_payloads(stream(h)) = PayloadsOf(h, MEDIA_TYPES)
<1> DEFINE W == stream(h)
           L == Len(h)
           pay == PayloadsFrom(h, MEDIA_TYPES)
           walk == MediaWalk(W)
           At(n) == walk[End(h, n) + 1]
           T == {d \in Nat : d <= L => At(L - d) = pay[(L - d) + 1]}
<1>1. W \in Seq(Nat) /\ L \in Nat /\ Len(W) = End(h, L) + 1 /\ W[End(h, L) + 1] = RT_END
      /\ End(h, 0) = 2 /\ End(h, L) \in Nat
  <2>1. W \in Seq(Nat) /\ L \in Nat /\ Len(W) = End(h, L) + 1 /\ W[End(h, L) + 1] = RT_END
        /\ End(h, 0) = 2 /\ \A n \in 0 .. L : End(h, n) \in 2 .. End(h, L)
    BY StreamLayout, Zenon
  <2>2. L \in 0 .. L
    BY <2>1
  <2>3. End(h, L) \in Nat
    BY <2>2, BeginningsStay, LenProperties DEF RecordLists
  <2> QED BY <2>1, <2>3
<1>2. \A i \in Nat : walk[i] = MediaAt(W, walk, i)
  BY <1>1, MediaWalkSteps
<1>3. PayloadsOf(h, MEDIA_TYPES) = pay[1] /\ ArePayloads(pay, h, MEDIA_TYPES)
  <2>1. h \in Seq(Records)
    BY DEF RecordLists
  <2> QED BY <2>1, PayloadSteps
<1> HIDE DEF W, pay, walk
<1>4. /\ pay[L + 1] = <<>>
      /\ \A k \in 1 .. L : pay[k] = (IF h[k].type \in MEDIA_TYPES THEN <<h[k].payload>> ELSE <<>>)
                                    \o pay[k + 1]
  BY <1>3, Zenon DEF ArePayloads
<1> HIDE DEF L
<1>5. 0 \in T
  <2>1. L - 0 = L /\ End(h, L) + 1 \in Nat
    BY <1>1
  <2>2. At(L) = <<>>
    BY <1>1, <1>2, <2>1 DEF MediaAt
  <2> QED BY <1>4, <2>1, <2>2
<1>6. ASSUME NEW d \in T PROVE d + 1 \in T
  <2> SUFFICES ASSUME d + 1 <= L
               PROVE  At(L - (d + 1)) = pay[(L - (d + 1)) + 1]
    OBVIOUS
  <2> DEFINE n == L - (d + 1)
             i == End(h, n) + 1
  <2>1. n \in 0 .. L - 1 /\ n + 1 = L - d /\ d <= L /\ d \in Nat /\ n + 1 \in 1 .. L
    BY <1>1
  <2>2. At(n + 1) = pay[(n + 1) + 1]
    BY <2>1
  <2> HIDE DEF n
  <2>3. /\ i \in 1 .. Len(W) /\ W[i] = h[n + 1].type /\ W[i] # RT_END
        /\ i + LEN_BYTES <= Len(W)
        /\ NextRecord(W, i) = End(h, n + 1) + 1
        /\ SubSeq(W, PayloadAt(i), NextRecord(W, i) - 1) = h[n + 1].payload
    <3>1. /\ i \in 1 .. Len(W) /\ W[i] = h[n + 1].type /\ W[i] # RT_END
          /\ i + LEN_BYTES <= Len(W)
          /\ i + 1 + LEN_BYTES + UnpackLen(W, i + 1) = End(h, n + 1) + 1
          /\ SubSeq(W, i + 1 + LEN_BYTES, (End(h, n + 1) + 1) - 1) = h[n + 1].payload
      BY <2>1, RecordPlace DEF W, L
    <3> HIDE DEF i
    <3>2. NextRecord(W, i) = End(h, n + 1) + 1
      BY <3>1, Zenon DEF NextRecord
    <3>3. SubSeq(W, PayloadAt(i), NextRecord(W, i) - 1) = h[n + 1].payload
      BY <3>1, <3>2, Zenon DEF PayloadAt
    <3> QED BY <3>1, <3>2, <3>3
  <2>4. ~(i > Len(W)) /\ ~(i + LEN_BYTES > Len(W)) /\ i \in Nat
    <3>1. Len(W) \in Nat /\ LEN_BYTES \in Nat
      BY <1>1, StreamAssumption, LenProperties
    <3> HIDE DEF i
    <3> QED BY <2>3, <3>1
  <2>5. walk[i] = (IF W[i] \in MEDIA_TYPES
                   THEN <<SubSeq(W, PayloadAt(i), NextRecord(W, i) - 1)>> ELSE <<>>)
                  \o walk[NextRecord(W, i)]
    <3> HIDE DEF i
    <3>1. walk[i] = MediaAt(W, walk, i)
      BY <1>2, <2>4
    <3> QED BY <2>3, <2>4, <3>1, Zenon DEF MediaAt
  <2>6. walk[i] = pay[n + 1]
    <3> HIDE DEF i
    <3>1. walk[i] = (IF h[n + 1].type \in MEDIA_TYPES THEN <<h[n + 1].payload>> ELSE <<>>)
                    \o pay[(n + 1) + 1]
      BY <2>2, <2>3, <2>5, Zenon
    <3> QED BY <1>4, <2>1, <3>1, Zenon
  <2> QED BY <2>1, <2>6 DEF n
<1>7. T = Nat
  <2>1. T \subseteq Nat
    OBVIOUS
  <2> HIDE DEF T
  <2> QED BY <1>5, <1>6, <2>1, SetInduction
<1>8. At(0) = pay[1]
  <2>1. L \in T /\ L - L = 0 /\ 0 + 1 = 1 /\ L <= L
    <3> HIDE DEF T
    <3> QED BY <1>1, <1>7
  <2>2. At(L - L) = pay[(L - L) + 1]
    BY <2>1
  <2> QED BY <2>1, <2>2
<1> QED BY <1>1, <1>3, <1>8, WalksAreWalks DEF walk, W

(* Whatever stream is written, of any length: the three walks over it -     *)
(* parse_cth1, and the generator's parse_record_types and media_payloads,   *)
(* which check no bounds - see the same records.                            *)
THEOREM WalksSeeTheSame ==
    ASSUME StreamBytes \subseteq 0 .. BASE - 1
    PROVE  Inputs => []WalksAgree
<1>1. BytesInv => WalksAgree
  <2> SUFFICES ASSUME BytesInv, subject = "stream", parse_cth1(data).ok
               PROVE  /\ parse_record_types(data) = Append(Types(parse_cth1(data).recs), RT_END)
                      /\ media_payloads(data) = PayloadsOf(parse_cth1(data).recs, MEDIA_TYPES)
    BY DEF WalksAgree
  <2> DEFINE h == parse_cth1(data).recs
  <2>1. h \in RecordLists /\ stream(h) = data
    BY StreamIsTheOnlyOne DEF BytesInv
  <2> HIDE DEF h
  <2>2. parse_record_types(data) = Append(Types(h), RT_END)
    BY <2>1, TypesReadBack
  <2>3. media_payloads(data) = PayloadsOf(h, MEDIA_TYPES)
    BY <2>1, MediaReadBack
  <2> QED BY <2>2, <2>3 DEF h
<1> QED BY <1>1, BytesAreBytes, PTL

-----------------------------------------------------------------------------
(* Pieces put one after the other.                                          *)

(* g[n] is the first n pieces together. *)
ArePieces(g, P, L) ==
    g = [n \in 0 .. L |-> IF n = 0 THEN <<>> ELSE g[n - 1] \o P[n]]

(* Any pieces can be put one after the other.                               *)
LEMMA PiecesExist ==
    ASSUME NEW L \in Nat, NEW P
    PROVE  \E g : ArePieces(g, P, L)
<1> DEFINE a == <<>>
           p == [i \in Nat |-> P[i + 1]]
<1>2. PICK g : IsJoin(g, a, p)
  <2> HIDE DEF a, p
  <2> QED BY JoinExists
<1>3. \A i \in Nat : g[i] = IF i = 0 THEN a ELSE g[i - 1] \o p[i - 1]
  <2> HIDE DEF a, p
  <2> QED BY <1>2, Zenon DEF IsJoin
<1> DEFINE f == [n \in 0 .. L |-> g[n]]
<1>4. ASSUME NEW n \in 0 .. L
      PROVE  f[n] = IF n = 0 THEN a ELSE f[n - 1] \o P[n]
  <2>1. CASE n = 0
    <3>1. g[0] = a
      BY <1>3
    <3> QED BY <2>1, <3>1
  <2>2. CASE n # 0
    <3>1. n \in Nat /\ n - 1 \in Nat /\ n - 1 \in 0 .. L /\ (n - 1) + 1 = n
      BY <2>2
    <3>2. f[n] = g[n] /\ f[n - 1] = g[n - 1]
      BY <3>1
    <3>3. p[n - 1] = P[n]
      BY <3>1
    <3>4. g[n] = g[n - 1] \o p[n - 1]
      BY <1>3, <2>2, <3>1, Zenon
    <3> QED BY <2>2, <3>2, <3>3, <3>4
  <2> QED BY <2>1, <2>2
<1>5. f = [n \in 0 .. L |-> f[n]]
  OBVIOUS
<1> HIDE DEF f
<1>6. f = [n \in 0 .. L |-> IF n = 0 THEN a ELSE f[n - 1] \o P[n]]
  BY <1>4, <1>5
<1> QED BY <1>6, Zenon DEF ArePieces

(* Where the pieces stand in the whole. *)
PiecesStand(g, P, L) ==
    /\ g[0] = <<>>
    /\ \A n \in 0 .. L : g[n] \in Seq(Nat) /\ Len(g[n]) \in Nat /\ Len(g[n]) <= Len(g[L])
    /\ \A n \in 0 .. L - 1 :
          /\ Len(g[n + 1]) = Len(g[n]) + Len(P[n + 1])
          /\ \A j \in 1 .. Len(P[n + 1]) : g[L][Len(g[n]) + j] = P[n + 1][j]

(* Every piece keeps its place when others are put behind it.               *)
LEMMA PiecesStay ==
    ASSUME NEW L \in Nat, NEW P, \A n \in 1 .. L : P[n] \in Seq(Nat),
           NEW g, ArePieces(g, P, L)
    PROVE  PiecesStand(g, P, L)
<1>1. \A n \in 0 .. L : g[n] = IF n = 0 THEN <<>> ELSE g[n - 1] \o P[n]
  <2> DEFINE G == [n \in 0 .. L |-> IF n = 0 THEN <<>> ELSE g[n - 1] \o P[n]]
  <2>1. g = G
    BY DEF ArePieces
  <2>2. \A n \in 0 .. L : G[n] = IF n = 0 THEN <<>> ELSE g[n - 1] \o P[n]
    BY Zenon
  <2> HIDE DEF G
  <2> QED BY <2>1, <2>2, Zenon
<1>2. ASSUME NEW n \in 0 .. L - 1
      PROVE  g[n + 1] = g[n] \o P[n + 1] /\ n + 1 \in 1 .. L /\ n \in 0 .. L
  <2>1. n + 1 \in 0 .. L /\ n + 1 # 0 /\ (n + 1) - 1 = n /\ n + 1 \in 1 .. L /\ n \in 0 .. L
    OBVIOUS
  <2>2. g[n + 1] = g[(n + 1) - 1] \o P[n + 1]
    BY <1>1, <2>1, Zenon
  <2> QED BY <2>1, <2>2
<1>3. g[0] = <<>>
  <2>1. 0 \in 0 .. L
    OBVIOUS
  <2> QED BY <1>1, <2>1
<1> DEFINE T == {n \in Nat : n <= L => g[n] \in Seq(Nat)}
<1>4. T = Nat
  <2>1. T \subseteq Nat /\ 0 \in T
    BY <1>3, EmptySeq
  <2>2. ASSUME NEW n \in T PROVE n + 1 \in T
    <3> SUFFICES ASSUME n + 1 <= L PROVE g[n + 1] \in Seq(Nat)
      OBVIOUS
    <3>1. n \in 0 .. L - 1 /\ g[n] \in Seq(Nat)
      OBVIOUS
    <3>2. P[n + 1] \in Seq(Nat)
      BY <1>2, <3>1
    <3> QED BY <1>2, <3>1, <3>2, ConcatProperties
  <2> HIDE DEF T
  <2> QED BY <2>1, <2>2, SetInduction
<1>5. \A n \in 0 .. L : g[n] \in Seq(Nat) /\ Len(g[n]) \in Nat
  <2>1. ASSUME NEW n \in 0 .. L PROVE g[n] \in Seq(Nat)
    <3>1. n \in T /\ n <= L
      <4> HIDE DEF T
      <4> QED BY <1>4
    <3> QED BY <3>1
  <2> QED BY <2>1, LenProperties
<1>6. ASSUME NEW n \in 0 .. L - 1
      PROVE  /\ Len(g[n + 1]) = Len(g[n]) + Len(P[n + 1]) /\ Len(P[n + 1]) \in Nat
             /\ \A j \in 1 .. Len(g[n]) : g[n + 1][j] = g[n][j]
             /\ \A j \in 1 .. Len(P[n + 1]) : g[n + 1][Len(g[n]) + j] = P[n + 1][j]
  <2> DEFINE a == g[n]
             c == P[n + 1]
  <2>1. a \in Seq(Nat) /\ c \in Seq(Nat)
    BY <1>2, <1>5
  <2>2. g[n + 1] = a \o c
    BY <1>2
  <2> HIDE DEF a, c
  <2>3. /\ a \o c \in Seq(Nat) /\ Len(a \o c) = Len(a) + Len(c)
        /\ Len(a) \in Nat /\ Len(c) \in Nat
        /\ \A i \in 1 .. Len(a) : (a \o c)[i] = a[i]
        /\ \A i \in 1 .. Len(c) : (a \o c)[Len(a) + i] = c[i]
    BY ONLY <2>1, Concatenated
  <2> QED BY <2>2, <2>3, Zenon DEF a, c
<1>7. ASSUME NEW n \in 0 .. L
      PROVE  /\ Len(g[n]) <= Len(g[L])
             /\ \A j \in 1 .. Len(g[n]) : g[L][j] = g[n][j]
  <2> DEFINE Stays(d) == Len(g[n]) <= Len(g[n + d]) /\ \A j \in 1 .. Len(g[n]) : g[n + d][j] = g[n][j]
             U == {d \in Nat : n + d <= L => Stays(d)}
  <2>1. 0 \in U
    <3>1. n + 0 = n /\ Len(g[n]) <= Len(g[n])
      BY <1>5
    <3> QED BY <3>1
  <2>2. ASSUME NEW d \in U PROVE d + 1 \in U
    <3> SUFFICES ASSUME n + (d + 1) <= L PROVE Stays(d + 1)
      OBVIOUS
    <3> DEFINE i == n + d
    <3>1. i \in 0 .. L - 1 /\ n + (d + 1) = i + 1 /\ i <= L /\ i \in 0 .. L /\ i + 1 \in 0 .. L
      OBVIOUS
    <3>2. Len(g[n]) <= Len(g[i]) /\ \A j \in 1 .. Len(g[n]) : g[i][j] = g[n][j]
      BY <3>1
    <3> HIDE DEF i
    <3>3. Len(g[n]) \in Nat /\ Len(g[i]) \in Nat /\ Len(g[i + 1]) \in Nat
      BY <1>5, <3>1
    <3>4. Len(g[i]) <= Len(g[i + 1]) /\ \A j \in 1 .. Len(g[i]) : g[i + 1][j] = g[i][j]
      <4>1. Len(g[i + 1]) = Len(g[i]) + Len(P[i + 1]) /\ Len(P[i + 1]) \in Nat
        BY <1>6, <3>1, Zenon
      <4>2. \A x, y \in Nat : x <= x + y
        OBVIOUS
      <4>3. Len(g[i]) <= Len(g[i + 1])
        BY <3>3, <4>1, <4>2, Zenon
      <4>4. \A j \in 1 .. Len(g[i]) : g[i + 1][j] = g[i][j]
        BY <1>6, <3>1, Zenon
      <4> QED BY <4>3, <4>4
    <3>5. Len(g[n]) <= Len(g[i + 1])
      BY <3>2, <3>3, <3>4
    <3>6. \A j \in 1 .. Len(g[n]) : g[i + 1][j] = g[n][j]
      <4>1. \A x, y \in Nat : x <= y => 1 .. x \subseteq 1 .. y
        OBVIOUS
      <4>2. 1 .. Len(g[n]) \subseteq 1 .. Len(g[i])
        BY <3>2, <3>3, <4>1, Zenon
      <4> QED BY <3>2, <3>4, <4>2, Zenon
    <3> QED BY <3>1, <3>5, <3>6
  <2>3. U = Nat
    <3>1. U \subseteq Nat
      OBVIOUS
    <3> HIDE DEF U
    <3> QED BY <2>1, <2>2, <3>1, SetInduction
  <2>4. L - n \in Nat /\ n + (L - n) = L /\ L <= L
    OBVIOUS
  <2>5. Stays(L - n)
    <3>1. L - n \in U
      <4> HIDE DEF U
      <4> QED BY <2>3, <2>4
    <3> QED BY <2>4, <3>1
  <2> QED BY <2>4, <2>5
<1>8. ASSUME NEW n \in 0 .. L - 1, NEW j \in 1 .. Len(P[n + 1])
      PROVE  g[L][Len(g[n]) + j] = P[n + 1][j]
  <2>1. n + 1 \in 0 .. L /\ n \in 0 .. L
    OBVIOUS
  <2>2. Len(g[n]) \in Nat /\ Len(P[n + 1]) \in Nat /\ Len(g[n + 1]) = Len(g[n]) + Len(P[n + 1])
    BY <1>5, <1>6, <2>1
  <2>3. Len(g[n]) + j \in 1 .. Len(g[n + 1])
    <3>1. \A x, y \in Nat : \A k \in 1 .. y : x + k \in 1 .. x + y
      OBVIOUS
    <3> QED BY <2>2, <3>1, Zenon
  <2>4. g[L][Len(g[n]) + j] = g[n + 1][Len(g[n]) + j]
    BY <1>7, <2>1, <2>3
  <2> QED BY <1>6, <2>4
<1>9. \A n \in 0 .. L : Len(g[n]) <= Len(g[L])
  BY <1>7
<1>10. \A n \in 0 .. L - 1 : Len(g[n + 1]) = Len(g[n]) + Len(P[n + 1])
  BY <1>6
<1> QED BY <1>3, <1>5, <1>8, <1>9, <1>10, Zenon DEF PiecesStand

-----------------------------------------------------------------------------
(* The text of a sticker.                                                   *)

(* What unescape makes of place i of a text, given later places. *)
UnescapeAt(body, later, i) ==
    IF i > Len(body) THEN <<>>
    ELSE IF body[i] # BACKSLASH THEN <<body[i]>> \o later[i + 1]
    ELSE IF body[i + 1] \in OctalDigits
    THEN <<Octal(SubSeq(body, i + 1, OctalEnd(body, i) - 1))>> \o later[OctalEnd(body, i)]
    ELSE IF body[i + 1] = LETTER_X
    THEN <<HexValue(body[i + 2]) * 16 + HexValue(body[i + 3])>> \o later[i + 4]
    ELSE <<Named[body[i + 1]]>> \o later[i + 2]

UnescapeWalk(body) == CHOOSE g : g = [i \in Nat |-> UnescapeAt(body, g, i)]

(* The byte it finds there, and where it goes on. *)
ByteAt(body, i) ==
    IF body[i] # BACKSLASH THEN body[i]
    ELSE IF body[i + 1] \in OctalDigits
    THEN Octal(SubSeq(body, i + 1, OctalEnd(body, i) - 1))
    ELSE IF body[i + 1] = LETTER_X THEN HexValue(body[i + 2]) * 16 + HexValue(body[i + 3])
    ELSE Named[body[i + 1]]

AfterByte(body, i) ==
    IF body[i] # BACKSLASH THEN i + 1
    ELSE IF body[i + 1] \in OctalDigits THEN OctalEnd(body, i)
    ELSE IF body[i + 1] = LETTER_X THEN i + 4 ELSE i + 2

(* unescape is a walk from the first character.                             *)
LEMMA UnescapeIsWalk ==
    ASSUME NEW body
    PROVE  unescape(body) = UnescapeWalk(body)[1]
BY Zenon DEF unescape, UnescapeWalk, UnescapeAt

(* unescape at one place: the byte that is there and the rest behind it.    *)
LEMMA UnescapeOne ==
    ASSUME NEW body, NEW later, NEW i, ~(i > Len(body))
    PROVE  UnescapeAt(body, later, i) = <<ByteAt(body, i)>> \o later[AfterByte(body, i)]
<1>1. CASE body[i] # BACKSLASH
  BY <1>1, Zenon DEF UnescapeAt, ByteAt, AfterByte
<1>2. CASE body[i] = BACKSLASH /\ body[i + 1] \in OctalDigits
  BY <1>2, Zenon DEF UnescapeAt, ByteAt, AfterByte
<1>3. CASE body[i] = BACKSLASH /\ body[i + 1] \notin OctalDigits /\ body[i + 1] = LETTER_X
  BY <1>3, Zenon DEF UnescapeAt, ByteAt, AfterByte
<1>4. CASE body[i] = BACKSLASH /\ body[i + 1] \notin OctalDigits /\ body[i + 1] # LETTER_X
  BY <1>4, Zenon DEF UnescapeAt, ByteAt, AfterByte
<1> QED BY <1>1, <1>2, <1>3, <1>4

(* An octal escape ends after its digits, and after three at most. *)
OctalAt(body, i, later, j) ==
    IF j <= Len(body) /\ j < i + 4 /\ body[j] \in OctalDigits THEN later[j + 1] ELSE j

(* An octal escape has at most three digits, and three when three are       *)
(* there.                                                                   *)
LEMMA OctalEnds ==
    ASSUME NEW body, Len(body) \in Nat, NEW i \in Nat
    PROVE  /\ OctalEnd(body, i) \in i + 1 .. i + 4
           /\ (i + 3 <= Len(body) /\ \A j \in i + 1 .. i + 3 : body[j] \in OctalDigits)
                 => OctalEnd(body, i) = i + 4
<1> DEFINE N == Len(body)
           more(j) == j <= N /\ j < i + 4 /\ body[j] \in OctalDigits
           last == {j \in Nat : ~more(j)}
           a == [j \in Nat |-> j]
           wrap == [j \in Nat |-> [s \in Nat |-> s]]
           next == [j \in Nat |-> j + 1]
           f == CHOOSE g : g = [j \in Nat |-> OctalAt(body, i, g, j)]
<1>1. OctalEnd(body, i) = f[i + 1]
  BY Zenon DEF OctalEnd, OctalAt
<1>2. \E g : IsWalk(g, Nat, last, a, wrap, next)
  <2>1. N + 1 \in Nat /\ \A j \in Nat : j >= N + 1 => j \in last
    OBVIOUS
  <2>2. a \in [Nat -> Nat] /\ wrap \in [Nat -> [Nat -> Nat]] /\ next \in [Nat -> Nat]
        /\ \A j \in Nat : j \notin last => next[j] > j
    <3> HIDE DEF last
    <3> QED OBVIOUS
  <2> HIDE DEF last, a, wrap, next, N
  <2> QED BY <2>1, <2>2, WalkExists
<1>3. PICK g \in [Nat -> Nat] : \A j \in Nat : g[j] = IF j \in last THEN a[j] ELSE wrap[j][g[next[j]]]
  BY <1>2 DEF IsWalk
<1>4. ASSUME NEW j \in Nat PROVE g[j] = OctalAt(body, i, g, j)
  <2>1. g[j] = IF j \in last THEN j ELSE g[j + 1]
    <3>1. next[j] = j + 1 /\ a[j] = j /\ g[j + 1] \in Nat
      <4> HIDE DEF last, wrap
      <4> QED OBVIOUS
    <3>2. wrap[j][g[j + 1]] = g[j + 1]
      <4> HIDE DEF last
      <4> QED BY <3>1
    <3> HIDE DEF last, wrap, a, next
    <3> QED BY <1>3, <3>1, <3>2
  <2>2. CASE more(j)
    <3>1. j \notin last
      BY <2>2
    <3> QED BY <2>1, <2>2, <3>1, Zenon DEF OctalAt
  <2>3. CASE ~more(j)
    <3>1. j \in last
      BY <2>3
    <3> QED BY <2>1, <2>3, <3>1, Zenon DEF OctalAt
  <2> QED BY <2>2, <2>3
<1>5. g = [j \in Nat |-> g[j]]
  OBVIOUS
<1>6. g = [j \in Nat |-> OctalAt(body, i, g, j)]
  <2> HIDE DEF last, a, wrap, next, N
  <2> QED BY <1>4, <1>5
<1>7. f = [j \in Nat |-> OctalAt(body, i, f, j)]
  BY <1>6, Zenon
<1> HIDE DEF f
<1>8. \A j \in Nat : f[j] = OctalAt(body, i, f, j)
  BY <1>7
<1>9. \A j \in Nat : f[j] = IF more(j) THEN f[j + 1] ELSE j
  BY <1>8, Zenon DEF OctalAt
<1>10. i + 1 \in Nat /\ i + 2 \in Nat /\ i + 3 \in Nat /\ i + 4 \in Nat /\ ~more(i + 4)
       /\ (i + 1) + 1 = i + 2 /\ (i + 2) + 1 = i + 3 /\ (i + 3) + 1 = i + 4
  OBVIOUS
<1>11. f[i + 4] = i + 4
  BY <1>9, <1>10, Zenon
<1>12. f[i + 3] = IF more(i + 3) THEN i + 4 ELSE i + 3
  BY <1>9, <1>10, <1>11, Zenon
<1>13. f[i + 2] = IF more(i + 2) THEN f[i + 3] ELSE i + 2
  BY <1>9, <1>10, Zenon
<1>14. f[i + 1] = IF more(i + 1) THEN f[i + 2] ELSE i + 1
  BY <1>9, <1>10, Zenon
<1>15. f[i + 1] \in i + 1 .. i + 4
  <2> HIDE DEF more
  <2>1. f[i + 3] = i + 3 \/ f[i + 3] = i + 4
    BY <1>12, Zenon
  <2>2. f[i + 2] = i + 2 \/ f[i + 2] = i + 3 \/ f[i + 2] = i + 4
    BY <1>13, <2>1, Zenon
  <2>3. f[i + 1] = i + 1 \/ f[i + 1] = i + 2 \/ f[i + 1] = i + 3 \/ f[i + 1] = i + 4
    BY <1>14, <2>2, Zenon
  <2> QED BY ONLY <2>3, i \in Nat
<1>16. ASSUME i + 3 <= Len(body), \A j \in i + 1 .. i + 3 : body[j] \in OctalDigits
       PROVE  f[i + 1] = i + 4
  <2>1. more(i + 1) /\ more(i + 2) /\ more(i + 3)
    <3>1. i + 1 \in i + 1 .. i + 3 /\ i + 2 \in i + 1 .. i + 3 /\ i + 3 \in i + 1 .. i + 3
      BY ONLY i \in Nat
    <3>2. body[i + 1] \in OctalDigits /\ body[i + 2] \in OctalDigits /\ body[i + 3] \in OctalDigits
      BY <1>16, <3>1, Zenon
    <3>3. \A n \in Nat : i + 3 <= n => /\ i + 1 <= n /\ i + 2 <= n
                                       /\ i + 1 < i + 4 /\ i + 2 < i + 4 /\ i + 3 < i + 4
      BY ONLY i \in Nat
    <3> QED BY <1>16, <3>2, <3>3, Zenon
  <2> HIDE DEF more
  <2> QED BY <1>12, <1>13, <1>14, <2>1
<1> QED BY <1>1, <1>15, <1>16

(* What three octal digits stand for. *)
LEMMA OctalOfThree ==
    ASSUME NEW q, Len(q) = 3, NEW x \in Nat, NEW y \in Nat, NEW z \in Nat,
           q[1] = 48 + x, q[2] = 48 + y, q[3] = 48 + z
    PROVE  Octal(q) = (x * 8 + y) * 8 + z
<1> DEFINE At(g, k) == IF k = 0 THEN 0 ELSE g[k - 1] * 8 + q[k] - 48
           f == CHOOSE g : g = [k \in 0 .. 3 |-> IF k = 0 THEN 0 ELSE g[k - 1] * 8 + q[k] - 48]
           w == [k \in 0 .. 3 |-> IF k = 0 THEN 0 ELSE IF k = 1 THEN x
                                  ELSE IF k = 2 THEN x * 8 + y ELSE (x * 8 + y) * 8 + z]
<1>1. Octal(q) = f[3]
  BY DEF Octal
<1>2. w[0] = 0 /\ w[1] = x /\ w[2] = x * 8 + y /\ w[3] = (x * 8 + y) * 8 + z
      /\ w = [k \in 0 .. 3 |-> w[k]]
  OBVIOUS
<1> HIDE DEF w
<1>3. ASSUME NEW k \in 0 .. 3 PROVE w[k] = IF k = 0 THEN 0 ELSE w[k - 1] * 8 + q[k] - 48
  <2>1. CASE k = 0
    BY <1>2, <2>1
  <2>2. CASE k = 1
    BY <1>2, <2>2
  <2>3. CASE k = 2
    BY <1>2, <2>3
  <2>4. CASE k = 3
    BY <1>2, <2>4
  <2> QED BY <2>1, <2>2, <2>3, <2>4
<1>4. w = [k \in 0 .. 3 |-> IF k = 0 THEN 0 ELSE w[k - 1] * 8 + q[k] - 48]
  BY <1>2, <1>3
<1>5. f = [k \in 0 .. 3 |-> IF k = 0 THEN 0 ELSE f[k - 1] * 8 + q[k] - 48]
  BY <1>4, Zenon
<1> HIDE DEF f
<1>6. \A k \in 0 .. 3 : f[k] = IF k = 0 THEN 0 ELSE f[k - 1] * 8 + q[k] - 48
  BY <1>5, Zenon
<1>7. f[0] = 0
  BY <1>6
<1>8. f[1] = x
  BY <1>6, <1>7
<1>9. f[2] = x * 8 + y
  BY <1>6, <1>8
<1>10. f[3] = (x * 8 + y) * 8 + z
  BY <1>6, <1>9
<1> QED BY <1>1, <1>10

(* unescape, one byte at a time.                                            *)
LEMMA UnescapeSteps ==
    ASSUME NEW body, Len(body) \in Nat
    PROVE  \A i \in Nat : UnescapeWalk(body)[i] = UnescapeAt(body, UnescapeWalk(body), i)
<1> DEFINE b(i) == ByteAt(body, i)
           to(i) == AfterByte(body, i)
           X == {b(i) : i \in Nat}
           S == Seq(X)
           N == Len(body)
           last == {i \in Nat : i > N}
           a == [i \in Nat |-> <<>>]
           wrap == [i \in Nat |-> [s \in S |-> <<b(i)>> \o s]]
           next == [i \in Nat |-> to(i)]
<1>1. ASSUME NEW i \in Nat PROVE to(i) \in Nat /\ to(i) > i /\ b(i) \in X
  <2>1. OctalEnd(body, i) \in Nat /\ OctalEnd(body, i) > i
    <3>1. OctalEnd(body, i) \in i + 1 .. i + 4
      BY OctalEnds
    <3> QED BY <3>1
  <2>2. to(i) \in {i + 1, OctalEnd(body, i), i + 4, i + 2}
    BY DEF AfterByte
  <2>3. to(i) \in Nat /\ to(i) > i
    <3> HIDE DEF to
    <3> QED BY <2>1, <2>2
  <2>4. b(i) \in X
    <3> HIDE DEF b
    <3> QED OBVIOUS
  <2> QED BY <2>3, <2>4
<1> HIDE DEF X, to, b
<1>2. a \in [Nat -> S]
  <2>1. <<>> \in S
    BY EmptySeq
  <2> HIDE DEF S
  <2> QED BY <2>1
<1>3. wrap \in [Nat -> [S -> S]]
  <2>1. ASSUME NEW i \in Nat, NEW s \in S PROVE <<b(i)>> \o s \in S
    <3>1. b(i) \in X
      BY <1>1
    <3>2. <<b(i)>> \in Seq(X)
      BY <3>1
    <3> QED BY <3>2, ConcatProperties
  <2> HIDE DEF S
  <2> QED BY <2>1
<1>4. next \in [Nat -> Nat] /\ \A i \in Nat : i \notin last => next[i] > i
  <2> HIDE DEF last
  <2> QED BY <1>1
<1>5. N + 1 \in Nat /\ \A i \in Nat : i >= N + 1 => i \in last
  OBVIOUS
<1>6. \E g : IsWalk(g, S, last, a, wrap, next)
  <2> HIDE DEF S, last, a, wrap, next, N
  <2> QED BY <1>2, <1>3, <1>4, <1>5, WalkExists
<1>7. PICK g \in [Nat -> S] : \A i \in Nat : g[i] = IF i \in last THEN a[i] ELSE wrap[i][g[next[i]]]
  BY <1>6 DEF IsWalk
<1>8. ASSUME NEW i \in Nat PROVE g[i] = UnescapeAt(body, g, i)
  <2>1. CASE i > N
    <3>1. i \in last /\ a[i] = <<>>
      BY <2>1
    <3>2. g[i] = <<>>
      <4> HIDE DEF last, a, wrap, next
      <4> QED BY <1>7, <3>1
    <3> QED BY <2>1, <3>2, Zenon DEF UnescapeAt
  <2>2. CASE ~(i > N)
    <3>0. i \notin last
      BY <2>2
    <3>1. next[i] = to(i) /\ to(i) \in Nat /\ g[to(i)] \in S
      <4> HIDE DEF last, S
      <4>1. next[i] = to(i) /\ to(i) \in Nat
        BY <1>1
      <4> QED BY <4>1
    <3>2. wrap[i][g[to(i)]] = <<b(i)>> \o g[to(i)]
      <4> HIDE DEF last, S
      <4> QED BY <3>1
    <3>3. g[i] = <<b(i)>> \o g[to(i)]
      <4> HIDE DEF last, S, wrap, a, next
      <4> QED BY <1>7, <3>0, <3>1, <3>2
    <3>4. UnescapeAt(body, g, i) = <<b(i)>> \o g[to(i)]
      BY <2>2, UnescapeOne DEF b, to
    <3> QED BY <3>3, <3>4
  <2> QED BY <2>1, <2>2
<1>9. g = [i \in Nat |-> g[i]]
  OBVIOUS
<1>10. g = [i \in Nat |-> UnescapeAt(body, g, i)]
  <2> HIDE DEF S, last, a, wrap, next, N
  <2> QED BY <1>8, <1>9
<1> DEFINE f == UnescapeWalk(body)
<1>11. f = [i \in Nat |-> UnescapeAt(body, f, i)]
  BY <1>10, Zenon DEF UnescapeWalk
<1> HIDE DEF f
<1> QED BY <1>11 DEF f

(* The pieces P of a text stand for bytes: wherever one of them stands,     *)
(* unescape finds its byte there and goes on behind it.                     *)
StandFor(P, bytes) ==
    \A body \in Seq(Nat) : \A n \in 1 .. Len(bytes) : \A e \in Nat :
        (/\ e + Len(P[n]) <= Len(body)
         /\ \A j \in 1 .. Len(P[n]) : body[e + j] = P[n][j])
        => /\ ByteAt(body, e + 1) = bytes[n]
           /\ AfterByte(body, e + 1) = e + Len(P[n]) + 1
           /\ Len(P[n]) > 0

(* Pieces that each stand for a byte, whatever follows them, are read as    *)
(* those bytes.                                                             *)
LEMMA PiecesReadBack ==
    ASSUME NEW bytes \in Seq(Nat), NEW P, StandFor(P, bytes), NEW g,
           PiecesStand(g, P, Len(bytes)), \A n \in 1 .. Len(bytes) : P[n] \in Seq(Nat)
    PROVE  unescape(g[Len(bytes)]) = bytes
<1> DEFINE L == Len(bytes)
           W == g[L]
           walk == UnescapeWalk(W)
           At(n) == walk[Len(g[n]) + 1]
           T == {d \in Nat : d <= L => At(L - d) = SubSeq(bytes, (L - d) + 1, L)}
<1>1. L \in Nat
  BY LenProperties
<1>2. /\ g[0] = <<>>
      /\ \A n \in 0 .. L : g[n] \in Seq(Nat) /\ Len(g[n]) \in Nat /\ Len(g[n]) <= Len(W)
      /\ \A n \in 0 .. L - 1 :
          /\ Len(g[n + 1]) = Len(g[n]) + Len(P[n + 1])
          /\ \A j \in 1 .. Len(P[n + 1]) : W[Len(g[n]) + j] = P[n + 1][j]
  BY Zenon DEF PiecesStand
<1>3. W \in Seq(Nat) /\ Len(W) \in Nat
  BY <1>1, <1>2
<1>4. \A i \in Nat : walk[i] = UnescapeAt(W, walk, i)
  BY <1>3, UnescapeSteps
<1> HIDE DEF walk, L, W
<1>5. 0 \in T
  <2>1. L - 0 = L /\ Len(W) + 1 \in Nat /\ Len(W) + 1 > Len(W) /\ g[L] = W
    BY <1>1, <1>3 DEF W
  <2>2. At(L) = <<>>
    BY <1>4, <2>1 DEF UnescapeAt
  <2>3. SubSeq(bytes, L + 1, L) = <<>>
    BY <1>1, SubSeqEmpty DEF L
  <2> QED BY <2>1, <2>2, <2>3
<1>6. ASSUME NEW d \in T PROVE d + 1 \in T
  <2> SUFFICES ASSUME d + 1 <= L
               PROVE  At(L - (d + 1)) = SubSeq(bytes, (L - (d + 1)) + 1, L)
    OBVIOUS
  <2> DEFINE n == L - (d + 1)
             e == Len(g[n])
             rest == SubSeq(bytes, n + 2, L)
  <2>1. n \in 0 .. L - 1 /\ n + 1 = L - d /\ d <= L /\ d \in Nat /\ (L - d) + 1 = n + 2
        /\ n + 1 \in 1 .. L /\ n \in 0 .. L /\ n + 1 \in 0 .. L /\ n \in Nat
    BY <1>1
  <2>2. At(n + 1) = rest
    BY <2>1
  <2> HIDE DEF n, rest
  <2>3. e \in Nat /\ e + Len(P[n + 1]) = Len(g[n + 1]) /\ Len(g[n + 1]) <= Len(W)
        /\ Len(g[n + 1]) \in Nat
        /\ \A j \in 1 .. Len(P[n + 1]) : W[e + j] = P[n + 1][j]
    BY <1>2, <2>1
  <2> HIDE DEF e
  <2>4. ByteAt(W, e + 1) = bytes[n + 1] /\ AfterByte(W, e + 1) = Len(g[n + 1]) + 1
        /\ Len(P[n + 1]) > 0
    <3>1. e + Len(P[n + 1]) <= Len(W) /\ n + 1 \in 1 .. Len(bytes)
      BY <2>1, <2>3 DEF L
    <3>2. /\ ByteAt(W, e + 1) = bytes[n + 1] /\ AfterByte(W, e + 1) = e + Len(P[n + 1]) + 1
          /\ Len(P[n + 1]) > 0
      BY <1>3, <2>3, <3>1, Zenon DEF StandFor
    <3> QED BY <2>3, <3>2, Zenon
  <2>5. ~(e + 1 > Len(W)) /\ e + 1 \in Nat
    <3>1. Len(P[n + 1]) \in Nat
      BY <2>1, LenProperties DEF L
    <3>2. \A x, y, z, w \in Nat : y > 0 /\ x + y = z /\ z <= w => ~(x + 1 > w) /\ x + 1 \in Nat
      OBVIOUS
    <3> QED BY <1>3, <2>3, <2>4, <3>1, <3>2, Zenon
  <2>6. walk[e + 1] = <<bytes[n + 1]>> \o rest
    <3>1. walk[e + 1] = UnescapeAt(W, walk, e + 1)
      BY <1>4, <2>5
    <3>2. UnescapeAt(W, walk, e + 1) = <<ByteAt(W, e + 1)>> \o walk[AfterByte(W, e + 1)]
      BY <2>5, UnescapeOne
    <3> QED BY <2>2, <2>4, <3>1, <3>2
  <2>7. <<bytes[n + 1]>> \o rest = SubSeq(bytes, n + 1, L)
    <3>1. n + 1 <= L /\ L = Len(bytes)
      BY <1>1, <2>1 DEF L
    <3> QED BY <2>1, <3>1, HeadOfPart DEF rest
  <2> QED BY <2>1, <2>6, <2>7 DEF n, e
<1>7. T = Nat
  <2>1. T \subseteq Nat
    OBVIOUS
  <2> HIDE DEF T
  <2> QED BY <1>5, <1>6, <2>1, SetInduction
<1>8. At(0) = SubSeq(bytes, 1, L)
  <2>1. L \in T /\ L - L = 0 /\ 0 + 1 = 1 /\ L <= L
    <3> HIDE DEF T
    <3> QED BY <1>1, <1>7
  <2>2. At(L - L) = SubSeq(bytes, (L - L) + 1, L)
    BY <2>1
  <2> QED BY <2>1, <2>2
<1>9. SubSeq(bytes, 1, L) = bytes
  BY SubSeqFull DEF L
<1>10. Len(g[0]) + 1 = 1
  BY <1>2
<1> QED BY <1>8, <1>9, <1>10, UnescapeIsWalk DEF walk, W, L

(* The names of protoc's escapes are letters that unescape takes for        *)
(* neither a digit nor an x.                                                *)
LEMMA NamesAreApart ==
    /\ \A c \in DOMAIN Named : c \in Nat /\ c \notin OctalDigits /\ c # LETTER_X
    /\ Named[92] = 92 /\ 92 \in DOMAIN Named
BY DEF Named, OctalDigits, LETTER_X

(* A byte that protoc printed is found again, with where it ends. *)
LEMMA EscapedIsRead ==
    ASSUME NEW b \in 0 .. 255
    PROVE  /\ Escaped(b) \in Seq(Nat)
           /\ \A body \in Seq(Nat) : \A e \in Nat :
                 (/\ e + Len(Escaped(b)) <= Len(body)
                  /\ \A j \in 1 .. Len(Escaped(b)) : body[e + j] = Escaped(b)[j])
                 => /\ ByteAt(body, e + 1) = b
                    /\ AfterByte(body, e + 1) = e + Len(Escaped(b)) + 1
                    /\ Len(Escaped(b)) > 0
<1> DEFINE p == Escaped(b)
           Reads == \A body \in Seq(Nat) : \A e \in Nat :
                 (e + Len(p) <= Len(body) /\ \A j \in 1 .. Len(p) : body[e + j] = p[j])
                 => /\ ByteAt(body, e + 1) = b
                    /\ AfterByte(body, e + 1) = e + Len(p) + 1
                    /\ Len(p) > 0
<1>1. CASE \E c \in DOMAIN Named : Named[c] = b
  <2> DEFINE c == CHOOSE x \in DOMAIN Named : Named[x] = b
  <2>1. c \in DOMAIN Named /\ Named[c] = b
    BY <1>1, Zenon
  <2>2. p = <<92, c>>
    BY <1>1, Zenon DEF Escaped, BACKSLASH
  <2> HIDE DEF c
  <2>3. c \in Nat /\ c \notin OctalDigits /\ c # LETTER_X
    BY <2>1, NamesAreApart
  <2>4. p \in Seq(Nat) /\ Len(p) = 2 /\ p[1] = 92 /\ p[2] = c
    BY <2>2, <2>3
  <2> HIDE DEF p
  <2>5. ASSUME NEW body \in Seq(Nat), NEW e \in Nat, \A j \in 1 .. Len(p) : body[e + j] = p[j]
        PROVE  ByteAt(body, e + 1) = b /\ AfterByte(body, e + 1) = e + Len(p) + 1
    <3>1. body[e + 1] = BACKSLASH /\ body[(e + 1) + 1] = c
      <4>1. 1 \in 1 .. Len(p) /\ 2 \in 1 .. Len(p) /\ (e + 1) + 1 = e + 2
        BY <2>4
      <4> QED BY <2>4, <2>5, <4>1 DEF BACKSLASH
    <3>2. ByteAt(body, e + 1) = b
      BY <2>1, <2>3, <3>1, Zenon DEF ByteAt
    <3>3. AfterByte(body, e + 1) = (e + 1) + 2
      BY <2>3, <3>1, Zenon DEF AfterByte
    <3> QED BY <2>4, <3>2, <3>3
  <2>6. Reads
    <3>1. Len(p) > 0
      BY <2>4
    <3> QED BY <2>5, <3>1, Zenon
  <2> QED BY <2>4, <2>6 DEF p
<1>2. CASE ~(\E c \in DOMAIN Named : Named[c] = b) /\ b \in 32 .. 126
  <2>1. p = <<b>>
    BY <1>2, Zenon DEF Escaped
  <2>2. b # 92
    BY <1>2, NamesAreApart
  <2>3. p \in Seq(Nat) /\ Len(p) = 1 /\ p[1] = b
    BY <2>1
  <2> HIDE DEF p
  <2>4. ASSUME NEW body \in Seq(Nat), NEW e \in Nat, \A j \in 1 .. Len(p) : body[e + j] = p[j]
        PROVE  ByteAt(body, e + 1) = b /\ AfterByte(body, e + 1) = e + Len(p) + 1
    <3>1. body[e + 1] = b /\ b # BACKSLASH
      <4>1. 1 \in 1 .. Len(p)
        BY <2>3
      <4> QED BY <2>2, <2>3, <2>4, <4>1 DEF BACKSLASH
    <3>2. ByteAt(body, e + 1) = b
      BY <3>1, Zenon DEF ByteAt
    <3>3. AfterByte(body, e + 1) = (e + 1) + 1
      BY <3>1, Zenon DEF AfterByte
    <3> QED BY <2>3, <3>2, <3>3
  <2>5. Reads
    <3>1. Len(p) > 0
      BY <2>3
    <3> QED BY <2>4, <3>1, Zenon
  <2> QED BY <2>3, <2>5 DEF p
<1>3. CASE ~(\E c \in DOMAIN Named : Named[c] = b) /\ b \notin 32 .. 126
  <2> DEFINE x == b \div 64
             y == (b \div 8) % 8
             z == b % 8
  <2>1. p = <<92, 48 + x, 48 + y, 48 + z>>
    BY <1>3, Zenon DEF Escaped, BACKSLASH
  <2>2. x \in 0 .. 7 /\ y \in 0 .. 7 /\ z \in 0 .. 7 /\ (x * 8 + y) * 8 + z = b
    OBVIOUS
  <2> HIDE DEF x, y, z
  <2>3. p \in Seq(Nat) /\ Len(p) = 4 /\ p[1] = 92 /\ p[2] = 48 + x /\ p[3] = 48 + y /\ p[4] = 48 + z
    BY <2>1, <2>2
  <2> HIDE DEF p
  <2>4. ASSUME NEW body \in Seq(Nat), NEW e \in Nat, e + Len(p) <= Len(body),
               \A j \in 1 .. Len(p) : body[e + j] = p[j]
        PROVE  ByteAt(body, e + 1) = b /\ AfterByte(body, e + 1) = e + Len(p) + 1
    <3> DEFINE i == e + 1
    <3>1. body[i] = BACKSLASH /\ body[i + 1] = 48 + x /\ body[i + 2] = 48 + y /\ body[i + 3] = 48 + z
      <4>1. 1 \in 1 .. Len(p) /\ 2 \in 1 .. Len(p) /\ 3 \in 1 .. Len(p) /\ 4 \in 1 .. Len(p)
            /\ i + 1 = e + 2 /\ i + 2 = e + 3 /\ i + 3 = e + 4
        BY <2>3
      <4> QED BY <2>3, <2>4, <4>1 DEF BACKSLASH
    <3>2. i \in Nat /\ i + 3 <= Len(body) /\ Len(body) \in Nat /\ i + 4 = e + Len(p) + 1
      BY <2>3, <2>4, LenProperties
    <3> HIDE DEF i
    <3>3. body[i + 1] \in OctalDigits /\ body[i + 2] \in OctalDigits /\ body[i + 3] \in OctalDigits
      BY <2>2, <3>1 DEF OctalDigits
    <3>4. OctalEnd(body, i) = i + 4
      <4>1. \A j \in i + 1 .. i + 3 : j = i + 1 \/ j = i + 2 \/ j = i + 3
        BY <3>2
      <4>2. \A j \in i + 1 .. i + 3 : body[j] \in OctalDigits
        BY <3>3, <4>1, Zenon
      <4> QED BY <3>2, <4>2, OctalEnds
    <3> DEFINE q == SubSeq(body, i + 1, (i + 4) - 1)
    <3>5. Len(q) = 3 /\ q[1] = 48 + x /\ q[2] = 48 + y /\ q[3] = 48 + z
      <4> DEFINE f == i + 1
                 t == i + 3
      <4>1. f \in 1 .. Len(body) + 1 /\ t \in 0 .. Len(body) /\ t - f + 1 = 3 /\ f <= t
            /\ f + 1 - 1 = i + 1 /\ f + 2 - 1 = i + 2 /\ f + 3 - 1 = i + 3
        BY <3>2
      <4>2. (i + 4) - 1 = t
        BY <3>2
      <4> HIDE DEF f, t
      <4>3. /\ Len(SubSeq(body, f, t)) = IF f <= t THEN t - f + 1 ELSE 0
            /\ \A k \in 1 .. t - f + 1 : SubSeq(body, f, t)[k] = body[f + k - 1]
        BY <4>1, PartOf
      <4>4. q = SubSeq(body, f, t)
        BY <4>2 DEF f
      <4> HIDE DEF q
      <4>5. 1 \in 1 .. 3 /\ 2 \in 1 .. 3 /\ 3 \in 1 .. 3
        OBVIOUS
      <4> QED BY <3>1, <4>1, <4>3, <4>4, <4>5, Zenon
    <3>6. Octal(q) = (x * 8 + y) * 8 + z
      <4> HIDE DEF q
      <4>1. x \in Nat /\ y \in Nat /\ z \in Nat
        BY <2>2
      <4> QED BY <3>5, <4>1, OctalOfThree
    <3>7. ByteAt(body, i) = b
      BY <2>2, <3>1, <3>3, <3>4, <3>6, Zenon DEF ByteAt
    <3>8. AfterByte(body, i) = i + 4
      BY <3>1, <3>3, <3>4, Zenon DEF AfterByte
    <3> QED BY <3>2, <3>7, <3>8 DEF i
  <2>5. Reads
    <3>1. Len(p) > 0
      BY <2>3
    <3> QED BY <2>4, <3>1, Zenon
  <2> QED BY <2>3, <2>5 DEF p
<1> QED BY <1>1, <1>2, <1>3

(* So is one that esc wrote. *)
LEMMA escIsRead ==
    ASSUME NEW b \in 0 .. 255
    PROVE  /\ esc(b) \in Seq(Nat)
           /\ \A body \in Seq(Nat) : \A e \in Nat :
                 (/\ e + Len(esc(b)) <= Len(body)
                  /\ \A j \in 1 .. Len(esc(b)) : body[e + j] = esc(b)[j])
                 => /\ ByteAt(body, e + 1) = b
                    /\ AfterByte(body, e + 1) = e + Len(esc(b)) + 1
                    /\ Len(esc(b)) > 0
<1> DEFINE p == esc(b)
           x == HexDigit(b \div 16)
           y == HexDigit(b % 16)
<1>1. x \in Nat /\ y \in Nat /\ HexValue(x) * 16 + HexValue(y) = b
  <2>1. \A n \in 0 .. 15 : HexDigit(n) \in Nat /\ HexValue(HexDigit(n)) = n
    BY DEF HexDigit, HexValue
  <2>2. b \div 16 \in 0 .. 15 /\ (b % 16) \in 0 .. 15 /\ (b \div 16) * 16 + (b % 16) = b
    OBVIOUS
  <2> DEFINE c == b \div 16
             d == b % 16
  <2> HIDE DEF c, d
  <2>3. c \in 0 .. 15 /\ d \in 0 .. 15 /\ c * 16 + d = b /\ x = HexDigit(c) /\ y = HexDigit(d)
    BY <2>2, Zenon DEF c, d
  <2> HIDE DEF x, y
  <2> QED BY <2>1, <2>3
<1>2. p = <<92, 120, x, y>>
  BY Zenon DEF esc, BACKSLASH, LETTER_X
<1> HIDE DEF x, y
<1>3. p \in Seq(Nat) /\ Len(p) = 4 /\ p[1] = 92 /\ p[2] = 120 /\ p[3] = x /\ p[4] = y
  BY <1>1, <1>2
<1> HIDE DEF p
<1>4. ASSUME NEW body \in Seq(Nat), NEW e \in Nat, \A j \in 1 .. Len(p) : body[e + j] = p[j]
      PROVE  ByteAt(body, e + 1) = b /\ AfterByte(body, e + 1) = e + Len(p) + 1
  <2> DEFINE i == e + 1
  <2>1. body[i] = BACKSLASH /\ body[i + 1] = LETTER_X /\ body[i + 2] = x /\ body[i + 3] = y
    <3>1. 1 \in 1 .. Len(p) /\ 2 \in 1 .. Len(p) /\ 3 \in 1 .. Len(p) /\ 4 \in 1 .. Len(p)
          /\ i + 1 = e + 2 /\ i + 2 = e + 3 /\ i + 3 = e + 4
      BY <1>3
    <3> QED BY <1>3, <1>4, <3>1 DEF BACKSLASH, LETTER_X
  <2>2. i + 4 = e + Len(p) + 1
    BY <1>3
  <2> HIDE DEF i
  <2>3. LETTER_X \notin OctalDigits
    BY DEF LETTER_X, OctalDigits
  <2>4. ByteAt(body, i) = b
    BY <1>1, <2>1, <2>3, Zenon DEF ByteAt
  <2>5. AfterByte(body, i) = i + 4
    BY <2>1, <2>3, Zenon DEF AfterByte
  <2> QED BY <2>2, <2>4, <2>5 DEF i
<1>5. Len(p) > 0
  BY <1>3
<1>6. \A body \in Seq(Nat) : \A e \in Nat :
          (e + Len(p) <= Len(body) /\ \A j \in 1 .. Len(p) : body[e + j] = p[j])
          => /\ ByteAt(body, e + 1) = b
             /\ AfterByte(body, e + 1) = e + Len(p) + 1
             /\ Len(p) > 0
  BY <1>4, <1>5, Zenon
<1> QED BY <1>3, <1>6 DEF p

(* Any text of a sticker, however long: unescape gives back the bytes that  *)
(* protoc printed and the bytes that esc wrote, whatever byte follows an    *)
(* escaped one.                                                             *)
THEOREM TextReadBack ==
    ASSUME NEW t \in Seq(0 .. 255)
    PROVE  unescape(TextOf(Escaped, t)) = t /\ unescape(TextOf(esc, t)) = t
<1> DEFINE L == Len(t)
<1>1. L \in Nat /\ t \in Seq(Nat) /\ \A n \in 1 .. L : t[n] \in 0 .. 255
  <2>1. 0 .. 255 \subseteq Nat
    OBVIOUS
  <2> QED BY <2>1, LenProperties, ElementOfSeq, SeqMonotonic
<1>2. unescape(TextOf(Escaped, t)) = t
  <2> DEFINE u == CHOOSE f : f = [k \in 0 .. L |-> IF k = 0 THEN <<>> ELSE f[k - 1] \o Escaped(t[k])]
             P == [k \in 1 .. L |-> Escaped(t[k])]
  <2>1. TextOf(Escaped, t) = u[L]
    BY Zenon DEF TextOf
  <2>2. PICK g : ArePieces(g, P, L)
    <3> HIDE DEF P, L
    <3> QED BY <1>1, PiecesExist
  <2>3. \A f : [n \in 0 .. L |-> IF n = 0 THEN <<>> ELSE f[n - 1] \o P[n]]
                = [k \in 0 .. L |-> IF k = 0 THEN <<>> ELSE f[k - 1] \o Escaped(t[k])]
    <3> TAKE f
    <3>1. ASSUME NEW n \in 0 .. L
          PROVE  (IF n = 0 THEN <<>> ELSE f[n - 1] \o P[n])
                 = IF n = 0 THEN <<>> ELSE f[n - 1] \o Escaped(t[n])
      <4>1. CASE n = 0
        BY <4>1, Zenon
      <4>2. CASE n # 0
        <5>1. n \in 1 .. L
          <6> HIDE DEF P
          <6> QED BY <1>1, <4>2
        <5>2. P[n] = Escaped(t[n])
          BY <5>1, Zenon
        <5> HIDE DEF P
        <5> QED BY <4>2, <5>2
      <4> QED BY <4>1, <4>2
    <3> QED BY <3>1, Zenon
  <2>4. g = [k \in 0 .. L |-> IF k = 0 THEN <<>> ELSE g[k - 1] \o Escaped(t[k])]
    BY <2>2, <2>3, Zenon DEF ArePieces
  <2>5. u = [k \in 0 .. L |-> IF k = 0 THEN <<>> ELSE u[k - 1] \o Escaped(t[k])]
    BY <2>4, Zenon
  <2> HIDE DEF u
  <2>6. ArePieces(u, P, L)
    BY <2>3, <2>5, Zenon DEF ArePieces
  <2>7. \A n \in 1 .. L : P[n] = Escaped(t[n])
    BY Zenon
  <2> HIDE DEF P
  <2>8. \A n \in 1 .. L : P[n] \in Seq(Nat)
    BY <1>1, <2>7, EscapedIsRead
  <2>9. PiecesStand(u, P, L)
    <3> HIDE DEF L
    <3> QED BY <1>1, <2>6, <2>8, PiecesStay
  <2>10. StandFor(P, t)
    <3> SUFFICES ASSUME NEW body \in Seq(Nat), NEW n \in 1 .. L, NEW e \in Nat,
                        e + Len(P[n]) <= Len(body), \A j \in 1 .. Len(P[n]) : body[e + j] = P[n][j]
                 PROVE  /\ ByteAt(body, e + 1) = t[n]
                        /\ AfterByte(body, e + 1) = e + Len(P[n]) + 1
                        /\ Len(P[n]) > 0
      BY Zenon DEF StandFor
    <3>1. t[n] \in 0 .. 255 /\ P[n] = Escaped(t[n])
      BY <1>1, <2>7
    <3>2. (/\ e + Len(Escaped(t[n])) <= Len(body)
           /\ \A j \in 1 .. Len(Escaped(t[n])) : body[e + j] = Escaped(t[n])[j])
          => /\ ByteAt(body, e + 1) = t[n]
             /\ AfterByte(body, e + 1) = e + Len(Escaped(t[n])) + 1
             /\ Len(Escaped(t[n])) > 0
      BY <3>1, EscapedIsRead
    <3> QED BY <3>1, <3>2, Zenon
  <2>11. unescape(u[L]) = t
    BY <1>1, <2>8, <2>9, <2>10, PiecesReadBack
  <2> QED BY <2>1, <2>11
<1>3. unescape(TextOf(esc, t)) = t
  <2> DEFINE u == CHOOSE f : f = [k \in 0 .. L |-> IF k = 0 THEN <<>> ELSE f[k - 1] \o esc(t[k])]
             P == [k \in 1 .. L |-> esc(t[k])]
  <2>1. TextOf(esc, t) = u[L]
    BY Zenon DEF TextOf
  <2>2. PICK g : ArePieces(g, P, L)
    <3> HIDE DEF P, L
    <3> QED BY <1>1, PiecesExist
  <2>3. \A f : [n \in 0 .. L |-> IF n = 0 THEN <<>> ELSE f[n - 1] \o P[n]]
                = [k \in 0 .. L |-> IF k = 0 THEN <<>> ELSE f[k - 1] \o esc(t[k])]
    <3> TAKE f
    <3>1. ASSUME NEW n \in 0 .. L
          PROVE  (IF n = 0 THEN <<>> ELSE f[n - 1] \o P[n])
                 = IF n = 0 THEN <<>> ELSE f[n - 1] \o esc(t[n])
      <4>1. CASE n = 0
        BY <4>1, Zenon
      <4>2. CASE n # 0
        <5>1. n \in 1 .. L
          <6> HIDE DEF P
          <6> QED BY <1>1, <4>2
        <5>2. P[n] = esc(t[n])
          BY <5>1, Zenon
        <5> HIDE DEF P
        <5> QED BY <4>2, <5>2
      <4> QED BY <4>1, <4>2
    <3> QED BY <3>1, Zenon
  <2>4. g = [k \in 0 .. L |-> IF k = 0 THEN <<>> ELSE g[k - 1] \o esc(t[k])]
    BY <2>2, <2>3, Zenon DEF ArePieces
  <2>5. u = [k \in 0 .. L |-> IF k = 0 THEN <<>> ELSE u[k - 1] \o esc(t[k])]
    BY <2>4, Zenon
  <2> HIDE DEF u
  <2>6. ArePieces(u, P, L)
    BY <2>3, <2>5, Zenon DEF ArePieces
  <2>7. \A n \in 1 .. L : P[n] = esc(t[n])
    BY Zenon
  <2> HIDE DEF P
  <2>8. \A n \in 1 .. L : P[n] \in Seq(Nat)
    BY <1>1, <2>7, escIsRead
  <2>9. PiecesStand(u, P, L)
    <3> HIDE DEF L
    <3> QED BY <1>1, <2>6, <2>8, PiecesStay
  <2>10. StandFor(P, t)
    <3> SUFFICES ASSUME NEW body \in Seq(Nat), NEW n \in 1 .. L, NEW e \in Nat,
                        e + Len(P[n]) <= Len(body), \A j \in 1 .. Len(P[n]) : body[e + j] = P[n][j]
                 PROVE  /\ ByteAt(body, e + 1) = t[n]
                        /\ AfterByte(body, e + 1) = e + Len(P[n]) + 1
                        /\ Len(P[n]) > 0
      BY Zenon DEF StandFor
    <3>1. t[n] \in 0 .. 255 /\ P[n] = esc(t[n])
      BY <1>1, <2>7
    <3>2. (/\ e + Len(esc(t[n])) <= Len(body)
           /\ \A j \in 1 .. Len(esc(t[n])) : body[e + j] = esc(t[n])[j])
          => /\ ByteAt(body, e + 1) = t[n]
             /\ AfterByte(body, e + 1) = e + Len(esc(t[n])) + 1
             /\ Len(esc(t[n])) > 0
      BY <3>1, escIsRead
    <3> QED BY <3>1, <3>2, Zenon
  <2>11. unescape(u[L]) = t
    BY <1>1, <2>8, <2>9, <2>10, PiecesReadBack
  <2> QED BY <2>1, <2>11
<1> QED BY <1>2, <1>3

(* The text that FormatChecks writes is made of bytes. *)
TextInv == subject = "text" => data \in Seq(0 .. 255)

(* Whatever text the run writes, of any length, the sticker checks read it  *)
(* back: unescape undoes both protoc's printer and esc.                     *)
THEOREM TextsAreReadBack ==
    ASSUME TextBytes \subseteq 0 .. 255
    PROVE  Inputs => []StickerTextIsReadBack
<1>1. PickInput => TextInv
  <2>1. <<>> \in Seq(0 .. 255)
    BY EmptySeq
  <2> QED BY <2>1 DEF PickInput, TextInv
<1>2. TextInv /\ [WriteMore]_inputs => TextInv'
  <2> SUFFICES ASSUME TextInv, [WriteMore]_inputs PROVE TextInv'
    OBVIOUS
  <2>1. ASSUME NEW b \in TextBytes, WriteText(b) PROVE TextInv'
    BY <2>1, AppendProperties DEF TextInv, WriteText
  <2>2. ASSUME NEW b \in StreamBytes, WriteStream(b) PROVE TextInv'
    BY <2>2 DEF TextInv, WriteStream
  <2>3. ASSUME NEW k \in RecordTypes, WritePhase(k) PROVE TextInv'
    BY <2>3 DEF TextInv, WritePhase
  <2>4. ASSUME NEW b \in BlobFieldInputs, WriteBlob(b) PROVE TextInv'
    BY <2>4 DEF TextInv, WriteBlob
  <2>5. CASE UNCHANGED inputs
    BY <2>5 DEF inputs, TextInv
  <2> QED BY <2>1, <2>2, <2>3, <2>4, <2>5 DEF WriteMore
<1>3. TextInv => StickerTextIsReadBack
  BY TextReadBack DEF TextInv, StickerTextIsReadBack
<1> QED BY <1>1, <1>2, <1>3, PTL DEF Inputs

-----------------------------------------------------------------------------
(* A walk that looks at smaller numbers only is a function. *)
LEMMA DescentExists ==
    ASSUME NEW S, NEW last, NEW a \in [Nat -> S], NEW wrap \in [Nat -> [S -> S]],
           NEW next \in [Nat -> Nat], \A i \in Nat : i \notin last => next[i] < i
    PROVE  \E g : IsWalk(g, S, last, a, wrap, next)
<1> DEFINE F == [Nat -> S]
           Value(g, i) == IF i \in last THEN a[i] ELSE wrap[i][g[next[i]]]
           step == [n \in Nat |-> [f \in F |-> [f EXCEPT ![n] = Value(f, n)]]]
<1>1. \A f \in F : \A i \in Nat : Value(f, i) \in S
  OBVIOUS
<1>2. step \in [Nat -> [F -> F]]
  <2>1. ASSUME NEW n \in Nat, NEW f \in F PROVE [f EXCEPT ![n] = Value(f, n)] \in F
    <3>1. Value(f, n) \in S
      BY <1>1
    <3> HIDE DEF Value
    <3> QED BY <3>1
  <2> HIDE DEF F, Value
  <2> QED BY <2>1
<1>3. PICK G : IsSteps(G, F, a, step)
  <2>1. a \in F
    OBVIOUS
  <2> HIDE DEF F, step
  <2> QED BY <1>2, <2>1, StepsExist
<1>4. G \in [Nat -> F] /\ \A n \in Nat : G[n + 1] = step[n][G[n]]
  <2> HIDE DEF F, step
  <2> QED BY <1>3 DEF IsSteps
<1>5. ASSUME NEW n \in Nat
      PROVE  /\ G[n] \in F /\ n + 1 \in Nat /\ G[n + 1][n] = Value(G[n], n)
             /\ \A i \in Nat : i # n => G[n + 1][i] = G[n][i]
  <2>1. G[n] \in F
    <3> HIDE DEF F
    <3> QED BY <1>4
  <2>2. step[n][G[n]] = [G[n] EXCEPT ![n] = Value(G[n], n)]
    <3> HIDE DEF F, Value
    <3> QED BY <2>1
  <2>3. G[n + 1] = [G[n] EXCEPT ![n] = Value(G[n], n)]
    <3> HIDE DEF F, Value, step
    <3> QED BY <1>4, <2>2
  <2> DEFINE f == G[n]
             v == Value(G[n], n)
  <2>4. f \in [Nat -> S] /\ G[n + 1] = [f EXCEPT ![n] = v]
    BY <2>1, <2>3
  <2> HIDE DEF f, v
  <2>5. G[n + 1][n] = v /\ \A i \in Nat : i # n => G[n + 1][i] = f[i]
    BY <2>4
  <2> HIDE DEF Value
  <2> QED BY <2>1, <2>5 DEF f, v
<1> DEFINE g == [i \in Nat |-> G[i + 1][i]]
<1>6. ASSUME NEW i \in Nat, NEW m \in Nat, i < m PROVE G[m][i] = g[i]
  <2> DEFINE U == {d \in Nat : G[i + 1 + d][i] = g[i]}
  <2>1. 0 \in U
    <3>1. i + 1 + 0 = i + 1
      OBVIOUS
    <3> QED BY <3>1
  <2>2. ASSUME NEW d \in U PROVE d + 1 \in U
    <3>1. i + 1 + d \in Nat /\ i # i + 1 + d /\ (i + 1 + d) + 1 = i + 1 + (d + 1) /\ d + 1 \in Nat
      OBVIOUS
    <3> HIDE DEF Value, F, g
    <3>2. G[(i + 1 + d) + 1][i] = G[i + 1 + d][i]
      BY <1>5, <3>1
    <3> QED BY <3>1, <3>2
  <2>3. U = Nat
    <3>1. U \subseteq Nat
      OBVIOUS
    <3> HIDE DEF U
    <3> QED BY <2>1, <2>2, <3>1, SetInduction
  <2>4. m - (i + 1) \in Nat /\ i + 1 + (m - (i + 1)) = m
    BY <1>6
  <2>5. m - (i + 1) \in U
    <3> HIDE DEF U
    <3> QED BY <2>3, <2>4
  <2> QED BY <2>4, <2>5
<1>7. ASSUME NEW i \in Nat PROVE g[i] \in S /\ g[i] = Value(g, i)
  <2>1. g[i] = Value(G[i], i)
    BY <1>5
  <2>2. Value(G[i], i) = Value(g, i)
    <3>1. CASE i \in last
      BY <3>1
    <3>2. CASE i \notin last
      <4>1. next[i] \in Nat /\ next[i] < i
        BY <3>2
      <4>2. G[i][next[i]] = g[next[i]]
        <5> HIDE DEF g
        <5> QED BY <1>6, <4>1
      <4> HIDE DEF g
      <4> QED BY <3>2, <4>2
    <3> QED BY <3>1, <3>2
  <2>3. Value(G[i], i) \in S
    <3> HIDE DEF Value, F
    <3> QED BY <1>1, <1>5
  <2> QED BY <2>1, <2>2, <2>3
<1>8. g \in [Nat -> S]
  <2>1. g = [i \in Nat |-> g[i]]
    OBVIOUS
  <2> HIDE DEF g, Value
  <2> QED BY <1>7, <2>1
<1> HIDE DEF g
<1>9. IsWalk(g, S, last, a, wrap, next)
  BY <1>7, <1>8, Zenon DEF IsWalk
<1> QED BY <1>9

-----------------------------------------------------------------------------
(* What an invite's signature covers.                                       *)

Digits == DIGIT .. DIGIT + 9

(* What str makes of a number, given the smaller ones. *)
StrPiece(m, smaller) ==
    IF m < 10 THEN <<DIGIT + m>> ELSE smaller[m \div 10] \o <<DIGIT + (m % 10)>>

StrOf == CHOOSE g : g = [m \in Nat |-> StrPiece(m, g)]

(* A number is made of its last digit and the ones in front of it.          *)
LEMMA LastDigit ==
    ASSUME NEW m \in Nat
    PROVE  /\ m \div 10 \in Nat /\ m % 10 \in 0 .. 9 /\ (m \div 10) * 10 + (m % 10) = m
           /\ m >= 10 => m \div 10 < m
           /\ DIGIT + (m % 10) \in Digits
<1> DEFINE u == m \div 10
           v == m % 10
<1>1. u \in Nat /\ v \in 0 .. 9 /\ u * 10 + v = m
  <2>1. 10 \in Nat \ {0}
    OBVIOUS
  <2>2. u \in Nat /\ v \in Nat /\ v < 10 /\ u * 10 + v = m
    BY <2>1, Divided
  <2> HIDE DEF u, v
  <2> QED BY <2>2
<1> HIDE DEF u, v
<1>2. (m >= 10 => u < m) /\ DIGIT + v \in Digits
  BY <1>1 DEF Digits, DIGIT
<1> QED BY <1>1, <1>2 DEF u, v

(* str, one digit at a time: digits, and at least one.                      *)
LEMMA StrSteps ==
    /\ \A n : str(n) = StrOf[n]
    /\ \A m \in Nat : /\ StrOf[m] = StrPiece(m, StrOf)
                      /\ StrOf[m] \in Seq(Digits) /\ Len(StrOf[m]) >= 1
<1> DEFINE S == Seq(Digits)
           last == {m \in Nat : m < 10}
           a == [m \in Nat |-> IF m \in last THEN <<DIGIT + m>> ELSE <<>>]
           wrap == [m \in Nat |-> [s \in S |-> s \o <<DIGIT + (m % 10)>>]]
           next == [m \in Nat |-> IF m \in last THEN m ELSE m \div 10]
<1>1. ASSUME NEW m \in Nat
      PROVE  <<DIGIT + (m % 10)>> \in S /\ (m < 10 => <<DIGIT + m>> \in S)
  <2>1. DIGIT + (m % 10) \in Digits /\ (m < 10 => DIGIT + m \in Digits)
    BY LastDigit DEF Digits, DIGIT
  <2> HIDE DEF Digits
  <2> QED BY <2>1
<1>2. a \in [Nat -> S]
  <2>1. <<>> \in S
    BY EmptySeq
  <2> HIDE DEF S
  <2> QED BY <1>1, <2>1
<1>3. wrap \in [Nat -> [S -> S]]
  <2>1. ASSUME NEW m \in Nat, NEW s \in S PROVE s \o <<DIGIT + (m % 10)>> \in S
    <3> DEFINE d == <<DIGIT + (m % 10)>>
    <3>1. d \in S
      BY <1>1
    <3> HIDE DEF d
    <3>2. s \o d \in S
      BY <3>1, ConcatProperties
    <3> QED BY <3>2 DEF d
  <2> HIDE DEF S
  <2> QED BY <2>1
<1>4. next \in [Nat -> Nat] /\ \A i \in Nat : i \notin last => next[i] < i
  BY LastDigit
<1>5. \E g : IsWalk(g, S, last, a, wrap, next)
  <2> HIDE DEF S, last, a, wrap, next
  <2> QED BY <1>2, <1>3, <1>4, DescentExists
<1>6. PICK g \in [Nat -> S] : \A i \in Nat : g[i] = IF i \in last THEN a[i] ELSE wrap[i][g[next[i]]]
  BY <1>5 DEF IsWalk
<1>7. ASSUME NEW m \in Nat PROVE g[m] = StrPiece(m, g)
  <2>1. CASE m < 10
    <3>1. m \in last /\ a[m] = <<DIGIT + m>>
      BY <2>1
    <3>2. g[m] = <<DIGIT + m>>
      <4> HIDE DEF last, a, wrap, next
      <4> QED BY <1>6, <3>1
    <3> QED BY <2>1, <3>2, Zenon DEF StrPiece
  <2>2. CASE ~(m < 10)
    <3>0. m \notin last
      BY <2>2
    <3>1. next[m] = m \div 10 /\ m \div 10 \in Nat /\ g[m \div 10] \in S
      <4> HIDE DEF last, S
      <4>1. next[m] = m \div 10 /\ m \div 10 \in Nat
        BY LastDigit, <3>0
      <4> QED BY <4>1
    <3>2. wrap[m][g[m \div 10]] = g[m \div 10] \o <<DIGIT + (m % 10)>>
      <4> HIDE DEF last, S
      <4> QED BY <3>1
    <3>3. g[m] = g[m \div 10] \o <<DIGIT + (m % 10)>>
      <4> HIDE DEF last, S, wrap, a, next
      <4> QED BY <1>6, <3>0, <3>1, <3>2
    <3> QED BY <2>2, <3>3, Zenon DEF StrPiece
  <2> QED BY <2>1, <2>2
<1>8. g = [m \in Nat |-> g[m]]
  OBVIOUS
<1>9. g = [m \in Nat |-> StrPiece(m, g)]
  <2> HIDE DEF S, last, a, wrap, next
  <2> QED BY <1>7, <1>8
<1> DEFINE f == StrOf
<1>10. f = [m \in Nat |-> StrPiece(m, f)]
  BY <1>9, Zenon DEF StrOf
<1> HIDE DEF f
<1>11. \A m \in Nat : f[m] = StrPiece(m, f)
  BY <1>10
<1>12. \A n : str(n) = f[n]
  BY Zenon DEF str, f, StrOf, StrPiece
<1> DEFINE T == {d \in Nat : \A m \in Nat : m < d => f[m] \in Seq(Digits) /\ Len(f[m]) >= 1}
<1>13. 0 \in T
  OBVIOUS
<1>14. ASSUME NEW d \in T PROVE d + 1 \in T
  <2> SUFFICES ASSUME NEW m \in Nat, m < d + 1 PROVE f[m] \in Seq(Digits) /\ Len(f[m]) >= 1
    OBVIOUS
  <2>1. CASE m < 10
    <3> DEFINE x == DIGIT + m
    <3>1. f[m] = <<x>>
      BY <1>11, <2>1, Zenon DEF StrPiece
    <3>2. x \in Digits
      BY <2>1 DEF Digits, DIGIT
    <3> HIDE DEF x, Digits
    <3> QED BY <3>1, <3>2
  <2>2. CASE ~(m < 10)
    <3> DEFINE x == <<DIGIT + (m % 10)>>
               y == m \div 10
    <3>1. x \in Seq(Digits) /\ y \in Nat /\ y < d /\ Len(x) = 1
      <4>1. y \in Nat /\ y < m /\ x \in Seq(Digits)
        BY <1>1, <2>2, LastDigit
      <4>2. Len(x) = 1
        OBVIOUS
      <4> HIDE DEF y, x
      <4> QED BY <4>1, <4>2
    <3>2. f[m] = f[y] \o x
      BY <1>11, <2>2, Zenon DEF StrPiece
    <3> HIDE DEF x, y, Digits
    <3>3. f[y] \in Seq(Digits) /\ Len(f[y]) >= 1
      BY <3>1
    <3> DEFINE z == f[y]
    <3>4. z \o x \in Seq(Digits) /\ Len(z \o x) = Len(z) + Len(x) /\ Len(z) \in Nat
      BY ONLY <3>1, <3>3, Concatenated
    <3>5. Len(z) >= 1 /\ Len(x) = 1
      BY <3>1, <3>3
    <3> HIDE DEF z
    <3>6. Len(z \o x) >= 1
      BY ONLY <3>4, <3>5
    <3> QED BY <3>2, <3>4, <3>6 DEF z
  <2> QED BY <2>1, <2>2
<1>15. T = Nat
  <2>1. T \subseteq Nat
    OBVIOUS
  <2> HIDE DEF T
  <2> QED BY <1>13, <1>14, <2>1, SetInduction
<1>16. ASSUME NEW m \in Nat PROVE f[m] \in Seq(Digits) /\ Len(f[m]) >= 1
  <2>1. m + 1 \in T /\ m < m + 1
    <3> HIDE DEF T
    <3> QED BY <1>15
  <2> QED BY <2>1
<1> QED BY <1>11, <1>12, <1>16 DEF f

(* x with a behind it and y with c behind it are the same. *)
EndAlike(x, a, y, c) == Len(a) = Len(c) /\ x \o a = y \o c

(* Two sequences with ends of one length are equal part by part.            *)
LEMMA EqualEnds ==
    ASSUME NEW S, NEW x \in Seq(S), NEW y \in Seq(S), NEW a \in Seq(S), NEW c \in Seq(S),
           EndAlike(x, a, y, c)
    PROVE  x = y /\ a = c
<1>0. Len(a) = Len(c) /\ x \o a = y \o c
  BY DEF EndAlike
<1>1. Len(x \o a) = Len(x) + Len(a) /\ Len(y \o c) = Len(y) + Len(c)
  BY ConcatProperties
<1>2. Len(x) \in Nat /\ Len(y) \in Nat /\ Len(a) \in Nat
  BY LenProperties
<1>3. Len(x) = Len(y)
  BY <1>0, <1>1, <1>2
<1> QED BY <1>0, <1>3, EqualHalves

(* Numbers that are written the same are the same.                          *)
LEMMA StrTold ==
    ASSUME NEW m \in Nat, NEW n \in Nat, str(m) = str(n)
    PROVE  m = n
<1> DEFINE T == {d \in Nat : \A i, j \in Nat : i < d /\ StrOf[i] = StrOf[j] => i = j}
<1>1. 0 \in T
  OBVIOUS
<1>2. ASSUME NEW d \in T PROVE d + 1 \in T
  <2> SUFFICES ASSUME NEW i \in Nat, NEW j \in Nat, i < d + 1, StrOf[i] = StrOf[j] PROVE i = j
    OBVIOUS
  <2>1. ASSUME NEW k \in Nat, k >= 10
        PROVE  /\ StrOf[k] = StrOf[k \div 10] \o <<DIGIT + (k % 10)>>
               /\ StrOf[k \div 10] \in Seq(Digits) /\ <<DIGIT + (k % 10)>> \in Seq(Digits)
               /\ Len(StrOf[k]) >= 2
    <3>0. ~(k < 10)
      BY <2>1
    <3>1. StrOf[k] = StrOf[k \div 10] \o <<DIGIT + (k % 10)>>
      BY <3>0, StrSteps, Zenon DEF StrPiece
    <3> DEFINE x == StrOf[k \div 10]
               y == <<DIGIT + (k % 10)>>
    <3>2. x \in Seq(Digits) /\ Len(x) >= 1
      BY StrSteps, LastDigit
    <3>3. y \in Seq(Digits) /\ Len(y) = 1
      <4>1. DIGIT + (k % 10) \in Digits
        BY LastDigit
      <4> HIDE DEF Digits
      <4> QED BY <4>1
    <3> HIDE DEF x, y, Digits
    <3>4. Len(x \o y) = Len(x) + Len(y) /\ Len(x) \in Nat
      BY <3>2, <3>3, ConcatProperties, LenProperties
    <3>5. Len(x \o y) >= 2
      BY <3>2, <3>3, <3>4
    <3>6. StrOf[k] = x \o y
      BY <3>1 DEF x, y
    <3> QED BY <3>1, <3>2, <3>3, <3>5, <3>6 DEF x, y
  <2>2. ASSUME NEW k \in Nat, k < 10
        PROVE  StrOf[k] = <<DIGIT + k>> /\ Len(StrOf[k]) = 1
    <3>1. StrOf[k] = <<DIGIT + k>>
      BY <2>2, StrSteps, Zenon DEF StrPiece
    <3> QED BY <3>1
  <2>3. CASE i < 10 /\ j < 10
    <3>1. <<DIGIT + i>> = <<DIGIT + j>>
      BY <2>2, <2>3
    <3> QED BY <3>1 DEF DIGIT
  <2>4. CASE i >= 10 /\ j >= 10
    <3> DEFINE a == <<DIGIT + (i % 10)>>
               c == <<DIGIT + (j % 10)>>
    <3>1. /\ StrOf[i \div 10] \o a = StrOf[j \div 10] \o c
          /\ StrOf[i \div 10] \in Seq(Digits) /\ StrOf[j \div 10] \in Seq(Digits)
          /\ a \in Seq(Digits) /\ c \in Seq(Digits)
      BY <2>1, <2>4
    <3>2. Len(a) = Len(c)
      OBVIOUS
    <3> DEFINE x == StrOf[i \div 10]
               y == StrOf[j \div 10]
    <3>3. x = y /\ a = c
      <4>1. /\ EndAlike(x, a, y, c) /\ x \in Seq(Digits) /\ y \in Seq(Digits)
            /\ a \in Seq(Digits) /\ c \in Seq(Digits)
        BY <3>1, <3>2 DEF EndAlike
      <4> HIDE DEF a, c, x, y, Digits
      <4> QED BY ONLY <4>1, EqualEnds
    <3>4. i % 10 = j % 10
      BY <3>3, LastDigit DEF DIGIT
    <3>5. i \div 10 \in Nat /\ j \div 10 \in Nat /\ i \div 10 < d
      BY <2>4, LastDigit
    <3>6. i \div 10 = j \div 10
      BY <3>3, <3>5
    <3> QED BY <3>4, <3>6, LastDigit
  <2>5. CASE i < 10 /\ j >= 10
    <3>1. Len(StrOf[i]) = 1 /\ Len(StrOf[j]) >= 2
      BY <2>1, <2>2, <2>5
    <3>2. Len(StrOf[j]) = 1
      BY <3>1
    <3> QED BY ONLY <3>1, <3>2
  <2>6. CASE i >= 10 /\ j < 10
    <3>1. Len(StrOf[j]) = 1 /\ Len(StrOf[i]) >= 2
      BY <2>1, <2>2, <2>6
    <3>2. Len(StrOf[i]) = 1
      BY <3>1
    <3> QED BY ONLY <3>1, <3>2
  <2> QED BY <2>3, <2>4, <2>5, <2>6
<1>3. T = Nat
  <2>1. T \subseteq Nat
    OBVIOUS
  <2> HIDE DEF T
  <2> QED BY <1>1, <1>2, <2>1, SetInduction
<1>4. m + 1 \in T /\ m < m + 1
  <2> HIDE DEF T
  <2> QED BY <1>3
<1>5. StrOf[m] = StrOf[n]
  BY StrSteps
<1> QED BY <1>4, <1>5

(* A number has no bar in it.                                               *)
LEMMA StrHasNoBar ==
    ASSUME NEW n \in Nat
    PROVE  str(n) \in Seq(Nat) /\ HasNoBar(str(n))
<1>1. str(n) \in Seq(Digits)
  BY StrSteps
<1>2. Digits \subseteq Nat /\ BAR \notin Digits
  BY DEF Digits, DIGIT, BAR
<1>3. \A i \in DOMAIN str(n) : str(n)[i] \in Digits
  <2> HIDE DEF Digits
  <2> QED BY <1>1, LenProperties, ElementOfSeq
<1> QED BY <1>1, <1>2, <1>3, SeqMonotonic DEF HasNoBar

(* Two texts with a bar between them. *)
Barred(p, q) == (p \o <<BAR>>) \o q

(* Where the parts of z are. *)
IsBarred(z, p, q) ==
    /\ Len(p) \in Nat /\ Len(q) \in Nat /\ Len(z) = Len(p) + 1 + Len(q)
    /\ \A i \in 1 .. Len(p) : z[i] = p[i]
    /\ z[Len(p) + 1] = BAR
    /\ \A i \in 1 .. Len(q) : z[Len(p) + 1 + i] = q[i]

(* Where the parts of two texts with a bar between them are.                *)
LEMMA BarredPlaces ==
    ASSUME NEW S, BAR \in S, NEW p \in Seq(S), NEW q \in Seq(S)
    PROVE  Barred(p, q) \in Seq(S) /\ IsBarred(Barred(p, q), p, q)
<1> DEFINE b == <<BAR>>
           w == p \o b
<1>1. b \in Seq(S) /\ Len(b) = 1 /\ b[1] = BAR
  OBVIOUS
<1> HIDE DEF b
<1>2. /\ w \in Seq(S) /\ Len(w) = Len(p) + 1 /\ Len(p) \in Nat
      /\ \A i \in 1 .. Len(p) : w[i] = p[i]
      /\ w[Len(p) + 1] = BAR
  <2>1. /\ p \o b \in Seq(S) /\ Len(p \o b) = Len(p) + Len(b)
        /\ \A i \in 1 .. Len(p) : (p \o b)[i] = p[i]
        /\ \A i \in 1 .. Len(b) : (p \o b)[Len(p) + i] = b[i]
    BY ONLY p \in Seq(S), <1>1, Concatenated
  <2>2. Len(p) \in Nat
    BY LenProperties
  <2> QED BY <1>1, <2>1, <2>2
<1> HIDE DEF w
<1>3. /\ w \o q \in Seq(S) /\ Len(w \o q) = Len(w) + Len(q) /\ Len(q) \in Nat
      /\ \A i \in 1 .. Len(w) : (w \o q)[i] = w[i]
      /\ \A i \in 1 .. Len(q) : (w \o q)[Len(w) + i] = q[i]
  <2>1. w \in Seq(S) /\ q \in Seq(S)
    BY <1>2
  <2> QED BY ONLY <2>1, Concatenated
<1>4. Barred(p, q) = w \o q
  BY DEF Barred, w, b
<1> DEFINE z == w \o q
<1> HIDE DEF z
<1>5. IsBarred(z, p, q)
  <2>1. /\ Len(z) = Len(w) + Len(q) /\ Len(q) \in Nat
        /\ \A i \in 1 .. Len(w) : z[i] = w[i]
        /\ \A i \in 1 .. Len(q) : z[Len(w) + i] = q[i]
    BY <1>3 DEF z
  <2> QED BY ONLY <1>2, <2>1 DEF IsBarred
<1> QED BY <1>3, <1>4, <1>5 DEF z

(* Where a text without a bar ends a string, the bar in front of it is the  *)
(* last one: another reading of the string has that text, or a longer one   *)
(* with the bar in it.                                                      *)
LEMMA LastBar ==
    ASSUME NEW S, BAR \in S, NEW a \in Seq(S), NEW x \in Seq(S), NEW c \in Seq(S),
           NEW y \in Seq(S), HasNoBar(x), Barred(a, x) = Barred(c, y)
    PROVE  \/ a = c /\ x = y
           \/ \E r \in Seq(S) : y = Barred(r, x) /\ a = Barred(c, r)
<1> DEFINE w == Barred(a, x)
           la == Len(a)
           lc == Len(c)
           lx == Len(x)
           ly == Len(y)
<1>1. /\ w \in Seq(S) /\ la \in Nat /\ lx \in Nat /\ Len(w) = la + 1 + lx
      /\ \A i \in 1 .. la : w[i] = a[i]
      /\ w[la + 1] = BAR /\ \A i \in 1 .. lx : w[la + 1 + i] = x[i]
  <2>1. w \in Seq(S) /\ IsBarred(w, a, x)
    BY BarredPlaces
  <2> HIDE DEF w
  <2> QED BY ONLY <2>1 DEF IsBarred
<1>2. /\ lc \in Nat /\ ly \in Nat /\ Len(w) = lc + 1 + ly
      /\ \A i \in 1 .. lc : w[i] = c[i]
      /\ w[lc + 1] = BAR /\ \A i \in 1 .. ly : w[lc + 1 + i] = y[i]
  <2>1. IsBarred(Barred(c, y), c, y)
    BY BarredPlaces
  <2>2. IsBarred(w, c, y)
    BY <2>1
  <2> HIDE DEF w
  <2> QED BY ONLY <2>2 DEF IsBarred
<1>3. DOMAIN x = 1 .. lx
  BY LenProperties
<1> HIDE DEF w
<1>4. CASE la = lc
  <2>1. lx = ly
    BY <1>1, <1>2, <1>4
  <2>2. \A i \in 1 .. la : a[i] = c[i]
    BY <1>1, <1>2, <1>4
  <2>3. \A i \in 1 .. lx : x[i] = y[i]
    BY <1>1, <1>2, <1>4, <2>1
  <2> QED BY <1>4, <2>1, <2>2, <2>3, SeqEqual
<1>5. CASE la < lc
  <2> DEFINE i == lc - la
  <2>1. i \in 1 .. lx /\ la + 1 + i = lc + 1
    <3> HIDE DEF la, lc, lx, ly
    <3> QED BY <1>1, <1>2, <1>5
  <2>2. x[i] = BAR
    BY <1>1, <1>2, <2>1
  <2> QED BY <1>3, <2>1, <2>2 DEF HasNoBar
<1>6. CASE la > lc
  <2> DEFINE k == lc + 1
             lr == la - k
             r == SubSeq(a, k + 1, la)
  <2>1. k \in Nat /\ k <= la /\ lr \in Nat /\ k + lr = la /\ ly = lr + 1 + lx
    <3> HIDE DEF la, lc, lx, ly
    <3> QED BY <1>1, <1>2, <1>6
  <2>2. r \in Seq(S) /\ Len(r) = lr /\ \A i \in 1 .. lr : r[i] = a[k + i]
    <3>1. k + 1 \in Int /\ la \in Int /\ \A i \in k + 1 .. la : a[i] \in S
      <4>1. \A i \in 1 .. la : a[i] \in S
        BY ElementOfSeq
      <4> HIDE DEF k, la
      <4> QED BY ONLY <1>1, <2>1, <4>1
    <3> HIDE DEF k, la
    <3>2. /\ r \in Seq(S) /\ Len(r) = IF k + 1 <= la THEN la - (k + 1) + 1 ELSE 0
          /\ \A i \in 1 .. la - (k + 1) + 1 : r[i] = a[k + 1 + i - 1]
      BY ONLY <3>1, SubSeqProperties
    <3>3. Len(r) = lr
      BY ONLY <1>1, <2>1, <3>2
    <3>4. \A i \in 1 .. lr : i \in 1 .. la - (k + 1) + 1 /\ k + 1 + i - 1 = k + i
      BY ONLY <1>1, <2>1
    <3> HIDE DEF r
    <3> QED BY ONLY <3>2, <3>3, <3>4
  <2> HIDE DEF r
  <2>3. /\ Barred(r, x) \in Seq(S) /\ Len(Barred(r, x)) = lr + 1 + lx
        /\ \A i \in 1 .. lr : Barred(r, x)[i] = r[i]
        /\ Barred(r, x)[lr + 1] = BAR
        /\ \A i \in 1 .. lx : Barred(r, x)[lr + 1 + i] = x[i]
    <3>1. Barred(r, x) \in Seq(S) /\ IsBarred(Barred(r, x), r, x)
      BY <2>2, BarredPlaces
    <3>2. Len(r) = lr
      BY <2>2
    <3> DEFINE z == Barred(r, x)
    <3> HIDE DEF lr, z
    <3>3. z \in Seq(S) /\ IsBarred(z, r, x)
      BY <3>1 DEF z
    <3>4. /\ z \in Seq(S) /\ Len(z) = lr + 1 + lx
          /\ \A i \in 1 .. lr : z[i] = r[i]
          /\ z[lr + 1] = BAR
          /\ \A i \in 1 .. lx : z[lr + 1 + i] = x[i]
      BY ONLY <3>2, <3>3 DEF IsBarred
    <3> QED BY <3>4 DEF z
  <2>4. /\ Barred(c, r) \in Seq(S) /\ Len(Barred(c, r)) = lc + 1 + lr
        /\ \A i \in 1 .. lc : Barred(c, r)[i] = c[i]
        /\ Barred(c, r)[lc + 1] = BAR
        /\ \A i \in 1 .. lr : Barred(c, r)[lc + 1 + i] = r[i]
    <3>1. Barred(c, r) \in Seq(S) /\ IsBarred(Barred(c, r), c, r)
      BY <2>2, BarredPlaces
    <3>2. Len(r) = lr
      BY <2>2
    <3> DEFINE z == Barred(c, r)
    <3> HIDE DEF lr, z
    <3>3. z \in Seq(S) /\ IsBarred(z, c, r)
      BY <3>1 DEF z
    <3>4. /\ z \in Seq(S) /\ Len(z) = lc + 1 + lr
          /\ \A i \in 1 .. lc : z[i] = c[i]
          /\ z[lc + 1] = BAR
          /\ \A i \in 1 .. lr : z[lc + 1 + i] = r[i]
      BY ONLY <3>2, <3>3 DEF IsBarred
    <3> QED BY <3>4 DEF z
  <2> DEFINE u == Barred(r, x)
             v == Barred(c, r)
  <2> HIDE DEF u, v, lr, la, lc, lx, ly
  <2>5. y = u
    <3>1. ASSUME NEW i \in 1 .. ly PROVE y[i] = u[i]
      <4>1. y[i] = w[k + i]
        BY <1>2, <3>1
      <4>2. CASE i <= lr
        <5>1. i \in 1 .. lr /\ k + i \in 1 .. la
          BY <1>2, <2>1, <4>2
        <5> QED BY <1>1, <2>2, <2>3, <4>1, <5>1 DEF u
      <4>3. CASE i = lr + 1
        <5>1. k + i = la + 1
          BY <1>1, <1>2, <2>1, <4>3
        <5> QED BY <1>1, <2>3, <4>1, <4>3, <5>1 DEF u
      <4>4. CASE i > lr + 1
        <5> DEFINE j == i - (lr + 1)
        <5>1. j \in 1 .. lx /\ lr + 1 + j = i /\ la + 1 + j = k + i
          BY <1>1, <1>2, <2>1, <4>4
        <5> HIDE DEF j
        <5>2. w[k + i] = x[j] /\ u[i] = x[j]
          BY <1>1, <2>3, <5>1 DEF u
        <5> QED BY <4>1, <5>2
      <4> QED BY <1>2, <2>1, <4>2, <4>3, <4>4
    <3>2. u \in Seq(S) /\ Len(u) = Len(y)
      BY <2>1, <2>3 DEF u, ly
    <3> QED BY <3>1, <3>2, SeqEqual DEF ly
  <2>6. a = v
    <3>1. ASSUME NEW i \in 1 .. la PROVE a[i] = v[i]
      <4>1. a[i] = w[i]
        BY <1>1
      <4>2. CASE i <= lc
        <5>1. i \in 1 .. lc
          BY <1>1, <1>2, <4>2
        <5> QED BY <1>2, <2>4, <4>1, <5>1 DEF v
      <4>3. CASE i = lc + 1
        BY <1>2, <2>4, <4>1, <4>3 DEF v
      <4>4. CASE i > lc + 1
        <5> DEFINE j == i - k
        <5>1. j \in 1 .. lr /\ k + j = i
          BY <1>1, <1>2, <2>1, <4>4
        <5> HIDE DEF j
        <5> QED BY <2>2, <2>4, <5>1 DEF v
      <4> QED BY <1>1, <1>2, <4>2, <4>3, <4>4
    <3>2. v \in Seq(S) /\ Len(v) = Len(a)
      BY <1>2, <2>1, <2>4 DEF v, la
    <3> QED BY <3>1, <3>2, SeqEqual DEF la
  <2> QED BY <2>2, <2>5, <2>6 DEF u, v
<1> QED BY <1>1, <1>2, <1>4, <1>5, <1>6

(* The same for two texts without a bar.                                    *)
LEMMA BarTold ==
    ASSUME NEW S, BAR \in S, NEW a \in Seq(S), NEW x \in Seq(S), NEW c \in Seq(S),
           NEW y \in Seq(S), HasNoBar(x), HasNoBar(y), Barred(a, x) = Barred(c, y)
    PROVE  a = c /\ x = y
<1>1. ASSUME NEW r \in Seq(S), y = Barred(r, x) PROVE FALSE
  <2>0. IsBarred(y, r, x)
    BY <1>1, BarredPlaces
  <2>1. y[Len(r) + 1] = BAR /\ Len(y) = Len(r) + 1 + Len(x) /\ Len(r) \in Nat /\ Len(x) \in Nat
    BY ONLY <2>0 DEF IsBarred
  <2>2. DOMAIN y = 1 .. Len(y)
    BY LenProperties
  <2>3. Len(r) + 1 \in DOMAIN y
    BY <2>1, <2>2
  <2> QED BY <2>1, <2>3 DEF HasNoBar
<1> QED BY <1>1, LastBar

(* The cells of a string that is signed. *)
InviteCells == Nat \cup AnyHex

(* The string in front of the server, and up to it.                         *)
Ids(f) == <<BAR, Lower(f.jti), BAR, Lower(f.uuid), BAR, f.device_id, BAR>>
UpToServer(f) == (str(f.v) \o Ids(f)) \o f.server
UpToLife(f) == Barred(Barred(Barred(UpToServer(f), str(f.ts)), f.un), str(f.ttl))

(* The parts of the string that is signed.                                  *)
LEMMA CanonicalParts ==
    ASSUME NEW f \in Invites
    PROVE  /\ canonical(f) = UpToLife(f) \o <<BAR, f.addr>>
           /\ str(f.v) \o Ids(f) \in Seq(InviteCells) /\ Len(str(f.v) \o Ids(f)) = 8
           /\ str(f.v) \in Seq(InviteCells) /\ Ids(f) \in Seq(InviteCells) /\ Len(Ids(f)) = 7
           /\ f.server \in Seq(InviteCells) /\ f.un \in Seq(InviteCells) /\ UpToServer(f) \in Seq(InviteCells)
           /\ str(f.ts) \in Seq(InviteCells) /\ str(f.ttl) \in Seq(InviteCells)
           /\ HasNoBar(str(f.ts)) /\ HasNoBar(str(f.ttl))
           /\ UpToLife(f) \in Seq(InviteCells)
           /\ <<BAR, f.addr>> \in Seq(InviteCells) /\ Len(<<BAR, f.addr>>) = 2 /\ BAR \in InviteCells
<1>1. canonical(f) = UpToLife(f) \o <<BAR, f.addr>>
  BY Zenon DEF canonical, UpToLife, UpToServer, Ids, Barred
<1>2. /\ f.v = 5 /\ f.ts \in Nat /\ f.ttl \in Nat /\ f.server \in Seq(Nat) /\ f.un \in Seq(Nat)
      /\ f.addr \in AnyHex /\ f.device_id \in AnyHex
      /\ f.jti \in AnyHex /\ f.uuid \in AnyHex
  BY DEF Invites, V5, AnyHex, LowerHex
<1>3. Lower(f.jti) \in AnyHex /\ Lower(f.uuid) \in AnyHex
  BY <1>2 DEF Lower, Hex, AnyHex
<1>4. BAR \in InviteCells /\ AnyHex \subseteq InviteCells /\ Nat \subseteq InviteCells
  BY DEF InviteCells, BAR
<1>5. <<BAR, f.addr>> \in Seq(InviteCells) /\ Len(<<BAR, f.addr>>) = 2
  <2>1. f.addr \in InviteCells
    BY <1>2, <1>4
  <2> HIDE DEF InviteCells
  <2> QED BY <1>4, <2>1
<1>6. Ids(f) \in Seq(InviteCells) /\ Len(Ids(f)) = 7
  <2>1. Lower(f.jti) \in InviteCells /\ Lower(f.uuid) \in InviteCells /\ f.device_id \in InviteCells
    BY <1>2, <1>3, <1>4
  <2> HIDE DEF InviteCells
  <2> QED BY <1>4, <2>1 DEF Ids
<1>7. ASSUME NEW n \in Nat PROVE str(n) \in Seq(InviteCells) /\ HasNoBar(str(n))
  BY <1>4, StrHasNoBar, SeqMonotonic
<1>8. f.server \in Seq(InviteCells) /\ f.un \in Seq(InviteCells)
  BY <1>2, <1>4, SeqMonotonic
<1>9. Len(str(5)) = 1
  <2>1. 5 \in Nat /\ 5 < 10
    OBVIOUS
  <2>2. str(5) = <<DIGIT + 5>>
    BY <2>1, StrSteps, Zenon DEF StrPiece
  <2> QED BY <2>2
<1> DEFINE h == str(f.v) \o Ids(f)
<1> HIDE DEF InviteCells
<1>10. h \in Seq(InviteCells) /\ Len(h) = 8
  <2>1. str(f.v) \in Seq(InviteCells) /\ Len(str(f.v)) = 1
    <3>1. 5 \in Nat
      OBVIOUS
    <3> QED BY <1>2, <1>7, <1>9, <3>1
  <2>2. h \in Seq(InviteCells) /\ Len(h) = Len(str(f.v)) + Len(Ids(f))
    BY <1>6, <2>1, ConcatProperties
  <2> HIDE DEF h
  <2> QED BY <1>6, <2>1, <2>2
<1>11. UpToServer(f) \in Seq(InviteCells)
  <2> HIDE DEF h
  <2>1. h \o f.server \in Seq(InviteCells)
    BY <1>8, <1>10, ConcatProperties
  <2> QED BY <2>1 DEF UpToServer, h
<1>12. ASSUME NEW p \in Seq(InviteCells), NEW q \in Seq(InviteCells) PROVE Barred(p, q) \in Seq(InviteCells)
  BY <1>4, BarredPlaces
<1>13. /\ str(f.ts) \in Seq(InviteCells) /\ str(f.ttl) \in Seq(InviteCells)
       /\ HasNoBar(str(f.ts)) /\ HasNoBar(str(f.ttl)) /\ str(f.v) \in Seq(InviteCells)
  BY <1>2, <1>7
<1>14. UpToLife(f) \in Seq(InviteCells)
  BY <1>8, <1>11, <1>12, <1>13 DEF UpToLife
<1> QED BY <1>1, <1>4, <1>5, <1>6, <1>8, <1>10, <1>11, <1>13, <1>14

(* The signed string of an invite whose server and username have no bar is  *)
(* the string of no invite that says something else, bars or not.           *)
LEMMA CanonicalTold ==
    ASSUME NEW f \in Invites, NEW g \in Invites, canonical(f) = canonical(g),
           HasNoBar(f.server), HasNoBar(f.un)
    PROVE  AsRead(f) = AsRead(g)
<1> DEFINE H(i) == str(i.v) \o Ids(i)
           K(i) == UpToServer(i)
           M(i) == Barred(K(i), str(i.ts))
<1>1. ASSUME NEW i \in {f, g}
      PROVE  /\ canonical(i) = UpToLife(i) \o <<BAR, i.addr>>
             /\ H(i) \in Seq(InviteCells) /\ Len(H(i)) = 8
             /\ str(i.v) \in Seq(InviteCells) /\ Ids(i) \in Seq(InviteCells) /\ Len(Ids(i)) = 7
             /\ i.server \in Seq(InviteCells) /\ i.un \in Seq(InviteCells) /\ K(i) \in Seq(InviteCells)
             /\ str(i.ts) \in Seq(InviteCells) /\ str(i.ttl) \in Seq(InviteCells)
             /\ HasNoBar(str(i.ts)) /\ HasNoBar(str(i.ttl))
             /\ UpToLife(i) \in Seq(InviteCells)
             /\ <<BAR, i.addr>> \in Seq(InviteCells) /\ Len(<<BAR, i.addr>>) = 2 /\ BAR \in InviteCells
             /\ K(i) = H(i) \o i.server
  BY CanonicalParts DEF UpToServer
<1>2. UpToLife(f) = UpToLife(g) /\ <<BAR, f.addr>> = <<BAR, g.addr>>
  <2> DEFINE af == <<BAR, f.addr>>
             ag == <<BAR, g.addr>>
  <2>1. /\ UpToLife(f) \o af = UpToLife(g) \o ag /\ Len(af) = Len(ag)
        /\ UpToLife(f) \in Seq(InviteCells) /\ UpToLife(g) \in Seq(InviteCells)
        /\ af \in Seq(InviteCells) /\ ag \in Seq(InviteCells)
    BY <1>1
  <2> HIDE DEF af, ag
  <2> DEFINE uf == UpToLife(f)
             ug == UpToLife(g)
  <2> HIDE DEF uf, ug
  <2>2. uf = ug /\ af = ag
    <3>1. /\ EndAlike(uf, af, ug, ag) /\ uf \in Seq(InviteCells) /\ ug \in Seq(InviteCells)
          /\ af \in Seq(InviteCells) /\ ag \in Seq(InviteCells)
      BY ONLY <2>1 DEF uf, ug, EndAlike
    <3> QED BY ONLY <3>1, EqualEnds
  <2> QED BY ONLY <2>2 DEF af, ag, uf, ug
<1> HIDE DEF H, K
<1>3. ASSUME NEW i \in {f, g}
      PROVE  M(i) \in Seq(InviteCells) /\ Barred(M(i), i.un) \in Seq(InviteCells)
             /\ UpToLife(i) = Barred(Barred(M(i), i.un), str(i.ttl))
  <2>1. M(i) \in Seq(InviteCells)
    BY <1>1, BarredPlaces
  <2>2. UpToLife(i) = Barred(Barred(M(i), i.un), str(i.ttl))
    BY DEF UpToLife, K
  <2> HIDE DEF M
  <2>3. Barred(M(i), i.un) \in Seq(InviteCells)
    BY <1>1, <2>1, BarredPlaces
  <2> QED BY <2>1, <2>2, <2>3
<1> DEFINE N(i) == Barred(M(i), i.un)
<1>4. N(f) = N(g) /\ str(f.ttl) = str(g.ttl)
  <2>1. Barred(N(f), str(f.ttl)) = Barred(N(g), str(g.ttl))
    BY <1>2, <1>3
  <2>2. N(f) \in Seq(InviteCells) /\ N(g) \in Seq(InviteCells)
    BY <1>3
  <2>3. /\ str(f.ttl) \in Seq(InviteCells) /\ str(g.ttl) \in Seq(InviteCells) /\ BAR \in InviteCells
        /\ HasNoBar(str(f.ttl)) /\ HasNoBar(str(g.ttl))
    BY <1>1
  <2> HIDE DEF N
  <2> QED BY ONLY <2>1, <2>2, <2>3, BarTold
<1>5. ASSUME NEW p \in Seq(InviteCells), K(f) = Barred(K(g), p) PROVE FALSE
  <2> DEFINE j == Len(K(g)) + 1
             i == j - 8
  <2>1. /\ Len(K(g)) \in Nat /\ Len(p) \in Nat /\ Len(K(f)) = Len(K(g)) + 1 + Len(p)
        /\ K(f)[j] = BAR
    <3>1. K(g) \in Seq(InviteCells) /\ BAR \in InviteCells /\ p \in Seq(InviteCells)
      BY <1>1
    <3> DEFINE kg == K(g)
    <3> HIDE DEF kg
    <3>2. kg \in Seq(InviteCells)
      BY <3>1 DEF kg
    <3>3. IsBarred(Barred(kg, p), kg, p)
      BY ONLY <3>1, <3>2, BarredPlaces
    <3>4. K(f) = Barred(kg, p)
      BY <1>5 DEF kg
    <3>5. IsBarred(K(f), kg, p)
      BY <3>3, <3>4
    <3> QED BY ONLY <3>5 DEF kg, IsBarred
  <2>2. /\ Len(K(f)) = 8 + Len(f.server) /\ Len(f.server) \in Nat
        /\ \A n \in 1 .. Len(f.server) : K(f)[8 + n] = f.server[n]
    <3>1. H(f) \in Seq(InviteCells) /\ f.server \in Seq(InviteCells) /\ Len(H(f)) = 8 /\ K(f) = H(f) \o f.server
      BY <1>1
    <3>2. /\ Len(H(f) \o f.server) = Len(H(f)) + Len(f.server)
          /\ \A n \in 1 .. Len(f.server) : (H(f) \o f.server)[Len(H(f)) + n] = f.server[n]
      <4> DEFINE x == H(f)
                 y == f.server
      <4>1. x \in Seq(InviteCells) /\ y \in Seq(InviteCells)
        BY <3>1
      <4> HIDE DEF x, y
      <4>2. Len(x \o y) = Len(x) + Len(y) /\ \A n \in 1 .. Len(y) : (x \o y)[Len(x) + n] = y[n]
        BY ONLY <4>1, Concatenated
      <4> QED BY <4>2 DEF x, y
    <3>3. Len(f.server) \in Nat
      BY <3>1, LenProperties
    <3> QED BY <3>1, <3>2, <3>3
  <2>3. Len(K(g)) >= 8
    <3>1. H(g) \in Seq(InviteCells) /\ g.server \in Seq(InviteCells) /\ Len(H(g)) = 8 /\ K(g) = H(g) \o g.server
      BY <1>1
    <3>2. Len(H(g) \o g.server) = Len(H(g)) + Len(g.server) /\ Len(g.server) \in Nat
      BY <3>1, ConcatProperties, LenProperties
    <3> QED BY <3>1, <3>2
  <2>4. i \in 1 .. Len(f.server) /\ 8 + i = j
    BY <2>1, <2>2, <2>3
  <2>5. f.server[i] = BAR
    BY <2>1, <2>2, <2>4
  <2>6. DOMAIN f.server = 1 .. Len(f.server)
    BY <1>1, LenProperties
  <2> QED BY <2>4, <2>5, <2>6 DEF HasNoBar
<1>6. M(f) = M(g) /\ f.un = g.un
  <2>1. \/ M(f) = M(g) /\ f.un = g.un
        \/ \E r \in Seq(InviteCells) : g.un = Barred(r, f.un) /\ M(f) = Barred(M(g), r)
    <3>1. /\ Barred(M(f), f.un) = Barred(M(g), g.un) /\ M(f) \in Seq(InviteCells) /\ M(g) \in Seq(InviteCells)
          /\ f.un \in Seq(InviteCells) /\ g.un \in Seq(InviteCells) /\ BAR \in InviteCells /\ HasNoBar(f.un)
      BY <1>1, <1>3, <1>4
    <3> HIDE DEF M
    <3> QED BY ONLY <3>1, LastBar
  <2>2. ASSUME NEW r \in Seq(InviteCells), M(f) = Barred(M(g), r) PROVE FALSE
    <3> DEFINE L == M(g)
    <3>1. L \in Seq(InviteCells) /\ Barred(K(f), str(f.ts)) = Barred(L, r)
      BY <1>3, <2>2
    <3>2. K(f) \in Seq(InviteCells) /\ str(f.ts) \in Seq(InviteCells) /\ HasNoBar(str(f.ts)) /\ BAR \in InviteCells
      BY <1>1
    <3>3. L = Barred(K(g), str(g.ts)) /\ K(g) \in Seq(InviteCells) /\ str(g.ts) \in Seq(InviteCells)
      BY <1>1
    <3> HIDE DEF L, M
    <3>4. \/ K(f) = L
          \/ \E q \in Seq(InviteCells) : K(f) = Barred(L, q)
      BY <3>1, <3>2, LastBar
    <3>5. CASE K(f) = L
      BY <1>5, <3>3, <3>5
    <3>6. ASSUME NEW q \in Seq(InviteCells), K(f) = Barred(L, q) PROVE FALSE
      <4> DEFINE z == Barred(str(g.ts), q)
      <4>1. Barred(L, q) = Barred(K(g), z) /\ z \in Seq(InviteCells)
        <5> DEFINE k == K(g)
                   s == str(g.ts)
                   b == <<BAR>>
        <5>1. k \in Seq(InviteCells) /\ s \in Seq(InviteCells) /\ b \in Seq(InviteCells) /\ L = (k \o b) \o s
          BY <3>2, <3>3 DEF Barred
        <5> HIDE DEF k, s, b
        <5>2. \A d, e, n \in Seq(InviteCells) : (d \o e) \o n = d \o (e \o n)
          BY ConcatAssociative
        <5>3. \A d, e \in Seq(InviteCells) : d \o e \in Seq(InviteCells)
          BY ConcatProperties
        <5>4. (((k \o b) \o s) \o b) \o q = (k \o b) \o ((s \o b) \o q)
          <6>1. k \o b \in Seq(InviteCells) /\ s \o b \in Seq(InviteCells) /\ (k \o b) \o s \in Seq(InviteCells)
            BY <5>1, <5>3
          <6>2. ((k \o b) \o s) \o b = (k \o b) \o (s \o b)
            <7> DEFINE kb == k \o b
            <7>1. kb \in Seq(InviteCells)
              BY <6>1
            <7> HIDE DEF kb
            <7>2. (kb \o s) \o b = kb \o (s \o b)
              BY ONLY <5>1, <5>2, <7>1
            <7> QED BY <7>2 DEF kb
          <6>3. ((k \o b) \o (s \o b)) \o q = (k \o b) \o ((s \o b) \o q)
            <7> DEFINE kb == k \o b
                       sb == s \o b
            <7>1. kb \in Seq(InviteCells) /\ sb \in Seq(InviteCells) /\ q \in Seq(InviteCells)
              BY <6>1
            <7> HIDE DEF kb, sb
            <7>2. (kb \o sb) \o q = kb \o (sb \o q)
              BY ONLY <5>2, <7>1
            <7> QED BY <7>2 DEF kb, sb
          <6> QED BY <6>2, <6>3
        <5>5. (s \o b) \o q \in Seq(InviteCells)
          BY <5>1, <5>3
        <5>6. Barred(L, q) = (L \o b) \o q /\ z = (s \o b) \o q /\ Barred(K(g), z) = (k \o b) \o z
          BY DEF Barred, k, s, b
        <5> HIDE DEF z
        <5> QED BY <5>1, <5>4, <5>5, <5>6
      <4> HIDE DEF z
      <4> QED BY <1>5, <3>6, <4>1
    <3> QED BY <3>4, <3>5, <3>6
  <2> HIDE DEF M
  <2> QED BY <2>1, <2>2
<1>7. K(f) = K(g) /\ str(f.ts) = str(g.ts)
  <2>1. /\ Barred(K(f), str(f.ts)) = Barred(K(g), str(g.ts)) /\ K(f) \in Seq(InviteCells)
        /\ K(g) \in Seq(InviteCells) /\ str(f.ts) \in Seq(InviteCells) /\ str(g.ts) \in Seq(InviteCells)
        /\ BAR \in InviteCells /\ HasNoBar(str(f.ts)) /\ HasNoBar(str(g.ts))
    BY <1>1, <1>6
  <2> QED BY ONLY <2>1, BarTold
<1>8. H(f) = H(g) /\ f.server = g.server
  <2>1. /\ H(f) \o f.server = H(g) \o g.server /\ Len(H(f)) = Len(H(g))
        /\ H(f) \in Seq(InviteCells) /\ H(g) \in Seq(InviteCells)
        /\ f.server \in Seq(InviteCells) /\ g.server \in Seq(InviteCells)
    BY <1>1, <1>7
  <2> QED BY ONLY <2>1, EqualHalves
<1>9. Ids(f) = Ids(g)
  <2>1. /\ EndAlike(str(f.v), Ids(f), str(g.v), Ids(g))
        /\ str(f.v) \in Seq(InviteCells) /\ str(g.v) \in Seq(InviteCells)
        /\ Ids(f) \in Seq(InviteCells) /\ Ids(g) \in Seq(InviteCells)
    BY <1>1, <1>8 DEF H, EndAlike
  <2> QED BY ONLY <2>1, EqualEnds
<1>10. Lower(f.jti) = Lower(g.jti) /\ Lower(f.uuid) = Lower(g.uuid) /\ f.device_id = g.device_id
  BY <1>9 DEF Ids
<1>11. f.ts = g.ts /\ f.ttl = g.ttl
  <2>1. f.ts \in Nat /\ g.ts \in Nat /\ f.ttl \in Nat /\ g.ttl \in Nat
    BY DEF Invites
  <2> QED BY <1>4, <1>7, <2>1, StrTold
<1>12. f.addr = g.addr /\ f.v = g.v
  BY <1>2 DEF Invites
<1> QED BY <1>6, <1>8, <1>10, <1>11, <1>12, Zenon DEF AsRead

(* No field of an invite changes unnoticed: under the signature of an       *)
(* invite without a bar in its texts, a binary verifies only if it says     *)
(* what was signed, whatever its own texts and numbers are.                 *)
THEOREM NoFieldChangesUnnoticed ==
    ASSUME NEW f \in Invites, NEW g \in Invites, HasNoBar(f.server), HasNoBar(f.un),
           Verifies(binary(g, SignatureOf(f)))
    PROVE  AsRead(g) = AsRead(f)
<1> DEFINE sig == SignatureOf(f)
           b == binary(g, sig)
<1>1. b \in Seq(Nat \cup {sig}) /\ LaidOut(g, sig, b)
  BY InviteLayout
<1> HIDE DEF sig, b
<1>2. ReadInvite(b) = [ok |-> TRUE, signature |-> sig, fields |-> AsRead(g)]
  BY <1>1, InviteIsRead
<1>3. Verifies(b)
  BY DEF b, sig
<1>4. sig = SignatureOf(AsRead(g))
  BY <1>2, <1>3 DEF Verifies
<1>5. canonical(f) = canonical(AsRead(g))
  BY <1>4 DEF sig, SignatureOf
<1>6. canonical(AsRead(g)) = canonical(g)
  BY CanonicalAsRead
<1> QED BY <1>5, <1>6, CanonicalTold

(* The invites that FormatChecks picks and alters are invites.              *)
LEMMA InvitesCovered ==
    InviteInputs \subseteq Invites /\ \A f \in InviteInputs : AlteredOf(f) \subseteq Invites
<1>1. Hexes \subseteq AnyHex
  BY DEF Hexes, Hex, AnyHex
<1>2. LowerHexes \subseteq LowerHex /\ {Hex(1, "lower"), Hex(2, "upper")} \subseteq AnyHex
  BY DEF Hex, LowerHex, LowerHexes, AnyHex
<1>3. Texts \subseteq Seq(Nat)
  <2>1. <<>> \in Seq(Nat) /\ <<49>> \in Seq(Nat) /\ <<52, 49>> \in Seq(Nat)
        /\ <<52, 124>> \in Seq(Nat) /\ <<49, 124, 48>> \in Seq(Nat)
    OBVIOUS
  <2>2. DIGIT = 48 /\ DIGIT + 1 = 49 /\ DIGIT + 4 = 52 /\ BAR = 124
    BY DEF DIGIT, BAR
  <2>3. Texts = {<<>>, <<49>>, <<52, 49>>, <<52, 124>>, <<49, 124, 48>>}
    BY <2>2 DEF Texts
  <2> HIDE DEF Texts
  <2> QED BY <2>1, <2>3
<1>4. Stamps \subseteq Nat /\ Lives \subseteq Nat
  BY DEF STAMP, Stamps, Lives
<1>5. InviteInputs \subseteq Invites
  <2> HIDE DEF Texts, Hexes, LowerHexes, Stamps, Lives
  <2> QED BY <1>1, <1>2, <1>3, <1>4 DEF InviteInputs, Invites
<1>6. ASSUME NEW f \in Invites PROVE AlteredOf(f) \subseteq Invites
  <2>1. f.v \in {V5} /\ f.jti \in AnyHex /\ f.uuid \in AnyHex /\ f.device_id \in LowerHex
        /\ f.addr \in LowerHex
    BY DEF Invites
  <2>2. ASSUME NEW h \in AnyHex PROVE [f EXCEPT !.jti = h] \in Invites /\ [f EXCEPT !.uuid = h] \in Invites
    BY DEF Invites
  <2>3. ASSUME NEW h \in LowerHex
        PROVE  [f EXCEPT !.device_id = h] \in Invites /\ [f EXCEPT !.addr = h] \in Invites
    BY DEF Invites
  <2> HIDE DEF Texts, Hexes, LowerHexes, Stamps, Lives
  <2>4. /\ \A h \in Hexes : [f EXCEPT !.jti = h] \in Invites
        /\ \A h \in Hexes : [f EXCEPT !.uuid = h] \in Invites
        /\ \A h \in LowerHexes : [f EXCEPT !.device_id = h] \in Invites
        /\ \A h \in LowerHexes : [f EXCEPT !.addr = h] \in Invites
    BY <1>1, <1>2, <2>2, <2>3
  <2>5. Reworded(f) \subseteq Invites
    BY <1>3, <1>4, <2>1 DEF Reworded, Invites
  <2>6. Renamed(f) \subseteq Invites
    BY ONLY <2>4 DEF Renamed
  <2> QED BY <2>5, <2>6 DEF AlteredOf
<1> QED BY <1>5, <1>6

(* Whoever scans an invite of the run can check its signature; a binary     *)
(* that is cut short, longer or of another version is refused, and no field *)
(* changes unnoticed (check_invite.py).                                     *)
THEOREM ScannedInvitesVerify == Inputs => []InviteVerifies
<1>1. InputInv => InviteVerifies
  <2> SUFFICES ASSUME InputInv, subject = "invite" PROVE InviteVerifies
    BY DEF InviteVerifies
  <2>1. data \in Invites /\ AlteredOf(data) \subseteq Invites
    BY InvitesCovered DEF InputInv
  <2>2. LET b == derive(data).binary IN
           /\ Verifies(b) /\ canonical(ReadInvite(b).fields) = derive(data).canonical
           /\ \A n \in 0 .. Len(b) - 1 : ~ReadInvite(SubSeq(b, 1, n)).ok
           /\ \A r \in RefusedOf(b) : ~ReadInvite(r).ok
    BY <2>1, InviteReadBack
  <2>3. ASSUME HasNoBar(data.server), HasNoBar(data.un), NEW g \in AlteredOf(data),
               Verifies(binary(g, derive(data).signature))
        PROVE  AsRead(g) = AsRead(data)
    <3>1. derive(data).signature = SignatureOf(data)
      BY DEF derive
    <3> QED BY <2>1, <2>3, <3>1, NoFieldChangesUnnoticed
  <2> QED BY <2>2, <2>3, Zenon DEF InviteVerifies
<1> QED BY <1>1, InputsArePicked, PTL

-----------------------------------------------------------------------------
(* Varints.                                                                 *)

(* What varint makes of a number below WORD. *)
VarintPiece(m, smaller) ==
    IF m < LOW THEN <<m>> ELSE <<(m % LOW) + LOW>> \o smaller[m \div LOW]

VarintOf == CHOOSE g : g = [m \in Nat |-> VarintPiece(m, g)]

(* A number with its low bits taken off is smaller, and the two parts make  *)
(* it up again.                                                             *)
LEMMA SmallerPart ==
    ASSUME NEW m \in Nat, m >= LOW
    PROVE  /\ m \div LOW \in Nat /\ m \div LOW < m /\ m \div LOW > 0
           /\ (m % LOW) + LOW \in Nat /\ (m % LOW) + LOW >= LOW
           /\ ((m % LOW) + LOW) % LOW = m % LOW
           /\ (m % LOW) + LOW * (m \div LOW) = m /\ m % LOW \in Nat
<1>1. LOW \in Nat \ {0, 1}
  BY WireAssumption
<1> DEFINE u == m \div LOW
           v == m % LOW
<1>2. u \in Nat /\ v \in Nat /\ v < LOW /\ u * LOW + v = m
  BY <1>1, Divided
<1>3. (v + LOW) % LOW = v
  <2> DEFINE w == v + LOW
  <2>1. w \in Nat
    BY <1>1, <1>2
  <2> HIDE DEF w, v, u
  <2>2. w \div LOW \in Nat /\ w % LOW \in Nat /\ w % LOW < LOW /\ (w \div LOW) * LOW + (w % LOW) = w
    BY <1>1, <2>1, Divided
  <2> DEFINE x == w \div LOW
             y == w % LOW
  <2>3. x \in Nat /\ y \in Nat /\ y < LOW /\ x * LOW + y = LOW + v
    BY <1>1, <1>2, <2>2 DEF w
  <2> HIDE DEF x, y
  <2>4. y = v
    <3>1. CASE x = 0
      BY <1>1, <1>2, <2>3, <3>1
    <3>2. CASE x = 1
      BY <1>1, <1>2, <2>3, <3>2
    <3>3. CASE x >= 2
      <4>1. x * LOW >= LOW + LOW
        BY <1>1, <2>3, <3>3
      <4> QED BY <1>1, <1>2, <2>3, <4>1
    <3> QED BY <2>3, <3>1, <3>2, <3>3
  <2> QED BY <2>4 DEF w, y
<1> HIDE DEF u, v
<1>4. u > 0
  BY <1>1, <1>2
<1>5. u < m
  <2>1. u * LOW >= u + u
    BY <1>1, <1>2
  <2> QED BY <1>1, <1>2, <1>4, <2>1
<1>6. v + LOW * u = m
  BY <1>1, <1>2
<1>7. v + LOW \in Nat /\ v + LOW >= LOW
  BY <1>1, <1>2
<1> QED BY <1>2, <1>3, <1>4, <1>5, <1>6, <1>7 DEF u, v

(* varint, one byte at a time.                                              *)
LEMMA VarintSteps ==
    /\ \A n : varint(n) = VarintOf[n % WORD]
    /\ \A m \in Nat : /\ VarintOf[m] = VarintPiece(m, VarintOf)
                      /\ VarintOf[m] \in Seq(Nat)
<1> DEFINE S == Seq(Nat)
           last == {m \in Nat : m < LOW}
           a == [m \in Nat |-> <<m>>]
           wrap == [m \in Nat |-> [s \in S |-> IF m \in last THEN s ELSE <<(m % LOW) + LOW>> \o s]]
           next == [m \in Nat |-> IF m \in last THEN m ELSE m \div LOW]
<1>0. LOW \in Nat \ {0, 1}
  BY WireAssumption
<1>1. ASSUME NEW m \in Nat, m \notin last
      PROVE  m \div LOW \in Nat /\ m \div LOW < m /\ (m % LOW) + LOW \in Nat
  BY <1>0, <1>1, SmallerPart
<1>2. a \in [Nat -> S]
  OBVIOUS
<1>3. wrap \in [Nat -> [S -> S]]
  <2>1. ASSUME NEW m \in Nat, NEW s \in S, m \notin last PROVE <<(m % LOW) + LOW>> \o s \in S
    <3> DEFINE x == (m % LOW) + LOW
    <3>1. x \in Nat
      BY <1>1, <2>1
    <3> HIDE DEF x
    <3>2. <<x>> \in Seq(Nat)
      BY <3>1
    <3>3. <<x>> \o s \in S
      BY <3>2, ConcatProperties
    <3> QED BY <3>3 DEF x
  <2> HIDE DEF S, last
  <2> QED BY <2>1
<1>4. next \in [Nat -> Nat] /\ \A i \in Nat : i \notin last => next[i] < i
  <2> HIDE DEF last
  <2> QED BY <1>1
<1>5. \E g : IsWalk(g, S, last, a, wrap, next)
  <2> HIDE DEF S, last, a, wrap, next
  <2> QED BY <1>2, <1>3, <1>4, DescentExists
<1>6. PICK g \in [Nat -> S] : \A i \in Nat : g[i] = IF i \in last THEN a[i] ELSE wrap[i][g[next[i]]]
  BY <1>5 DEF IsWalk
<1>7. ASSUME NEW m \in Nat PROVE g[m] = VarintPiece(m, g)
  <2>1. CASE m < LOW
    <3>1. m \in last /\ a[m] = <<m>>
      BY <2>1
    <3>2. g[m] = <<m>>
      <4> HIDE DEF last, a, wrap, next
      <4> QED BY <1>6, <3>1
    <3> QED BY <2>1, <3>2, Zenon DEF VarintPiece
  <2>2. CASE ~(m < LOW)
    <3>0. m \notin last
      BY <2>2
    <3>1. next[m] = m \div LOW /\ m \div LOW \in Nat /\ g[m \div LOW] \in S
      <4> HIDE DEF last, S
      <4>1. next[m] = m \div LOW /\ m \div LOW \in Nat
        BY <1>1, <3>0
      <4> QED BY <4>1
    <3>2. wrap[m][g[m \div LOW]] = <<(m % LOW) + LOW>> \o g[m \div LOW]
      <4> HIDE DEF last, S
      <4> QED BY <3>0, <3>1
    <3>3. g[m] = <<(m % LOW) + LOW>> \o g[m \div LOW]
      <4> HIDE DEF last, S, wrap, a, next
      <4> QED BY <1>6, <3>0, <3>1, <3>2
    <3> QED BY <2>2, <3>3, Zenon DEF VarintPiece
  <2> QED BY <2>1, <2>2
<1>8. g = [m \in Nat |-> g[m]]
  OBVIOUS
<1>9. g = [m \in Nat |-> VarintPiece(m, g)]
  <2> HIDE DEF S, last, a, wrap, next
  <2> QED BY <1>7, <1>8
<1> DEFINE f == VarintOf
<1>10. f = [m \in Nat |-> VarintPiece(m, f)]
  BY <1>9, Zenon DEF VarintOf
<1> HIDE DEF f
<1>11. \A m \in Nat : f[m] = VarintPiece(m, f)
  BY <1>10
<1>12. \A n : varint(n) = f[n % WORD]
  BY Zenon DEF varint, f, VarintOf, VarintPiece
<1> DEFINE T == {d \in Nat : \A m \in Nat : m < d => f[m] \in Seq(Nat)}
<1>13. 0 \in T
  OBVIOUS
<1>14. ASSUME NEW d \in T PROVE d + 1 \in T
  <2> SUFFICES ASSUME NEW m \in Nat, m < d + 1 PROVE f[m] \in Seq(Nat)
    OBVIOUS
  <2>1. CASE m < LOW
    <3>1. f[m] = <<m>>
      BY <1>11, <2>1 DEF VarintPiece
    <3> QED BY <3>1
  <2>2. CASE ~(m < LOW)
    <3> DEFINE x == (m % LOW) + LOW
               y == m \div LOW
    <3>1. x \in Nat /\ y \in Nat /\ y < m
      BY <1>1, <2>2
    <3>2. f[m] = <<x>> \o f[y]
      BY <1>11, <2>2, Zenon DEF VarintPiece
    <3> HIDE DEF x, y
    <3>3. f[y] \in Seq(Nat)
      BY <3>1
    <3>4. <<x>> \in Seq(Nat)
      BY <3>1
    <3> QED BY <3>2, <3>3, <3>4, ConcatProperties
  <2> QED BY <2>1, <2>2
<1>15. T = Nat
  <2>1. T \subseteq Nat
    OBVIOUS
  <2> HIDE DEF T
  <2> QED BY <1>13, <1>14, <2>1, SetInduction
<1>16. ASSUME NEW m \in Nat PROVE f[m] \in Seq(Nat)
  <2>1. m + 1 \in T /\ m < m + 1
    <3> HIDE DEF T
    <3> QED BY <1>15
  <2> QED BY <2>1
<1> QED BY <1>11, <1>12, <1>16 DEF f

(* What Varint makes of place j, given later places. *)
VarintAt(p, later, j) ==
    IF j > Len(p) THEN Cut
    ELSE IF p[j] < LOW THEN <<p[j], j>>
    ELSE LET rest == later[j + 1]
         IN  IF rest = Cut THEN Cut ELSE <<(p[j] % LOW) + LOW * Least(rest[1], WORD), rest[2]>>

VarintWalk(p) == CHOOSE g : g = [j \in Nat |-> VarintAt(p, g, j)]

(* Sums and products of numbers are numbers.                                *)
LEMMA SumOfNats == \A x, y, z \in Nat : x + y * z \in Nat
OBVIOUS

(* What a varint reads is never taken for the end of the bytes.             *)
LEMMA PairIsNotCut ==
    ASSUME NEW v, NEW e
    PROVE  <<v, e>> # Cut
<1>1. Len(<<v, e>>) = 2 /\ Len(<<256>>) = 1
  OBVIOUS
<1> QED BY <1>1 DEF Cut

(* The varint reader, one byte at a time.                                   *)
LEMMA VarintWalkSteps ==
    ASSUME NEW p \in Seq(Nat)
    PROVE  /\ \A i : Varint(p, i) = VarintWalk(p)[i]
           /\ \A j \in Nat : VarintWalk(p)[j] = VarintAt(p, VarintWalk(p), j)
<1> DEFINE N == Len(p)
           S == {Cut} \cup (Nat \X Nat)
           last == {j \in Nat : j = 0 \/ j > N \/ p[j] < LOW}
           a == [j \in Nat |-> IF j = 0 \/ j > N THEN Cut ELSE IF p[j] < LOW THEN <<p[j], j>> ELSE Cut]
           up(j, s) == <<(p[j] % LOW) + LOW * Least(s[1], WORD), s[2]>>
           wrap == [j \in Nat |-> [s \in S |-> IF j \in last \/ s = Cut THEN Cut ELSE up(j, s)]]
           next == [j \in Nat |-> j + 1]
<1>0. LOW \in Nat \ {0, 1} /\ WORD \in Nat \ {0} /\ N \in Nat
  BY WireAssumption, LenProperties
<1>1. \A j \in Nat : j # 0 /\ ~(j > N) => p[j] \in Nat
  <2>1. \A j \in Nat : j # 0 /\ ~(j > N) => j \in 1 .. N
    BY <1>0
  <2> QED BY <2>1, ElementOfSeq
<1>2. a \in [Nat -> S]
  <2>1. ASSUME NEW j \in Nat, j # 0, ~(j > N) PROVE <<p[j], j>> \in S
    BY <1>1, <2>1
  <2>2. Cut \in S
    OBVIOUS
  <2> HIDE DEF S, N
  <2> QED BY <2>1, <2>2
<1>3. wrap \in [Nat -> [S -> S]]
  <2>1. ASSUME NEW j \in Nat, NEW s \in S, j \notin last, s # Cut PROVE up(j, s) \in S
    <3>1. p[j] \in Nat
      BY <1>1, <2>1
    <3>2. s \in Nat \X Nat
      BY <2>1
    <3>3. s[1] \in Nat /\ s[2] \in Nat
      BY <3>2
    <3>4. Least(s[1], WORD) \in Nat
      BY <1>0, <3>3 DEF Least
    <3>5. p[j] % LOW \in Nat
      BY <1>0, <3>1, Divided
    <3>6. (p[j] % LOW) + LOW * Least(s[1], WORD) \in Nat
      BY <1>0, <3>4, <3>5, SumOfNats
    <3> DEFINE x == (p[j] % LOW) + LOW * Least(s[1], WORD)
               y == s[2]
    <3>7. x \in Nat /\ y \in Nat
      BY <3>3, <3>6
    <3> HIDE DEF x, y
    <3>8. <<x, y>> \in S
      BY <3>7
    <3> QED BY <3>8 DEF x, y
  <2>2. Cut \in S
    OBVIOUS
  <2> HIDE DEF S, last, up
  <2> QED BY <2>1, <2>2
<1>4. next \in [Nat -> Nat] /\ \A i \in Nat : i \notin last => next[i] > i
  <2> HIDE DEF last
  <2> QED OBVIOUS
<1>5. N + 1 \in Nat /\ \A i \in Nat : i >= N + 1 => i \in last
  BY <1>0
<1>6. \E g : IsWalk(g, S, last, a, wrap, next)
  <2> HIDE DEF S, last, a, wrap, next, N
  <2> QED BY <1>2, <1>3, <1>4, <1>5, WalkExists
<1>7. PICK g \in [Nat -> S] : \A i \in Nat : g[i] = IF i \in last THEN a[i] ELSE wrap[i][g[next[i]]]
  BY <1>6 DEF IsWalk
<1>8. ASSUME NEW j \in Nat, j # 0 PROVE g[j] = VarintAt(p, g, j)
  <2>1. CASE j > N \/ p[j] < LOW
    <3>1. j \in last
      BY <2>1
    <3>2. a[j] = VarintAt(p, g, j)
      BY <1>8, <2>1, Zenon DEF VarintAt
    <3> HIDE DEF last, a, wrap, next
    <3> QED BY <1>7, <3>1, <3>2
  <2>2. CASE ~(j > N) /\ ~(p[j] < LOW)
    <3>1. j \notin last
      BY <1>8, <2>2
    <3>2. next[j] = j + 1 /\ g[j + 1] \in S
      <4> HIDE DEF last, S
      <4> QED OBVIOUS
    <3>3. wrap[j][g[j + 1]] = IF g[j + 1] = Cut THEN Cut ELSE up(j, g[j + 1])
      <4> HIDE DEF last, S, up
      <4> QED BY <3>1, <3>2
    <3>4. g[j] = IF g[j + 1] = Cut THEN Cut ELSE up(j, g[j + 1])
      <4> HIDE DEF last, a, wrap, next, S, up
      <4> QED BY <1>7, <3>1, <3>2, <3>3
    <3> QED BY <2>2, <3>4, Zenon DEF VarintAt
  <2> QED BY <2>1, <2>2
<1> DEFINE h == [j \in Nat |-> IF j = 0 THEN VarintAt(p, g, 0) ELSE g[j]]
<1>9. ASSUME NEW j \in Nat PROVE h[j] = VarintAt(p, h, j)
  <2>1. h[j + 1] = g[j + 1]
    <3>1. j + 1 \in Nat /\ j + 1 # 0
      OBVIOUS
    <3> QED BY <3>1, Zenon
  <2>2. VarintAt(p, h, j) = VarintAt(p, g, j)
    <3> HIDE DEF h
    <3> QED BY <2>1, Zenon DEF VarintAt
  <2>3. h[j] = VarintAt(p, g, j)
    <3> HIDE DEF last, a, wrap, next, S, N
    <3>1. CASE j = 0
      BY <3>1, Zenon
    <3>2. CASE j # 0
      <4>1. h[j] = g[j]
        BY <3>2, Zenon
      <4> QED BY <1>8, <3>2, <4>1
    <3> QED BY <3>1, <3>2
  <2> QED BY <2>2, <2>3
<1>10. h = [j \in Nat |-> h[j]]
  BY Zenon
<1>11. h = [j \in Nat |-> VarintAt(p, h, j)]
  <2> HIDE DEF h, S, last, a, wrap, next, N
  <2> QED BY <1>9, <1>10
<1> HIDE DEF h
<1> DEFINE f == VarintWalk(p)
<1>12. f = [j \in Nat |-> VarintAt(p, f, j)]
  BY <1>11, Zenon DEF VarintWalk
<1> HIDE DEF f
<1>13. \A j \in Nat : f[j] = VarintAt(p, f, j)
  BY <1>12
<1>14. \A i : Varint(p, i) = f[i]
  BY Zenon DEF Varint, f, VarintWalk, VarintAt
<1> QED BY <1>13, <1>14 DEF f

(* A varint is a number that ends within the bytes, or is cut. *)
IsVarint(p, j, x) ==
    \/ x = Cut
    \/ \E v \in Nat : \E e \in j .. Len(p) : x = <<v, e>>

(* What the varint reader finds at a place: the end, or a number and where  *)
(* it ends, inside the bytes.                                               *)
LEMMA VarintType ==
    ASSUME NEW p \in Seq(Nat), NEW i \in Nat \ {0}
    PROVE  IsVarint(p, i, Varint(p, i))
<1> DEFINE N == Len(p)
           f == VarintWalk(p)
           T == {d \in Nat : \A j \in Nat \ {0} : j + d > N => IsVarint(p, j, f[j])}
<1>0. LOW \in Nat \ {0, 1} /\ WORD \in Nat \ {0} /\ N \in Nat
  BY WireAssumption, LenProperties
<1>1. (\A j \in Nat : f[j] = VarintAt(p, f, j)) /\ Varint(p, i) = f[i]
  BY VarintWalkSteps
<1> HIDE DEF f
<1>2. 0 \in T
  <2>1. ASSUME NEW j \in Nat \ {0}, j + 0 > N PROVE IsVarint(p, j, f[j])
    <3>1. j > N
      BY <1>0, <2>1
    <3>2. f[j] = Cut
      BY <1>1, <3>1 DEF VarintAt
    <3> QED BY <3>2 DEF IsVarint
  <2> QED BY <2>1
<1>3. ASSUME NEW d \in T PROVE d + 1 \in T
  <2> SUFFICES ASSUME NEW j \in Nat \ {0}, j + (d + 1) > N PROVE IsVarint(p, j, f[j])
    OBVIOUS
  <2>1. j + 1 \in Nat \ {0} /\ (j + 1) + d > N /\ j \in Nat
    BY <1>0
  <2>2. IsVarint(p, j + 1, f[j + 1])
    BY <2>1
  <2>3. f[j] = VarintAt(p, f, j)
    BY <1>1
  <2>4. CASE j > N
    <3>1. f[j] = Cut
      BY <2>3, <2>4, Zenon DEF VarintAt
    <3> QED BY <3>1 DEF IsVarint
  <2>5. CASE ~(j > N)
    <3>1. j \in 1 .. N /\ p[j] \in Nat
      <4>1. j \in 1 .. N
        BY <1>0, <2>5
      <4> QED BY <4>1, ElementOfSeq
    <3>2. CASE p[j] < LOW
      <4>1. f[j] = <<p[j], j>>
        BY <2>3, <2>5, <3>2, Zenon DEF VarintAt
      <4>2. j \in j .. N
        BY <1>0, <3>1
      <4> QED BY <3>1, <4>1, <4>2, Zenon DEF IsVarint
    <3>3. CASE ~(p[j] < LOW) /\ f[j + 1] = Cut
      <4>1. f[j] = Cut
        BY <2>3, <2>5, <3>3, Zenon DEF VarintAt
      <4> QED BY <4>1 DEF IsVarint
    <3>4. CASE ~(p[j] < LOW) /\ f[j + 1] # Cut
      <4>1. PICK v \in Nat, e \in j + 1 .. N : f[j + 1] = <<v, e>>
        BY <2>2, <3>4 DEF IsVarint
      <4>2. f[j + 1][1] = v /\ f[j + 1][2] = e
        BY <4>1
      <4> DEFINE x == (p[j] % LOW) + LOW * Least(v, WORD)
      <4>3. f[j] = <<x, e>>
        BY <2>3, <2>5, <3>4, <4>2, Zenon DEF VarintAt
      <4>4. x \in Nat
        <5>1. Least(v, WORD) \in Nat
          BY <1>0 DEF Least
        <5>2. p[j] % LOW \in Nat
          BY <1>0, <3>1, Divided
        <5> QED BY <1>0, <5>1, <5>2, SumOfNats
      <4> HIDE DEF x
      <4>5. e \in j .. N
        BY <1>0, <2>1
      <4> QED BY <4>3, <4>4, <4>5, Zenon DEF IsVarint
    <3> QED BY <3>2, <3>3, <3>4
  <2> QED BY <2>4, <2>5
<1>4. T = Nat
  <2>1. T \subseteq Nat
    OBVIOUS
  <2> HIDE DEF T
  <2> QED BY <1>2, <1>3, <2>1, SetInduction
<1>5. N \in T /\ i + N > N
  <2> HIDE DEF T
  <2> QED BY <1>0, <1>4
<1> QED BY <1>1, <1>5

(* A number that varint wrote is read back wherever it stands, with where   *)
(* it ends.                                                                 *)
LEMMA VarintReadBack ==
    ASSUME NEW p \in Seq(Nat), NEW n \in 0 .. WORD - 1, NEW e \in Nat,
           e + Len(varint(n)) <= Len(p), \A j \in 1 .. Len(varint(n)) : p[e + j] = varint(n)[j]
    PROVE  /\ varint(n) \in Seq(Nat) /\ Len(varint(n)) \in Nat \ {0}
           /\ Varint(p, e + 1) = <<n, e + Len(varint(n))>>
<1> DEFINE N == Len(p)
           f == VarintWalk(p)
           v == VarintOf
           Stands(m, k) == k + Len(v[m]) <= N /\ \A j \in 1 .. Len(v[m]) : p[k + j] = v[m][j]
           Good(m) == /\ Len(v[m]) \in Nat \ {0}
                      /\ \A k \in Nat : Stands(m, k) => f[k + 1] = <<m, k + Len(v[m])>>
           T == {d \in Nat : \A m \in Nat : m < d /\ m < WORD => Good(m)}
<1>0. LOW \in Nat \ {0, 1} /\ WORD \in Nat \ {0} /\ N \in Nat
  BY WireAssumption, LenProperties
<1>1. \A j \in Nat : f[j] = VarintAt(p, f, j)
  BY VarintWalkSteps
<1>2. \A m \in Nat : v[m] = VarintPiece(m, v) /\ v[m] \in Seq(Nat)
  BY VarintSteps
<1> HIDE DEF f, v, N
<1>3. 0 \in T
  OBVIOUS
<1>4. ASSUME NEW d \in T PROVE d + 1 \in T
  <2> SUFFICES ASSUME NEW m \in Nat, m < d + 1, m < WORD PROVE Good(m)
    <3> HIDE DEF Good
    <3> QED OBVIOUS
  <2>1. CASE m < LOW
    <3>1. v[m] = <<m>>
      BY <1>2, <2>1 DEF VarintPiece
    <3>2. Len(v[m]) = 1 /\ v[m][1] = m
      BY <3>1
    <3>3. ASSUME NEW k \in Nat, Stands(m, k) PROVE f[k + 1] = <<m, k + Len(v[m])>>
      <4>1. k + 1 \in Nat /\ ~(k + 1 > N) /\ p[k + 1] = m
        <5>1. 1 \in 1 .. Len(v[m])
          BY <3>2
        <5>2. p[k + 1] = m
          BY <3>2, <3>3, <5>1
        <5>3. k + 1 <= N
          BY <3>2, <3>3
        <5> QED BY <1>0, <5>2, <5>3
      <4>2. f[k + 1] = VarintAt(p, f, k + 1)
        BY <1>1, <4>1
      <4>3. f[k + 1] = <<m, k + 1>>
        BY <2>1, <4>1, <4>2, Zenon DEF VarintAt, N
      <4> QED BY <3>2, <4>3
    <3>4. Len(v[m]) \in Nat \ {0}
      BY <3>2
    <3> HIDE DEF Stands
    <3> QED BY <3>3, <3>4
  <2>2. CASE ~(m < LOW)
    <3> DEFINE x == (m % LOW) + LOW
               y == m \div LOW
    <3>1. /\ x \in Nat /\ y \in Nat /\ y < m /\ x >= LOW /\ x % LOW = m % LOW
          /\ (x % LOW) + LOW * y = m
      <4>1. m >= LOW
        BY <1>0, <2>2
      <4>2. /\ m \div LOW \in Nat /\ m \div LOW < m
            /\ (m % LOW) + LOW \in Nat /\ (m % LOW) + LOW >= LOW
            /\ ((m % LOW) + LOW) % LOW = m % LOW
            /\ (m % LOW) + LOW * (m \div LOW) = m
        BY <4>1, SmallerPart
      <4> QED BY <4>2, Zenon
    <3>2. v[m] = <<x>> \o v[y]
      BY <1>2, <2>2, Zenon DEF VarintPiece
    <3> HIDE DEF x, y
    <3>3. y < d /\ y < WORD /\ y \in Nat
      BY <1>0, <3>1
    <3>4. Good(y)
      BY <3>3
    <3>5. v[y] \in Seq(Nat) /\ <<x>> \in Seq(Nat) /\ Len(<<x>>) = 1 /\ <<x>>[1] = x
      BY <1>2, <3>1
    <3> DEFINE o == <<x>>
               w == v[y]
    <3>6. o \in Seq(Nat) /\ w \in Seq(Nat) /\ v[m] = o \o w /\ Len(o) = 1 /\ o[1] = x
      BY <3>2, <3>5
    <3> HIDE DEF o
    <3>7. /\ o \o w \in Seq(Nat) /\ Len(o \o w) = Len(o) + Len(w)
          /\ Len(o) \in Nat /\ Len(w) \in Nat
          /\ \A i \in 1 .. Len(o) : (o \o w)[i] = o[i]
          /\ \A i \in 1 .. Len(w) : (o \o w)[Len(o) + i] = w[i]
      <4> HIDE DEF w
      <4>1. o \in Seq(Nat) /\ w \in Seq(Nat)
        BY <3>6
      <4> QED BY ONLY <4>1, Concatenated
    <3>8. Len(v[m]) = 1 + Len(w) /\ v[m][1] = x /\ \A i \in 1 .. Len(w) : v[m][1 + i] = w[i]
      <4>1. 1 \in 1 .. Len(o)
        BY <3>6
      <4> HIDE DEF w
      <4> DEFINE z == o \o w
      <4>2. /\ v[m] = z /\ Len(z) = Len(o) + Len(w) /\ z[1] = o[1]
            /\ \A i \in 1 .. Len(w) : z[Len(o) + i] = w[i]
        BY <3>6, <3>7, <4>1, Zenon
      <4> HIDE DEF z
      <4> QED BY <3>6, <4>2, Zenon
    <3>9. ASSUME NEW k \in Nat, Stands(m, k) PROVE f[k + 1] = <<m, k + Len(v[m])>>
      <4>1. k + 1 \in Nat /\ ~(k + 1 > N) /\ p[k + 1] = x
        <5>1. 1 \in 1 .. Len(v[m])
          BY <3>7, <3>8
        <5>2. p[k + 1] = x
          BY <3>8, <3>9, <5>1
        <5>3. k + 1 <= N
          <6>1. \A a, c \in Nat : k + a <= c /\ 1 \in 1 .. a => k + 1 <= c
            OBVIOUS
          <6>2. Len(v[m]) \in Nat
            BY <1>2, LenProperties
          <6> QED BY <1>0, <3>9, <5>1, <6>1, <6>2, Zenon
        <5> QED BY <1>0, <5>2, <5>3
      <4>2. Stands(y, k + 1)
        <5>1. (k + 1) + Len(w) <= N
          <6>1. \A a \in Nat : k + (1 + a) = (k + 1) + a
            OBVIOUS
          <6> QED BY <3>7, <3>8, <3>9, <6>1, Zenon
        <5>2. ASSUME NEW j \in 1 .. Len(w) PROVE p[(k + 1) + j] = w[j]
          <6>1. 1 + j \in 1 .. Len(v[m]) /\ (k + 1) + j = k + (1 + j)
            BY <3>7, <3>8
          <6> QED BY <3>8, <3>9, <6>1
        <5> QED BY <5>1, <5>2
      <4>3. f[(k + 1) + 1] = <<y, (k + 1) + Len(w)>>
        <5> HIDE DEF Stands
        <5> QED BY <3>4, <4>1, <4>2
      <4>4. f[(k + 1) + 1] # Cut /\ f[(k + 1) + 1][1] = y /\ f[(k + 1) + 1][2] = (k + 1) + Len(w)
        <5> DEFINE z == (k + 1) + Len(w)
                   u == f[(k + 1) + 1]
        <5>1. u = <<y, z>>
          BY <4>3
        <5> HIDE DEF z, u
        <5>2. u # Cut /\ u[1] = y /\ u[2] = z
          BY ONLY <5>1, PairIsNotCut
        <5> QED BY <5>2 DEF z, u
      <4>5. f[k + 1] = VarintAt(p, f, k + 1)
        BY <1>1, <4>1
      <4>6. ~(x < LOW)
        BY <1>0, <3>1
      <4>7. f[k + 1] = <<(x % LOW) + LOW * Least(y, WORD), (k + 1) + Len(w)>>
        BY <4>1, <4>4, <4>5, <4>6, Zenon DEF VarintAt, N
      <4>8. Least(y, WORD) = y
        BY <3>3 DEF Least
      <4>9. (k + 1) + Len(w) = k + Len(v[m])
        <5>1. \A a \in Nat : k + (1 + a) = (k + 1) + a
          OBVIOUS
        <5> QED BY <3>7, <3>8, <5>1, Zenon
      <4> QED BY <3>1, <4>7, <4>8, <4>9, Zenon
    <3>10. Len(v[m]) \in Nat \ {0}
      BY <3>7, <3>8
    <3> HIDE DEF Stands
    <3> QED BY <3>9, <3>10
  <2> QED BY <2>1, <2>2
<1>5. T = Nat
  <2>1. T \subseteq Nat
    OBVIOUS
  <2> HIDE DEF T
  <2> QED BY <1>3, <1>4, <2>1, SetInduction
<1>6. Good(n)
  <2>1. n + 1 \in T /\ n < n + 1 /\ n < WORD /\ n \in Nat
    <3> HIDE DEF T
    <3> QED BY <1>0, <1>5
  <2> HIDE DEF Good
  <2> QED BY <2>1
<1>7. varint(n) = v[n] /\ v[n] \in Seq(Nat)
  <2>1. n \in Nat /\ n = 0 * WORD + n
    BY <1>0
  <2>2. n % WORD = n
    BY <1>0, <2>1, RemainderUnique
  <2> QED BY <1>2, <2>1, <2>2, VarintSteps DEF v
<1>8. Varint(p, e + 1) = f[e + 1]
  BY VarintWalkSteps DEF f
<1>9. Stands(n, e)
  BY <1>7 DEF N
<1> QED BY <1>6, <1>7, <1>8, <1>9

(* What varint writes, whatever the number. *)
LEMMA VarintBytes ==
    ASSUME NEW n \in 0 .. WORD - 1
    PROVE  /\ varint(n) \in Seq(Nat) /\ Len(varint(n)) \in Nat \ {0}
           /\ n < LOW => varint(n) = <<n>>
<1>0. LOW \in Nat \ {0, 1} /\ WORD \in Nat \ {0}
  BY WireAssumption
<1>1. n \in Nat /\ n = 0 * WORD + n
  BY <1>0
<1>2. n % WORD = n
  BY <1>0, <1>1, RemainderUnique
<1>3. varint(n) = VarintOf[n] /\ VarintOf[n] = VarintPiece(n, VarintOf) /\ varint(n) \in Seq(Nat)
  BY <1>1, <1>2, VarintSteps
<1> DEFINE p == varint(n)
<1>4. p \in Seq(Nat) /\ Len(p) \in Nat /\ 0 \in Nat /\ 0 + Len(p) <= Len(p)
      /\ \A j \in 1 .. Len(p) : p[0 + j] = p[j]
  <2>1. p \in Seq(Nat)
    BY <1>3
  <2> HIDE DEF p
  <2> QED BY <2>1, LenProperties
<1>5. Len(varint(n)) \in Nat \ {0}
  BY <1>4, VarintReadBack
<1>6. ASSUME n < LOW PROVE varint(n) = <<n>>
  BY <1>3, <1>6 DEF VarintPiece
<1> QED BY <1>3, <1>5, <1>6

(* Where a varint ends. *)
LEMMA VarintEnds ==
    ASSUME NEW p \in Seq(Nat), NEW i \in Nat
    PROVE  Varint(p, i) = Cut \/ Varint(p, i)[2] \in i .. Len(p)
<1> DEFINE N == Len(p)
           f == VarintWalk(p)
<1>0. N \in Nat
  BY LenProperties
<1>1. CASE i # 0
  <2>1. IsVarint(p, i, Varint(p, i))
    BY <1>1, VarintType
  <2>2. CASE Varint(p, i) # Cut
    <3>1. PICK v \in Nat, e \in i .. N : Varint(p, i) = <<v, e>>
      BY <2>1, <2>2 DEF IsVarint
    <3> QED BY <3>1
  <2> QED BY <2>2
<1>2. CASE i = 0
  <2>1. Varint(p, 0) = f[0] /\ f[0] = VarintAt(p, f, 0) /\ Varint(p, 1) = f[1]
    BY VarintWalkSteps
  <2>2. IsVarint(p, 1, f[1])
    BY <2>1, VarintType
  <2> HIDE DEF f, N
  <2>3. ~(0 > N) /\ 0 + 1 = 1 /\ 0 \in 0 .. N
    BY <1>0
  <2>4. CASE p[0] < LOW
    <3>1. f[0] = <<p[0], 0>>
      BY <2>1, <2>3, <2>4, Zenon DEF VarintAt, N
    <3>2. f[0][2] = 0
      BY <3>1
    <3> QED BY <1>2, <2>1, <2>3, <3>2 DEF N
  <2>5. CASE ~(p[0] < LOW) /\ f[1] = Cut
    <3>1. f[0] = Cut
      BY <2>1, <2>3, <2>5, Zenon DEF VarintAt, N
    <3> QED BY <1>2, <2>1, <3>1
  <2>6. CASE ~(p[0] < LOW) /\ f[1] # Cut
    <3>1. PICK v \in Nat, e \in 1 .. N : f[1] = <<v, e>>
      BY <2>2, <2>6 DEF IsVarint, N
    <3>2. f[1][2] = e
      BY <3>1
    <3> DEFINE x == (p[0] % LOW) + LOW * Least(f[1][1], WORD)
    <3>3. f[0] = <<x, e>>
      BY <2>1, <2>3, <2>6, <3>2, Zenon DEF VarintAt, N
    <3> HIDE DEF x
    <3>4. f[0][2] = e /\ e \in 0 .. N
      BY <1>0, <3>3
    <3> QED BY <1>2, <2>1, <3>4 DEF N
  <2> QED BY <2>4, <2>5, <2>6
<1> QED BY <1>1, <1>2

-----------------------------------------------------------------------------
(* The fields of a message.                                                 *)

(* What Decode makes of place i, given later places. *)
DecodeAt(p, later, i) ==
    LET k == Varint(p, i)
        n == Varint(p, k[2] + 1)
        isBytes == k[1] % 8 = BYTES
        end == IF isBytes THEN n[2] + n[1] ELSE n[2]
        value == IF isBytes THEN SubSeq(p, n[2] + 1, end) ELSE n[1]
    IN  IF i > Len(p) THEN <<>>
        ELSE IF k = Cut \/ (k # Cut /\ n = Cut) THEN CutShort
        ELSE IF end > Len(p) \/ IsCutShort(later[end + 1]) THEN CutShort
        ELSE <<Field(k[1] \div 8, k[1] % 8, value)>> \o later[end + 1]

DecodeWalk(p) == CHOOSE g : g = [i \in Nat |-> DecodeAt(p, g, i)]

(* The key of the field at i and the number behind it, where the field      *)
(* ends, and what it is.                                                    *)
KeyAt(p, i) == Varint(p, i)
NumberAt(p, i) == Varint(p, Varint(p, i)[2] + 1)
CutAt(p, i) == KeyAt(p, i) = Cut \/ NumberAt(p, i) = Cut
EndAt(p, i) ==
    IF KeyAt(p, i)[1] % 8 = BYTES THEN NumberAt(p, i)[2] + NumberAt(p, i)[1] ELSE NumberAt(p, i)[2]
FieldAt(p, i) ==
    Field(KeyAt(p, i)[1] \div 8, KeyAt(p, i)[1] % 8,
          IF KeyAt(p, i)[1] % 8 = BYTES THEN SubSeq(p, NumberAt(p, i)[2] + 1, EndAt(p, i))
          ELSE NumberAt(p, i)[1])

(* A decoder walks from the first byte.                                     *)
LEMMA DecodeIsWalk ==
    ASSUME NEW p
    PROVE  Decode(p) = DecodeWalk(p)[1]
BY Zenon DEF Decode, DecodeWalk, DecodeAt

(* A decoder at one place: the field that is there and the rest behind it.  *)
LEMMA DecodeOne ==
    ASSUME NEW p, NEW later, NEW i
    PROVE  DecodeAt(p, later, i) =
             IF i > Len(p) THEN <<>>
             ELSE IF CutAt(p, i) THEN CutShort
             ELSE IF EndAt(p, i) > Len(p) \/ IsCutShort(later[EndAt(p, i) + 1]) THEN CutShort
             ELSE <<FieldAt(p, i)>> \o later[EndAt(p, i) + 1]
<1>1. CASE i > Len(p)
  BY <1>1, Zenon DEF DecodeAt
<1>2. CASE ~(i > Len(p)) /\ CutAt(p, i)
  BY <1>2, Zenon DEF DecodeAt, CutAt, KeyAt, NumberAt
<1>3. CASE ~(i > Len(p)) /\ ~CutAt(p, i) /\ KeyAt(p, i)[1] % 8 = BYTES
  BY <1>3, Zenon DEF DecodeAt, CutAt, KeyAt, NumberAt, EndAt, FieldAt
<1>4. CASE ~(i > Len(p)) /\ ~CutAt(p, i) /\ ~(KeyAt(p, i)[1] % 8 = BYTES)
  BY <1>4, Zenon DEF DecodeAt, CutAt, KeyAt, NumberAt, EndAt, FieldAt
<1> QED BY <1>1, <1>2, <1>3, <1>4

(* A field ends behind its place. *)
LEMMA EndIsLater ==
    ASSUME NEW p \in Seq(Nat), NEW i \in Nat, ~CutAt(p, i)
    PROVE  EndAt(p, i) \in Nat /\ EndAt(p, i) > i
<1> DEFINE N == Len(p)
           c == KeyAt(p, i)[2]
           x == NumberAt(p, i)
<1>0. N \in Nat
  BY LenProperties
<1>1. c \in i .. N
  BY VarintEnds DEF CutAt, KeyAt
<1>2. x = Varint(p, c + 1)
  BY Zenon DEF KeyAt, NumberAt
<1> HIDE DEF c
<1>3. c + 1 \in Nat \ {0} /\ c + 1 > i
  BY <1>0, <1>1
<1>4. PICK v \in Nat, e \in c + 1 .. N : x = <<v, e>>
  <2>1. IsVarint(p, c + 1, x)
    BY <1>2, <1>3, VarintType
  <2> QED BY <2>1 DEF IsVarint, CutAt
<1>5. x[1] = v /\ x[2] = e
  BY <1>4
<1>6. EndAt(p, i) = e + v \/ EndAt(p, i) = e
  BY <1>5, Zenon DEF EndAt
<1>7. e \in Nat /\ e > i /\ e + v \in Nat /\ e + v > i
  BY <1>0, <1>1, <1>3
<1> QED BY <1>6, <1>7

(* A decoder, one field at a time.                                          *)
LEMMA DecodeSteps ==
    ASSUME NEW p \in Seq(Nat)
    PROVE  \A i \in Nat : DecodeWalk(p)[i] = DecodeAt(p, DecodeWalk(p), i)
<1> DEFINE N == Len(p)
           none == Field(0, VARINT, 0)
           X == {FieldAt(p, i) : i \in Nat} \cup {none}
           S == Seq(X)
           last == {i \in Nat : i > N \/ CutAt(p, i)}
           a == [i \in Nat |-> IF i > N THEN <<>> ELSE CutShort]
           cut(i, s) == EndAt(p, i) > N \/ IsCutShort(s)
           wrap == [i \in Nat |-> [s \in S |-> IF i \in last \/ cut(i, s) THEN CutShort
                                               ELSE <<FieldAt(p, i)>> \o s]]
           next == [i \in Nat |-> IF i \in last THEN i ELSE EndAt(p, i) + 1]
<1>0. N \in Nat
  BY LenProperties
<1>1. ASSUME NEW i \in Nat, i \notin last PROVE EndAt(p, i) + 1 \in Nat /\ EndAt(p, i) + 1 > i
  <2>1. EndAt(p, i) \in Nat /\ EndAt(p, i) > i
    BY <1>1, EndIsLater
  <2> QED BY <2>1
<1>2. none \in X /\ \A i \in Nat : FieldAt(p, i) \in X
  OBVIOUS
<1> HIDE DEF X
<1>3. <<>> \in S /\ CutShort \in S
  <2>1. <<>> \in S
    BY EmptySeq
  <2>2. CutShort = <<none>>
    BY DEF CutShort
  <2> HIDE DEF none
  <2>3. <<none>> \in S
    BY <1>2
  <2> QED BY <2>1, <2>2, <2>3
<1>4. a \in [Nat -> S]
  <2> HIDE DEF S, N
  <2> QED BY <1>3
<1>5. wrap \in [Nat -> [S -> S]]
  <2>1. ASSUME NEW i \in Nat, NEW s \in S PROVE <<FieldAt(p, i)>> \o s \in S
    <3> DEFINE v == FieldAt(p, i)
    <3>1. v \in X
      BY <1>2
    <3> HIDE DEF v
    <3>2. <<v>> \in Seq(X)
      BY <3>1
    <3>3. <<v>> \o s \in S
      BY <3>2, ConcatProperties
    <3> QED BY <3>3 DEF v
  <2> HIDE DEF S, last, cut
  <2> QED BY <1>3, <2>1
<1>6. next \in [Nat -> Nat] /\ \A i \in Nat : i \notin last => next[i] > i
  <2> HIDE DEF last
  <2> QED BY <1>1
<1>7. N + 1 \in Nat /\ \A i \in Nat : i >= N + 1 => i \in last
  <2>1. \A i \in Nat : i >= N + 1 => i > N
    BY <1>0
  <2> QED BY <1>0, <2>1
<1>8. \E g : IsWalk(g, S, last, a, wrap, next)
  <2> HIDE DEF S, last, a, wrap, next, N
  <2> QED BY <1>4, <1>5, <1>6, <1>7, WalkExists
<1>9. PICK g \in [Nat -> S] : \A i \in Nat : g[i] = IF i \in last THEN a[i] ELSE wrap[i][g[next[i]]]
  BY <1>8 DEF IsWalk
<1>10. ASSUME NEW i \in Nat PROVE g[i] = DecodeAt(p, g, i)
  <2>1. CASE i > N
    <3>1. i \in last /\ a[i] = <<>>
      BY <2>1
    <3>2. g[i] = <<>>
      <4> HIDE DEF last, a, wrap, next
      <4> QED BY <1>9, <3>1
    <3> QED BY <2>1, <3>2, DecodeOne
  <2>2. CASE ~(i > N) /\ CutAt(p, i)
    <3>1. i \in last /\ a[i] = CutShort
      BY <2>2
    <3>2. g[i] = CutShort
      <4> HIDE DEF last, a, wrap, next
      <4> QED BY <1>9, <3>1
    <3> QED BY <2>2, <3>2, DecodeOne
  <2>3. CASE ~(i > N) /\ ~CutAt(p, i)
    <3> DEFINE to == EndAt(p, i) + 1
    <3>1. i \notin last
      BY <2>3
    <3>2. next[i] = to /\ to \in Nat /\ g[to] \in S
      <4> HIDE DEF last, S
      <4>1. next[i] = to /\ to \in Nat
        BY <1>1, <3>1
      <4> QED BY <4>1
    <3>3. wrap[i][g[to]] = IF cut(i, g[to]) THEN CutShort ELSE <<FieldAt(p, i)>> \o g[to]
      <4> HIDE DEF last, S, cut, to
      <4> QED BY <3>1, <3>2
    <3>4. g[i] = IF cut(i, g[to]) THEN CutShort ELSE <<FieldAt(p, i)>> \o g[to]
      <4> HIDE DEF last, S, cut, to, wrap, a, next
      <4> QED BY <1>9, <3>1, <3>2, <3>3
    <3> QED BY <2>3, <3>4, DecodeOne
  <2> QED BY <2>1, <2>2, <2>3
<1>11. g = [i \in Nat |-> g[i]]
  OBVIOUS
<1>12. g = [i \in Nat |-> DecodeAt(p, g, i)]
  <2> HIDE DEF S, last, a, wrap, next, N
  <2> QED BY <1>10, <1>11
<1> DEFINE f == DecodeWalk(p)
<1>13. f = [i \in Nat |-> DecodeAt(p, f, i)]
  BY <1>12, Zenon DEF DecodeWalk
<1> HIDE DEF f
<1> QED BY <1>13 DEF f

(* x stands in p behind the first e places. *)
StandsAt(p, e, x) == e + Len(x) <= Len(p) /\ \A j \in 1 .. Len(x) : p[e + j] = x[j]

(* Where two parts stand, each of them stands.                              *)
LEMMA PartsStand ==
    ASSUME NEW p \in Seq(Nat), NEW x \in Seq(Nat), NEW y \in Seq(Nat), NEW e \in Nat
    PROVE  /\ Len(x \o y) = Len(x) + Len(y) /\ Len(x) \in Nat /\ Len(y) \in Nat
           /\ x \o y \in Seq(Nat)
           /\ StandsAt(p, e, x \o y) => StandsAt(p, e, x) /\ StandsAt(p, e + Len(x), y)
<1> DEFINE z == x \o y
<1>1. x \in Seq(Nat) /\ y \in Seq(Nat)
  OBVIOUS
<1>2. /\ x \o y \in Seq(Nat) /\ Len(x \o y) = Len(x) + Len(y)
      /\ Len(x) \in Nat /\ Len(y) \in Nat
      /\ \A i \in 1 .. Len(x) : (x \o y)[i] = x[i]
      /\ \A i \in 1 .. Len(y) : (x \o y)[Len(x) + i] = y[i]
  BY ONLY <1>1, Concatenated
<1>3. /\ z \in Seq(Nat) /\ Len(z) = Len(x) + Len(y) /\ Len(x) \in Nat /\ Len(y) \in Nat
      /\ \A i \in 1 .. Len(x) : z[i] = x[i]
      /\ \A i \in 1 .. Len(y) : z[Len(x) + i] = y[i]
  BY <1>2, Zenon
<1> HIDE DEF z
<1>4. ASSUME StandsAt(p, e, z) PROVE StandsAt(p, e, x) /\ StandsAt(p, e + Len(x), y)
  <2>0. Len(p) \in Nat
    BY LenProperties
  <2>1. e + Len(z) <= Len(p) /\ \A j \in 1 .. Len(z) : p[e + j] = z[j]
    BY <1>4, Zenon DEF StandsAt
  <2>2. e + Len(x) <= Len(p) /\ (e + Len(x)) + Len(y) <= Len(p)
    BY ONLY <1>3, <2>0, <2>1, e \in Nat
  <2>3. ASSUME NEW j \in 1 .. Len(x) PROVE p[e + j] = x[j]
    <3>1. j \in 1 .. Len(z)
      BY ONLY <1>3, <2>3
    <3> QED BY <1>3, <2>1, <3>1
  <2>4. ASSUME NEW j \in 1 .. Len(y) PROVE p[(e + Len(x)) + j] = y[j]
    <3>1. Len(x) + j \in 1 .. Len(z) /\ (e + Len(x)) + j = e + (Len(x) + j)
      BY ONLY <1>3, <2>4, e \in Nat
    <3> QED BY <1>3, <2>1, <3>1
  <2> QED BY <2>2, <2>3, <2>4, Zenon DEF StandsAt
<1> QED BY <1>3, <1>4 DEF z

(* The fields that can be written: their keys and lengths fit into a WORD. *)
Fields ==
    {f \in [number : Nat \ {0}, wire : {VARINT, BYTES}, value : Nat \cup Seq(Nat)] :
        /\ f.number * 8 + f.wire \in 0 .. WORD - 1
        /\ f.wire = VARINT => f.value \in 0 .. WORD - 1
        /\ f.wire = BYTES => f.value \in Seq(Nat) /\ Len(f.value) \in 0 .. WORD - 1}

(* The bytes of one field. *)
FieldPiece(f) ==
    IF f.wire = VARINT THEN p_varint(f.number, f.value) ELSE p_bytes(f.number, f.value)

(* A field that was written is found again, wherever it stands. *)
IsReadAt(p, e, f, size) ==
    /\ ~CutAt(p, e + 1) /\ EndAt(p, e + 1) = e + size /\ FieldAt(p, e + 1) = f

(* A field that p_varint or p_bytes wrote is read, and the decoder goes on  *)
(* right behind it.                                                         *)
LEMMA FieldIsRead ==
    ASSUME NEW f \in Fields
    PROVE  /\ FieldPiece(f) \in Seq(Nat) /\ Len(FieldPiece(f)) \in Nat \ {0}
           /\ \A p \in Seq(Nat) : \A e \in Nat :
                 StandsAt(p, e, FieldPiece(f)) => IsReadAt(p, e, f, Len(FieldPiece(f)))
<1>0. f.number \in Nat /\ f.wire \in {VARINT, BYTES} /\ f.number * 8 + f.wire \in 0 .. WORD - 1
      /\ f = Field(f.number, f.wire, f.value)
  BY DEF Fields, Field
<1> DEFINE key == f.number * 8 + f.wire
           A == varint(key)
<1>1. A \in Seq(Nat) /\ Len(A) \in Nat \ {0}
  BY <1>0, VarintBytes
<1>2. key % 8 = f.wire /\ key \div 8 = f.number /\ f.wire \in Nat
  BY <1>0 DEF VARINT, BYTES
<1>3. VARINT # BYTES
  BY DEF VARINT, BYTES
<1>4. ASSUME NEW p \in Seq(Nat), NEW e \in Nat, StandsAt(p, e, A)
      PROVE  Varint(p, e + 1) = <<key, e + Len(A)>>
  <2> HIDE DEF key
  <2>1. key \in 0 .. WORD - 1
    BY <1>0 DEF key
  <2> QED BY <1>4, <2>1, VarintReadBack DEF StandsAt
<1>5. CASE f.wire = VARINT
  <2> DEFINE B == varint(f.value)
             w == A \o B
  <2>1. f.value \in 0 .. WORD - 1
    BY <1>5 DEF Fields
  <2>2. B \in Seq(Nat) /\ Len(B) \in Nat \ {0}
    BY <2>1, VarintBytes
  <2>3. FieldPiece(f) = w
    BY <1>5, Zenon DEF FieldPiece, p_varint, WireKey
  <2> HIDE DEF A, B, key
  <2>4. Len(w) = Len(A) + Len(B) /\ w \in Seq(Nat) /\ Len(w) \in Nat \ {0}
    <3>1. 0 \in Nat /\ <<>> \in Seq(Nat)
      BY EmptySeq
    <3>2. Len(w) = Len(A) + Len(B) /\ w \in Seq(Nat)
      BY <1>1, <2>2, <3>1, PartsStand
    <3> HIDE DEF w
    <3> QED BY <1>1, <2>2, <3>2
  <2>5. ASSUME NEW p \in Seq(Nat), NEW e \in Nat, StandsAt(p, e, w)
        PROVE  IsReadAt(p, e, f, Len(w))
    <3>1. StandsAt(p, e, A) /\ StandsAt(p, e + Len(A), B) /\ e + Len(A) \in Nat
      BY <1>1, <2>2, <2>5, PartsStand
    <3>2. Varint(p, e + 1) = <<key, e + Len(A)>>
      BY <1>4, <3>1
    <3>3. Varint(p, (e + Len(A)) + 1) = <<f.value, (e + Len(A)) + Len(B)>>
      BY <2>1, <3>1, VarintReadBack DEF StandsAt, B
    <3> HIDE DEF w
    <3> DEFINE c == e + Len(A)
               d == c + Len(B)
    <3>4. d = e + Len(w)
      BY ONLY <1>1, <2>2, <2>4, e \in Nat
    <3> HIDE DEF c, d
    <3>5. KeyAt(p, e + 1) = <<key, c>> /\ KeyAt(p, e + 1)[1] = key /\ KeyAt(p, e + 1)[2] = c
      <4>1. KeyAt(p, e + 1) = <<key, c>>
        BY <3>2, Zenon DEF KeyAt, c
      <4> QED BY ONLY <4>1
    <3>6. NumberAt(p, e + 1) = <<f.value, d>> /\ NumberAt(p, e + 1)[1] = f.value
          /\ NumberAt(p, e + 1)[2] = d
      <4>1. NumberAt(p, e + 1) = <<f.value, d>>
        BY <3>3, <3>5, Zenon DEF NumberAt, KeyAt, c, d
      <4> QED BY ONLY <4>1
    <3>7. ~CutAt(p, e + 1)
      BY <3>5, <3>6, PairIsNotCut DEF CutAt
    <3>8. ~(KeyAt(p, e + 1)[1] % 8 = BYTES)
      BY <1>2, <1>3, <1>5, <3>5, Zenon
    <3>9. EndAt(p, e + 1) = d
      BY <3>6, <3>8, Zenon DEF EndAt
    <3>10. FieldAt(p, e + 1) = f
      BY <1>0, <1>2, <3>5, <3>6, <3>8, Zenon DEF FieldAt
    <3> QED BY <3>4, <3>7, <3>9, <3>10, Zenon DEF IsReadAt
  <2> HIDE DEF w
  <2> QED BY <2>3, <2>4, <2>5, Zenon
<1>6. CASE f.wire = BYTES
  <2> DEFINE V == f.value
             size == Len(V)
             B == varint(size)
             x == A \o B
             w == x \o V
  <2>1. V \in Seq(Nat) /\ size \in 0 .. WORD - 1 /\ size \in Nat
    <3>1. V \in Seq(Nat) /\ size \in 0 .. WORD - 1
      BY <1>6 DEF Fields
    <3> QED BY <3>1, LenProperties
  <2>2. B \in Seq(Nat) /\ Len(B) \in Nat \ {0}
    BY <2>1, VarintBytes
  <2>3. FieldPiece(f) = w
    BY <1>3, <1>6, Zenon DEF FieldPiece, p_bytes, WireKey
  <2>0. f = Field(f.number, f.wire, V)
    BY <1>0
  <2> HIDE DEF A, B, key, V
  <2>4. /\ Len(x) = Len(A) + Len(B) /\ x \in Seq(Nat) /\ Len(w) = Len(x) + size /\ w \in Seq(Nat)
        /\ Len(w) \in Nat \ {0} /\ Len(x) \in Nat
    <3>1. 0 \in Nat /\ <<>> \in Seq(Nat)
      BY EmptySeq
    <3>2. Len(x) = Len(A) + Len(B) /\ x \in Seq(Nat)
      BY <1>1, <2>2, <3>1, PartsStand
    <3> HIDE DEF x
    <3>3. Len(w) = Len(x) + size /\ w \in Seq(Nat)
      BY <2>1, <3>1, <3>2, PartsStand
    <3> HIDE DEF w, size
    <3> QED BY <1>1, <2>1, <2>2, <3>2, <3>3
  <2>5. ASSUME NEW p \in Seq(Nat), NEW e \in Nat, StandsAt(p, e, w)
        PROVE  IsReadAt(p, e, f, Len(w))
    <3>0. StandsAt(p, e, x) /\ StandsAt(p, e + Len(x), V)
      <4> HIDE DEF x
      <4> QED BY <2>1, <2>4, <2>5, PartsStand
    <3>1. StandsAt(p, e, A) /\ StandsAt(p, e + Len(A), B) /\ e + Len(A) \in Nat
      BY <1>1, <2>2, <3>0, PartsStand
    <3>2. Varint(p, e + 1) = <<key, e + Len(A)>>
      BY <1>4, <3>1
    <3>3. Varint(p, (e + Len(A)) + 1) = <<size, (e + Len(A)) + Len(B)>>
      <4> HIDE DEF size
      <4> QED BY <2>1, <3>1, VarintReadBack DEF StandsAt, B
    <3> HIDE DEF w, x
    <3> DEFINE c == e + Len(A)
               d == c + Len(B)
    <3>4. d = e + Len(x) /\ d + size = e + Len(w) /\ d \in Nat
      <4> HIDE DEF size
      <4> QED BY ONLY <1>1, <2>1, <2>2, <2>4, e \in Nat
    <3> HIDE DEF c, d
    <3>5. KeyAt(p, e + 1) = <<key, c>> /\ KeyAt(p, e + 1)[1] = key /\ KeyAt(p, e + 1)[2] = c
      <4>1. KeyAt(p, e + 1) = <<key, c>>
        BY <3>2, Zenon DEF KeyAt, c
      <4> QED BY ONLY <4>1
    <3>6. NumberAt(p, e + 1) = <<size, d>> /\ NumberAt(p, e + 1)[1] = size
          /\ NumberAt(p, e + 1)[2] = d
      <4> HIDE DEF size
      <4>1. NumberAt(p, e + 1) = <<size, d>>
        BY <3>3, <3>5, Zenon DEF NumberAt, KeyAt, c, d
      <4> QED BY ONLY <4>1
    <3>7. ~CutAt(p, e + 1)
      BY <3>5, <3>6, PairIsNotCut DEF CutAt
    <3>8. KeyAt(p, e + 1)[1] % 8 = BYTES
      BY <1>2, <1>6, <3>5, Zenon
    <3>9. EndAt(p, e + 1) = d + size
      BY <3>6, <3>8, Zenon DEF EndAt
    <3>10. SubSeq(p, d + 1, d + size) = V
      <4>1. d + Len(V) <= Len(p) /\ \A j \in 1 .. Len(V) : p[d + j] = V[j]
        BY <3>0, <3>4, Zenon DEF StandsAt
      <4> QED BY <2>1, <3>4, <4>1, SliceIs
    <3>11. FieldAt(p, e + 1) = f
      <4> HIDE DEF size
      <4> QED BY <1>2, <2>0, <3>5, <3>6, <3>8, <3>9, <3>10, Zenon DEF FieldAt
    <3> QED BY <3>4, <3>7, <3>9, <3>11, Zenon DEF IsReadAt
  <2> HIDE DEF w
  <2> QED BY <2>3, <2>4, <2>5, Zenon
<1> QED BY <1>0, <1>5, <1>6

(* Any list of fields that were written one after the other is decoded to   *)
(* the same list.                                                           *)
LEMMA DecodeReadBack ==
    ASSUME NEW fs \in Seq(Fields), NEW P, NEW g, PiecesStand(g, P, Len(fs)),
           \A n \in 1 .. Len(fs) : P[n] = FieldPiece(fs[n])
    PROVE  Decode(g[Len(fs)]) = fs
<1> DEFINE L == Len(fs)
           W == g[L]
           walk == DecodeWalk(W)
           At(n) == walk[Len(g[n]) + 1]
           T == {d \in Nat : d <= L => At(L - d) = SubSeq(fs, (L - d) + 1, L)}
<1>1. L \in Nat
  BY LenProperties
<1>2. /\ g[0] = <<>>
      /\ \A n \in 0 .. L : g[n] \in Seq(Nat) /\ Len(g[n]) \in Nat /\ Len(g[n]) <= Len(W)
      /\ \A n \in 0 .. L - 1 :
          /\ Len(g[n + 1]) = Len(g[n]) + Len(P[n + 1])
          /\ \A j \in 1 .. Len(P[n + 1]) : W[Len(g[n]) + j] = P[n + 1][j]
  BY Zenon DEF PiecesStand
<1>3. W \in Seq(Nat) /\ Len(W) \in Nat
  BY <1>1, <1>2
<1>4. \A i \in Nat : walk[i] = DecodeAt(W, walk, i)
  BY <1>3, DecodeSteps
<1>5. \A n \in 1 .. L : fs[n] \in Fields /\ P[n] = FieldPiece(fs[n])
  BY ElementOfSeq
<1> HIDE DEF walk, L, W
<1>6. 0 \in T
  <2>1. L - 0 = L /\ Len(W) + 1 \in Nat /\ Len(W) + 1 > Len(W) /\ g[L] = W
    BY <1>1, <1>3 DEF W
  <2>2. At(L) = <<>>
    BY <1>4, <2>1, DecodeOne
  <2>3. SubSeq(fs, L + 1, L) = <<>>
    BY <1>1, SubSeqEmpty DEF L
  <2> QED BY <2>1, <2>2, <2>3
<1>7. ASSUME NEW d \in T PROVE d + 1 \in T
  <2> SUFFICES ASSUME d + 1 <= L
               PROVE  At(L - (d + 1)) = SubSeq(fs, (L - (d + 1)) + 1, L)
    OBVIOUS
  <2> DEFINE n == L - (d + 1)
             e == Len(g[n])
             rest == SubSeq(fs, n + 2, L)
             size == Len(P[n + 1])
  <2>1. n \in 0 .. L - 1 /\ n + 1 = L - d /\ d <= L /\ d \in Nat /\ (L - d) + 1 = n + 2
        /\ n + 1 \in 1 .. L /\ n \in 0 .. L /\ n + 1 \in 0 .. L /\ n \in Nat
    BY <1>1
  <2>2. At(n + 1) = rest
    BY <2>1
  <2>3. ~IsCutShort(rest)
    <3>1. CASE rest = <<>>
      BY <3>1 DEF IsCutShort
    <3>2. CASE n + 2 <= L
      <4> DEFINE i == n + 2
      <4>1. i \in 1 .. Len(fs) + 1 /\ L \in 0 .. Len(fs) /\ 1 \in 1 .. L - i + 1 /\ i + 1 - 1 = i
            /\ i \in 1 .. L
        BY <1>1, <2>1, <3>2 DEF L
      <4> HIDE DEF i, n
      <4>2. \A k \in 1 .. L - i + 1 : SubSeq(fs, i, L)[k] = fs[i + k - 1]
        BY <4>1, PartOf
      <4>3. SubSeq(fs, i, L)[1] = fs[i]
        BY <4>1, <4>2
      <4>4. fs[i].number # 0
        <5>1. fs[i] \in Fields
          BY <1>5, <4>1
        <5> QED BY <5>1 DEF Fields
      <4> QED BY <4>3, <4>4 DEF IsCutShort, i
    <3>3. CASE ~(n + 2 <= L)
      <4>1. n + 2 = L + 1
        BY <1>1, <2>1, <3>3
      <4>2. rest = <<>>
        BY <1>1, <4>1, SubSeqEmpty DEF L
      <4> QED BY <4>2 DEF IsCutShort
    <3> QED BY <3>2, <3>3
  <2> HIDE DEF n, rest
  <2>4. e \in Nat /\ e + size = Len(g[n + 1]) /\ Len(g[n + 1]) <= Len(W) /\ Len(g[n + 1]) \in Nat
        /\ \A j \in 1 .. size : W[e + j] = P[n + 1][j]
    BY <1>2, <2>1
  <2>5. fs[n + 1] \in Fields /\ P[n + 1] = FieldPiece(fs[n + 1])
    BY <1>5, <2>1
  <2>6. size \in Nat \ {0}
    BY <2>5, FieldIsRead
  <2> HIDE DEF e
  <2>7. IsReadAt(W, e, fs[n + 1], size)
    <3>1. StandsAt(W, e, P[n + 1])
      <4>1. e + size <= Len(W)
        BY <2>4
      <4> QED BY <2>4, <4>1, Zenon DEF StandsAt
    <3> QED BY <1>3, <2>4, <2>5, <3>1, FieldIsRead
  <2> HIDE DEF size
  <2>8. ~(e + 1 > Len(W)) /\ e + 1 \in Nat /\ ~(e + size > Len(W))
    BY ONLY <1>3, <2>4, <2>6
  <2>9. walk[e + 1] = <<fs[n + 1]>> \o rest
    <3>1. walk[e + 1] = DecodeAt(W, walk, e + 1)
      BY <1>4, <2>8
    <3>2. ~CutAt(W, e + 1) /\ EndAt(W, e + 1) = e + size /\ FieldAt(W, e + 1) = fs[n + 1]
      BY <2>7, Zenon DEF IsReadAt
    <3>3. walk[EndAt(W, e + 1) + 1] = rest
      BY <2>2, <2>4, <3>2
    <3>4. DecodeAt(W, walk, e + 1) =
             IF e + 1 > Len(W) THEN <<>>
             ELSE IF CutAt(W, e + 1) THEN CutShort
             ELSE IF EndAt(W, e + 1) > Len(W) \/ IsCutShort(walk[EndAt(W, e + 1) + 1]) THEN CutShort
             ELSE <<FieldAt(W, e + 1)>> \o walk[EndAt(W, e + 1) + 1]
      BY DecodeOne
    <3> QED BY <2>3, <2>8, <3>1, <3>2, <3>3, <3>4, Zenon
  <2>10. <<fs[n + 1]>> \o rest = SubSeq(fs, n + 1, L)
    <3>1. n + 1 <= L /\ L = Len(fs)
      BY <1>1, <2>1 DEF L
    <3> QED BY <2>1, <3>1, HeadOfPart DEF rest
  <2> QED BY <2>1, <2>9, <2>10 DEF n, e
<1>8. T = Nat
  <2>1. T \subseteq Nat
    OBVIOUS
  <2> HIDE DEF T
  <2> QED BY <1>6, <1>7, <2>1, SetInduction
<1>9. At(0) = SubSeq(fs, 1, L)
  <2>1. L \in T /\ L - L = 0 /\ 0 + 1 = 1 /\ L <= L
    <3> HIDE DEF T
    <3> QED BY <1>1, <1>8
  <2>2. At(L - L) = SubSeq(fs, (L - L) + 1, L)
    BY <2>1
  <2> QED BY <2>1, <2>2
<1>10. SubSeq(fs, 1, L) = fs
  BY SubSeqFull DEF L
<1>11. Len(g[0]) + 1 = 1
  BY <1>2
<1> QED BY <1>9, <1>10, <1>11, DecodeIsWalk DEF walk, W, L

(* The pieces of Encoded. *)
EncodedUpTo(fs) ==
    CHOOSE u : u = [k \in 0 .. Len(fs) |->
        IF k = 0 THEN <<>>
        ELSE u[k - 1] \o (IF fs[k].wire = VARINT THEN p_varint(fs[k].number, fs[k].value)
                          ELSE p_bytes(fs[k].number, fs[k].value))]

(* A message is the pieces of its fields, one after the other.              *)
LEMMA EncodedPieces ==
    ASSUME NEW fs \in Seq(Fields)
    PROVE  /\ Encoded(fs) = EncodedUpTo(fs)[Len(fs)]
           /\ PiecesStand(EncodedUpTo(fs), [k \in 1 .. Len(fs) |-> FieldPiece(fs[k])], Len(fs))
<1> DEFINE L == Len(fs)
           piece(k) == IF fs[k].wire = VARINT THEN p_varint(fs[k].number, fs[k].value)
                       ELSE p_bytes(fs[k].number, fs[k].value)
           u == EncodedUpTo(fs)
           P == [k \in 1 .. L |-> FieldPiece(fs[k])]
<1>1. L \in Nat /\ \A n \in 1 .. L : fs[n] \in Fields
  BY LenProperties, ElementOfSeq
<1>2. Encoded(fs) = u[L]
  BY Zenon DEF Encoded, EncodedUpTo
<1>3. \A k : piece(k) = FieldPiece(fs[k])
  BY Zenon DEF FieldPiece
<1>0. u = CHOOSE f : f = [k \in 0 .. L |-> IF k = 0 THEN <<>> ELSE f[k - 1] \o piece(k)]
  BY Zenon DEF EncodedUpTo
<1> HIDE DEF piece, u
<1>4. PICK g : ArePieces(g, P, L)
  <2> HIDE DEF P, L
  <2> QED BY <1>1, PiecesExist
<1>5. \A f : [n \in 0 .. L |-> IF n = 0 THEN <<>> ELSE f[n - 1] \o P[n]]
              = [k \in 0 .. L |-> IF k = 0 THEN <<>> ELSE f[k - 1] \o piece(k)]
  <2> TAKE f
  <2>1. ASSUME NEW n \in 0 .. L
        PROVE  (IF n = 0 THEN <<>> ELSE f[n - 1] \o P[n]) = IF n = 0 THEN <<>> ELSE f[n - 1] \o piece(n)
    <3>1. CASE n = 0
      BY <3>1, Zenon
    <3>2. CASE n # 0
      <4>1. n \in 1 .. L
        <5> HIDE DEF P
        <5> QED BY <1>1, <3>2
      <4>2. P[n] = piece(n)
        BY <1>3, <4>1, Zenon
      <4> HIDE DEF P
      <4> QED BY <3>2, <4>2
    <3> QED BY <3>1, <3>2
  <2> QED BY <2>1, Zenon
<1>6. g = [k \in 0 .. L |-> IF k = 0 THEN <<>> ELSE g[k - 1] \o piece(k)]
  BY <1>4, <1>5, Zenon DEF ArePieces
<1>7. u = [k \in 0 .. L |-> IF k = 0 THEN <<>> ELSE u[k - 1] \o piece(k)]
  BY <1>0, <1>6, Zenon
<1>8. ArePieces(u, P, L)
  BY <1>5, <1>7, Zenon DEF ArePieces
<1>9. \A n \in 1 .. L : P[n] \in Seq(Nat)
  <2>1. \A n \in 1 .. L : P[n] = FieldPiece(fs[n])
    BY Zenon
  <2> HIDE DEF P
  <2> QED BY <1>1, <2>1, FieldIsRead
<1>10. PiecesStand(u, P, L)
  <2> HIDE DEF L, P
  <2> QED BY <1>1, <1>8, <1>9, PiecesStay
<1> QED BY <1>2, <1>10 DEF u

(* Any message, of any fields whose keys and lengths fit into a WORD: what  *)
(* p_varint and p_bytes of the generator write is read by a decoder that    *)
(* follows the wire format as the same fields in the same order.            *)
THEOREM MessageReadBack ==
    ASSUME NEW fs \in Seq(Fields)
    PROVE  Decode(Encoded(fs)) = fs
<1> DEFINE P == [k \in 1 .. Len(fs) |-> FieldPiece(fs[k])]
           u == EncodedUpTo(fs)
<1>1. Encoded(fs) = u[Len(fs)] /\ PiecesStand(u, P, Len(fs))
  BY EncodedPieces
<1>2. \A n \in 1 .. Len(fs) : P[n] = FieldPiece(fs[n])
  BY Zenon
<1> HIDE DEF P, u
<1>3. Decode(u[Len(fs)]) = fs
  BY <1>1, <1>2, DecodeReadBack
<1> QED BY <1>1, <1>3

-----------------------------------------------------------------------------
(* The field numbers of a MediaBlob.                                        *)

(* What Numbers makes of place i, given later places. *)
NumbersAt(p, later, i) ==
    IF i > Len(p) THEN <<>>
    ELSE LET length == Varint(p, i + 1)
         IN  IF length = Cut THEN Cut
             ELSE LET rest == later[length[2] + 1 + length[1]]
                  IN  IF rest = Cut THEN Cut ELSE <<p[i] \div 8>> \o rest

NumbersWalk(p) == CHOOSE g : g = [i \in Nat |-> NumbersAt(p, g, i)]

(* media_fields_in_order's walk, one field at a time.                       *)
LEMMA NumbersSteps ==
    ASSUME NEW p \in Seq(Nat)
    PROVE  /\ Numbers(p) = NumbersWalk(p)[1]
           /\ \A i \in Nat : NumbersWalk(p)[i] = NumbersAt(p, NumbersWalk(p), i)
<1> DEFINE N == Len(p)
           x(i) == Varint(p, i + 1)
           to(i) == x(i)[2] + 1 + x(i)[1]
           b(i) == p[i] \div 8
           X == {b(i) : i \in Nat} \cup {256}
           S == Seq(X)
           last == {i \in Nat : i > N \/ x(i) = Cut}
           a == [i \in Nat |-> IF i > N THEN <<>> ELSE Cut]
           wrap == [i \in Nat |-> [s \in S |-> IF i \in last \/ s = Cut THEN Cut ELSE <<b(i)>> \o s]]
           next == [i \in Nat |-> IF i \in last THEN i ELSE to(i)]
<1>0. N \in Nat
  BY LenProperties
<1>1. ASSUME NEW i \in Nat, i \notin last PROVE to(i) \in Nat /\ to(i) > i
  <2>1. i + 1 \in Nat \ {0} /\ x(i) # Cut
    BY <1>1
  <2>2. IsVarint(p, i + 1, x(i))
    BY <2>1, VarintType
  <2>3. PICK v \in Nat, e \in i + 1 .. N : x(i) = <<v, e>>
    BY <2>1, <2>2 DEF IsVarint
  <2>4. x(i)[1] = v /\ x(i)[2] = e
    BY <2>3
  <2>5. e \in Nat /\ e + 1 + v \in Nat /\ e + 1 + v > i
    BY <1>0, <2>1
  <2> HIDE DEF x
  <2> QED BY <2>4, <2>5
<1>2. 256 \in X /\ \A i \in Nat : b(i) \in X
  <2> HIDE DEF b
  <2> QED OBVIOUS
<1> HIDE DEF X, to, x, b
<1>3. <<>> \in S /\ Cut \in S
  <2>1. <<>> \in S
    BY EmptySeq
  <2> QED BY <1>2, <2>1 DEF Cut
<1>4. a \in [Nat -> S]
  <2> HIDE DEF S, N
  <2> QED BY <1>3
<1>5. wrap \in [Nat -> [S -> S]]
  <2>1. ASSUME NEW i \in Nat, NEW s \in S PROVE <<b(i)>> \o s \in S
    <3>1. b(i) \in X
      BY <1>2
    <3>2. <<b(i)>> \in Seq(X)
      BY <3>1
    <3> QED BY <3>2, ConcatProperties
  <2> HIDE DEF S, last
  <2> QED BY <1>3, <2>1
<1>6. next \in [Nat -> Nat] /\ \A i \in Nat : i \notin last => next[i] > i
  <2> HIDE DEF last
  <2> QED BY <1>1
<1>7. N + 1 \in Nat /\ \A i \in Nat : i >= N + 1 => i \in last
  <2>1. \A i \in Nat : i >= N + 1 => i > N
    BY <1>0
  <2> QED BY <1>0, <2>1
<1>8. \E g : IsWalk(g, S, last, a, wrap, next)
  <2> HIDE DEF S, last, a, wrap, next, N
  <2> QED BY <1>4, <1>5, <1>6, <1>7, WalkExists
<1>9. PICK g \in [Nat -> S] : \A i \in Nat : g[i] = IF i \in last THEN a[i] ELSE wrap[i][g[next[i]]]
  BY <1>8 DEF IsWalk
<1>10. ASSUME NEW i \in Nat PROVE g[i] = NumbersAt(p, g, i)
  <2>1. CASE i > N \/ x(i) = Cut
    <3>1. i \in last
      BY <2>1
    <3>2. a[i] = NumbersAt(p, g, i)
      BY <2>1, Zenon DEF NumbersAt, x
    <3> HIDE DEF last, a, wrap, next
    <3> QED BY <1>9, <3>1, <3>2
  <2>2. CASE ~(i > N) /\ x(i) # Cut
    <3>1. i \notin last
      BY <2>2
    <3>2. next[i] = to(i) /\ to(i) \in Nat /\ g[to(i)] \in S
      <4> HIDE DEF last, S
      <4>1. next[i] = to(i) /\ to(i) \in Nat
        BY <1>1, <3>1
      <4> QED BY <4>1
    <3>3. wrap[i][g[to(i)]] = IF g[to(i)] = Cut THEN Cut ELSE <<b(i)>> \o g[to(i)]
      <4> HIDE DEF last, S
      <4> QED BY <3>1, <3>2
    <3>4. g[i] = IF g[to(i)] = Cut THEN Cut ELSE <<b(i)>> \o g[to(i)]
      <4> HIDE DEF last, S, wrap, a, next
      <4> QED BY <1>9, <3>1, <3>2, <3>3
    <3> QED BY <2>2, <3>4, Zenon DEF NumbersAt, x, to, b
  <2> QED BY <2>1, <2>2
<1>11. g = [i \in Nat |-> g[i]]
  OBVIOUS
<1>12. g = [i \in Nat |-> NumbersAt(p, g, i)]
  <2> HIDE DEF S, last, a, wrap, next, N
  <2> QED BY <1>10, <1>11
<1> DEFINE f == NumbersWalk(p)
<1>13. f = [i \in Nat |-> NumbersAt(p, f, i)]
  BY <1>12, Zenon DEF NumbersWalk
<1>14. Numbers(p) = f[1]
  BY Zenon DEF Numbers, NumbersWalk, NumbersAt
<1> HIDE DEF f
<1> QED BY <1>13, <1>14 DEF f

(* The fields of a MediaBlob: all of them bytes, with a key of one byte. *)
BlobFields ==
    {f \in Fields : f.wire = BYTES /\ f.number * 8 + BYTES < LOW /\ f.number < 256}

(* A field of a MediaBlob: its key is one byte, and its length leads to the *)
(* next field.                                                              *)
LEMMA BlobFieldIsRead ==
    ASSUME NEW f \in BlobFields, NEW p \in Seq(Nat), NEW e \in Nat, StandsAt(p, e, FieldPiece(f))
    PROVE  LET x == Varint(p, (e + 1) + 1)
           IN  /\ p[e + 1] = f.number * 8 + BYTES /\ x # Cut
               /\ x[2] + 1 + x[1] = (e + Len(FieldPiece(f))) + 1
<1> DEFINE key == f.number * 8 + BYTES
           V == f.value
           A == varint(key)
           B == varint(Len(V))
           y == A \o B
           w == y \o V
           x == Varint(p, (e + 1) + 1)
<1>0. f \in Fields /\ f.wire = BYTES /\ key < LOW /\ key \in 0 .. WORD - 1 /\ f.number \in Nat
      /\ V \in Seq(Nat) /\ Len(V) \in 0 .. WORD - 1
  <2>1. f \in Fields /\ f.wire = BYTES /\ key < LOW
    BY DEF BlobFields
  <2> QED BY <2>1 DEF Fields
<1>1. A = <<key>> /\ A \in Seq(Nat) /\ Len(A) = 1 /\ A[1] = key
  <2>1. A = <<key>> /\ A \in Seq(Nat)
    <3> HIDE DEF key
    <3> QED BY <1>0, VarintBytes
  <2> HIDE DEF A, key
  <2> QED BY <2>1
<1>2. B \in Seq(Nat)
  <2> HIDE DEF V
  <2> QED BY <1>0, VarintBytes
<1>3. FieldPiece(f) = w
  <2>1. VARINT # BYTES
    BY DEF VARINT, BYTES
  <2> QED BY <1>0, <2>1, Zenon DEF FieldPiece, p_bytes, WireKey
<1>4. IsReadAt(p, e, f, Len(FieldPiece(f))) /\ Len(FieldPiece(f)) \in Nat
  BY <1>0, FieldIsRead
<1> HIDE DEF key, V, A, B
<1>5. StandsAt(p, e, A)
  <2>1. y \in Seq(Nat)
    BY <1>1, <1>2, PartsStand
  <2>2. StandsAt(p, e, y)
    <3> HIDE DEF y
    <3> QED BY <1>0, <1>3, <2>1, PartsStand
  <2> QED BY <1>1, <1>2, <2>2, PartsStand
<1>6. p[e + 1] = key
  <2>1. 1 \in 1 .. Len(A)
    BY <1>1
  <2> QED BY <1>1, <1>5, <2>1 DEF StandsAt
<1>7. KeyAt(p, e + 1) = <<key, e + 1>>
  <2>1. Varint(p, e + 1) = <<key, e + Len(A)>>
    BY <1>0, <1>5, VarintReadBack DEF StandsAt, A
  <2> QED BY <1>1, <2>1, Zenon DEF KeyAt
<1>8. KeyAt(p, e + 1)[1] = key /\ KeyAt(p, e + 1)[2] = e + 1
  BY ONLY <1>7
<1>9. NumberAt(p, e + 1) = x
  BY <1>8, Zenon DEF NumberAt, KeyAt
<1>10. key % 8 = BYTES
  BY <1>0 DEF key, BYTES
<1> DEFINE size == Len(FieldPiece(f))
<1> HIDE DEF x, size
<1>11. x # Cut /\ x[2] + x[1] = e + size
  <2>1. ~CutAt(p, e + 1) /\ EndAt(p, e + 1) = e + size
    BY <1>4, Zenon DEF IsReadAt, size
  <2>2. EndAt(p, e + 1) = x[2] + x[1]
    BY <1>8, <1>9, <1>10, Zenon DEF EndAt
  <2>3. x # Cut
    BY <1>9, <2>1, Zenon DEF CutAt
  <2> QED BY <2>1, <2>2, <2>3
<1>12. x[1] \in Nat /\ x[2] \in Nat
  <2>1. (e + 1) + 1 \in Nat \ {0}
    OBVIOUS
  <2>2. IsVarint(p, (e + 1) + 1, x)
    BY <2>1, VarintType DEF x
  <2>3. PICK v \in Nat, c \in (e + 1) + 1 .. Len(p) : x = <<v, c>>
    BY <1>11, <2>2 DEF IsVarint
  <2>4. Len(p) \in Nat
    BY LenProperties
  <2>5. c \in Nat
    BY <2>4
  <2> QED BY <2>3, <2>5
<1>13. x[2] + 1 + x[1] = (e + size) + 1
  <2>1. \A u, v, z \in Nat : u + v = z => u + 1 + v = z + 1
    OBVIOUS
  <2>2. e + size \in Nat
    BY <1>4 DEF size
  <2> QED BY <1>11, <1>12, <2>1, <2>2, Zenon
<1> QED BY <1>6, <1>11, <1>13 DEF x, key, size

(* The number of a field in its key.                                        *)
LEMMA NumberOfKey == \A m \in Nat : (m * 8 + 2) \div 8 = m
OBVIOUS

(* The numbers of any such fields, in the order they were written. *)
LEMMA NumbersReadBack ==
    ASSUME NEW fs \in Seq(BlobFields)
    PROVE  /\ Numbers(Encoded(fs)) = [k \in 1 .. Len(fs) |-> fs[k].number]
           /\ Numbers(Encoded(fs)) # Cut
<1> DEFINE L == Len(fs)
           P == [k \in 1 .. Len(fs) |-> FieldPiece(fs[k])]
           g == EncodedUpTo(fs)
           W == g[L]
           ns == [k \in 1 .. L |-> fs[k].number]
           walk == NumbersWalk(W)
           At(n) == walk[Len(g[n]) + 1]
           T == {d \in Nat : d <= L => At(L - d) = SubSeq(ns, (L - d) + 1, L)}
<1>0. fs \in Seq(Fields)
  <2>1. BlobFields \subseteq Fields
    BY DEF BlobFields
  <2> QED BY <2>1, SeqMonotonic
<1>1. L \in Nat /\ \A n \in 1 .. L : fs[n] \in BlobFields
  BY LenProperties, ElementOfSeq
<1>a. Encoded(fs) = W /\ PiecesStand(g, P, L)
  BY <1>0, EncodedPieces
<1>b. \A n \in 1 .. L : P[n] = FieldPiece(fs[n])
  BY Zenon
<1>c. \A n \in 1 .. L : fs[n].number \in Nat /\ fs[n].number < 256
  <2>1. \A f \in BlobFields : f.number \in Nat /\ f.number < 256
    BY DEF BlobFields, Fields
  <2> QED BY <1>1, <2>1
<1> HIDE DEF P, g
<1>2. /\ g[0] = <<>>
      /\ \A n \in 0 .. L : g[n] \in Seq(Nat) /\ Len(g[n]) \in Nat /\ Len(g[n]) <= Len(W)
      /\ \A n \in 0 .. L - 1 :
          /\ Len(g[n + 1]) = Len(g[n]) + Len(P[n + 1])
          /\ \A j \in 1 .. Len(P[n + 1]) : W[Len(g[n]) + j] = P[n + 1][j]
  BY <1>a, Zenon DEF PiecesStand
<1>3. W \in Seq(Nat) /\ Len(W) \in Nat
  BY <1>1, <1>2
<1>4. Numbers(W) = walk[1] /\ \A i \in Nat : walk[i] = NumbersAt(W, walk, i)
  BY <1>3, NumbersSteps
<1>5. ns \in Seq(Nat) /\ Len(ns) = L /\ \A k \in 1 .. L : ns[k] = fs[k].number
  <2>1. \A k \in 1 .. L : ns[k] = fs[k].number
    BY Zenon
  <2>2. ns \in [1 .. L -> Nat]
    <3> HIDE DEF L
    <3> QED BY <1>c
  <2> HIDE DEF ns
  <2>3. ns \in Seq(Nat) /\ Len(ns) = L
    <3> HIDE DEF L
    <3> QED BY ONLY <1>1, <2>2
  <2> QED BY <2>1, <2>3
<1> HIDE DEF walk, L, W, ns
<1>6. 0 \in T
  <2>1. L - 0 = L /\ Len(W) + 1 \in Nat /\ Len(W) + 1 > Len(W) /\ g[L] = W
    BY <1>1, <1>3 DEF W
  <2>2. At(L) = <<>>
    BY <1>4, <2>1 DEF NumbersAt
  <2>3. SubSeq(ns, L + 1, L) = <<>>
    BY <1>1, <1>5, SubSeqEmpty
  <2> QED BY <2>1, <2>2, <2>3
<1>7. ASSUME NEW d \in T PROVE d + 1 \in T
  <2> SUFFICES ASSUME d + 1 <= L
               PROVE  At(L - (d + 1)) = SubSeq(ns, (L - (d + 1)) + 1, L)
    OBVIOUS
  <2> DEFINE n == L - (d + 1)
             e == Len(g[n])
             rest == SubSeq(ns, n + 2, L)
             size == Len(P[n + 1])
  <2>1. n \in 0 .. L - 1 /\ n + 1 = L - d /\ d <= L /\ d \in Nat /\ (L - d) + 1 = n + 2
        /\ n + 1 \in 1 .. L /\ n \in 0 .. L /\ n + 1 \in 0 .. L /\ n \in Nat
    BY <1>1
  <2>2. At(n + 1) = rest
    BY <2>1
  <2>3. rest # Cut
    <3>2. CASE n + 2 <= L
      <4> DEFINE i == n + 2
      <4>1. i \in 1 .. Len(ns) + 1 /\ L \in 0 .. Len(ns) /\ 1 \in 1 .. L - i + 1 /\ i + 1 - 1 = i
            /\ i \in 1 .. L
        BY <1>1, <1>5, <2>1, <3>2
      <4> HIDE DEF i, n
      <4>2. \A k \in 1 .. L - i + 1 : SubSeq(ns, i, L)[k] = ns[i + k - 1]
        BY <1>5, <4>1, PartOf
      <4>3. SubSeq(ns, i, L)[1] = ns[i]
        BY <4>1, <4>2
      <4>4. ns[i] \in Nat /\ ns[i] < 256
        BY <1>c, <1>5, <4>1
      <4>5. Cut[1] = 256
        BY DEF Cut
      <4>6. ns[i] # 256
        BY <4>4
      <4>7. rest = SubSeq(ns, i, L)
        BY DEF i
      <4> HIDE DEF rest
      <4>8. rest[1] # Cut[1]
        BY <4>3, <4>5, <4>6, <4>7, Zenon
      <4> QED BY ONLY <4>8
    <3>3. CASE ~(n + 2 <= L)
      <4>1. n + 2 = L + 1
        BY <1>1, <2>1, <3>3
      <4>2. rest = <<>>
        BY <1>1, <1>5, <4>1, SubSeqEmpty
      <4>3. Len(<<>>) = 0 /\ Len(Cut) = 1
        BY DEF Cut
      <4> HIDE DEF rest
      <4> QED BY ONLY <4>2, <4>3
    <3> QED BY <3>2, <3>3
  <2> HIDE DEF n, rest
  <2>4. e \in Nat /\ e + size = Len(g[n + 1]) /\ Len(g[n + 1]) <= Len(W) /\ Len(g[n + 1]) \in Nat
        /\ \A j \in 1 .. size : W[e + j] = P[n + 1][j]
    BY <1>2, <2>1
  <2>5. fs[n + 1] \in BlobFields /\ fs[n + 1] \in Fields /\ P[n + 1] = FieldPiece(fs[n + 1])
    BY <1>1, <1>b, <2>1 DEF BlobFields
  <2>6. size \in Nat \ {0}
    BY <2>5, FieldIsRead
  <2> HIDE DEF e
  <2>7. StandsAt(W, e, P[n + 1])
    <3>1. e + size <= Len(W)
      BY <2>4
    <3> QED BY <2>4, <3>1, Zenon DEF StandsAt
  <2> DEFINE x == Varint(W, (e + 1) + 1)
             m == fs[n + 1].number
  <2>8. W[e + 1] = m * 8 + BYTES /\ x # Cut /\ x[2] + 1 + x[1] = (e + size) + 1
    BY <1>3, <2>4, <2>5, <2>7, BlobFieldIsRead
  <2> HIDE DEF size, x
  <2>9. ~(e + 1 > Len(W)) /\ e + 1 \in Nat
    BY ONLY <1>3, <2>4, <2>6
  <2>10. W[e + 1] \div 8 = m /\ m = ns[n + 1]
    <3>1. m \in Nat /\ m = ns[n + 1]
      BY <1>c, <1>5, <2>1
    <3> HIDE DEF m
    <3>2. (m * 8 + BYTES) \div 8 = m
      BY <3>1, NumberOfKey DEF BYTES
    <3> QED BY <2>8, <3>1, <3>2
  <2>11. walk[e + 1] = <<ns[n + 1]>> \o rest
    <3>1. walk[e + 1] = NumbersAt(W, walk, e + 1)
      BY <1>4, <2>9
    <3>2. walk[x[2] + 1 + x[1]] = rest
      BY <2>2, <2>4, <2>8
    <3> HIDE DEF m
    <3> QED BY <2>3, <2>8, <2>9, <2>10, <3>1, <3>2, Zenon DEF NumbersAt, x
  <2>12. <<ns[n + 1]>> \o rest = SubSeq(ns, n + 1, L)
    <3>1. n + 1 <= L /\ L = Len(ns)
      BY <1>1, <1>5, <2>1
    <3> QED BY <1>5, <2>1, <3>1, HeadOfPart DEF rest
  <2> QED BY <2>1, <2>11, <2>12 DEF n, e
<1>8. T = Nat
  <2>1. T \subseteq Nat
    OBVIOUS
  <2> HIDE DEF T
  <2> QED BY <1>6, <1>7, <2>1, SetInduction
<1>9. At(0) = SubSeq(ns, 1, L)
  <2>1. L \in T /\ L - L = 0 /\ 0 + 1 = 1 /\ L <= L
    <3> HIDE DEF T
    <3> QED BY <1>1, <1>8
  <2>2. At(L - L) = SubSeq(ns, (L - L) + 1, L)
    BY <2>1
  <2> QED BY <2>1, <2>2
<1>10. SubSeq(ns, 1, L) = ns
  BY <1>5, SubSeqFull
<1>11. Len(g[0]) + 1 = 1
  BY <1>2
<1>12. Numbers(Encoded(fs)) = ns
  BY <1>a, <1>4, <1>9, <1>10, <1>11
<1>13. ns # Cut
  <2>1. CASE L = 0
    <3>1. Len(Cut) = 1 /\ Len(ns) = 0
      BY <1>5, <2>1 DEF Cut
    <3> QED BY <3>1
  <2>2. CASE L # 0
    <3>1. 1 \in 1 .. L
      BY <1>1, <2>2
    <3>2. ns[1] # 256
      BY <1>c, <1>5, <3>1
    <3> QED BY <3>2 DEF Cut
  <2> QED BY <2>1, <2>2
<1> QED BY <1>12, <1>13 DEF ns, L

(* Every record's layout against the proto files: each field is declared    *)
(* under its number and wire type.                                          *)
IsDeclared(name) ==
    LET numbers == encode[name].numbers
        varints == encode[name].varints
    IN  /\ \E n \in Nat : numbers \in [1 .. n -> 1 .. 16]
        /\ \A k \in DOMAIN numbers :
              numbers[k] \in IF numbers[k] \in varints THEN Declared[name].varint
                             ELSE Declared[name].bytes

(* Every field of the fifteen layouts  is declared by the proto files.      *)
LEMMA LayoutsAreDeclared ==
    ASSUME NEW name \in DOMAIN encode
    PROVE  IsDeclared(name)
<1>1. name \in {"manifest", "contact", "chat", "text", "content", "text_message", "item", "album",
                "album_message", "profile_share", "reaction", "peer", "call", "media",
                "media_blob_first"}
  BY DEF encode
<1>2. CASE name = "manifest"
  <2>1. encode[name].numbers = [k \in 1 .. 13 |-> k]
        /\ encode[name].varints = {1, 5, 7, 8, 9, 10, 11, 12, 13}
        /\ Declared[name].varint = {1, 5} \cup 7 .. 13 /\ Declared[name].bytes = {2, 3, 4, 6}
    BY <1>2 DEF encode, Layout, Declared
  <2>2. 13 \in Nat /\ [k \in 1 .. 13 |-> k] \in [1 .. 13 -> 1 .. 16]
    OBVIOUS
  <2> QED BY <2>1, <2>2 DEF IsDeclared
<1>3. CASE name = "contact"
  <2>1. encode[name].numbers = [k \in 1 .. 11 |-> k] /\ encode[name].varints = 6 .. 11
        /\ Declared[name].varint = 6 .. 11 /\ Declared[name].bytes = 1 .. 5
    BY <1>3 DEF encode, Layout, Declared
  <2>2. 11 \in Nat /\ [k \in 1 .. 11 |-> k] \in [1 .. 11 -> 1 .. 16]
    OBVIOUS
  <2> QED BY <2>1, <2>2 DEF IsDeclared
<1>4. CASE name = "chat"
  <2>1. encode[name].numbers = <<1, 2, 3>> /\ encode[name].varints = {2, 3}
        /\ Declared[name].varint = {2, 3} /\ Declared[name].bytes = {1}
    BY <1>4 DEF encode, Layout, Declared
  <2>2. 3 \in Nat /\ <<1, 2, 3>> \in [1 .. 3 -> 1 .. 16]
    OBVIOUS
  <2> QED BY <2>1, <2>2 DEF IsDeclared
<1>5. CASE name = "text"
  <2>1. encode[name].numbers = <<1>> /\ encode[name].varints = {}
        /\ Declared[name].varint = {} /\ Declared[name].bytes = {1, 2, 3}
    BY <1>5 DEF encode, Layout, Declared
  <2>2. 1 \in Nat /\ <<1>> \in [1 .. 1 -> 1 .. 16]
    OBVIOUS
  <2> QED BY <2>1, <2>2 DEF IsDeclared
<1>16. CASE name = "content"
  <2>1. encode[name].numbers = <<1>> /\ encode[name].varints = {}
        /\ Declared[name].varint = {} /\ Declared[name].bytes = 1 .. 11 \cup {21, 22}
    BY <1>16 DEF encode, Layout, Declared
  <2>2. 1 \in Nat /\ <<1>> \in [1 .. 1 -> 1 .. 16]
    OBVIOUS
  <2> QED BY <2>1, <2>2 DEF IsDeclared
<1>6. CASE name = "text_message"
  <2>1. encode[name].numbers = <<1, 2, 3, 4, 5, 6, 14>> /\ encode[name].varints = {4, 5, 14}
        /\ Declared[name].varint = {4, 5, 9, 10, 13, 14} /\ Declared[name].bytes = {1, 2, 3, 6, 7, 8, 11, 12, 15, 16}
    BY <1>6 DEF encode, Layout, Declared, Message
  <2>2. 7 \in Nat /\ <<1, 2, 3, 4, 5, 6, 14>> \in [1 .. 7 -> 1 .. 16]
    OBVIOUS
  <2> QED BY <2>1, <2>2 DEF IsDeclared
<1>7. CASE name = "item"
  <2>1. encode[name].numbers = <<1, 2, 3, 4, 5, 6, 13>> /\ encode[name].varints = {1, 5}
        /\ Declared[name].varint = {1, 5, 10, 14} /\ Declared[name].bytes = {2, 3, 4, 6, 7, 8, 9, 11, 12, 13}
    BY <1>7 DEF encode, Layout, Declared
  <2>2. 7 \in Nat /\ <<1, 2, 3, 4, 5, 6, 13>> \in [1 .. 7 -> 1 .. 16]
    OBVIOUS
  <2> QED BY <2>1, <2>2 DEF IsDeclared
<1>8. CASE name = "album"
  <2>1. encode[name].numbers = <<1>> /\ encode[name].varints = {}
        /\ Declared[name].varint = {} /\ Declared[name].bytes = {1, 2, 3}
    BY <1>8 DEF encode, Layout, Declared
  <2>2. 1 \in Nat /\ <<1>> \in [1 .. 1 -> 1 .. 16]
    OBVIOUS
  <2> QED BY <2>1, <2>2 DEF IsDeclared
<1>9. CASE name = "album_message"
  <2>1. encode[name].numbers = <<1, 2, 3, 4, 5, 15>> /\ encode[name].varints = {4, 5}
        /\ Declared[name].varint = {4, 5, 9, 10, 13, 14} /\ Declared[name].bytes = {1, 2, 3, 6, 7, 8, 11, 12, 15, 16}
    BY <1>9 DEF encode, Layout, Declared, Message
  <2>2. 6 \in Nat /\ <<1, 2, 3, 4, 5, 15>> \in [1 .. 6 -> 1 .. 16]
    OBVIOUS
  <2> QED BY <2>1, <2>2 DEF IsDeclared
<1>10. CASE name = "profile_share"
  <2>1. encode[name].numbers = <<1, 2, 3, 4, 5, 16>> /\ encode[name].varints = {4, 5}
        /\ Declared[name].varint = {4, 5, 9, 10, 13, 14} /\ Declared[name].bytes = {1, 2, 3, 6, 7, 8, 11, 12, 15, 16}
    BY <1>10 DEF encode, Layout, Declared, Message
  <2>2. 6 \in Nat /\ <<1, 2, 3, 4, 5, 16>> \in [1 .. 6 -> 1 .. 16]
    OBVIOUS
  <2> QED BY <2>1, <2>2 DEF IsDeclared
<1>11. CASE name = "reaction"
  <2>1. encode[name].numbers = <<1, 2, 3, 4>> /\ encode[name].varints = {4}
        /\ Declared[name].varint = {4} /\ Declared[name].bytes = {1, 2, 3}
    BY <1>11 DEF encode, Layout, Declared
  <2>2. 4 \in Nat /\ <<1, 2, 3, 4>> \in [1 .. 4 -> 1 .. 16]
    OBVIOUS
  <2> QED BY <2>1, <2>2 DEF IsDeclared
<1>12. CASE name = "peer"
  <2>1. encode[name].numbers = <<1, 2, 3, 4>> /\ encode[name].varints = {4}
        /\ Declared[name].varint = {4} /\ Declared[name].bytes = {1, 2, 3}
    BY <1>12 DEF encode, Layout, Declared
  <2>2. 4 \in Nat /\ <<1, 2, 3, 4>> \in [1 .. 4 -> 1 .. 16]
    OBVIOUS
  <2> QED BY <2>1, <2>2 DEF IsDeclared
<1>13. CASE name = "call"
  <2>1. encode[name].numbers = <<1, 2, 3, 4, 5, 6>> /\ encode[name].varints = {3, 4, 5, 6}
        /\ Declared[name].varint = {3, 4, 5, 6} /\ Declared[name].bytes = {1, 2}
    BY <1>13 DEF encode, Layout, Declared
  <2>2. 6 \in Nat /\ <<1, 2, 3, 4, 5, 6>> \in [1 .. 6 -> 1 .. 16]
    OBVIOUS
  <2> QED BY <2>1, <2>2 DEF IsDeclared
<1>14. CASE name = "media"
  <2>1. encode[name].numbers = <<1, 2, 3>> /\ encode[name].varints = {}
        /\ Declared[name].varint = {} /\ Declared[name].bytes = {1, 2, 3}
    BY <1>14 DEF encode, Layout, Declared, MediaBlob
  <2>2. 3 \in Nat /\ <<1, 2, 3>> \in [1 .. 3 -> 1 .. 16]
    OBVIOUS
  <2> QED BY <2>1, <2>2 DEF IsDeclared
<1>15. CASE name = "media_blob_first"
  <2>1. encode[name].numbers = <<3, 1, 2>> /\ encode[name].varints = {}
        /\ Declared[name].varint = {} /\ Declared[name].bytes = {1, 2, 3}
    BY <1>15 DEF encode, Layout, Declared, MediaBlob
  <2>2. 3 \in Nat /\ <<3, 1, 2>> \in [1 .. 3 -> 1 .. 16]
    OBVIOUS
  <2> QED BY <2>1, <2>2 DEF IsDeclared
<1> QED BY <1>1, <1>2, <1>3, <1>4, <1>5, <1>6, <1>7, <1>8, <1>9, <1>10, <1>11, <1>12, <1>13, <1>14, <1>15, <1>16, Zenon

-----------------------------------------------------------------------------
(* The records of the generator.                                            *)

(* A value of any length is a sequence of bytes.                            *)
LEMMA BytesOfLength ==
    ASSUME NEW n \in Nat
    PROVE  Bytes(n) \in Seq(Nat) /\ Len(Bytes(n)) = n
<1>1. LOW + 1 \in Nat
  BY WireAssumption
<1>2. Bytes(n) \in [1 .. n -> Nat]
  BY <1>1 DEF Bytes
<1> HIDE DEF Bytes
<1> QED BY ONLY n \in Nat, <1>2

(* The fields of a record, as encode_* of the generator lay them out.       *)
LEMMA WrittenFields ==
    ASSUME NEW name \in DOMAIN encode, NEW x \in 0 .. WORD - 1, NEW n \in 0 .. WORD - 1, WORD > 130
    PROVE  LET numbers == encode[name].numbers
               fields == Written(name, x, n)
           IN  /\ fields \in Seq(Fields) /\ DOMAIN fields = DOMAIN numbers
               /\ \A k \in DOMAIN fields :
                     /\ fields[k].number = numbers[k]
                     /\ fields[k].wire = IF numbers[k] \in encode[name].varints THEN VARINT ELSE BYTES
<1> DEFINE numbers == encode[name].numbers
           varints == encode[name].varints
           fields == Written(name, x, n)
           At(k) == IF numbers[k] \in varints THEN Field(numbers[k], VARINT, x)
                    ELSE Field(numbers[k], BYTES, Bytes(n))
<1>1. PICK m \in Nat : numbers \in [1 .. m -> 1 .. 16]
  BY LayoutsAreDeclared, Zenon DEF IsDeclared
<1>2. fields = [k \in DOMAIN numbers |-> At(k)]
  BY Zenon DEF Written
<1> HIDE DEF numbers, varints, fields
<1>3. DOMAIN numbers = 1 .. m /\ \A k \in 1 .. m : numbers[k] \in 1 .. 16
  BY <1>1
<1>4. Bytes(n) \in Seq(Nat) /\ Len(Bytes(n)) = n /\ x \in Nat
  BY WireAssumption, BytesOfLength
<1>5. ASSUME NEW f \in 1 .. 16
      PROVE  /\ Field(f, VARINT, x) \in Fields
             /\ Field(f, BYTES, Bytes(n)) \in Fields
  <2>1. f \in Nat \ {0} /\ f * 8 + VARINT \in 0 .. WORD - 1 /\ f * 8 + BYTES \in 0 .. WORD - 1
    BY WireAssumption DEF VARINT, BYTES
  <2>2. VARINT # BYTES
    BY DEF VARINT, BYTES
  <2> QED BY <1>4, <2>1, <2>2 DEF Field, Fields
<1>6. ASSUME NEW k \in 1 .. m PROVE At(k) \in Fields
  BY <1>3, <1>5
<1>7. fields \in [1 .. m -> Fields]
  <2> HIDE DEF At
  <2> QED BY <1>2, <1>3, <1>6
<1>8. fields \in Seq(Fields)
  <2>1. m \in Nat
    OBVIOUS
  <2> QED BY ONLY <2>1, <1>7
<1>9. DOMAIN fields = DOMAIN numbers
  BY <1>2
<1>10. ASSUME NEW k \in DOMAIN fields
       PROVE  /\ fields[k].number = numbers[k]
              /\ fields[k].wire = IF numbers[k] \in varints THEN VARINT ELSE BYTES
  <2>1. fields[k] = At(k)
    <3> HIDE DEF At
    <3> QED BY <1>2, <1>9
  <2> QED BY <2>1 DEF Field
<1> QED BY <1>8, <1>9, <1>10, Zenon DEF fields, numbers, varints

(* A record without varints and with numbers up to 3 can be walked without  *)
(* decoding it: media_fields_in_order finds its numbers as they are laid    *)
(* out.                                                                     *)
LEMMA BlobNumbers ==
    ASSUME NEW name \in {"media", "media_blob_first"}, NEW x \in 0 .. WORD - 1,
           NEW n \in 0 .. WORD - 1, WORD > 130, LOW > 26
    PROVE  LET ns == Numbers(Encoded(Written(name, x, n)))
           IN  /\ ns # Cut
               /\ name = "media" => ns = <<1, 2, 3>>
               /\ name = "media_blob_first" => ns = <<3, 1, 2>>
<1> DEFINE numbers == encode[name].numbers
           fs == Written(name, x, n)
<1>1. /\ name \in DOMAIN encode /\ encode[name].varints = {}
      /\ name = "media" => numbers = <<1, 2, 3>>
      /\ name = "media_blob_first" => numbers = <<3, 1, 2>>
  BY DEF encode, Layout
<1>2. /\ fs \in Seq(Fields) /\ DOMAIN fs = DOMAIN numbers
      /\ \A k \in DOMAIN fs :
            /\ fs[k].number = numbers[k]
            /\ fs[k].wire = IF numbers[k] \in encode[name].varints THEN VARINT ELSE BYTES
  BY <1>1, WrittenFields
<1> HIDE DEF numbers, fs
<1>3. DOMAIN numbers = 1 .. 3 /\ \A k \in 1 .. 3 : numbers[k] \in 1 .. 3
  BY <1>1
<1>4. numbers = [k \in 1 .. 3 |-> numbers[k]]
  BY <1>1
<1>5. Len(fs) = 3
  <2>1. DOMAIN fs = 1 .. Len(fs) /\ Len(fs) \in Nat
    BY <1>2, LenProperties
  <2> QED BY <1>2, <1>3, <2>1
<1>6. ASSUME NEW k \in 1 .. 3 PROVE fs[k] \in BlobFields
  <2>1. fs[k].number \in 1 .. 3 /\ fs[k].wire = BYTES /\ fs[k] \in Fields
    BY <1>1, <1>2, <1>3, <1>5, ElementOfSeq
  <2>2. fs[k].number * 8 + BYTES < LOW
    BY <2>1, WireAssumption DEF BYTES
  <2> QED BY <2>1, <2>2 DEF BlobFields
<1>7. fs \in Seq(BlobFields)
  <2>1. fs \in [1 .. 3 -> Fields]
    <3>1. fs \in [1 .. Len(fs) -> Fields]
      BY <1>2, LenProperties
    <3> QED BY <1>5, <3>1
  <2>2. fs \in [1 .. 3 -> BlobFields]
    BY <1>6, <2>1
  <2>3. \A m \in Nat : [1 .. m -> BlobFields] \subseteq Seq(BlobFields)
    OBVIOUS
  <2>4. 3 \in Nat
    OBVIOUS
  <2> QED BY <2>2, <2>3, <2>4, Zenon
<1>8. Numbers(Encoded(fs)) = [k \in 1 .. Len(fs) |-> fs[k].number] /\ Numbers(Encoded(fs)) # Cut
  BY <1>7, NumbersReadBack
<1>9. [k \in 1 .. Len(fs) |-> fs[k].number] = [k \in 1 .. 3 |-> numbers[k]]
  BY <1>2, <1>3, <1>5
<1>10. Numbers(Encoded(fs)) = numbers
  BY <1>4, <1>8, <1>9
<1> QED BY <1>1, <1>8, <1>10 DEF fs

(* Any record the generator writes, whatever the size of its numbers and    *)
(* values, is decoded to the fields that were written, each declared by the *)
(* proto files under its number and wire type; media_fields_in_order        *)
(* accepts the media record and refuses the one with its blob first.        *)
THEOREM RecordReadBack ==
    ASSUME NEW name \in DOMAIN encode, NEW x \in 0 .. WORD - 1, NEW n \in 0 .. WORD - 1,
           WORD > 130, LOW > 26
    PROVE  LET fields == Written(name, x, n) IN
           /\ Decode(Encoded(fields)) = fields
           /\ \A k \in DOMAIN fields :
                 fields[k].number \in IF fields[k].wire = VARINT THEN Declared[name].varint
                                      ELSE Declared[name].bytes
           /\ name = "media" => media_fields_in_order(Encoded(fields))
           /\ name = "media_blob_first" => ~media_fields_in_order(Encoded(fields))
<1> DEFINE numbers == encode[name].numbers
           varints == encode[name].varints
           fs == Written(name, x, n)
<1>1. /\ fs \in Seq(Fields) /\ DOMAIN fs = DOMAIN numbers
      /\ \A k \in DOMAIN fs :
            /\ fs[k].number = numbers[k]
            /\ fs[k].wire = IF numbers[k] \in varints THEN VARINT ELSE BYTES
  BY WrittenFields
<1>2. \A k \in DOMAIN numbers :
         numbers[k] \in IF numbers[k] \in varints THEN Declared[name].varint ELSE Declared[name].bytes
  BY LayoutsAreDeclared, Zenon DEF IsDeclared
<1>3. name \in {"media", "media_blob_first"} =>
         LET ns == Numbers(Encoded(fs))
         IN  /\ ns # Cut
             /\ name = "media" => ns = <<1, 2, 3>>
             /\ name = "media_blob_first" => ns = <<3, 1, 2>>
  BY BlobNumbers
<1> HIDE DEF numbers, varints, fs
<1>4. Decode(Encoded(fs)) = fs
  BY <1>1, MessageReadBack
<1>5. ASSUME NEW k \in DOMAIN fs
      PROVE  fs[k].number \in IF fs[k].wire = VARINT THEN Declared[name].varint
                              ELSE Declared[name].bytes
  <2>1. VARINT # BYTES
    BY DEF VARINT, BYTES
  <2> QED BY <1>1, <1>2, <2>1
<1>6. Ascending(<<1, 2, 3>>) /\ ~Ascending(<<3, 1, 2>>)
  BY DEF Ascending
<1>7. name = "media" => media_fields_in_order(Encoded(fs))
  BY <1>3, <1>6 DEF media_fields_in_order
<1>8. name = "media_blob_first" => ~media_fields_in_order(Encoded(fs))
  BY <1>3, <1>6 DEF media_fields_in_order
<1> QED BY <1>4, <1>5, <1>7, <1>8, Zenon DEF fs

-----------------------------------------------------------------------------
(* Contact cards.                                                           *)

(* W is the fields fs written one after the other.                          *)
PiecesOf(fs) == [k \in 1 .. Len(fs) |-> FieldPiece(fs[k])]
Spells(W, fs) == \E g : ArePieces(g, PiecesOf(fs), Len(fs)) /\ g[Len(fs)] = W

(* What is spelled is decoded.                                              *)
LEMMA SpelledIsRead ==
    ASSUME NEW fs \in Seq(Fields), NEW W, Spells(W, fs)
    PROVE  Decode(W) = fs /\ W \in Seq(Nat)
<1> DEFINE L == Len(fs)
           P == PiecesOf(fs)
<1>1. L \in Nat /\ \A n \in 1 .. L : fs[n] \in Fields
  BY LenProperties, ElementOfSeq
<1>2. \A n \in 1 .. L : P[n] = FieldPiece(fs[n])
  BY Zenon DEF PiecesOf
<1>3. PICK g : ArePieces(g, P, L) /\ g[L] = W
  BY Zenon DEF Spells
<1> HIDE DEF P
<1>4. \A n \in 1 .. L : P[n] \in Seq(Nat)
  BY <1>1, <1>2, FieldIsRead
<1> HIDE DEF L
<1>5. PiecesStand(g, P, L)
  BY <1>1, <1>3, <1>4, PiecesStay
<1>6. Decode(g[L]) = fs
  BY <1>2, <1>5, DecodeReadBack DEF L
<1>7. g[L] \in Seq(Nat)
  BY <1>1, <1>5 DEF PiecesStand
<1> QED BY <1>3, <1>6, <1>7

(* Nothing spells nothing.                                                  *)
LEMMA SpellsNothing == Spells(<<>>, <<>>)
<1> DEFINE P == PiecesOf(<<>>)
           g == [n \in 0 .. 0 |-> <<>>]
<1>1. \A n \in 0 .. 0 : n = 0
  OBVIOUS
<1>2. ArePieces(g, P, 0)
  <2> HIDE DEF P
  <2>1. g = [n \in 0 .. 0 |-> IF n = 0 THEN <<>> ELSE g[n - 1] \o P[n]]
    BY <1>1
  <2> QED BY <2>1 DEF ArePieces
<1>3. g[0] = <<>> /\ Len(<<>>) = 0
  OBVIOUS
<1> HIDE DEF g
<1> QED BY <1>2, <1>3 DEF Spells

(* A field more, at the end.                                                *)
LEMMA SpellsMore ==
    ASSUME NEW fs \in Seq(Fields), NEW f \in Fields, NEW W, Spells(W, fs)
    PROVE  Spells(W \o FieldPiece(f), Append(fs, f)) /\ Append(fs, f) \in Seq(Fields)
<1> DEFINE L == Len(fs)
           P == PiecesOf(fs)
           hs == Append(fs, f)
           Q == PiecesOf(hs)
           Z == FieldPiece(f)
<1>1. PICK g : ArePieces(g, P, L) /\ g[L] = W
  BY Zenon DEF Spells
<1>2. L \in Nat /\ Len(hs) = L + 1 /\ hs \in Seq(Fields) /\ hs[L + 1] = f
      /\ \A k \in 1 .. L : hs[k] = fs[k]
  BY LenProperties, AppendProperties
<1> HIDE DEF hs
<1>3. Q[L + 1] = Z /\ \A k \in 1 .. L : Q[k] = P[k]
  <2>1. L + 1 \in 1 .. Len(hs) /\ \A k \in 1 .. L : k \in 1 .. Len(hs)
    BY <1>2
  <2>2. Q[L + 1] = FieldPiece(hs[L + 1])
    BY <2>1, Zenon DEF PiecesOf
  <2>3. ASSUME NEW k \in 1 .. L PROVE Q[k] = P[k]
    <3>1. Q[k] = FieldPiece(hs[k]) /\ P[k] = FieldPiece(fs[k])
      BY <2>1, Zenon DEF PiecesOf
    <3> QED BY <1>2, <3>1
  <2> QED BY <1>2, <2>2, <2>3
<1> HIDE DEF P, Q, Z, L
<1> DEFINE h == [n \in 0 .. L + 1 |-> IF n = L + 1 THEN W \o Z ELSE g[n]]
<1>4. \A n \in 0 .. L : g[n] = IF n = 0 THEN <<>> ELSE g[n - 1] \o P[n]
  <2> DEFINE G == [n \in 0 .. L |-> IF n = 0 THEN <<>> ELSE g[n - 1] \o P[n]]
  <2>1. g = G
    BY <1>1, Zenon DEF ArePieces
  <2>2. \A n \in 0 .. L : G[n] = IF n = 0 THEN <<>> ELSE g[n - 1] \o P[n]
    BY Zenon
  <2> HIDE DEF G
  <2> QED BY <2>1, <2>2
<1>5. ASSUME NEW n \in 0 .. L + 1
      PROVE  h[n] = IF n = 0 THEN <<>> ELSE h[n - 1] \o Q[n]
  <2>1. CASE n = 0
    <3>1. n # L + 1 /\ 0 \in 0 .. L
      BY <1>2, <2>1
    <3> QED BY <1>4, <2>1, <3>1
  <2>2. CASE n # 0 /\ n # L + 1
    <3>1. n - 1 \in 0 .. L + 1 /\ n - 1 # L + 1 /\ n \in 0 .. L /\ n \in 1 .. L
      BY <1>2, <2>2
    <3>2. h[n] = g[n] /\ h[n - 1] = g[n - 1]
      BY <2>2, <3>1, Zenon
    <3> HIDE DEF h
    <3> QED BY <1>3, <1>4, <2>2, <3>1, <3>2
  <2>3. CASE n = L + 1
    <3>1. n # 0 /\ n - 1 = L /\ L \in 0 .. L + 1 /\ L # L + 1
      BY <1>2, <2>3
    <3>2. h[L] = W /\ h[n] = W \o Z
      BY <1>1, <2>3, <3>1
    <3> HIDE DEF h
    <3> QED BY <1>3, <2>3, <3>1, <3>2
  <2> QED BY <2>1, <2>2, <2>3
<1>6. ArePieces(h, Q, L + 1)
  <2>1. h = [n \in 0 .. L + 1 |-> h[n]]
    BY Zenon
  <2> HIDE DEF h
  <2> QED BY <1>5, <2>1, Zenon DEF ArePieces
<1>7. h[L + 1] = W \o Z
  BY <1>2
<1> HIDE DEF h
<1>8. Spells(W \o Z, hs)
  BY <1>2, <1>6, <1>7 DEF Spells, Q
<1> QED BY <1>2, <1>8 DEF hs, Z

(* Some field of a set of places is the last one.                           *)
LEMMA LastPlace ==
    ASSUME NEW n \in Nat
    PROVE  \A S \in SUBSET (1 .. n) : S # {} => \E k \in S : \A j \in S : j <= k
<1> DEFINE T == {m \in Nat : \A S \in SUBSET (1 .. m) : S # {} => \E k \in S : \A j \in S : j <= k}
<1>1. 0 \in T
  <2>1. 1 .. 0 = {}
    OBVIOUS
  <2> QED BY <2>1
<1>2. \A m \in T : m + 1 \in T
  <2> TAKE m \in T
  <2>1. m \in Nat /\ m + 1 \in Nat
    OBVIOUS
  <2>2. ASSUME NEW S \in SUBSET (1 .. m + 1), S # {} PROVE \E k \in S : \A j \in S : j <= k
    <3>1. CASE m + 1 \in S
      BY <2>1, <3>1
    <3>2. CASE m + 1 \notin S
      <4>1. S \in SUBSET (1 .. m)
        BY <2>1, <3>2
      <4> QED BY <2>2, <4>1
    <3> QED BY <3>1, <3>2
  <2> QED BY <2>1, <2>2
<1>3. T = Nat
  <2>1. T \subseteq Nat
    OBVIOUS
  <2> HIDE DEF T
  <2> QED BY <1>1, <1>2, <2>1, SetInduction
<1> QED BY <1>3

(* A decoder lets the last field of a number count.                         *)
LEMMA LastFieldCounts ==
    ASSUME NEW fs \in Seq(Fields), NEW f \in Fields, NEW number, NEW absent
    PROVE  /\ ValueOf(<<>>, number, absent) = absent
           /\ ValueOf(Append(fs, f), number, absent) =
                 IF f.number = number THEN f.value ELSE ValueOf(fs, number, absent)
<1> DEFINE L == Len(fs)
           hs == Append(fs, f)
           at(s) == {k \in DOMAIN s : s[k].number = number}
           last(s) == CHOOSE k \in at(s) : \A j \in at(s) : j <= k
<1>1. \A s : ValueOf(s, number, absent) = IF at(s) = {} THEN absent ELSE s[last(s)].value
  BY Zenon DEF ValueOf
<1>2. at(<<>>) = {}
  OBVIOUS
<1>3. L \in Nat /\ DOMAIN fs = 1 .. L /\ DOMAIN hs = 1 .. L + 1 /\ hs[L + 1] = f
      /\ \A k \in 1 .. L : hs[k] = fs[k]
  BY LenProperties, AppendProperties
<1> HIDE DEF L, hs
<1>4. CASE f.number = number
  <2>1. L + 1 \in at(hs) /\ \A j \in at(hs) : j <= L + 1 /\ j \in Nat
    BY <1>3, <1>4
  <2>2. last(hs) \in at(hs) /\ \A j \in at(hs) : j <= last(hs)
    <3> HIDE DEF at
    <3> QED BY <2>1
  <2>3. last(hs) = L + 1
    <3> HIDE DEF at, last
    <3> QED BY <1>3, <2>1, <2>2
  <2>4. at(hs) # {}
    BY <2>1
  <2> HIDE DEF at, last
  <2> QED BY <1>1, <1>2, <1>3, <1>4, <2>3, <2>4 DEF hs
<1>5. CASE f.number # number
  <2>1. at(hs) = at(fs)
    <3>1. \A k : k \in 1 .. L + 1 <=> k \in 1 .. L \/ k = L + 1
      BY <1>3
    <3> QED BY <1>3, <1>5, <3>1
  <2>2. last(hs) = last(fs)
    <3> HIDE DEF at
    <3> QED BY <2>1
  <2>3. ASSUME at(fs) # {} PROVE hs[last(fs)] = fs[last(fs)]
    <3>1. at(fs) \in SUBSET (1 .. L)
      BY <1>3
    <3>2. \E k \in at(fs) : \A j \in at(fs) : j <= k
      <4> HIDE DEF at
      <4> QED BY <1>3, <2>3, <3>1, LastPlace
    <3>3. last(fs) \in at(fs)
      <4> HIDE DEF at
      <4> QED BY <3>2
    <3> HIDE DEF at, last
    <3> QED BY <1>3, <3>1, <3>3
  <2> HIDE DEF at, last
  <2> QED BY <1>1, <1>2, <1>5, <2>1, <2>2, <2>3 DEF hs
<1> QED BY <1>4, <1>5

(* The cards that can be written: any intake key and any account address    *)
(* whose length is one byte, any generation.                                *)
Cards ==
    {c \in [intake_key : Seq(Nat), account_address : Seq(Nat), intake_generation : 0 .. WORD - 1] :
        Len(c.intake_key) < LOW /\ Len(c.account_address) < LOW}

(* The fields of a card, in the order they are written.                     *)
KeyField(c) == Field(1, BYTES, c.intake_key)
AddrField(c) == Field(2, BYTES, c.account_address)
GenField(c) == Field(3, VARINT, c.intake_generation)
WithKey(c) == IF c.intake_key = <<>> THEN <<>> ELSE Append(<<>>, KeyField(c))
WithAddr(c) == IF c.account_address = <<>> THEN WithKey(c) ELSE Append(WithKey(c), AddrField(c))
CardFields(c) == IF c.intake_generation = 0 THEN WithAddr(c) ELSE Append(WithAddr(c), GenField(c))

(* Two bytes, one after the other.                                          *)
LEMMA PairOfBytes ==
    ASSUME NEW a \in Nat, NEW n \in Nat
    PROVE  <<a>> \o <<n>> = <<a, n>>
<1> DEFINE w == <<a>> \o <<n>>
           v == <<a, n>>
<1>0. <<a>> \in Seq(Nat) /\ <<n>> \in Seq(Nat) /\ Len(<<a>>) = 1 /\ Len(<<n>>) = 1
      /\ <<a>>[1] = a /\ <<n>>[1] = n
  OBVIOUS
<1>1. /\ <<a>> \o <<n>> \in Seq(Nat) /\ Len(<<a>> \o <<n>>) = Len(<<a>>) + Len(<<n>>)
      /\ Len(<<a>>) \in Nat /\ Len(<<n>>) \in Nat
      /\ \A i \in 1 .. Len(<<a>>) : (<<a>> \o <<n>>)[i] = <<a>>[i]
      /\ \A i \in 1 .. Len(<<n>>) : (<<a>> \o <<n>>)[Len(<<a>>) + i] = <<n>>[i]
  BY ONLY <1>0, Concatenated
<1>2. w \in Seq(Nat) /\ Len(w) = 2 /\ w[1] = a /\ w[2] = n
  BY <1>0, <1>1
<1>3. v \in Seq(Nat) /\ Len(v) = 2 /\ v[1] = a /\ v[2] = n
  OBVIOUS
<1> HIDE DEF w, v
<1>4. \A i \in 1 .. 2 : w[i] = v[i]
  BY <1>2, <1>3
<1>5. w = v
  BY <1>2, <1>3, <1>4, SeqEqual
<1> QED BY <1>5 DEF w, v

(* The fields of a card are written as any other message's are, although    *)
(* check_contact_card.py puts its tags and lengths down as single bytes.    *)
LEMMA CardPieces ==
    ASSUME NEW c \in Cards, 26 < LOW, LOW <= WORD
    PROVE  /\ KeyField(c) \in Fields /\ FieldPiece(KeyField(c)) = field(10, c.intake_key)
           /\ AddrField(c) \in Fields /\ FieldPiece(AddrField(c)) = field(18, c.account_address)
           /\ GenField(c) \in Fields
           /\ FieldPiece(GenField(c)) = varint_field(24, c.intake_generation)
<1> DEFINE key == c.intake_key
           addr == c.account_address
           gen == c.intake_generation
<1>1. key \in Seq(Nat) /\ addr \in Seq(Nat) /\ gen \in 0 .. WORD - 1 /\ Len(key) < LOW /\ Len(addr) < LOW
  BY DEF Cards
<1>2. Len(key) \in 0 .. WORD - 1 /\ Len(addr) \in 0 .. WORD - 1 /\ gen \in Nat
      /\ 10 \in 0 .. WORD - 1 /\ 18 \in 0 .. WORD - 1 /\ 24 \in 0 .. WORD - 1
      /\ 10 < LOW /\ 18 < LOW /\ 24 < LOW
  <2>1. Len(key) \in Nat /\ Len(addr) \in Nat
    BY <1>1, LenProperties
  <2> HIDE DEF key, addr, gen
  <2> QED BY <1>1, <2>1, WireAssumption
<1> HIDE DEF key, addr, gen
<1>3. varint(10) = <<10>> /\ varint(18) = <<18>> /\ varint(24) = <<24>>
      /\ varint(Len(key)) = <<Len(key)>> /\ varint(Len(addr)) = <<Len(addr)>>
  BY <1>1, <1>2, VarintBytes
<1>4. 1 * 8 + BYTES = 10 /\ 2 * 8 + BYTES = 18 /\ 3 * 8 + VARINT = 24 /\ VARINT # BYTES
  BY DEF BYTES, VARINT
<1>5. Field(1, BYTES, key) \in Fields
  BY <1>1, <1>2, <1>4 DEF Field, Fields
<1>6. Field(2, BYTES, addr) \in Fields
  BY <1>1, <1>2, <1>4 DEF Field, Fields
<1>7. Field(3, VARINT, gen) \in Fields
  BY <1>1, <1>2, <1>4 DEF Field, Fields
<1>8. \A a, n \in Nat : <<a>> \o <<n>> = <<a, n>>
  BY PairOfBytes
<1>a. Len(key) \in Nat /\ Len(addr) \in Nat /\ 10 \in Nat /\ 18 \in Nat
  BY <1>1, LenProperties
<1>9. FieldPiece(Field(1, BYTES, key)) = <<10, Len(key)>> \o key
  <2>1. FieldPiece(Field(1, BYTES, key)) = p_bytes(1, key)
    BY <1>4 DEF FieldPiece, Field
  <2>2. p_bytes(1, key) = (varint(10) \o varint(Len(key))) \o key
    BY <1>4 DEF p_bytes, WireKey
  <2> QED BY <1>3, <1>8, <1>a, <2>1, <2>2
<1>10. FieldPiece(Field(2, BYTES, addr)) = <<18, Len(addr)>> \o addr
  <2>1. FieldPiece(Field(2, BYTES, addr)) = p_bytes(2, addr)
    BY <1>4 DEF FieldPiece, Field
  <2>2. p_bytes(2, addr) = (varint(18) \o varint(Len(addr))) \o addr
    BY <1>4 DEF p_bytes, WireKey
  <2> QED BY <1>3, <1>8, <1>a, <2>1, <2>2
<1>11. FieldPiece(Field(3, VARINT, gen)) = <<24>> \o varint(gen)
  <2>1. FieldPiece(Field(3, VARINT, gen)) = p_varint(3, gen)
    BY <1>4 DEF FieldPiece, Field
  <2>2. p_varint(3, gen) = varint(24) \o varint(gen)
    BY <1>4 DEF p_varint, WireKey
  <2> QED BY <1>3, <2>1, <2>2
<1> QED BY <1>5, <1>6, <1>7, <1>9, <1>10, <1>11, Zenon
        DEF KeyField, AddrField, GenField, field, varint_field, key, addr, gen

(* Putting nothing before or after a sequence.                              *)
LEMMA NothingAdded ==
    ASSUME NEW w \in Seq(Nat)
    PROVE  <<>> \o w = w /\ w \o <<>> = w
  BY EmptySeq, ConcatEmptySeq

(* The payload of a card is decoded to the fields that are there.           *)
LEMMA CardDecoded ==
    ASSUME NEW c \in Cards, 26 < LOW, LOW <= WORD
    PROVE  /\ Decode(Payload(c)) = CardFields(c)
           /\ WithKey(c) \in Seq(Fields) /\ WithAddr(c) \in Seq(Fields)
<1> DEFINE K == IF c.intake_key = <<>> THEN <<>> ELSE field(10, c.intake_key)
           A == IF c.account_address = <<>> THEN <<>> ELSE field(18, c.account_address)
           G == IF c.intake_generation = 0 THEN <<>> ELSE varint_field(24, c.intake_generation)
<1>0. Payload(c) = (K \o A) \o G
  BY Zenon DEF Payload
<1>1. /\ KeyField(c) \in Fields /\ FieldPiece(KeyField(c)) = field(10, c.intake_key)
      /\ AddrField(c) \in Fields /\ FieldPiece(AddrField(c)) = field(18, c.account_address)
      /\ GenField(c) \in Fields /\ FieldPiece(GenField(c)) = varint_field(24, c.intake_generation)
  BY CardPieces
<1>2. \A f \in Fields : FieldPiece(f) \in Seq(Nat)
  BY FieldIsRead
<1>3. <<>> \in Seq(Fields) /\ Spells(<<>>, <<>>)
  BY EmptySeq, SpellsNothing
<1>4. WithKey(c) \in Seq(Fields) /\ Spells(K, WithKey(c))
  <2>1. CASE c.intake_key = <<>>
    BY <1>3, <2>1, Zenon DEF WithKey
  <2>2. CASE c.intake_key # <<>>
    <3>1. Spells(<<>> \o FieldPiece(KeyField(c)), Append(<<>>, KeyField(c)))
          /\ Append(<<>>, KeyField(c)) \in Seq(Fields)
      BY ONLY <1>1, <1>3, SpellsMore
    <3>2. <<>> \o FieldPiece(KeyField(c)) = FieldPiece(KeyField(c))
      BY <1>1, <1>2, NothingAdded
    <3> QED BY <1>1, <2>2, <3>1, <3>2, Zenon DEF WithKey
  <2> QED BY <2>1, <2>2
<1> HIDE DEF K
<1>5. K \in Seq(Nat)
  BY <1>4, SpelledIsRead
<1>6. WithAddr(c) \in Seq(Fields) /\ Spells(K \o A, WithAddr(c))
  <2>1. CASE c.account_address = <<>>
    <3>1. A = <<>> /\ K \o <<>> = K
      BY <1>5, <2>1, NothingAdded
    <3> HIDE DEF A
    <3> QED BY <1>4, <2>1, <3>1, Zenon DEF WithAddr
  <2>2. CASE c.account_address # <<>>
    <3>1. Spells(K \o FieldPiece(AddrField(c)), Append(WithKey(c), AddrField(c)))
          /\ Append(WithKey(c), AddrField(c)) \in Seq(Fields)
      BY ONLY <1>1, <1>4, SpellsMore
    <3>2. A = FieldPiece(AddrField(c))
      BY <1>1, <2>2
    <3> HIDE DEF A
    <3> QED BY <2>2, <3>1, <3>2, Zenon DEF WithAddr
  <2> QED BY <2>1, <2>2
<1> HIDE DEF A
<1>7. K \o A \in Seq(Nat)
  BY <1>6, SpelledIsRead
<1>8. CardFields(c) \in Seq(Fields) /\ Spells((K \o A) \o G, CardFields(c))
  <2>1. CASE c.intake_generation = 0
    <3>1. G = <<>> /\ (K \o A) \o <<>> = K \o A
      BY <1>7, <2>1, NothingAdded
    <3> HIDE DEF G
    <3> QED BY <1>6, <2>1, <3>1, Zenon DEF CardFields
  <2>2. CASE c.intake_generation # 0
    <3>1. Spells((K \o A) \o FieldPiece(GenField(c)), Append(WithAddr(c), GenField(c)))
          /\ Append(WithAddr(c), GenField(c)) \in Seq(Fields)
      BY ONLY <1>1, <1>6, SpellsMore
    <3>2. G = FieldPiece(GenField(c))
      BY <1>1, <2>2
    <3> HIDE DEF G
    <3> QED BY <2>2, <3>1, <3>2, Zenon DEF CardFields
  <2> QED BY <2>1, <2>2
<1> HIDE DEF G
<1>9. Decode((K \o A) \o G) = CardFields(c)
  BY <1>8, SpelledIsRead
<1> QED BY <1>0, <1>4, <1>6, <1>9

(* The values that are found in them.                                       *)
LEMMA CardValues ==
    ASSUME NEW c \in Cards, 26 < LOW, LOW <= WORD
    PROVE  /\ ValueOf(CardFields(c), 1, <<>>) = c.intake_key
           /\ ValueOf(CardFields(c), 2, <<>>) = c.account_address
           /\ ValueOf(CardFields(c), 3, 0) = c.intake_generation
<1>1. KeyField(c) \in Fields /\ AddrField(c) \in Fields /\ GenField(c) \in Fields
  BY CardPieces
<1>2. WithKey(c) \in Seq(Fields) /\ WithAddr(c) \in Seq(Fields) /\ <<>> \in Seq(Fields)
  BY CardDecoded, EmptySeq
<1>3. /\ KeyField(c).number = 1 /\ KeyField(c).value = c.intake_key
      /\ AddrField(c).number = 2 /\ AddrField(c).value = c.account_address
      /\ GenField(c).number = 3 /\ GenField(c).value = c.intake_generation
  BY DEF KeyField, AddrField, GenField, Field
<1>4. ASSUME NEW number, NEW absent
      PROVE  /\ ValueOf(WithKey(c), number, absent) =
                   IF c.intake_key # <<>> /\ number = 1 THEN c.intake_key ELSE absent
             /\ ValueOf(WithAddr(c), number, absent) =
                   IF c.account_address # <<>> /\ number = 2 THEN c.account_address
                   ELSE ValueOf(WithKey(c), number, absent)
             /\ ValueOf(CardFields(c), number, absent) =
                   IF c.intake_generation # 0 /\ number = 3 THEN c.intake_generation
                   ELSE ValueOf(WithAddr(c), number, absent)
  <2>1. \A fs \in Seq(Fields) : \A f \in Fields :
           /\ ValueOf(<<>>, number, absent) = absent
           /\ ValueOf(Append(fs, f), number, absent) =
                 IF f.number = number THEN f.value ELSE ValueOf(fs, number, absent)
    BY LastFieldCounts
  <2>2. ValueOf(WithKey(c), number, absent) =
           IF c.intake_key # <<>> /\ number = 1 THEN c.intake_key ELSE absent
    <3>1. ValueOf(Append(<<>>, KeyField(c)), number, absent) =
             IF number = 1 THEN c.intake_key ELSE absent
      BY <1>1, <1>2, <1>3, <2>1
    <3>2. ValueOf(<<>>, number, absent) = absent
      BY <1>1, <1>2, <2>1
    <3> QED BY <3>1, <3>2, Zenon DEF WithKey
  <2>3. ValueOf(WithAddr(c), number, absent) =
           IF c.account_address # <<>> /\ number = 2 THEN c.account_address
           ELSE ValueOf(WithKey(c), number, absent)
    <3>1. ValueOf(Append(WithKey(c), AddrField(c)), number, absent) =
             IF number = 2 THEN c.account_address ELSE ValueOf(WithKey(c), number, absent)
      BY <1>1, <1>2, <1>3, <2>1
    <3> QED BY <3>1, Zenon DEF WithAddr
  <2>4. ValueOf(CardFields(c), number, absent) =
           IF c.intake_generation # 0 /\ number = 3 THEN c.intake_generation
           ELSE ValueOf(WithAddr(c), number, absent)
    <3>1. ValueOf(Append(WithAddr(c), GenField(c)), number, absent) =
             IF number = 3 THEN c.intake_generation ELSE ValueOf(WithAddr(c), number, absent)
      BY <1>1, <1>2, <1>3, <2>1
    <3> QED BY <3>1, Zenon DEF CardFields
  <2> QED BY <2>2, <2>3, <2>4
<1>5. ValueOf(CardFields(c), 1, <<>>) = c.intake_key
  BY <1>4
<1>6. ValueOf(CardFields(c), 2, <<>>) = c.account_address
  BY <1>4
<1>7. ValueOf(CardFields(c), 3, 0) = c.intake_generation
  BY <1>4
<1> QED BY <1>5, <1>6, <1>7

(* A card whose fields are whole is never as long as a bare key.            *)
LEMMA CardIsNotBare ==
    ASSUME NEW c \in Cards, 26 < LOW, LOW <= WORD,
           Len(c.intake_key) \in {0, KEY_LEN}, Len(c.account_address) \in {0, KEY_LEN},
           Len(varint(c.intake_generation)) + 1 < KEY_LEN
    PROVE  Len(Payload(c)) # KEY_LEN
<1> DEFINE key == c.intake_key
           addr == c.account_address
           gen == c.intake_generation
           K == IF key = <<>> THEN <<>> ELSE field(10, key)
           A == IF addr = <<>> THEN <<>> ELSE field(18, addr)
           G == IF gen = 0 THEN <<>> ELSE varint_field(24, gen)
<1>0. Payload(c) = (K \o A) \o G
  BY Zenon DEF Payload
<1>1. key \in Seq(Nat) /\ addr \in Seq(Nat) /\ gen \in 0 .. WORD - 1
  BY DEF Cards
<1>2. varint(gen) \in Seq(Nat) /\ Len(varint(gen)) \in Nat \ {0} /\ Len(varint(gen)) + 1 < KEY_LEN
  BY <1>1, VarintBytes
<1>3. KEY_LEN \in Nat
  BY CardAssumption
<1>4. Len(key) \in {0, KEY_LEN} /\ Len(addr) \in {0, KEY_LEN}
  OBVIOUS
<1> HIDE DEF key, addr, gen
<1>5. ASSUME NEW tag \in Nat, NEW v \in Seq(Nat), Len(v) \in {0, KEY_LEN}
      PROVE  LET w == IF v = <<>> THEN <<>> ELSE field(tag, v)
             IN  w \in Seq(Nat) /\ Len(w) \in {0, KEY_LEN + 2}
  <2>1. CASE v = <<>>
    BY <2>1
  <2>2. CASE v # <<>>
    <3>1. Len(v) = KEY_LEN
      BY <1>5, <2>2, EmptySeq
    <3>2. <<tag, Len(v)>> \in Seq(Nat) /\ Len(<<tag, Len(v)>>) = 2
      BY <1>3, <3>1
    <3> DEFINE h == <<tag, Len(v)>>
    <3> HIDE DEF h
    <3>3. h \in Seq(Nat) /\ v \in Seq(Nat) /\ Len(h) = 2
      BY <3>2 DEF h
    <3>4. h \o v \in Seq(Nat) /\ Len(h \o v) = Len(h) + Len(v)
      BY ONLY <3>3, Concatenated
    <3>5. Len(h \o v) = KEY_LEN + 2
      BY <1>3, <3>1, <3>3, <3>4
    <3> QED BY <2>2, <3>4, <3>5 DEF field, h
  <2> QED BY <2>1, <2>2
<1>6. K \in Seq(Nat) /\ Len(K) \in {0, KEY_LEN + 2} /\ A \in Seq(Nat) /\ Len(A) \in {0, KEY_LEN + 2}
  BY <1>1, <1>4, <1>5
<1>7. G \in Seq(Nat) /\ Len(G) \in Nat /\ Len(G) < KEY_LEN
  <2>1. CASE gen = 0
    <3>1. G = <<>>
      BY <2>1
    <3> HIDE DEF G
    <3> QED BY <1>2, <1>3, <3>1
  <2>2. CASE gen # 0
    <3>1. G = <<24>> \o varint(gen) /\ <<24>> \in Seq(Nat) /\ Len(<<24>>) = 1 /\ varint(gen) \in Seq(Nat)
      BY <1>2, <2>2 DEF varint_field
    <3> HIDE DEF G
    <3>2. <<24>> \o varint(gen) \in Seq(Nat) /\ Len(<<24>> \o varint(gen)) = Len(<<24>>) + Len(varint(gen))
      BY ONLY <3>1, Concatenated
    <3> QED BY <1>2, <1>3, <3>1, <3>2
  <2> QED BY <2>1, <2>2
<1> HIDE DEF K, A, G
<1>8. K \o A \in Seq(Nat) /\ Len(K \o A) = Len(K) + Len(A)
  BY ONLY <1>6, Concatenated
<1>9. Len((K \o A) \o G) = Len(K \o A) + Len(G)
  BY ONLY <1>7, <1>8, Concatenated
<1> QED BY <1>0, <1>2, <1>3, <1>6, <1>7, <1>8, <1>9

(* Any card, whatever its intake key, account address and generation: what  *)
(* check_contact_card.py's writer puts down is read back.  A key of a wrong *)
(* length is left out and the rest is read, unless the payload is as long   *)
(* as the bare key of an older build.  Exact for cards whose generation     *)
(* takes fewer bytes than a key has (a varint has at most ten).             *)
THEOREM CardReadBack ==
    ASSUME NEW c \in Cards, 26 < LOW, LOW <= WORD, Len(c.account_address) \in {0, KEY_LEN},
           Len(varint(c.intake_generation)) + 1 < KEY_LEN
    PROVE  LET whole == Len(c.intake_key) \in {0, KEY_LEN}
               read == ReadCard(Payload(c))
           IN  /\ whole => read = c
               /\ ~whole /\ Len(Payload(c)) # KEY_LEN => read = [c EXCEPT !.intake_key = <<>>]
<1>1. c = Card(c.intake_key, c.account_address, c.intake_generation)
      /\ c.intake_key \in Seq(Nat) /\ c.account_address \in Seq(Nat)
  BY DEF Cards, Card
<1>2. [c EXCEPT !.intake_key = <<>>] = Card(<<>>, c.account_address, c.intake_generation)
  <2>1. c \in [intake_key : Seq(Nat), account_address : Seq(Nat), intake_generation : 0 .. WORD - 1]
    BY DEF Cards
  <2> QED BY ONLY <2>1 DEF Card
<1>3. \A v \in Seq(Nat) : Len(v) = 0 => v = <<>>
  BY EmptySeq
<1>4. Len(<<>>) = 0 /\ KEY_LEN # 0
  BY CardAssumption
<1>5. ASSUME Len(Payload(c)) # KEY_LEN
      PROVE  ReadCard(Payload(c)) = Card(IF Len(c.intake_key) = KEY_LEN THEN c.intake_key ELSE <<>>,
                                         c.account_address, c.intake_generation)
  <2>1. ReadCard(Payload(c)) =
           Card(KeyIn(CardFields(c), 1), KeyIn(CardFields(c), 2), ValueOf(CardFields(c), 3, 0))
    BY <1>5, CardDecoded, Zenon DEF ReadCard, IsBare
  <2>2. /\ KeyIn(CardFields(c), 1) = IF Len(c.intake_key) = KEY_LEN THEN c.intake_key ELSE <<>>
        /\ KeyIn(CardFields(c), 2) =
              IF Len(c.account_address) = KEY_LEN THEN c.account_address ELSE <<>>
        /\ ValueOf(CardFields(c), 3, 0) = c.intake_generation
    BY CardValues, Zenon DEF KeyIn
  <2>3. KeyIn(CardFields(c), 2) = c.account_address
    <3>1. CASE Len(c.account_address) = KEY_LEN
      BY <2>2, <3>1
    <3>2. CASE Len(c.account_address) = 0
      BY <1>1, <1>3, <1>4, <2>2, <3>2
    <3> QED BY <3>1, <3>2
  <2> QED BY <2>1, <2>2, <2>3
<1>6. ASSUME Len(c.intake_key) \in {0, KEY_LEN} PROVE ReadCard(Payload(c)) = c
  <2>1. Len(Payload(c)) # KEY_LEN
    BY <1>6, CardIsNotBare
  <2>2. (IF Len(c.intake_key) = KEY_LEN THEN c.intake_key ELSE <<>>) = c.intake_key
    <3>1. CASE Len(c.intake_key) = KEY_LEN
      BY <3>1
    <3>2. CASE Len(c.intake_key) = 0
      BY <1>1, <1>3, <1>4, <3>2
    <3> QED BY <1>6, <3>1, <3>2
  <2> QED BY <1>1, <1>5, <2>1, <2>2, Zenon
<1>7. ASSUME Len(c.intake_key) \notin {0, KEY_LEN}, Len(Payload(c)) # KEY_LEN
      PROVE  ReadCard(Payload(c)) = [c EXCEPT !.intake_key = <<>>]
  <2>1. (IF Len(c.intake_key) = KEY_LEN THEN c.intake_key ELSE <<>>) = <<>>
    BY <1>7
  <2> QED BY <1>2, <1>5, <1>7, <2>1, Zenon
<1> QED BY <1>6, <1>7, Zenon

(* The five vectors of conformance/knst_contact_card.json read as they say, *)
(* the bare key of an older build among them.                               *)
LEMMA CardCasesRead ==
    ASSUME 26 < LOW, LOW <= WORD, KEY_LEN < LOW, 300 < WORD,
           Len(varint(0)) + 1 < KEY_LEN, Len(varint(300)) + 1 < KEY_LEN
    PROVE  \A c \in CardCases : ReadCard(c.payload) = c.reads
<1>1. /\ KEY \in Seq(Nat) /\ Len(KEY) = KEY_LEN
      /\ ADDR \in Seq(Nat) /\ Len(ADDR) = KEY_LEN
      /\ <<>> \in Seq(Nat) /\ Len(<<>>) = 0
  <2>1. KEY \in [1 .. KEY_LEN -> Nat] /\ ADDR \in [1 .. KEY_LEN -> Nat]
    BY CardAssumption DEF KEY, ADDR
  <2>2. KEY_LEN \in Nat
    BY CardAssumption
  <2> HIDE DEF KEY, ADDR
  <2>3. KEY \in Seq(Nat) /\ Len(KEY) = KEY_LEN
    BY ONLY <2>1, <2>2
  <2>4. ADDR \in Seq(Nat) /\ Len(ADDR) = KEY_LEN
    BY ONLY <2>1, <2>2
  <2> QED BY <2>3, <2>4
<1> HIDE DEF KEY, ADDR
<1>2. ASSUME NEW k \in {<<>>, KEY}, NEW a \in {<<>>, ADDR}, NEW g \in {0, 300}
      PROVE  ReadCard(Payload(Card(k, a, g))) = Card(k, a, g)
  <2> DEFINE c == Card(k, a, g)
  <2>1. c.intake_key = k /\ c.account_address = a /\ c.intake_generation = g
    BY DEF Card
  <2>2. c \in Cards
    <3>1. k \in Seq(Nat) /\ a \in Seq(Nat) /\ g \in 0 .. WORD - 1 /\ Len(k) < LOW /\ Len(a) < LOW
      <4>1. Len(k) \in {0, KEY_LEN} /\ Len(a) \in {0, KEY_LEN} /\ k \in Seq(Nat) /\ a \in Seq(Nat)
        BY <1>1
      <4>2. g \in 0 .. WORD - 1 /\ 0 < LOW
        BY WireAssumption
      <4> QED BY <4>1, <4>2
    <3> QED BY <3>1 DEF Cards, Card
  <2>3. Len(k) \in {0, KEY_LEN} /\ Len(a) \in {0, KEY_LEN} /\ Len(varint(g)) + 1 < KEY_LEN
    BY <1>1
  <2> HIDE DEF c
  <2> QED BY <2>1, <2>2, <2>3, CardReadBack DEF c
<1>3. ReadCard(KEY) = Card(KEY, <<>>, 0)
  BY <1>1, Zenon DEF ReadCard, IsBare
<1>4. /\ ReadCard(Payload(Card(KEY, ADDR, 0))) = Card(KEY, ADDR, 0)
      /\ ReadCard(Payload(Card(KEY, ADDR, 300))) = Card(KEY, ADDR, 300)
      /\ ReadCard(Payload(Card(<<>>, ADDR, 0))) = Card(<<>>, ADDR, 0)
      /\ ReadCard(Payload(Card(KEY, <<>>, 0))) = Card(KEY, <<>>, 0)
  BY <1>2
<1> QED BY <1>3, <1>4 DEF CardCases

(* The cards that FormatChecks picks are such cards.                        *)
LEMMA CardsCovered ==
    ASSUME NEW c \in CardInputs, 26 < LOW, LOW <= WORD, KEY_LEN + 1 < LOW, 2 < KEY_LEN,
           EdgeNumbers \subseteq 0 .. WORD - 1
    PROVE  c \in Cards /\ Len(c.account_address) \in {0, KEY_LEN} /\ c.intake_generation \in EdgeNumbers
<1>1. PICK k \in {OfLength(n) : n \in {0, 1, LOW - 1} \cup KEY_LEN - 2 .. KEY_LEN + 1},
           a \in {<<>>, ADDR}, g \in EdgeNumbers : c = Card(k, a, g)
  BY DEF CardInputs
<1>2. PICK n \in {0, 1, LOW - 1} \cup KEY_LEN - 2 .. KEY_LEN + 1 : k = OfLength(n)
  OBVIOUS
<1>3. n \in Nat /\ n < LOW /\ KEY_LEN \in Nat
  BY WireAssumption, CardAssumption
<1>4. k \in [1 .. n -> Nat] /\ ADDR \in [1 .. KEY_LEN -> Nat]
  BY <1>2, <1>3 DEF OfLength, ADDR
<1>5. k \in Seq(Nat) /\ Len(k) = n
  BY ONLY <1>3, <1>4
<1> HIDE DEF ADDR
<1>6. ADDR \in Seq(Nat) /\ Len(ADDR) = KEY_LEN
  BY ONLY <1>3, <1>4
<1>7. a \in Seq(Nat) /\ Len(a) \in {0, KEY_LEN} /\ Len(a) < LOW
  <2>1. <<>> \in Seq(Nat) /\ Len(<<>>) = 0
    OBVIOUS
  <2>2. 0 < LOW /\ KEY_LEN < LOW
    BY <1>3, WireAssumption
  <2>3. CASE a = <<>>
    BY <2>1, <2>2, <2>3
  <2>4. CASE a = ADDR
    BY <1>6, <2>2, <2>4
  <2> QED BY <2>3, <2>4
<1> QED BY <1>1, <1>3, <1>5, <1>7 DEF Card, Cards

-----------------------------------------------------------------------------
(* The records and the cards that FormatChecks picks.                       *)

(* Every record encode_* of the generator writes follows the proto files,   *)
(* for any numbers and lengths that fit into a WORD, keys that fit as well  *)
(* (up to 16 * 8 + 2) and media keys of one byte (up to 3 * 8 + 2).         *)
THEOREM RecordsFollowTheProtos ==
    ASSUME EdgeNumbers \subseteq 0 .. WORD - 1, EdgeLengths \subseteq 0 .. WORD - 1,
           130 < WORD, 26 < LOW
    PROVE  Inputs => []RecordsFollowSchema
<1>1. InputInv => RecordsFollowSchema
  <2> SUFFICES ASSUME InputInv, subject = "record" PROVE RecordsFollowSchema
    BY DEF RecordsFollowSchema
  <2>1. data.name \in DOMAIN encode /\ data.x \in EdgeNumbers /\ data.n \in EdgeLengths
    <3>1. data \in RecordInputs
      BY DEF InputInv
    <3> QED BY <3>1 DEF RecordInputs
  <2>2. data.x \in 0 .. WORD - 1 /\ data.n \in 0 .. WORD - 1 /\ WORD > 130 /\ LOW > 26
    BY <2>1, WireAssumption
  <2>3. LET fields == Written(data.name, data.x, data.n) IN
        /\ Decode(Encoded(fields)) = fields
        /\ \A k \in DOMAIN fields :
              fields[k].number \in IF fields[k].wire = VARINT THEN Declared[data.name].varint
                                   ELSE Declared[data.name].bytes
        /\ data.name = "media" => media_fields_in_order(Encoded(fields))
        /\ data.name = "media_blob_first" => ~media_fields_in_order(Encoded(fields))
    BY <2>1, <2>2, RecordReadBack
  <2> QED BY <2>3, Zenon DEF RecordsFollowSchema
<1> QED BY <1>1, InputsArePicked, PTL

(* media_fields_in_order accepts exactly the MediaBlobs whose fields were   *)
(* written in ascending order, however many they are and whatever numbers   *)
(* they have that fit into a key of one byte.                               *)
THEOREM BlobsCanBeStreamed ==
    ASSUME FieldNumbers \subseteq 1 .. 31, \A m \in FieldNumbers : m * 8 + 2 < LOW, LOW < WORD
    PROVE  Inputs => []BlobCanBeStreamed
<1>1. ASSUME NEW m \in FieldNumbers, NEW v \in FieldValues
      PROVE  Field(m, BYTES, v) \in BlobFields
  <2>1. LOW \in Nat /\ WORD \in Nat /\ LOW < WORD /\ 10 < LOW
    BY WireAssumption
  <2>2. v \in Seq(Nat) /\ Len(v) \in 0 .. WORD - 1
    <3>1. <<>> \in Seq(Nat) /\ Len(<<>>) = 0 /\ <<26>> \in Seq(Nat) /\ Len(<<26>>) = 1
      BY EmptySeq
    <3>2. <<26, 0>> \in Seq(Nat) /\ Len(<<26, 0>>) = 2
      OBVIOUS
    <3>3. Bytes(LOW) \in Seq(Nat) /\ Len(Bytes(LOW)) = LOW
      BY <2>1, BytesOfLength
    <3>4. v \in {<<>>, <<26>>, <<26, 0>>, Bytes(LOW)}
      BY DEF FieldValues
    <3>5. CASE v = <<>>
      BY <2>1, <3>1, <3>5
    <3>6. CASE v = <<26>>
      BY <2>1, <3>1, <3>6
    <3>7. CASE v = <<26, 0>>
      BY <2>1, <3>2, <3>7
    <3>8. CASE v = Bytes(LOW)
      BY ONLY <2>1, <3>3, <3>8
    <3> QED BY <3>4, <3>5, <3>6, <3>7, <3>8
  <2>3. m \in Nat \ {0} /\ m < 256 /\ m * 8 + 2 < LOW /\ m * 8 + 2 \in 0 .. WORD - 1
    BY <2>1
  <2> QED BY <2>2, <2>3 DEF Field, BlobFields, Fields, BYTES, VARINT
<1>2. BlobFieldInputs \subseteq BlobFields
  BY <1>1 DEF BlobFieldInputs
<1>3. InputInv => BlobCanBeStreamed
  <2> SUFFICES ASSUME InputInv, subject = "blob" PROVE BlobCanBeStreamed
    BY DEF BlobCanBeStreamed
  <2>1. data \in Seq(BlobFields)
    BY <1>2, SeqMonotonic DEF InputInv
  <2> DEFINE ns == Numbers(Encoded(data))
  <2>2. ns = [k \in 1 .. Len(data) |-> data[k].number] /\ ns # Cut
    BY <2>1, NumbersReadBack
  <2> HIDE DEF ns
  <2>3. DOMAIN data = 1 .. Len(data)
    BY <2>1, LenProperties
  <2>4. media_fields_in_order(Encoded(data)) <=> Ascending(ns)
    BY <2>2 DEF media_fields_in_order, ns
  <2>5. Ascending(ns) <=> \A i, j \in DOMAIN data : i < j => data[i].number < data[j].number
    BY <2>2, <2>3 DEF Ascending
  <2> QED BY <2>4, <2>5 DEF BlobCanBeStreamed
<1> QED BY <1>3, InputsArePicked, PTL

(* Every contact card of the run reads as it was written, and the five      *)
(* vectors of conformance/knst_contact_card.json as they say, for any       *)
(* length of a key that fits into one byte and is longer than a             *)
(* generation's field: no whole card is taken for the bare key of an older  *)
(* build.                                                                   *)
THEOREM CardsAreReadBack ==
    ASSUME EdgeNumbers \subseteq 0 .. WORD - 1, 300 < WORD, 26 < LOW, LOW <= WORD, KEY_LEN + 1 < LOW,
           \A g \in EdgeNumbers \cup {0, 300} : Len(varint(g)) + 1 < KEY_LEN
    PROVE  Inputs => []CardIsReadBack
<1>1. InputInv => CardIsReadBack
  <2> SUFFICES ASSUME InputInv, subject = "card" PROVE CardIsReadBack
    BY DEF CardIsReadBack
  <2>1. data \in CardInputs
    BY DEF InputInv
  <2>2. Len(varint(0)) + 1 < KEY_LEN /\ Len(varint(300)) + 1 < KEY_LEN
    OBVIOUS
  <2>3. Len(varint(0)) \in Nat \ {0} /\ KEY_LEN \in Nat /\ 0 \in 0 .. WORD - 1 /\ LOW \in Nat
    BY WireAssumption, CardAssumption, VarintBytes
  <2>4. 2 < KEY_LEN /\ KEY_LEN < LOW
    BY <2>2, <2>3
  <2>5. data \in Cards /\ Len(data.account_address) \in {0, KEY_LEN}
        /\ data.intake_generation \in EdgeNumbers
    BY <2>1, <2>4, CardsCovered
  <2>6. Len(varint(data.intake_generation)) + 1 < KEY_LEN
    BY <2>5
  <2>7. LET whole == Len(data.intake_key) \in {0, KEY_LEN}
            read == ReadCard(Payload(data))
        IN  /\ whole => read = data
            /\ ~whole /\ Len(Payload(data)) # KEY_LEN => read = [data EXCEPT !.intake_key = <<>>]
    BY <2>5, <2>6, CardReadBack
  <2>8. \A c \in CardCases : ReadCard(c.payload) = c.reads
    BY <2>2, <2>4, CardCasesRead
  <2> QED BY <2>7, <2>8, Zenon DEF CardIsReadBack
<1> QED BY <1>1, InputsArePicked, PTL

=============================================================================
