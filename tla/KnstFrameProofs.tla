-------------------------- MODULE KnstFrameProofs --------------------------
(***************************************************************************)
(* Proofs about KNST frames, for any set of messages, any chunk size and   *)
(* any limit on the number of chunks.                                      *)
(***************************************************************************)
EXTENDS KnstFrame, SequenceTheorems, FiniteSetTheorems, WellFoundedInduction, TLAPS

(* A set of naturals with 0 in it and closed under successor is Nat.        *)
LEMMA SetInduction ==
    ASSUME NEW T, T \subseteq Nat, 0 \in T, \A n \in T : n + 1 \in T
    PROVE  T = Nat
<1> SUFFICES ASSUME Nat \ T # {} PROVE FALSE
  OBVIOUS
<1> DEFINE R == OpToRel(<, Nat)
           U == Nat \ T
<1>1. IsWellFoundedOn(R, Nat)
  BY NatLessThanWellFounded, Zenon
<1>2. \E x \in U : \A y \in U : ~(<<y, x>> \in R)
  <2>1. U \subseteq Nat /\ U # {}
    OBVIOUS
  <2> HIDE DEF R, U
  <2> QED BY <1>1, <2>1, WFMin
<1>3. PICK x \in U : \A y \in U : ~(<<y, x>> \in R)
  BY <1>2, Zenon
<1>4. \A y \in U : ~(y < x)
  BY <1>3 DEF OpToRel
<1>5. x # 0 /\ x - 1 \in Nat /\ (x - 1) + 1 = x
  OBVIOUS
<1>6. x - 1 \in T
  BY <1>4, <1>5
<1> QED BY <1>5, <1>6

(* Putting pieces together from the left, as Joined of KnstFrame does,      *)
(* defines a function whatever the pieces are.                              *)
IsJoin(g, a, p) == g = [i \in Nat |-> IF i = 0 THEN a ELSE g[i - 1] \o p[i - 1]]

(* The pieces p[0], p[1], ... can be put one after the other behind a.      *)
LEMMA JoinExists ==
    ASSUME NEW a, NEW p
    PROVE  \E g : IsJoin(g, a, p)
<1> DEFINE Upto(g, n) == g[0] = a /\ \A i \in Nat : i < n => g[i + 1] = g[i] \o p[i]
           T == {n \in Nat : \E g : Upto(g, n)}
<1>1. 0 \in T
  <2> DEFINE g == [i \in {0} |-> a]
  <2>1. Upto(g, 0)
    OBVIOUS
  <2> QED BY <2>1
<1>2. ASSUME NEW n \in T
      PROVE  n + 1 \in T
  <2>1. PICK g : Upto(g, n)
    OBVIOUS
  <2> DEFINE h == [i \in Nat |-> IF i <= n THEN g[i] ELSE g[n] \o p[n]]
  <2>2. n \in Nat /\ \A i \in Nat : h[i] = IF i <= n THEN g[i] ELSE g[n] \o p[n]
    OBVIOUS
  <2>3. g[0] = a /\ \A i \in Nat : i < n => g[i + 1] = g[i] \o p[i]
    BY <2>1
  <2> HIDE DEF h
  <2>4. ASSUME NEW i \in Nat, i < n + 1
        PROVE  h[i + 1] = h[i] \o p[i]
    <3>1. h[i] = g[i] /\ i + 1 \in Nat
      BY <2>2, <2>4
    <3>2. CASE i < n
      <4>1. i + 1 <= n
        BY <2>2, <3>2
      <4>2. h[i + 1] = g[i + 1] /\ g[i + 1] = g[i] \o p[i]
        BY <2>2, <2>3, <3>1, <3>2, <4>1
      <4> QED BY <3>1, <4>2
    <3>3. CASE i = n
      <4>1. ~(i + 1 <= n)
        BY <2>2, <3>3
      <4> QED BY <2>2, <3>1, <3>3, <4>1
    <3>4. i < n \/ i = n
      BY <2>2, <2>4
    <3> QED BY <3>2, <3>3, <3>4, Zenon
  <2>5. h[0] = a
    BY <2>2, <2>3
  <2>6. \E k : Upto(k, n + 1)
    BY <2>4, <2>5, Zenon
  <2> HIDE DEF Upto
  <2> QED BY <2>2, <2>6
<1>3. T = Nat
  <2>1. T \subseteq Nat
    OBVIOUS
  <2> HIDE DEF T
  <2> QED BY <1>1, <1>2, <2>1, SetInduction
<1> DEFINE G(n) == CHOOSE g : Upto(g, n)
<1>4. ASSUME NEW n \in Nat
      PROVE  G(n)[0] = a /\ \A i \in Nat : i < n => G(n)[i + 1] = G(n)[i] \o p[i]
  <2>1. \E g : Upto(g, n)
    BY <1>3, Zenon
  <2>2. Upto(G(n), n)
    BY <2>1, Zenon
  <2> HIDE DEF G
  <2> QED BY <2>2
<1> HIDE DEF G, T
<1>5. ASSUME NEW n \in Nat
      PROVE  G(n)[n] = G(n + 1)[n]
  <2> DEFINE U == {i \in Nat : i <= n => G(n)[i] = G(n + 1)[i]}
  <2>0. n + 1 \in Nat
    OBVIOUS
  <2>1. 0 \in U
    BY <1>4, <2>0
  <2>2. ASSUME NEW i \in U
        PROVE  i + 1 \in U
    <3> SUFFICES ASSUME i + 1 <= n
                 PROVE  G(n)[i + 1] = G(n + 1)[i + 1]
      OBVIOUS
    <3>1. i \in Nat /\ i < n /\ i < n + 1 /\ G(n)[i] = G(n + 1)[i]
      OBVIOUS
    <3>2. G(n)[i + 1] = G(n)[i] \o p[i]
      BY <1>4, <3>1
    <3>3. G(n + 1)[i + 1] = G(n + 1)[i] \o p[i]
      BY <1>4, <2>0, <3>1
    <3> QED BY <3>1, <3>2, <3>3
  <2>3. U = Nat
    <3>1. U \subseteq Nat
      OBVIOUS
    <3> HIDE DEF U
    <3> QED BY <2>1, <2>2, <3>1, SetInduction
  <2> QED BY <2>3
<1> DEFINE F == [n \in Nat |-> G(n)[n]]
<1>6. ASSUME NEW i \in Nat
      PROVE  F[i] = IF i = 0 THEN a ELSE F[i - 1] \o p[i - 1]
  <2>1. CASE i = 0
    BY <1>4, <2>1
  <2>2. CASE i # 0
    <3>1. i - 1 \in Nat /\ (i - 1) + 1 = i /\ i - 1 < i
      BY <2>2
    <3>2. G(i)[(i - 1) + 1] = G(i)[i - 1] \o p[i - 1]
      BY <1>4, <2>2, <3>1
    <3>3. G(i - 1)[i - 1] = G((i - 1) + 1)[i - 1]
      BY <1>5, <3>1
    <3> QED BY <2>2, <3>1, <3>2, <3>3
  <2> QED BY <2>1, <2>2
<1>7. F = [i \in Nat |-> IF i = 0 THEN a ELSE F[i - 1] \o p[i - 1]]
  <2>1. F = [n \in Nat |-> F[n]]
    OBVIOUS
  <2> HIDE DEF F
  <2> QED BY <1>6, <2>1
<1> QED BY <1>7, Zenon DEF IsJoin

-----------------------------------------------------------------------------
(* The number of frames is the least that holds the body, and at least one. *)
LEMMA TotalIsLeast ==
    ASSUME NEW n \in Nat
    PROVE  /\ Total(n) \in Nat \ {0}
           /\ \A k \in Nat \ {0} : Total(n) <= k <=> n <= k * CHUNK_PAYLOAD
<1> DEFINE C == CHUNK_PAYLOAD
           q == (n + C - 1) \div C
<1>1. C \in Nat \ {0}
  BY FrameAssumption
<1>2. q \in Nat /\ q * C <= n + C - 1 /\ n + C - 1 < q * C + C
  BY <1>1
<1> HIDE DEF C, q
<1>3. Total(n) = AtLeast(1, q)
  BY DEF Total, q, C
<1>4. ASSUME NEW k \in Nat \ {0}
      PROVE  q <= k <=> n <= k * C
  <2>1. k * C \in Nat /\ q * C \in Nat
    BY <1>1, <1>2
  <2>2. CASE q <= k
    <3>1. q * C <= k * C
      BY <1>1, <1>2, <2>2
    <3> QED BY <1>1, <1>2, <2>1, <2>2, <3>1
  <2>3. CASE q > k
    <3>1. (k + 1) * C <= q * C /\ (k + 1) * C = k * C + C
      BY <1>1, <1>2, <2>3
    <3> QED BY <1>1, <1>2, <2>1, <2>3, <3>1
  <2> QED BY <1>2, <2>2, <2>3
<1> QED BY <1>2, <1>3, <1>4 DEF AtLeast, C

(* Where the i-th part starts. *)
LEMMA PartsInside ==
    ASSUME NEW n \in Nat
    PROVE  /\ n <= Total(n) * CHUNK_PAYLOAD
           /\ \A i \in 0 .. Total(n) - 1 : i * CHUNK_PAYLOAD \in 0 .. n
<1>1. CHUNK_PAYLOAD \in Nat \ {0} /\ Total(n) \in Nat \ {0}
  BY TotalIsLeast, FrameAssumption
<1>2. n <= Total(n) * CHUNK_PAYLOAD
  BY <1>1, TotalIsLeast
<1>3. ASSUME NEW i \in 0 .. Total(n) - 1
      PROVE  i * CHUNK_PAYLOAD \in 0 .. n
  <2>1. i * CHUNK_PAYLOAD \in Nat
    BY <1>1
  <2>2. CASE i = 0
    BY <1>1, <2>2
  <2>3. CASE i # 0
    <3>1. i \in Nat \ {0} /\ ~(Total(n) <= i)
      BY <1>1, <2>3
    <3>2. ~(n <= i * CHUNK_PAYLOAD)
      BY <3>1, TotalIsLeast
    <3> QED BY <2>1, <3>2
  <2> QED BY <2>2, <2>3
<1> QED BY <1>2, <1>3

(* The parts of a body, put together in order, are the body. *)
LEMMA JoinedIsBody ==
    ASSUME NEW S, NEW b \in Seq(S), NEW parts, Cardinality(parts) = Total(Len(b)),
           \A f \in parts : f.payload = PartOf(b, f.chunk_index),
           \A i \in 0 .. Total(Len(b)) - 1 : \E f \in parts : f.chunk_index = i
    PROVE  Joined(parts) = b
<1> DEFINE C == CHUNK_PAYLOAD
           N == Total(Len(b))
           p == [i \in Nat |-> (CHOOSE f \in parts : f.chunk_index = i).payload]
           upTo == CHOOSE g : g = [i \in Nat |-> IF i = 0 THEN <<>> ELSE
                      g[i - 1] \o (CHOOSE f \in parts : f.chunk_index = i - 1).payload]
<1>1. Joined(parts) = upTo[N]
  BY DEF Joined
<1>2. upTo = [i \in Nat |-> IF i = 0 THEN <<>> ELSE
                upTo[i - 1] \o (CHOOSE f \in parts : f.chunk_index = i - 1).payload]
  <2>1. PICK g : g = [i \in Nat |-> IF i = 0 THEN <<>> ELSE g[i - 1] \o p[i - 1]]
    <3>1. \E g : IsJoin(g, <<>>, p)
      BY JoinExists
    <3> QED BY <3>1 DEF IsJoin
  <2>2. \A i \in Nat \ {0} : p[i - 1] = (CHOOSE f \in parts : f.chunk_index = i - 1).payload
    OBVIOUS
  <2>3. g = [i \in Nat |-> IF i = 0 THEN <<>> ELSE
               g[i - 1] \o (CHOOSE f \in parts : f.chunk_index = i - 1).payload]
    <3> HIDE DEF p
    <3> QED BY <2>1, <2>2
  <2> QED BY <2>3, Zenon
<1>3. \A i \in Nat : upTo[i] = IF i = 0 THEN <<>> ELSE upTo[i - 1] \o p[i - 1]
  <2>1. \A i \in Nat \ {0} : p[i - 1] = (CHOOSE f \in parts : f.chunk_index = i - 1).payload
    OBVIOUS
  <2> HIDE DEF upTo, p
  <2>2. \A i \in Nat : upTo[i] = IF i = 0 THEN <<>> ELSE
           upTo[i - 1] \o (CHOOSE f \in parts : f.chunk_index = i - 1).payload
    BY <1>2, Zenon
  <2> QED BY <2>1, <2>2
<1>4. C \in Nat \ {0} /\ Len(b) \in Nat /\ N \in Nat \ {0}
  BY TotalIsLeast, LenProperties, FrameAssumption
<1>5. ASSUME NEW i \in 0 .. N - 1
      PROVE  p[i] = SubSeq(b, i * C + 1, AtMost((i + 1) * C, Len(b)))
  <2>1. PICK f \in parts : f.chunk_index = i
    OBVIOUS
  <2> DEFINE h == CHOOSE f0 \in parts : f0.chunk_index = i
  <2>2. h \in parts /\ h.chunk_index = i
    BY <2>1, Zenon
  <2>3. p[i] = h.payload
    BY <1>4
  <2> HIDE DEF h
  <2> QED BY <2>2, <2>3 DEF PartOf
<1> HIDE DEF upTo, p, C
<1> DEFINE T == {i \in Nat : i <= N => upTo[i] = SubSeq(b, 1, AtMost(i * C, Len(b)))}
<1>6. 0 \in T
  <2>1. upTo[0] = <<>>
    BY <1>3
  <2>2. AtMost(0 * C, Len(b)) = 0
    BY <1>4 DEF AtMost
  <2>3. SubSeq(b, 1, 0) = <<>>
    BY SubSeqEmpty
  <2> QED BY <2>1, <2>2, <2>3
<1>7. ASSUME NEW i \in T
      PROVE  i + 1 \in T
  <2> SUFFICES ASSUME i + 1 <= N
               PROVE  upTo[i + 1] = SubSeq(b, 1, AtMost((i + 1) * C, Len(b)))
    OBVIOUS
  <2>1. i \in Nat /\ i \in 0 .. N - 1 /\ i <= N
    BY <1>4
  <2>2. i * C \in 0 .. Len(b) /\ (i + 1) * C = i * C + C /\ (i + 1) * C \in Nat
    BY <1>4, <2>1, PartsInside DEF C
  <2>3. upTo[i] = SubSeq(b, 1, i * C)
    BY <1>4, <2>1, <2>2 DEF AtMost
  <2> DEFINE hi == AtMost((i + 1) * C, Len(b))
  <2>4. hi \in i * C .. Len(b)
    BY <1>4, <2>2 DEF AtMost
  <2>5. upTo[i + 1] = upTo[i] \o p[i]
    <3>1. i + 1 \in Nat /\ i + 1 # 0 /\ (i + 1) - 1 = i
      BY <2>1
    <3> QED BY <1>3, <3>1
  <2>6. p[i] = SubSeq(b, i * C + 1, hi)
    BY <1>5, <2>1
  <2> HIDE DEF hi
  <2> DEFINE lo == i * C
  <2>7. lo \in 1 - 1 .. Len(b) /\ hi \in lo .. Len(b) /\ 1 \in 1 .. Len(b) + 1
    BY <1>4, <2>2, <2>4
  <2> HIDE DEF lo
  <2>8. SubSeq(b, 1, lo) \o SubSeq(b, lo + 1, hi) = SubSeq(b, 1, hi)
    BY <2>7, ConcatAdjacentSubSeq
  <2> QED BY <2>3, <2>5, <2>6, <2>8 DEF lo, hi
<1>8. T = Nat
  <2>1. T \subseteq Nat
    OBVIOUS
  <2> HIDE DEF T
  <2> QED BY <1>6, <1>7, <2>1, SetInduction
<1>9. upTo[N] = SubSeq(b, 1, AtMost(N * C, Len(b)))
  BY <1>4, <1>8
<1>10. AtMost(N * C, Len(b)) = Len(b)
  <2>1. Len(b) <= N * C /\ N * C \in Nat
    BY <1>4, PartsInside DEF C
  <2> QED BY <1>4, <2>1 DEF AtMost
<1> QED BY <1>1, <1>9, <1>10, SubSeqFull

-----------------------------------------------------------------------------
(* What is under way.                                                       *)

Padding == <<"pad", 0>>
Bytes == (Messages \X Nat) \cup {Padding}

Frames ==
    [valid : BOOLEAN, message_id : Messages, chunk_index : Nat, total_chunks : Nat,
     plaintext_length : Nat, payload : Seq(Bytes)]

(* f carries a part of b, or the whole of it with padding behind. *)
Carries(f, b) ==
    /\ f.total_chunks = Total(Len(b)) /\ f.plaintext_length = Len(b)
    /\ f.chunk_index \in 0 .. Total(Len(b)) - 1
    /\ \/ f.payload = PartOf(b, f.chunk_index)
       \/ f.total_chunks = 1 /\ f.payload = Append(b, Padding)

BodyInv ==
    /\ body \in [Messages -> Seq(Bytes) \cup {NotSent}] /\ DOMAIN shown = Messages
    /\ \A m \in Messages : body[m] # NotSent =>
          body[m] \in Seq(Bytes) /\ (m \in refused <=> TooMany(Len(body[m])))
    /\ refused \subseteq {m \in Messages : body[m] # NotSent}

(* Every frame, under way or collected, carries a part of a body that was   *)
(* sent and not refused; the receiver only collects parts of split bodies.  *)
NetInv ==
    /\ net \subseteq Frames /\ held \subseteq Frames
    /\ \A f \in net \cup held :
          /\ body[f.message_id] # NotSent /\ f.message_id \notin refused
          /\ Carries(f, body[f.message_id])
    /\ \A f \in held : f.valid /\ f.total_chunks > 1

FrameInv == BodyInv /\ NetInv /\ WholeOrNothing

(* A message's body is a sequence of bytes.                                 *)
LEMMA BodyIsSeq ==
    ASSUME NEW m \in Messages, NEW n \in Nat
    PROVE  Body(m, n) \in Seq(Bytes) /\ Len(Body(m, n)) = n /\ Body(m, n) # NotSent
<1>1. \A k \in 1 .. n : <<m, k>> \in Bytes
  BY DEF Bytes
<1>2. Body(m, n) \in Seq(Bytes) /\ Len(Body(m, n)) = n
  BY <1>1 DEF Body
<1>3. ASSUME Body(m, n) = NotSent PROVE FALSE
  <2>1. Len(NotSent) = 1 /\ NotSent[1] = <<"not sent", 0>>
    BY DEF NotSent
  <2>2. n = 1
    BY <1>2, <1>3, <2>1
  <2>3. Body(m, n)[1] = <<m, 1>>
    BY <2>2 DEF Body
  <2> DEFINE first == <<m, 1>>
             none == <<"not sent", 0>>
  <2>4. first = none
    BY <1>3, <2>1, <2>3
  <2>5. first[2] = 1 /\ none[2] = 0
    OBVIOUS
  <2> HIDE DEF first, none
  <2> QED BY <2>4, <2>5
<1> QED BY <1>2, <1>3

(* A part is a list of at most CHUNK_PAYLOAD bytes. *)
LEMMA PartIsSeq ==
    ASSUME NEW S, NEW b \in Seq(S), NEW i \in 0 .. Total(Len(b)) - 1
    PROVE  /\ PartOf(b, i) \in Seq(S)
           /\ Total(Len(b)) = 1 => PartOf(b, i) = b
<1> DEFINE C == CHUNK_PAYLOAD
           lo == i * C
           hi == AtMost((i + 1) * C, Len(b))
<1>1. C \in Nat \ {0} /\ Len(b) \in Nat /\ Total(Len(b)) \in Nat \ {0}
  BY TotalIsLeast, LenProperties, FrameAssumption
<1>2. lo \in 0 .. Len(b) /\ (i + 1) * C \in Nat
  BY <1>1, PartsInside
<1>3. hi \in Nat /\ hi <= Len(b)
  BY <1>1, <1>2 DEF AtMost
<1>4. PartOf(b, i) = SubSeq(b, lo + 1, hi)
  BY DEF PartOf
<1> HIDE DEF lo, hi
<1>5. \A j \in lo + 1 .. hi : b[j] \in S
  BY <1>1, <1>2, <1>3, ElementOfSeq
<1>6. lo + 1 \in Int /\ hi \in Int
  BY <1>2, <1>3
<1>7. SubSeq(b, lo + 1, hi) \in Seq(S)
  BY <1>5, <1>6, SubSeqProperties
<1>8. ASSUME Total(Len(b)) = 1
      PROVE  PartOf(b, i) = b
  <2>1. i = 0 /\ Len(b) <= 1 * CHUNK_PAYLOAD
    BY <1>1, <1>8, PartsInside
  <2>2. lo + 1 = 1 /\ hi = Len(b)
    BY <1>1, <2>1 DEF lo, hi, AtMost
  <2> QED BY <1>4, <2>2, SubSeqFull
<1> QED BY <1>4, <1>7, <1>8

(* The invariant holds at the start.                                        *)
LEMMA InitInv == Init => FrameInv
BY DEF Init, FrameInv, BodyInv, NetInv, WholeOrNothing

(* A body is split or refused. *)
LEMMA SendStep ==
    ASSUME FrameInv, NEW m \in Messages, NEW n \in 0 .. MaxBody, Send(m, n)
    PROVE  FrameInv'
<1> DEFINE b == Body(m, n)
<1>0. BodyInv /\ NetInv /\ WholeOrNothing /\ n \in Nat
  BY FrameAssumption DEF FrameInv
<1>1. b \in Seq(Bytes) /\ Len(b) = n /\ b # NotSent
  BY <1>0, BodyIsSeq
<1>2. /\ body[m] = NotSent /\ body' = [body EXCEPT ![m] = b]
      /\ \/ TooMany(n) /\ refused' = refused \cup {m} /\ net' = net
         \/ ~TooMany(n) /\ net' = net \cup chunks(m, b) /\ refused' = refused
      /\ UNCHANGED <<held, shown>>
  BY DEF Send
<1> HIDE DEF b
<1>3. body'[m] = b /\ \A k \in Messages : k # m => body'[k] = body[k]
  BY <1>0, <1>2 DEF BodyInv
<1>4. m \notin refused
  BY <1>0, <1>2 DEF BodyInv
<1>5. BodyInv'
  <2>1. body' \in [Messages -> Seq(Bytes) \cup {NotSent}] /\ DOMAIN shown' = Messages
    BY <1>0, <1>1, <1>2 DEF BodyInv
  <2>2. ASSUME NEW k \in Messages, body'[k] # NotSent
        PROVE  body'[k] \in Seq(Bytes) /\ (k \in refused' <=> TooMany(Len(body'[k])))
    <3>1. CASE k = m
      BY <1>1, <1>2, <1>3, <1>4, <3>1
    <3>2. CASE k # m
      <4>1. body'[k] = body[k] /\ (k \in refused' <=> k \in refused)
        BY <1>2, <1>3, <3>2
      <4> QED BY <1>0, <2>2, <4>1 DEF BodyInv
    <3> QED BY <3>1, <3>2
  <2>3. refused' \subseteq {k \in Messages : body'[k] # NotSent}
    BY <1>0, <1>1, <1>2, <1>3 DEF BodyInv
  <2> QED BY <2>1, <2>2, <2>3 DEF BodyInv, TooMany, Total
<1>6. ASSUME NEW f \in chunks(m, b), ~TooMany(n)
      PROVE  f \in Frames /\ f.message_id = m /\ Carries(f, b)
  <2>1. PICK i \in 0 .. Total(Len(b)) - 1 :
          f = frame(m, i, Total(Len(b)), Len(b), PartOf(b, i))
    BY DEF chunks
  <2>2. PartOf(b, i) \in Seq(Bytes) /\ Total(Len(b)) \in Nat /\ Len(b) \in Nat
    BY <1>0, <1>1, PartIsSeq, TotalIsLeast
  <2>3. /\ f.message_id = m /\ f.chunk_index = i /\ f.total_chunks = Total(Len(b))
        /\ f.plaintext_length = Len(b) /\ f.payload = PartOf(b, i)
    BY <2>1 DEF frame
  <2>4. f \in Frames
    BY <2>1, <2>2 DEF frame, Frames
  <2> QED BY <2>3, <2>4 DEF Carries
<1>7. ASSUME NEW f \in net \cup held
      PROVE  /\ body'[f.message_id] # NotSent /\ f.message_id \notin refused'
             /\ Carries(f, body'[f.message_id]) /\ f \in Frames
  <2>1. /\ f \in Frames /\ body[f.message_id] # NotSent /\ f.message_id \notin refused
        /\ Carries(f, body[f.message_id])
    BY <1>0 DEF NetInv
  <2>2. f.message_id \in Messages /\ f.message_id # m
    BY <1>2, <2>1 DEF Frames
  <2>3. body'[f.message_id] = body[f.message_id] /\ f.message_id \notin refused'
    BY <1>2, <1>3, <2>1, <2>2
  <2> QED BY <2>1, <2>3
<1>8. ASSUME NEW f \in net' \cup held'
      PROVE  /\ body'[f.message_id] # NotSent /\ f.message_id \notin refused'
             /\ Carries(f, body'[f.message_id]) /\ f \in Frames
  <2>1. CASE f \in net \cup held
    BY <1>7, <2>1
  <2>2. CASE f \notin net \cup held
    <3>1. f \in chunks(m, b) /\ ~TooMany(n) /\ refused' = refused
      BY <1>2, <2>2
    <3>2. f \in Frames /\ f.message_id = m /\ Carries(f, b)
      BY <1>6, <3>1
    <3> QED BY <1>1, <1>3, <1>4, <3>1, <3>2
  <2> QED BY <2>1, <2>2
<1>9. NetInv'
  <2>1. \A f \in held' : f.valid /\ f.total_chunks > 1
    BY <1>0, <1>2 DEF NetInv
  <2>2. net' \subseteq Frames /\ held' \subseteq Frames
    BY <1>8
  <2> QED BY <1>8, <2>1, <2>2 DEF NetInv
<1>10. WholeOrNothing'
  BY <1>0, <1>2, <1>3 DEF WholeOrNothing
<1> QED BY <1>5, <1>9, <1>10 DEF FrameInv

(* A frame under way is padded, damaged or lost. *)
LEMMA NetStep ==
    ASSUME FrameInv, NEW f \in net, Pad(f) \/ Damage(f)
    PROVE  FrameInv'
<1>0. BodyInv /\ NetInv /\ WholeOrNothing
  BY DEF FrameInv
<1>1. /\ f \in Frames /\ body[f.message_id] # NotSent /\ f.message_id \notin refused
      /\ Carries(f, body[f.message_id]) /\ f.message_id \in Messages
  BY <1>0 DEF NetInv, Frames
<1>2. body[f.message_id] \in Seq(Bytes)
  BY <1>0, <1>1 DEF BodyInv
<1>3. UNCHANGED <<body, refused, held, shown>>
  BY DEF Pad, Damage
<1>4. ASSUME NEW g \in net', g \notin net
      PROVE  g \in Frames /\ g.message_id = f.message_id /\ Carries(g, body[g.message_id])
  <2>1. CASE Damage(f)
    <3>1. g = [f EXCEPT !.valid = FALSE]
      BY <1>4, <2>1 DEF Damage
    <3>2. g \in Frames
      BY <1>1, <3>1 DEF Frames
    <3>3. /\ g.message_id = f.message_id /\ g.chunk_index = f.chunk_index
          /\ g.total_chunks = f.total_chunks /\ g.plaintext_length = f.plaintext_length
          /\ g.payload = f.payload
      BY <1>1, <3>1 DEF Frames
    <3> QED BY <1>1, <3>2, <3>3 DEF Carries
  <2>2. CASE Pad(f)
    <3>1. /\ g = [f EXCEPT !.payload = Append(f.payload, Padding)] /\ f.total_chunks = 1
          /\ Len(f.payload) = f.plaintext_length
      BY <1>4, <2>2 DEF Pad, Padding
    <3>2. f.payload \in Seq(Bytes) /\ Padding \in Bytes
      BY <1>1 DEF Frames, Bytes
    <3>3. Append(f.payload, Padding) \in Seq(Bytes)
      BY <3>2, AppendProperties
    <3>4. g \in Frames
      BY <1>1, <3>1, <3>3 DEF Frames
    <3>5. /\ g.message_id = f.message_id /\ g.chunk_index = f.chunk_index
          /\ g.total_chunks = f.total_chunks /\ g.plaintext_length = f.plaintext_length
          /\ g.payload = Append(f.payload, Padding)
      BY <1>1, <3>1 DEF Frames
    <3>6. f.payload = body[f.message_id]
      <4> DEFINE b == body[f.message_id]
      <4>1. f.payload = PartOf(b, f.chunk_index) => f.payload = b
        BY <1>1, <1>2, <3>1, PartIsSeq DEF Carries
      <4>2. f.payload # Append(b, Padding)
        <5>1. Len(Append(b, Padding)) = Len(b) + 1 /\ Len(b) \in Nat
          BY <1>2, <3>2, AppendProperties, LenProperties
        <5> QED BY <1>1, <3>1, <5>1 DEF Carries
      <4> QED BY <1>1, <4>1, <4>2 DEF Carries
    <3> QED BY <1>1, <3>1, <3>4, <3>5, <3>6 DEF Carries
  <2> QED BY <2>1, <2>2
<1>5. BodyInv' /\ WholeOrNothing'
  BY <1>0, <1>3 DEF BodyInv, WholeOrNothing, TooMany, Total
<1>6. ASSUME NEW g \in net' \cup held'
      PROVE  /\ g \in Frames /\ body[g.message_id] # NotSent /\ g.message_id \notin refused
             /\ Carries(g, body[g.message_id])
  BY <1>0, <1>1, <1>3, <1>4 DEF NetInv
<1>7. \A g \in held' : g.valid /\ g.total_chunks > 1
  BY <1>0, <1>3 DEF NetInv
<1>8. NetInv'
  BY <1>3, <1>6, <1>7 DEF NetInv, Carries
<1> QED BY <1>5, <1>8 DEF FrameInv

(* A collection with as many parts as a body has is all of them: put        *)
(* together, it is the body.                                                *)
LEMMA WholeIsBody ==
    ASSUME NEW b \in Seq(Bytes), NEW m \in Messages, NEW parts \in SUBSET Frames,
           \A f \in parts : /\ f.valid /\ f.message_id = m
                            /\ Carries(f, b) /\ f.total_chunks > 1,
           Cardinality(parts) = Total(Len(b))
    PROVE  Joined(parts) = b
<1> DEFINE N == Total(Len(b))
           at == [f \in parts |-> f.chunk_index]
<1>1. N \in Nat \ {0} /\ Len(b) \in Nat
  BY TotalIsLeast, LenProperties
<1>2. \A f \in parts : f.payload = PartOf(b, f.chunk_index) /\ f.chunk_index \in 0 .. N - 1
  BY DEF Carries
<1>3. ASSUME NEW f \in parts, NEW g \in parts, f.chunk_index = g.chunk_index
      PROVE  f = g
  <2>1. f \in Frames /\ g \in Frames
    OBVIOUS
  <2>2. /\ f.valid = g.valid /\ f.message_id = g.message_id
        /\ f.total_chunks = g.total_chunks /\ f.plaintext_length = g.plaintext_length
        /\ f.payload = g.payload
    <3>1. f.valid = TRUE /\ g.valid = TRUE
      BY <2>1 DEF Frames
    <3> QED BY <1>2, <1>3, <3>1 DEF Carries
  <2> QED BY <1>3, <2>1, <2>2 DEF Frames
<1>4. at \in Injection(parts, 0 .. N - 1)
  BY <1>2, <1>3 DEF Injection, IsInjective
<1>5. IsFiniteSet(0 .. N - 1) /\ Cardinality(0 .. N - 1) = N
  <2>1. 0 \in Int /\ N - 1 \in Int /\ ~(0 > N - 1) /\ (N - 1) - 0 + 1 = N
    BY <1>1
  <2> QED BY <2>1, FS_Interval
<1>6. at \in Surjection(parts, 0 .. N - 1)
  <2> HIDE DEF at, N
  <2>1. Cardinality(parts) = Cardinality(0 .. N - 1)
    BY <1>5 DEF N
  <2> QED BY <1>4, <1>5, <2>1, FS_Injection
<1>7. \A i \in 0 .. N - 1 : \E f \in parts : f.chunk_index = i
  BY <1>6 DEF Surjection
<1> QED BY <1>2, <1>7, JoinedIsBody

(* A frame is read. *)
LEMMA ReadStep ==
    ASSUME FrameInv, NEW f \in net, Read(f)
    PROVE  FrameInv'
<1> DEFINE m == f.message_id
           b == body[m]
           collected == held \cup {f}
           parts == Parts(m, collected)
<1>0. BodyInv /\ NetInv /\ WholeOrNothing
  BY DEF FrameInv
<1>1. /\ f \in Frames /\ b # NotSent /\ m \notin refused /\ Carries(f, b) /\ m \in Messages
  BY <1>0 DEF NetInv, Frames
<1>2. b \in Seq(Bytes) /\ Len(b) \in Nat /\ Total(Len(b)) \in Nat \ {0}
  BY <1>0, <1>1, LenProperties, TotalIsLeast DEF BodyInv
<1>3. UNCHANGED <<body, refused, net>>
  BY DEF Read
<1>4. ASSUME held' = held \/ (f.valid /\ f.total_chunks > 1 /\ held' = held \cup {f}),
             shown' = shown \/ shown' = [shown EXCEPT ![m] = b]
      PROVE  FrameInv'
  <2>1. BodyInv'
    <3>1. DOMAIN shown' = Messages
      BY <1>0, <1>4 DEF BodyInv
    <3> QED BY <1>0, <1>3, <3>1 DEF BodyInv, TooMany, Total
  <2>2. ASSUME NEW g \in net' \cup held'
        PROVE  /\ g \in Frames /\ body[g.message_id] # NotSent /\ g.message_id \notin refused
               /\ Carries(g, body[g.message_id])
    BY <1>0, <1>3, <1>4 DEF NetInv
  <2>3. \A g \in held' : g.valid /\ g.total_chunks > 1
    BY <1>0, <1>4 DEF NetInv
  <2>4. NetInv'
    BY <1>3, <2>2, <2>3 DEF NetInv, Carries
  <2>5. WholeOrNothing'
    BY <1>0, <1>1, <1>3, <1>4 DEF WholeOrNothing, BodyInv
  <2> QED BY <2>1, <2>4, <2>5 DEF FrameInv
<1>5. CASE ~f.valid
  BY <1>4, <1>5 DEF Read
<1>6. CASE f.valid /\ IsControl(f)
  <2>1. held' = held /\ shown' = [shown EXCEPT ![m] = ControlBody(f)]
    BY <1>6 DEF Read
  <2>2. Total(Len(b)) = 1 /\ f.plaintext_length = Len(b)
    BY <1>1, <1>6 DEF IsControl, Carries
  <2>3. ControlBody(f) = SubSeq(f.payload, 1, Len(b))
    BY <2>2 DEF ControlBody
  <2>4. CASE f.payload = PartOf(b, f.chunk_index)
    <3>1. f.payload = b
      BY <1>1, <1>2, <2>2, <2>4, PartIsSeq DEF Carries
    <3>2. SubSeq(b, 1, Len(b)) = b
      BY <1>2, SubSeqFull
    <3> QED BY <1>4, <2>1, <2>3, <3>1, <3>2
  <2>5. CASE f.payload = Append(b, Padding)
    <3> DEFINE a == Append(b, Padding)
    <3>1. /\ a \in Seq(Bytes) /\ Len(a) = Len(b) + 1
          /\ \A i \in 1 .. Len(b) : a[i] = b[i]
      <4>1. Padding \in Bytes
        BY DEF Bytes
      <4> QED BY <1>2, <4>1, AppendProperties
    <3> HIDE DEF a
    <3>2. \A i \in 1 .. Len(b) : a[i] \in Bytes
      BY <1>2, <3>1, ElementOfSeq
    <3> DEFINE l == Len(b)
               s == SubSeq(a, 1, l)
    <3>3. /\ s \in Seq(Bytes) /\ Len(s) = IF 1 <= l THEN l - 1 + 1 ELSE 0
          /\ \A i \in 1 .. l - 1 + 1 : s[i] = a[1 + i - 1]
      <4>1. 1 \in Int /\ l \in Int /\ \A i \in 1 .. l : a[i] \in Bytes
        BY <1>2, <3>2
      <4> HIDE DEF l
      <4> QED BY <4>1, SubSeqProperties
    <3> HIDE DEF s
    <3>4. Len(s) = Len(b) /\ \A i \in 1 .. Len(s) : s[i] = b[i]
      BY <1>2, <3>1, <3>3
    <3>5. s = b
      BY <1>2, <3>3, <3>4, SeqEqual
    <3> QED BY <1>4, <2>1, <2>3, <2>5, <3>5 DEF a, s
  <2> QED BY <1>1, <2>4, <2>5 DEF Carries
<1>7. CASE f.valid /\ ~IsControl(f)
  <2>1. /\ held' = collected
        /\ \/ shown' = shown
           \/ /\ Cardinality(parts) = f.total_chunks
              /\ shown' = [shown EXCEPT ![m] = Joined(parts)]
    BY <1>7 DEF Read
  <2>2. f.total_chunks > 1
    <3> SUFFICES ASSUME Total(Len(b)) = 1 PROVE IsControl(f)
      BY <1>1, <1>2, <1>7 DEF Carries
    <3>1. CASE f.payload = PartOf(b, f.chunk_index)
      <4>1. f.payload = b
        BY <1>1, <1>2, <3>1, PartIsSeq DEF Carries
      <4> QED BY <1>1, <1>2, <1>7, <4>1 DEF IsControl, Carries
    <3>2. CASE f.payload = Append(b, Padding)
      <4>1. Len(f.payload) = Len(b) + 1
        BY <1>2, <3>2, AppendProperties DEF Bytes
      <4> QED BY <1>1, <1>2, <1>7, <4>1 DEF IsControl, Carries
    <3> QED BY <1>1, <3>1, <3>2 DEF Carries
  <2>3. ASSUME Cardinality(parts) = f.total_chunks
        PROVE  Joined(parts) = b
    <3>1. parts \in SUBSET Frames
      BY <1>0, <1>1 DEF NetInv, Parts
    <3>2. \A g \in parts : g.valid /\ g.message_id = m /\ Carries(g, b) /\ g.total_chunks > 1
      BY <1>0, <1>1, <1>7, <2>2 DEF NetInv, Parts
    <3>3. Cardinality(parts) = Total(Len(b))
      BY <1>1, <2>3 DEF Carries
    <3> HIDE DEF parts, b, m
    <3> QED BY <1>1, <1>2, <3>1, <3>2, <3>3, WholeIsBody
  <2> HIDE DEF parts
  <2> QED BY <1>4, <1>7, <2>1, <2>2, <2>3
<1> QED BY <1>5, <1>6, <1>7

(* Every step keeps the invariant.                                          *)
LEMMA InvStep == FrameInv /\ [Next]_vars => FrameInv'
<1> SUFFICES ASSUME FrameInv, [Next]_vars PROVE FrameInv'
  OBVIOUS
<1>1. CASE UNCHANGED vars
  BY <1>1 DEF vars, FrameInv, BodyInv, NetInv, WholeOrNothing, Carries, TooMany, Total
<1>2. ASSUME NEW m \in Messages, NEW n \in 0 .. MaxBody, Send(m, n)
      PROVE  FrameInv'
  BY <1>2, SendStep
<1>3. ASSUME NEW f \in net, Pad(f) \/ Damage(f)
      PROVE  FrameInv'
  BY <1>3, NetStep
<1>4. ASSUME NEW f \in net, Read(f)
      PROVE  FrameInv'
  BY <1>4, ReadStep
<1> QED BY <1>1, <1>2, <1>3, <1>4, Zenon DEF Next

(* The invariant holds at any time.                                         *)
LEMMA FramesCarryBodies == Spec => []FrameInv
BY InitInv, InvStep, PTL DEF Spec

-----------------------------------------------------------------------------
(* However the frames of a body are lost, repeated, reordered, padded,      *)
(* damaged and mixed with others', the receiver shows the whole body or     *)
(* nothing: the layout that the KNST vectors pin lets it tell the parts     *)
(* apart and notice when one is missing.                                    *)
THEOREM FramesAreNotCut == Spec => []WholeOrNothing
<1>1. FrameInv => WholeOrNothing
  BY DEF FrameInv
<1> QED BY <1>1, FramesCarryBodies, PTL

(* A body over MAX_CHUNKS frames is refused whole, and no other is: the     *)
(* division that counts the frames refuses exactly what does not fit.       *)
THEOREM RefusesWhatDoesNotFit == Spec => []RefusedNotCut
<1>1. FrameInv => RefusedNotCut
  <2> SUFFICES ASSUME FrameInv, NEW m \in Messages, body[m] # NotSent
               PROVE  IF m \in refused
                      THEN Parts(m, net) = {} /\ Len(body[m]) > MAX_CHUNKS * CHUNK_PAYLOAD
                      ELSE Len(body[m]) <= MAX_CHUNKS * CHUNK_PAYLOAD
    BY DEF RefusedNotCut
  <2>1. body[m] \in Seq(Bytes) /\ (m \in refused <=> TooMany(Len(body[m])))
    BY DEF FrameInv, BodyInv
  <2>2. Len(body[m]) \in Nat
    BY <2>1, LenProperties
  <2>3. MAX_CHUNKS \in Nat \ {0} /\ CHUNK_PAYLOAD \in Nat /\ MAX_CHUNKS * CHUNK_PAYLOAD \in Nat
    BY FrameAssumption
  <2>4. m \in refused => Parts(m, net) = {}
    BY DEF FrameInv, NetInv, Parts
  <2>5. /\ Total(Len(body[m])) \in Nat
        /\ Total(Len(body[m])) <= MAX_CHUNKS <=> Len(body[m]) <= MAX_CHUNKS * CHUNK_PAYLOAD
    BY <2>2, <2>3, TotalIsLeast
  <2> QED BY <2>1, <2>2, <2>3, <2>4, <2>5 DEF TooMany
<1> QED BY <1>1, FramesCarryBodies, PTL

=============================================================================
