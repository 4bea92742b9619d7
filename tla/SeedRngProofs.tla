--------------------------- MODULE SeedRngProofs ---------------------------
(***************************************************************************)
(* Proofs about SeedRng, for every block length and every way to split the *)
(* reads.                                                                  *)
(***************************************************************************)
EXTENDS SeedRng, Integers, TLAPS

IInv == TypeOK /\ Position /\ OutIsTheStream

USE DEF NoBlock

(* The generator starts at the beginning of its stream. *)
LEMMA InitHolds == Init => IInv
BY RngAssumption DEF Init, IInv, TypeOK, Position, OutIsTheStream

(* A call of try_fill_bytes moves nothing yet. *)
LEMMA FillKeeps ==
    ASSUME IInv, NEW n \in 1 .. MaxRead, Fill(n)
    PROVE  IInv'
BY RngAssumption DEF Fill, IInv, TypeOK, Position, OutIsTheStream

(* One turn of the loop hands out the byte at the generator's place and     *)
(* moves to the next, refill or not.                                        *)
LEMMA TakeByteKeeps ==
    ASSUME IInv, TakeByte
    PROVE  IInv'
<1> DEFINE from == IF UsedUp THEN counter ELSE block
           place == IF UsedUp THEN RefilledAt ELSE off
<1>t. TypeOK /\ Position /\ OutIsTheStream
  BY DEF IInv
<1>s. /\ want > 0 /\ block' = from
      /\ counter' = IF UsedUp THEN counter + 1 ELSE counter
      /\ out' = Append(out, <<from, place>>)
      /\ off' = place + 1 /\ want' = want - 1
  BY DEF TakeByte, NextCounter
<1>1. from \in Nat /\ place \in 0 .. BlockLen - 1
  BY <1>t, RngAssumption DEF TypeOK, UsedUp, RefilledAt
<1>2. TypeOK'
  <2>1. <<from, place>> \in Nat \X (0 .. BlockLen - 1)
    BY <1>1
  <2>2. out' \in Seq(Nat \X (0 .. BlockLen - 1))
    BY <1>s, <1>t, <2>1 DEF TypeOK
  <2> HIDE DEF from, place
  <2> QED
    BY <1>1, <1>s, <1>t, <2>2, RngAssumption DEF TypeOK
<1>3. from * BlockLen + place = Len(out)
  <2>1. CASE UsedUp
    <3>1. off = BlockLen /\ from = counter /\ place = 0
      BY <2>1, <1>t, RngAssumption DEF TypeOK, UsedUp, RefilledAt
    <3>2. Len(out) + BlockLen = BlockLen * counter + BlockLen
      BY <3>1, <1>t DEF Position
    <3>3. Len(out) \in Nat /\ counter \in Nat /\ BlockLen \in Nat
      BY <1>t, RngAssumption DEF TypeOK
    <3>4. BlockLen * counter \in Nat /\ counter * BlockLen = BlockLen * counter
      BY <3>3
    <3> QED
      BY <3>1, <3>2, <3>3, <3>4
  <2>2. CASE ~UsedUp
    <3>1. counter > 0 /\ from = counter - 1 /\ place = off
      BY <2>2, <1>t, RngAssumption DEF TypeOK, Position, UsedUp
    <3>2. Len(out) \in Nat /\ counter \in Nat /\ BlockLen \in Nat /\ off \in Nat
      BY <1>t, RngAssumption DEF TypeOK
    <3>3. (counter - 1) * BlockLen + BlockLen = BlockLen * counter
      BY <3>2
    <3>4. (counter - 1) * BlockLen \in Int /\ BlockLen * counter \in Int
      BY <3>2
    <3> QED
      BY <3>1, <3>2, <3>3, <3>4, <1>t DEF Position
  <2> QED
    BY <2>1, <2>2
<1>4. /\ Len(out') = Len(out) + 1
      /\ \A k \in 1 .. Len(out) : out'[k] = out[k]
      /\ out'[Len(out) + 1] = <<from, place>>
  <2> HIDE DEF from, place
  <2> QED
    BY <1>s, <1>t DEF TypeOK
<1>5. OutIsTheStream'
  <2> SUFFICES ASSUME NEW k \in DOMAIN out'
               PROVE  out'[k][1] * BlockLen + out'[k][2] = k - 1
    BY DEF OutIsTheStream
  <2>1. Len(out) \in Nat /\ DOMAIN out = 1 .. Len(out) /\ DOMAIN out' = 1 .. Len(out) + 1
    BY <1>t, <1>2, <1>4 DEF TypeOK
  <2>2. CASE k = Len(out) + 1
    <3> HIDE DEF from, place
    <3>1. out'[k][1] = from /\ out'[k][2] = place
      BY <1>4, <2>2
    <3> QED
      BY <3>1, <1>3, <2>1, <2>2
  <2>3. CASE k # Len(out) + 1
    BY <1>4, <1>t, <2>1, <2>3 DEF OutIsTheStream
  <2> QED
    BY <2>2, <2>3
<1>6. Position'
  <2>0. Len(out) \in Nat /\ counter \in Nat /\ BlockLen \in Nat \ {0} /\ off \in Nat
    BY <1>t, RngAssumption DEF TypeOK
  <2>1. CASE UsedUp
    <3>1. place = 0 /\ off' = 1 /\ counter' = counter + 1 /\ block' = counter
      BY <2>1, <1>s DEF RefilledAt
    <3>2. counter * BlockLen = Len(out)
      BY <2>1, <1>3, <3>1, <2>0 DEF RefilledAt
    <3>3. BlockLen * (counter + 1) = counter * BlockLen + BlockLen
      BY <2>0
    <3> QED
      BY <3>1, <3>2, <3>3, <2>0, <1>4 DEF Position
  <2>2. CASE ~UsedUp
    <3>1. off' = off + 1 /\ counter' = counter /\ block' = block /\ counter > 0
      BY <2>2, <1>s, <1>t, RngAssumption DEF TypeOK, Position, UsedUp
    <3>2. BlockLen * counter \in Nat
      BY <2>0
    <3> QED
      BY <3>1, <3>2, <2>0, <1>4, <1>t DEF Position
  <2> QED
    BY <2>1, <2>2
<1> QED
  BY <1>2, <1>5, <1>6 DEF IInv

(* The invariant is inductive: SeedRng keeps its place in its stream.       *)
THEOREM Inductive == Spec => []IInv
<1>1. IInv /\ [Next]_vars => IInv'
  <2> SUFFICES ASSUME IInv, [Next]_vars PROVE IInv'
    OBVIOUS
  <2>1. CASE TakeByte
    BY <2>1, TakeByteKeeps
  <2>2. ASSUME NEW n \in 1 .. MaxRead, Fill(n) PROVE IInv'
    BY <2>2, FillKeeps
  <2>3. CASE UNCHANGED vars
    BY <2>3 DEF vars, IInv, TypeOK, Position, OutIsTheStream
  <2> QED
    BY <2>1, <2>2, <2>3 DEF Next
<1> QED
  BY InitHolds, <1>1, PTL DEF Spec

(* For every block length and every split of the reads, the counter and the *)
(* offset of SeedRng are its place in the stream of blocks.                 *)
THEOREM PlaceInStream == Spec => []Position
<1>1. IInv => Position
  BY DEF IInv
<1> QED
  BY Inductive, <1>1, PTL

(* However the ML-KEM library splits its reads of SeedRng, it is handed the *)
(* hashes of the counters laid end to end: the keys of the golden vectors   *)
(* depend on the seed alone.                                                *)
THEOREM KeysDependOnSeedAlone == Spec => []OutIsTheStream
<1>1. IInv => OutIsTheStream
  BY DEF IInv
<1> QED
  BY Inductive, <1>1, PTL

=============================================================================
