------------------------- MODULE HistoryFileProofs -------------------------
(***************************************************************************)
(* Proofs about the CTHF file that carries a CTH1 stream, for any          *)
(* histories, any size of chunk and of length field, and any damage to the *)
(* file.  What is proved of streams is in FormatProofs.                    *)
(***************************************************************************)
EXTENDS HistoryFile, FormatProofs

(* The histories of the run are lists of records that can be written.       *)
LEMMA HistoriesWritten == Histories \subseteq RecordLists
BY HistoriesAssumption DEF RecordLists, Records

-----------------------------------------------------------------------------
(* The sealed file.                                                         *)

(* The text of a chunk, and its frame in the file. *)
Text(W, ix) == SubSeq(W, ix * CHUNK_PLAINTEXT + 1,
                      LeastOf((ix + 1) * CHUNK_PLAINTEXT, Len(W)))
Frame(W, ix) == <<Length(Len(Text(W, ix)) + OVERHEAD)>> \o Sealed(ix, Text(W, ix))

(* What a file is made of, however it is damaged. *)
Lengths == {Length(n) : n \in Nat}
SealedBytes(W) ==
    {SealedByte(ix, Text(W, ix), k) :
        ix \in {i \in Nat : i * CHUNK_PLAINTEXT < Len(W)}, k \in Nat}
Cells(W) == {Header} \cup Lengths \cup SealedBytes(W)

(* The rest of an intact file, from chunk ix on. *)
Rests(W) ==
    CHOOSE g : g = [ix \in Nat |->
        IF ix * CHUNK_PLAINTEXT >= Len(W) THEN <<Length(0)>> ELSE Frame(W, ix) \o g[ix + 1]]

(* The start of a chunk is a number, and the next one is further on.        *)
LEMMA ChunkBounds ==
    ASSUME NEW n \in Nat, NEW ix \in Nat
    PROVE  /\ CHUNK_PLAINTEXT \in Nat \ {0} /\ OVERHEAD \in Nat \ {0}
           /\ ix * CHUNK_PLAINTEXT \in Nat
           /\ (ix + 1) * CHUNK_PLAINTEXT = ix * CHUNK_PLAINTEXT + CHUNK_PLAINTEXT
           /\ ix >= n => ix * CHUNK_PLAINTEXT >= n
<1>1. CHUNK_PLAINTEXT \in Nat \ {0} /\ OVERHEAD \in Nat \ {0}
  BY FileAssumption
<1> DEFINE C == CHUNK_PLAINTEXT
<1>2. C \in Nat /\ C >= 1
  BY <1>1
<1> HIDE DEF C
<1>3. ix * C \in Nat /\ (ix + 1) * C = ix * C + C /\ ix * C >= ix
  BY <1>2
<1> QED BY <1>1, <1>2, <1>3 DEF C

(* What a chunk holds of the stream: at least one byte, at most a chunk's   *)
(* worth.                                                                   *)
LEMMA TextFacts ==
    ASSUME NEW W \in Seq(Nat), NEW ix \in Nat, ix * CHUNK_PLAINTEXT < Len(W)
    PROVE  /\ Text(W, ix) \in Seq(Nat) /\ Len(Text(W, ix)) \in 1 .. CHUNK_PLAINTEXT
           /\ SubSeq(W, 1, LeastOf(ix * CHUNK_PLAINTEXT, Len(W))) \o Text(W, ix)
                = SubSeq(W, 1, LeastOf((ix + 1) * CHUNK_PLAINTEXT, Len(W)))
<1>1. Len(W) \in Nat
  BY LenProperties
<1>2. PICK a \in Nat : a = ix * CHUNK_PLAINTEXT
  BY <1>1, ChunkBounds
<1>3. PICK b \in Nat : b = LeastOf((ix + 1) * CHUNK_PLAINTEXT, Len(W))
                       /\ b \in a + 1 .. Len(W) /\ b <= a + CHUNK_PLAINTEXT
  <2>1. /\ (ix + 1) * CHUNK_PLAINTEXT = a + CHUNK_PLAINTEXT /\ CHUNK_PLAINTEXT \in Nat \ {0}
        /\ a < Len(W)
    BY <1>1, <1>2, ChunkBounds
  <2> DEFINE z == (ix + 1) * CHUNK_PLAINTEXT
  <2> HIDE DEF z
  <2>2. z = a + CHUNK_PLAINTEXT
    BY <2>1 DEF z
  <2>3. LeastOf(z, Len(W)) \in a + 1 .. Len(W) /\ LeastOf(z, Len(W)) <= a + CHUNK_PLAINTEXT
    BY <1>1, <2>1, <2>2 DEF LeastOf
  <2> QED BY <1>1, <2>3 DEF z
<1> DEFINE t == SubSeq(W, a + 1, b)
<1>4. Text(W, ix) = t
  BY <1>2, <1>3, Zenon DEF Text
<1>5. t \in Seq(Nat) /\ Len(t) = IF a + 1 <= b THEN b - (a + 1) + 1 ELSE 0
  <2>1. \A i \in a + 1 .. b : W[i] \in Nat
    <3>1. a + 1 .. b \subseteq 1 .. Len(W)
      BY <1>1, <1>3
    <3> QED BY <3>1, ElementOfSeq
  <2>2. a + 1 \in Int /\ b \in Int
    OBVIOUS
  <2> QED BY <2>1, <2>2, SubSeqProperties
<1>6. Len(t) \in 1 .. CHUNK_PLAINTEXT
  <2>1. CHUNK_PLAINTEXT \in Nat
    BY ChunkBounds
  <2> HIDE DEF t
  <2> QED BY <1>3, <1>5, <2>1
<1>7. LeastOf(a, Len(W)) = a
  BY <1>1, <1>2 DEF LeastOf
<1>8. SubSeq(W, 1, a) \o t = SubSeq(W, 1, b)
  <2>1. 1 \in 1 .. Len(W) + 1 /\ a \in 1 - 1 .. Len(W) /\ b \in a .. Len(W)
    BY <1>1, <1>3
  <2> QED BY <2>1, ConcatAdjacentSubSeq
<1> HIDE DEF t
<1> QED BY <1>2, <1>3, <1>4, <1>5, <1>6, <1>7, <1>8

(* The bytes of a sealed chunk: its length, then every sealed byte in its   *)
(* place.                                                                   *)
LEMMA FrameFacts ==
    ASSUME NEW W \in Seq(Nat), NEW ix \in Nat, ix * CHUNK_PLAINTEXT < Len(W)
    PROVE  /\ Frame(W, ix) \in Seq(Cells(W))
           /\ Len(Frame(W, ix)) = 1 + (Len(Text(W, ix)) + OVERHEAD)
           /\ Frame(W, ix)[1] = Length(Len(Text(W, ix)) + OVERHEAD)
           /\ \A k \in 1 .. Len(Text(W, ix)) + OVERHEAD :
                 Frame(W, ix)[1 + k] = SealedByte(ix, Text(W, ix), k)
<1>1. PICK t : t = Text(W, ix) /\ Len(t) \in Nat
  <2>1. Text(W, ix) \in Seq(Nat)
    BY TextFacts
  <2> QED BY <2>1, LenProperties
<1>2. PICK m \in Nat : m = Len(t) + OVERHEAD
  BY <1>1, FileAssumption
<1> DEFINE a == <<Length(m)>>
           b == Sealed(ix, t)
           c == a \o b
           S == Cells(W)
<1>3. Frame(W, ix) = c
  BY <1>1, <1>2 DEF Frame
<1>4. Length(m) \in S /\ \A k \in 1 .. m : SealedByte(ix, t, k) \in S
  <2>1. ASSUME NEW k \in 1 .. m PROVE SealedByte(ix, t, k) \in S
    <3>1. k \in Nat
      BY <1>2
    <3>2. ix \in {i \in Nat : i * CHUNK_PLAINTEXT < Len(W)}
      OBVIOUS
    <3>3. SealedByte(ix, Text(W, ix), k) \in SealedBytes(W)
      BY <3>1, <3>2 DEF SealedBytes
    <3> QED BY <1>1, <3>3 DEF Cells
  <2>2. Length(m) \in Lengths
    BY <1>2 DEF Lengths
  <2>3. Length(m) \in S
    BY <2>2 DEF Cells
  <2> QED BY <2>1, <2>3
<1> HIDE DEF S
<1>5. a \in Seq(S) /\ Len(a) = 1 /\ a[1] = Length(m)
  BY <1>4
<1>6. b \in Seq(S) /\ Len(b) = m /\ \A k \in 1 .. m : b[k] = SealedByte(ix, t, k)
  BY <1>2, <1>4 DEF Sealed
<1> HIDE DEF a, b, c
<1>7. /\ c \in Seq(S) /\ Len(c) = 1 + m
      /\ \A i \in 1 .. 1 + m : c[i] = IF i <= 1 THEN a[i] ELSE b[i - 1]
  <2>1. /\ c \in Seq(S) /\ Len(c) = Len(a) + Len(b)
        /\ \A i \in 1 .. Len(a) + Len(b) : c[i] = IF i <= Len(a) THEN a[i] ELSE b[i - Len(a)]
    BY <1>5, <1>6, ConcatProperties, Zenon DEF c
  <2> QED BY <1>2, <1>5, <1>6, <2>1
<1>8. c[1] = Length(m)
  BY <1>2, <1>5, <1>7
<1>9. ASSUME NEW k \in 1 .. m PROVE c[1 + k] = SealedByte(ix, t, k)
  <2>1. 1 + k \in 1 .. 1 + m /\ ~(1 + k <= 1) /\ (1 + k) - 1 = k
    BY <1>2
  <2> QED BY <1>6, <1>7, <2>1
<1> QED BY <1>1, <1>2, <1>3, <1>7, <1>8, <1>9 DEF S

(* A sealed file, chunk by chunk, and the empty length at its end.          *)
LEMMA SealLayout ==
    ASSUME NEW W \in Seq(Nat)
    PROVE  /\ seal_stream(W) = Rests(W)[0]
           /\ \A ix \in Nat :
                 /\ Rests(W)[ix] \in Seq(Cells(W))
                 /\ ix * CHUNK_PLAINTEXT >= Len(W) => Rests(W)[ix] = <<Length(0)>>
                 /\ ix * CHUNK_PLAINTEXT < Len(W) =>
                       Rests(W)[ix] = Frame(W, ix) \o Rests(W)[ix + 1]
<1> DEFINE C == CHUNK_PLAINTEXT
           N == Len(W)
           last == {ix \in Nat : ix * C >= N}
           a == <<Length(0)>>
           p == [ix \in Nat |-> Frame(W, ix)]
           f == Rests(W)
<1>1. N \in Nat /\ \A ix \in Nat : ix * C \in Nat /\ (ix >= N => ix * C >= N)
  BY LenProperties, ChunkBounds
<1>2. PICK g : IsRest(g, last, a, p)
  <2>1. \A ix \in Nat : ix >= N => ix \in last
    BY <1>1
  <2> HIDE DEF last, a, p, N
  <2> QED BY <1>1, <2>1, RestExists
<1>3. g = [ix \in Nat |-> IF ix \in last THEN a ELSE p[ix] \o g[ix + 1]]
  <2> HIDE DEF last, a, p
  <2> QED BY <1>2, Zenon DEF IsRest
<1>4. g = [ix \in Nat |-> IF ix * C >= N THEN a ELSE Frame(W, ix) \o g[ix + 1]]
  <2>1. \A ix \in Nat : g[ix] = IF ix \in last THEN a ELSE p[ix] \o g[ix + 1]
    <3> HIDE DEF last, a, p
    <3> QED BY <1>3, Zenon
  <2>2. \A ix \in Nat : g[ix] = IF ix * C >= N THEN a ELSE Frame(W, ix) \o g[ix + 1]
    <3> HIDE DEF a
    <3> QED BY <2>1
  <2>3. g = [ix \in Nat |-> g[ix]]
    <3> HIDE DEF last, a, p
    <3> QED BY <1>3
  <2> HIDE DEF a
  <2> QED BY <2>2, <2>3
<1>5. f = [ix \in Nat |-> IF ix * C >= N THEN a ELSE Frame(W, ix) \o f[ix + 1]]
  BY <1>4, Zenon DEF Rests
<1> HIDE DEF f, a
<1>6. \A ix \in Nat : f[ix] = IF ix * C >= N THEN a ELSE Frame(W, ix) \o f[ix + 1]
  BY <1>5, Zenon
<1>7. ASSUME NEW ix \in Nat
      PROVE  /\ ix * C >= N => f[ix] = a
             /\ ix * C < N => f[ix] = Frame(W, ix) \o f[ix + 1]
  <2>1. ix * C < N => ~(ix * C >= N)
    BY <1>1
  <2> QED BY <1>6, <2>1
<1> DEFINE S == Cells(W)
           T == {d \in Nat : \A ix \in Nat : ix + d >= N => f[ix] \in Seq(S)}
<1>8. a \in Seq(S)
  <2>1. Length(0) \in S
    <3>1. Length(0) \in Lengths
      BY DEF Lengths
    <3> QED BY <3>1 DEF Cells
  <2> HIDE DEF S
  <2> QED BY <2>1 DEF a
<1>9. 0 \in T
  <2>1. ASSUME NEW ix \in Nat, ix + 0 >= N PROVE f[ix] \in Seq(S)
    <3>1. ix * C >= N
      <4>1. ix >= N
        BY <1>1, <2>1
      <4> QED BY <1>1, <4>1
    <3> QED BY <1>7, <1>8, <3>1
  <2> QED BY <2>1
<1>10. ASSUME NEW d \in T PROVE d + 1 \in T
  <2>1. ASSUME NEW ix \in Nat, ix + (d + 1) >= N PROVE f[ix] \in Seq(S)
    <3>1. f[ix + 1] \in Seq(S)
      <4>1. ix + 1 \in Nat /\ (ix + 1) + d >= N
        BY <1>1, <2>1
      <4> QED BY <4>1
    <3>2. CASE ix * C >= N
      BY <1>7, <1>8, <3>2
    <3>3. CASE ix * C < N
      <4>1. Frame(W, ix) \in Seq(S)
        BY <3>3, FrameFacts
      <4>2. f[ix] = Frame(W, ix) \o f[ix + 1]
        BY <1>7, <3>3
      <4> HIDE DEF S
      <4> QED BY <3>1, <4>1, <4>2, ConcatProperties
    <3>4. ix * C >= N \/ ix * C < N
      BY <1>1
    <3> QED BY <3>2, <3>3, <3>4
  <2> QED BY <2>1
<1>11. T = Nat
  <2>1. T \subseteq Nat
    OBVIOUS
  <2> HIDE DEF T
  <2> QED BY <1>9, <1>10, <2>1, SetInduction
<1>12. ASSUME NEW ix \in Nat PROVE f[ix] \in Seq(S)
  <2>1. N \in T
    BY <1>1, <1>11, Zenon
  <2>2. ix + N >= N
    BY <1>1
  <2> QED BY <2>1, <2>2
<1>13. seal_stream(W) = f[0]
  BY Zenon DEF seal_stream, f, Rests, Frame, Text
<1> QED BY <1>7, <1>12, <1>13 DEF f, a

-----------------------------------------------------------------------------
(* The invariant.  Damage moves and repeats sealed bytes but makes none, so *)
(* every one still belongs to the stream that was written; the reader has   *)
(* opened the chunks before index, in order.  While nothing is damaged, the *)
(* cells ahead of the reader are the rest of what the writer wrote.         *)
MadeOfChunks == file \in Seq(Cells(stream(recs))) /\ Len(file) >= 1

OpenedChunks ==
    plain = SubSeq(stream(recs), 1, LeastOf(index * CHUNK_PLAINTEXT, Len(stream(recs))))

IntactAhead ==
    damage = 0 =>
        /\ status # "refused"
        /\ status \in {"stored", "reading"} =>
              SubSeq(file, at, Len(file)) = Rests(stream(recs))[index]

FileInv ==
    /\ TypeOK
    /\ status = "stored" => at = 2
    /\ MadeOfChunks
    /\ OpenedChunks
    /\ AcceptedIsWritten
    /\ IntactAhead

(* The stream of a list of records is a sequence of bytes.                  *)
LEMMA StreamIsSeq ==
    ASSUME recs \in Histories
    PROVE  recs \in RecordLists /\ stream(recs) \in Seq(Nat) /\ Len(stream(recs)) \in Nat
<1>1. recs \in RecordLists
  BY HistoriesWritten
<1>2. stream(recs) \in Seq(Nat)
  BY <1>1, StreamLayout
<1> QED BY <1>1, <1>2, LenProperties

(* From place i on, f is a followed by b. *)
Ahead(f, i, a, b) == SubSeq(f, i, Len(f)) = a \o b

(* When the rest of a sequence starts with a, a is found there and b is the *)
(* rest after it.                                                           *)
LEMMA RestAfter ==
    ASSUME NEW S, NEW f \in Seq(S), NEW a \in Seq(S), NEW b \in Seq(S),
           NEW i \in 1 .. Len(f) + 1, Ahead(f, i, a, b)
    PROVE  /\ Len(f) + 1 = i + Len(a) + Len(b)
           /\ \A k \in 1 .. Len(a) : f[i + k - 1] = a[k]
           /\ SubSeq(f, i + Len(a), Len(f)) = b
<1>1. Len(f) \in Nat /\ Len(a) \in Nat /\ Len(b) \in Nat
  BY LenProperties
<1>2. PICK r : r = SubSeq(f, i, Len(f))
  OBVIOUS
<1>3. /\ Len(r) = IF i <= Len(f) THEN Len(f) - i + 1 ELSE 0
      /\ \A k \in 1 .. Len(f) - i + 1 : r[k] = f[i + k - 1]
  <2>1. Len(f) \in 0 .. Len(f)
    BY <1>1
  <2> QED BY <1>2, <2>1, PartOf
<1>4. /\ Len(r) = Len(a) + Len(b)
      /\ \A k \in 1 .. Len(a) + Len(b) : r[k] = IF k <= Len(a) THEN a[k] ELSE b[k - Len(a)]
  BY <1>2, ConcatProperties DEF Ahead
<1>5. Len(f) + 1 = i + Len(a) + Len(b) /\ Len(f) - i + 1 = Len(a) + Len(b)
  <2>1. \A x, y, z \in Nat : \A j \in 1 .. x + 1 :
           y + z = (IF j <= x THEN x - j + 1 ELSE 0) =>
             x + 1 = j + y + z /\ x - j + 1 = y + z
    OBVIOUS
  <2>2. Len(a) + Len(b) = IF i <= Len(f) THEN Len(f) - i + 1 ELSE 0
    BY <1>3, <1>4
  <2>3. i \in 1 .. Len(f) + 1
    OBVIOUS
  <2> QED BY ONLY <1>1, <2>1, <2>2, <2>3
<1>6. ASSUME NEW k \in 1 .. Len(a) PROVE f[i + k - 1] = a[k]
  <2>1. k \in 1 .. Len(a) + Len(b) /\ k <= Len(a)
    BY <1>1
  <2> QED BY <1>3, <1>4, <1>5, <2>1
<1> DEFINE q == SubSeq(f, i + Len(a), Len(f))
<1>7. /\ q \in Seq(S)
      /\ Len(q) = IF i + Len(a) <= Len(f) THEN Len(f) - (i + Len(a)) + 1 ELSE 0
      /\ \A k \in 1 .. Len(f) - (i + Len(a)) + 1 : q[k] = f[(i + Len(a)) + k - 1]
  <2>1. i + Len(a) \in 1 .. Len(f) + 1 /\ Len(f) \in 0 .. Len(f)
    BY <1>1, <1>5
  <2> QED BY <2>1, PartOf
<1> HIDE DEF q
<1>8. Len(q) = Len(b) /\ Len(f) - (i + Len(a)) + 1 = Len(b)
  <2>1. \A x, y, z \in Nat : \A j \in 1 .. x + 1 :
           x + 1 = j + y + z =>
             /\ (IF j + y <= x THEN x - (j + y) + 1 ELSE 0) = z
             /\ x - (j + y) + 1 = z
    OBVIOUS
  <2>2. /\ (IF i + Len(a) <= Len(f) THEN Len(f) - (i + Len(a)) + 1 ELSE 0) = Len(b)
        /\ Len(f) - (i + Len(a)) + 1 = Len(b)
    <3>1. i \in 1 .. Len(f) + 1
      OBVIOUS
    <3> QED BY ONLY <1>1, <1>5, <2>1, <3>1
  <2> QED BY <1>7, <2>2
<1>9. ASSUME NEW k \in 1 .. Len(b) PROVE q[k] = b[k]
  <2>1. Len(a) + k \in 1 .. Len(a) + Len(b) /\ ~(Len(a) + k <= Len(a))
        /\ (Len(a) + k) - Len(a) = k /\ i + (Len(a) + k) - 1 = (i + Len(a)) + k - 1
    BY <1>1
  <2>2. r[Len(a) + k] = b[k] /\ r[Len(a) + k] = f[i + (Len(a) + k) - 1]
    BY <1>3, <1>4, <1>5, <2>1
  <2> QED BY <1>7, <1>8, <2>1, <2>2
<1>10. q = b
  <2>1. q = [k \in 1 .. Len(b) |-> q[k]] /\ b = [k \in 1 .. Len(b) |-> b[k]]
    BY <1>7, <1>8, LenProperties
  <2> QED BY <1>9, <2>1
<1> QED BY <1>5, <1>6, <1>10 DEF q

(* A file that was just written is sound.                                   *)
LEMMA InitFile == Init => FileInv
<1> SUFFICES ASSUME Init PROVE FileInv
  OBVIOUS
<1>1. PICK W : W = stream(recs) /\ W \in Seq(Nat) /\ Len(W) \in Nat
  BY StreamIsSeq DEF Init
<1>2. PICK S : S = Cells(W)
  OBVIOUS
<1>3. PICK r \in Seq(S) : r = Rests(W)[0] /\ r = seal_stream(W)
  BY <1>1, <1>2, SealLayout
<1> DEFINE a == <<Header>>
<1>4. a \in Seq(S) /\ Len(a) = 1
  <2>1. Header \in S
    BY <1>2 DEF Cells
  <2> QED BY <2>1
<1>5. file = a \o r
  BY <1>1, <1>3 DEF Init
<1> HIDE DEF a
<1>6. file \in Seq(S) /\ Len(file) = 1 + Len(r) /\ Len(r) \in Nat
  <2>1. a \o r \in Seq(S) /\ Len(a \o r) = Len(a) + Len(r) /\ Len(r) \in Nat
    BY <1>3, <1>4, ConcatProperties, LenProperties
  <2> QED BY <1>4, <1>5, <2>1
<1>7. SubSeq(file, 2, Len(file)) = r
  <2>1. Ahead(file, 1, a, r) /\ 1 \in 1 .. Len(file) + 1
    BY <1>5, <1>6, SubSeqFull DEF Ahead
  <2>2. SubSeq(file, 1 + Len(a), Len(file)) = r
    <3>1. ASSUME NEW i \in 1 .. Len(file) + 1, Ahead(file, i, a, r)
          PROVE  SubSeq(file, i + Len(a), Len(file)) = r
      <4>1. file \in Seq(S) /\ a \in Seq(S) /\ r \in Seq(S)
        BY <1>3, <1>4, <1>6
      <4> QED BY ONLY <3>1, <4>1, RestAfter
    <3> QED BY <2>1, <3>1
  <2> QED BY <1>4, <2>2
<1>8. TypeOK
  <2>1. 2 \in 2 .. Len(file) + 1
    BY <1>6
  <2>2. 0 \in 0 .. MaxDamage[recs]
    BY FileAssumption DEF Init
  <2> QED BY <2>1, <2>2 DEF TypeOK, Init
<1>9. OpenedChunks
  <2>1. LeastOf(0 * CHUNK_PLAINTEXT, Len(W)) = 0
    <3>1. 0 * CHUNK_PLAINTEXT = 0
      BY FileAssumption
    <3> QED BY <1>1, <3>1 DEF LeastOf
  <2>2. SubSeq(W, 1, 0) = <<>>
    BY SubSeqEmpty
  <2> QED BY <1>1, <2>1, <2>2 DEF OpenedChunks, Init
<1>10. MadeOfChunks
  BY <1>1, <1>2, <1>6 DEF MadeOfChunks
<1>11. IntactAhead
  BY <1>1, <1>3, <1>7 DEF IntactAhead, Init
<1> QED BY <1>8, <1>9, <1>10, <1>11 DEF FileInv, AcceptedIsWritten, Init

(* Damage to the file keeps the invariant.                                  *)
LEMMA SufferStep == FileInv /\ Suffer => FileInv'
<1> SUFFICES ASSUME FileInv, Suffer PROVE FileInv'
  OBVIOUS
<1>1. PICK S : S = Cells(stream(recs)) /\ file \in Seq(S) /\ Len(file) >= 1 /\ Len(file) \in Nat
  BY LenProperties DEF FileInv, MadeOfChunks
<1>2. /\ status = "stored" /\ damage < MaxDamage[recs] /\ at = 2
      /\ damage' = damage + 1 /\ UNCHANGED <<recs, at, index, plain, status, got>>
  BY DEF Suffer, FileInv, Lose, Repeat, Exchange, OverwriteLength, Damage, reader
<1>3. file' \in Seq(S) /\ Len(file') >= 1
  <2>1. PICK i \in 2 .. Len(file), j \in 2 .. Len(file) :
          \/ Lose(i, j) \/ Repeat(i, j)
          \/ \E k \in 2 .. Len(file) : Exchange(i, j, k)
          \/ \E n \in 0 .. MAX_SEALED_CHUNK + 1 : i = j /\ OverwriteLength(i, n)
    BY DEF Suffer
  <2>2. /\ \A a, b \in Seq(S) : a \o b \in Seq(S) /\ Len(a \o b) = Len(a) + Len(b)
        /\ \A a \in Seq(S) : Len(a) \in Nat
    BY ConcatProperties, LenProperties
  <2>3. \A k \in 2 .. Len(file) :
           /\ Part(1, k - 1) \in Seq(S) /\ Len(Part(1, k - 1)) = k - 1
           /\ Part(1, k) \in Seq(S) /\ Len(Part(1, k)) = k
           /\ RestFrom(k) \in Seq(S) /\ RestFrom(k + 1) \in Seq(S)
    <3> SUFFICES ASSUME NEW k \in 2 .. Len(file)
                 PROVE  /\ Part(1, k - 1) \in Seq(S) /\ Len(Part(1, k - 1)) = k - 1
                        /\ Part(1, k) \in Seq(S) /\ Len(Part(1, k)) = k
                        /\ RestFrom(k) \in Seq(S) /\ RestFrom(k + 1) \in Seq(S)
      OBVIOUS
    <3>1. /\ 1 \in 1 .. Len(file) + 1 /\ k \in 1 .. Len(file) + 1
          /\ k + 1 \in 1 .. Len(file) + 1
          /\ k - 1 \in 0 .. Len(file) /\ k \in 0 .. Len(file) /\ Len(file) \in 0 .. Len(file)
          /\ 1 <= k - 1 /\ 1 <= k /\ (k - 1) - 1 + 1 = k - 1 /\ k - 1 + 1 = k
      BY <1>1
    <3> QED BY <1>1, <3>1, PartOf DEF Part, RestFrom
  <2>4. CASE Lose(i, j)
    <3>1. file' = Part(1, i - 1) \o RestFrom(j + 1)
      BY <2>4 DEF Lose, Damage
    <3> QED BY <1>1, <2>2, <2>3, <3>1
  <2>5. CASE Repeat(i, j)
    <3>1. file' = Part(1, j) \o RestFrom(i)
      BY <2>5 DEF Repeat, Damage
    <3> QED BY <1>1, <2>2, <2>3, <3>1
  <2>6. ASSUME NEW k \in 2 .. Len(file), Exchange(i, j, k)
        PROVE  file' \in Seq(S) /\ Len(file') >= 1
    <3>1. file' = ((Part(1, i - 1) \o Part(j, k)) \o Part(i, j - 1)) \o RestFrom(k + 1)
      BY <2>6 DEF Exchange, Damage
    <3>2. /\ j \in 1 .. Len(file) + 1 /\ k \in 0 .. Len(file)
          /\ i \in 1 .. Len(file) + 1 /\ j - 1 \in 0 .. Len(file)
      BY <1>1
    <3>3. Part(j, k) \in Seq(S) /\ Part(i, j - 1) \in Seq(S)
      BY <1>1, <3>2, PartOf DEF Part
    <3> DEFINE a == Part(1, i - 1)
               b == a \o Part(j, k)
               c == b \o Part(i, j - 1)
               d == c \o RestFrom(k + 1)
    <3>4. a \in Seq(S) /\ Len(a) = i - 1 /\ RestFrom(k + 1) \in Seq(S)
      BY <2>3
    <3> HIDE DEF a
    <3>5. b \in Seq(S) /\ Len(b) >= i - 1
      BY <1>1, <2>2, <3>3, <3>4
    <3> HIDE DEF b
    <3>6. c \in Seq(S) /\ Len(c) >= i - 1
      BY <1>1, <2>2, <3>3, <3>5
    <3> HIDE DEF c
    <3>7. d \in Seq(S) /\ Len(d) >= i - 1
      BY <1>1, <2>2, <3>4, <3>6
    <3>8. file' = d /\ i - 1 >= 1
      BY <1>1, <3>1 DEF a, b, c
    <3> HIDE DEF d
    <3> QED BY <1>1, <2>2, <3>7, <3>8
  <2>7. ASSUME NEW n \in 0 .. MAX_SEALED_CHUNK + 1, OverwriteLength(i, n)
        PROVE  file' \in Seq(S) /\ Len(file') >= 1
    <3>1. file' = [file EXCEPT ![i] = Length(n)]
      BY <2>7 DEF OverwriteLength, Damage
    <3>2. Length(n) \in S /\ i \in 1 .. Len(file)
      <4>1. n \in Nat
        BY FileAssumption DEF MAX_SEALED_CHUNK
      <4>2. Length(n) \in Lengths
        BY <4>1 DEF Lengths
      <4> QED BY <1>1, <4>2 DEF Cells
    <3> QED BY <1>1, <3>1, <3>2, ExceptSeq
  <2> QED BY <2>1, <2>4, <2>5, <2>6, <2>7
<1>4. TypeOK'
  <2>1. MaxDamage[recs] \in Nat /\ damage \in Nat /\ recs \in Histories
    BY FileAssumption DEF FileInv, TypeOK
  <2>2. damage' \in 0 .. MaxDamage[recs']
    BY <1>2, <2>1
  <2>3. at' \in 2 .. Len(file') + 1
    <3>1. Len(file') \in Nat
      BY <1>3, LenProperties
    <3> QED BY <1>2, <1>3, <3>1
  <2> QED BY <1>2, <2>2, <2>3 DEF FileInv, TypeOK
<1>5. MadeOfChunks'
  BY <1>1, <1>2, <1>3 DEF MadeOfChunks
<1>6. OpenedChunks'
  BY <1>2 DEF FileInv, OpenedChunks
<1>7. IntactAhead'
  <2>1. damage' # 0
    BY <1>2, FileAssumption DEF FileInv, TypeOK
  <2> QED BY <2>1 DEF IntactAhead
<1> QED BY <1>2, <1>4, <1>5, <1>6, <1>7 DEF FileInv, AcceptedIsWritten

(* What a reader of an undamaged file has before it. *)
LEMMA IntactCells ==
    ASSUME FileInv, damage = 0, status = "reading"
    PROVE  LET W == stream(recs)
               m == Len(Text(W, index)) + OVERHEAD
           IN  /\ at <= Len(file)
               /\ index * CHUNK_PLAINTEXT >= Len(W) => at = Len(file) /\ file[at] = Length(0)
               /\ index * CHUNK_PLAINTEXT < Len(W) =>
                     /\ file[at] = Length(m) /\ at + m <= Len(file)
                     /\ \A k \in 1 .. m : file[at + k] = SealedByte(index, Text(W, index), k)
                     /\ SubSeq(file, at + 1 + m, Len(file)) = Rests(W)[index + 1]
<1>1. PICK W : W = stream(recs) /\ W \in Seq(Nat) /\ Len(W) \in Nat
  BY StreamIsSeq DEF FileInv, TypeOK
<1>2. PICK S : S = Cells(W) /\ file \in Seq(S)
  BY <1>1 DEF FileInv, MadeOfChunks
<1>3. /\ index \in Nat /\ Len(file) \in Nat /\ at \in 2 .. Len(file) + 1
      /\ at \in 1 .. Len(file) + 1
  <2>1. Len(file) \in Nat
    BY <1>2, LenProperties
  <2>2. index \in Nat /\ at \in 2 .. Len(file) + 1
    BY DEF FileInv, TypeOK
  <2> QED BY <2>1, <2>2
<1>4. SubSeq(file, at, Len(file)) = Rests(W)[index]
  BY <1>1 DEF FileInv, IntactAhead
<1>5. index * CHUNK_PLAINTEXT \in Nat
  BY <1>1, <1>3, ChunkBounds
<1>6. CASE index * CHUNK_PLAINTEXT >= Len(W)
  <2>1. Rests(W)[index] = <<Length(0)>>
    BY <1>1, <1>3, <1>6, SealLayout
  <2> DEFINE r == SubSeq(file, at, Len(file))
  <2>2. /\ Len(r) = IF at <= Len(file) THEN Len(file) - at + 1 ELSE 0
        /\ \A k \in 1 .. Len(file) - at + 1 : r[k] = file[at + k - 1]
    <3>1. Len(file) \in 0 .. Len(file)
      BY <1>3
    <3> QED BY <1>2, <1>3, <3>1, PartOf
  <2>3. Len(r) = 1 /\ r[1] = Length(0)
    BY <1>4, <2>1
  <2> HIDE DEF r
  <2>4. at = Len(file)
    <3>1. 1 = IF at <= Len(file) THEN Len(file) - at + 1 ELSE 0
      BY <2>2, <2>3
    <3> QED BY ONLY <1>3, <3>1
  <2>5. file[at] = Length(0)
    <3>1. 1 \in 1 .. Len(file) - at + 1 /\ at + 1 - 1 = at
      BY <1>3, <2>4
    <3> QED BY <2>2, <2>3, <3>1
  <2>6. ~(index * CHUNK_PLAINTEXT < Len(W)) /\ at <= Len(file)
    BY <1>1, <1>3, <1>5, <1>6, <2>4
  <2> QED BY <1>1, <2>4, <2>5, <2>6
<1>7. CASE index * CHUNK_PLAINTEXT < Len(W)
  <2>1. PICK t : t = Text(W, index) /\ Len(t) \in 1 .. CHUNK_PLAINTEXT
    BY <1>1, <1>3, <1>7, TextFacts
  <2>2. PICK m \in Nat : m = Len(t) + OVERHEAD
    BY <2>1, FileAssumption
  <2>3. PICK a : /\ a = Frame(W, index) /\ a \in Seq(S) /\ Len(a) = 1 + m
                 /\ a[1] = Length(m) /\ \A k \in 1 .. m : a[1 + k] = SealedByte(index, t, k)
    BY <1>1, <1>2, <1>3, <1>7, <2>1, <2>2, FrameFacts
  <2>4. PICK b : b = Rests(W)[index + 1] /\ b \in Seq(S)
    <3>1. index + 1 \in Nat /\ W \in Seq(Nat)
      BY <1>1, <1>3
    <3>2. Rests(W)[index + 1] \in Seq(Cells(W))
      BY ONLY <3>1, SealLayout
    <3> QED BY <1>2, <3>2
  <2>5. Rests(W)[index] = a \o b
    BY <1>1, <1>3, <1>7, <2>3, <2>4, SealLayout
  <2>6. Ahead(file, at, a, b)
    BY <1>4, <2>5 DEF Ahead
  <2>7. /\ Len(file) + 1 = at + Len(a) + Len(b)
        /\ \A k \in 1 .. Len(a) : file[at + k - 1] = a[k]
        /\ SubSeq(file, at + Len(a), Len(file)) = b
    <3>1. file \in Seq(S) /\ a \in Seq(S) /\ b \in Seq(S) /\ at \in 1 .. Len(file) + 1
      BY <1>2, <1>3, <2>3, <2>4
    <3> QED BY ONLY <2>6, <3>1, RestAfter
  <2>8. Len(b) \in Nat
    BY <2>4, LenProperties
  <2>9. at + Len(a) = at + 1 + m /\ at + m <= Len(file) /\ at <= Len(file)
    <3>1. PICK x \in Nat : x = Len(b)
      BY <2>8
    <3>2. Len(file) + 1 = at + (1 + m) + x /\ Len(a) = 1 + m
      BY <2>3, <2>7, <3>1
    <3>3. m \in Nat /\ x \in Nat
      OBVIOUS
    <3> QED BY ONLY <1>3, <3>2, <3>3
  <2>10. file[at] = Length(m)
    <3>1. 1 \in 1 .. Len(a) /\ at + 1 - 1 = at
      BY <1>3, <2>2, <2>3
    <3> QED BY <2>3, <2>7, <3>1
  <2>11. ASSUME NEW k \in 1 .. m PROVE file[at + k] = SealedByte(index, t, k)
    <3>1. 1 + k \in 1 .. Len(a) /\ at + (1 + k) - 1 = at + k
      BY <1>3, <2>2, <2>3
    <3> QED BY <2>3, <2>7, <3>1
  <2>12. ~(index * CHUNK_PLAINTEXT >= Len(W))
    BY <1>1, <1>5, <1>7
  <2>13. SubSeq(file, at + 1 + m, Len(file)) = Rests(W)[index + 1]
    BY <2>4, <2>7, <2>9
  <2> QED BY <1>1, <2>1, <2>2, <2>9, <2>10, <2>11, <2>12, <2>13
<1> QED BY <1>1, <1>5, <1>6, <1>7

(* A reader that finds the file cut short keeps it.                         *)
LEMMA NoEofStep ==
    ASSUME FileInv, status = "reading", NoEofFrame, UNCHANGED <<recs, file, damage>>
    PROVE  FileInv'
<1>1. at > Len(file) /\ status' = "refused" /\ UNCHANGED <<at, index, plain, got>>
  BY DEF NoEofFrame, Refuse
<1>2. damage # 0
  <2> SUFFICES ASSUME damage = 0 PROVE FALSE
    OBVIOUS
  <2>1. at <= Len(file)
    BY IntactCells
  <2>2. Len(file) \in Nat /\ at \in Nat
    BY LenProperties DEF FileInv, MadeOfChunks, TypeOK
  <2> QED BY <1>1, <2>1, <2>2
<1>3. TypeOK' /\ MadeOfChunks' /\ OpenedChunks'
  BY <1>1 DEF FileInv, TypeOK, MadeOfChunks, OpenedChunks
<1> QED BY <1>1, <1>2, <1>3 DEF FileInv, AcceptedIsWritten, IntactAhead

(* A reader that finds the end marker keeps it.                             *)
LEMMA EofStep ==
    ASSUME FileInv, status = "reading", EofFrame, UNCHANGED <<recs, file, damage>>
    PROVE  FileInv'
<1>1. PICK W : W = stream(recs) /\ W \in Seq(Nat) /\ Len(W) \in Nat /\ recs \in RecordLists
  BY StreamIsSeq DEF FileInv, TypeOK
<1>2. index \in Nat /\ index * CHUNK_PLAINTEXT \in Nat
  BY <1>1, ChunkBounds DEF FileInv, TypeOK
<1>3. PICK l : l = LeastOf(index * CHUNK_PLAINTEXT, Len(W)) /\ l \in 0 .. Len(W)
  BY <1>1, <1>2 DEF LeastOf
<1>4. parse_cth1(plain) = IF l = Len(W) THEN Parsed(recs) ELSE Malformed
  <2>1. plain = SubSeq(W, 1, l)
    BY <1>1, <1>3 DEF FileInv, OpenedChunks
  <2> QED BY <1>1, <1>3, <2>1, StreamReadBack
<1>5. UNCHANGED <<recs, file, damage, at, index, plain>> /\ LengthHere(0)
  BY DEF EofFrame, Refuse
<1>6. status' \in {"accepted", "refused"} /\ (status' = "accepted" => got' = recs)
  <2>1. CASE status' = "accepted"
    <3>1. parse_cth1(plain).ok /\ got' = parse_cth1(plain).recs
      BY <2>1 DEF EofFrame, Refuse
    <3>2. parse_cth1(plain) = Parsed(recs)
      BY <1>4, <3>1 DEF Malformed
    <3> QED BY <2>1, <3>1, <3>2 DEF Parsed
  <2>2. CASE status' # "accepted"
    BY <2>2 DEF EofFrame, Refuse
  <2> QED BY <2>1, <2>2
<1>7. damage = 0 => status' = "accepted"
  <2> SUFFICES ASSUME damage = 0 PROVE status' = "accepted"
    OBVIOUS
  <2>1. index * CHUNK_PLAINTEXT >= Len(W)
    <3> SUFFICES ASSUME index * CHUNK_PLAINTEXT < Len(W) PROVE FALSE
      BY <1>1, <1>2
    <3>1. file[at] = Length(Len(Text(W, index)) + OVERHEAD)
      BY <1>1, IntactCells
    <3>2. Len(Text(W, index)) \in 1 .. CHUNK_PLAINTEXT
      BY <1>1, <1>2, TextFacts
    <3>3. Len(Text(W, index)) + OVERHEAD # 0
      BY <3>2, FileAssumption
    <3> QED BY <1>5, <3>1, <3>3 DEF LengthHere, Length
  <2>2. at = Len(file)
    BY <1>1, <2>1, IntactCells
  <2>3. l = Len(W)
    BY <1>1, <1>2, <1>3, <2>1 DEF LeastOf
  <2>4. parse_cth1(plain).ok /\ parse_cth1(plain).recs = recs
    BY <1>4, <2>3 DEF Parsed
  <2>5. phase_ok(3, Types(recs))
    BY HistoriesAssumption DEF FileInv, TypeOK
  <2> QED BY <2>2, <2>4, <2>5 DEF EofFrame
<1>8. TypeOK' /\ MadeOfChunks' /\ OpenedChunks'
  BY <1>5, <1>6 DEF FileInv, TypeOK, MadeOfChunks, OpenedChunks
<1>9. IntactAhead'
  BY <1>5, <1>7 DEF IntactAhead
<1> QED BY <1>5, <1>6, <1>8, <1>9 DEF FileInv, AcceptedIsWritten

(* A reader that opens a chunk, or cannot, keeps it.                        *)
LEMMA ChunkStep ==
    ASSUME FileInv, status = "reading", Chunk, UNCHANGED <<recs, file, damage>>
    PROVE  FileInv'
<1>1. PICK W : W = stream(recs) /\ W \in Seq(Nat) /\ Len(W) \in Nat
  BY StreamIsSeq DEF FileInv, TypeOK
<1>2. PICK S : S = Cells(W) /\ file \in Seq(S)
  BY <1>1 DEF FileInv, MadeOfChunks
<1>3. /\ index \in Nat /\ Len(file) \in Nat /\ at \in 2 .. Len(file) + 1 /\ at <= Len(file)
      /\ index * CHUNK_PLAINTEXT \in Nat
  <2>1. Len(file) \in Nat
    BY <1>2, LenProperties
  <2>2. index \in Nat /\ at \in 2 .. Len(file) + 1 /\ at <= Len(file)
    BY DEF FileInv, TypeOK, Chunk
  <2> QED BY <1>1, <2>1, <2>2, ChunkBounds
<1>4. PICK n \in 1 .. MAX_SEALED_CHUNK + 1 :
        /\ LengthHere(n)
        /\ IF LengthIsLegal(n) /\ Opens(n)
           THEN /\ at' = at + 1 + n
                /\ index' = index + 1
                /\ plain' = plain \o file[at + 1].plain
                /\ UNCHANGED <<status, got>>
           ELSE Refuse
  BY DEF Chunk
<1>5. n \in Nat \ {0}
  BY FileAssumption DEF MAX_SEALED_CHUNK
<1> DEFINE intact == index * CHUNK_PLAINTEXT < Len(W)
           t == Text(W, index)
           m == Len(t) + OVERHEAD
<1>6. ASSUME damage = 0
      PROVE  /\ n = m /\ LengthIsLegal(n) /\ Opens(n)
             /\ SubSeq(file, at + 1 + n, Len(file)) = Rests(W)[index + 1]
  <2>1. intact
    <3> SUFFICES ASSUME index * CHUNK_PLAINTEXT >= Len(W) PROVE FALSE
      BY <1>1, <1>3
    <3>1. file[at] = Length(0)
      BY <1>1, <1>6, IntactCells
    <3> QED BY <1>4, <1>5, <3>1 DEF LengthHere, Length
  <2>2. /\ file[at] = Length(m) /\ at + m <= Len(file)
        /\ \A k \in 1 .. m : file[at + k] = SealedByte(index, t, k)
        /\ SubSeq(file, at + 1 + m, Len(file)) = Rests(W)[index + 1]
    BY <1>1, <1>6, <2>1, IntactCells
  <2>3. n = m
    BY <1>4, <2>2 DEF LengthHere, Length
  <2>4. Len(t) \in 1 .. CHUNK_PLAINTEXT
    BY <1>1, <1>3, <2>1, TextFacts
  <2>5. LengthIsLegal(n)
    BY <2>3, <2>4, FileAssumption DEF LengthIsLegal, MAX_SEALED_CHUNK
  <2> HIDE DEF t
  <2>6. file[at + 1] = SealedByte(index, t, 1)
    <3>1. 1 \in 1 .. m
      BY <1>5, <2>3
    <3> QED BY <2>2, <3>1
  <2>7. Part(at + 1, at + n) = Sealed(index, t)
    <3> DEFINE q == SubSeq(file, at + 1, at + n)
    <3>1. at + 1 \in 1 .. Len(file) + 1 /\ at + n \in 0 .. Len(file)
      BY ONLY <1>3, <1>5, <2>2, <2>3
    <3>2. /\ q \in Seq(S)
          /\ Len(q) = IF at + 1 <= at + n THEN (at + n) - (at + 1) + 1 ELSE 0
          /\ \A k \in 1 .. (at + n) - (at + 1) + 1 : q[k] = file[(at + 1) + k - 1]
      BY ONLY <1>2, <3>1, PartOf
    <3> HIDE DEF q
    <3>3. Len(q) = n /\ (at + n) - (at + 1) + 1 = n
      BY <1>3, <1>5, <3>2
    <3>4. ASSUME NEW k \in 1 .. n PROVE q[k] = SealedByte(index, t, k)
      <4>1. (at + 1) + k - 1 = at + k
        BY <1>3, <1>5
      <4> QED BY <2>2, <2>3, <3>2, <3>3, <4>1
    <3>5. q = [k \in 1 .. n |-> q[k]]
      BY <3>2, <3>3, LenProperties
    <3>6. q = [k \in 1 .. n |-> SealedByte(index, t, k)]
      BY <3>4, <3>5
    <3> QED BY <2>3, <3>6 DEF q, Part, Sealed
  <2>8. Opens(n)
    BY <2>2, <2>3, <2>6, <2>7 DEF Opens, SealedByte
  <2> QED BY <2>2, <2>3, <2>5, <2>8 DEF t
<1>7. CASE ~(LengthIsLegal(n) /\ Opens(n))
  <2>1. status' = "refused" /\ UNCHANGED <<at, index, plain, got>>
    BY <1>4, <1>7 DEF Refuse
  <2>2. damage # 0
    BY <1>6, <1>7
  <2>3. TypeOK' /\ MadeOfChunks' /\ OpenedChunks'
    BY <2>1 DEF FileInv, TypeOK, MadeOfChunks, OpenedChunks
  <2> QED BY <2>1, <2>2, <2>3 DEF FileInv, AcceptedIsWritten, IntactAhead
<1>8. CASE LengthIsLegal(n) /\ Opens(n)
  <2>1. /\ at' = at + 1 + n /\ index' = index + 1 /\ plain' = plain \o file[at + 1].plain
        /\ UNCHANGED <<status, got>>
    BY <1>4, <1>8
  <2>2. /\ at + n <= Len(file) /\ file[at + 1].kind = "sealed"
        /\ Part(at + 1, at + n) = Sealed(index, file[at + 1].plain)
    BY <1>8 DEF Opens
  <2>3. at + 1 \in 1 .. Len(file) /\ at + 1 + n \in 2 .. Len(file) + 1
    BY ONLY <1>3, <1>5, <2>2
  <2>4. PICK ix \in Nat, k \in Nat :
           ix * CHUNK_PLAINTEXT < Len(W) /\ file[at + 1] = SealedByte(ix, Text(W, ix), k)
    <3>1. file[at + 1] \in Cells(W)
      BY <1>2, <2>3, ElementOfSeq
    <3>2. file[at + 1] \in SealedBytes(W)
      <4>1. file[at + 1] # Header
        BY <2>2 DEF Header
      <4>2. file[at + 1] \notin Lengths
        <5>1. \A c \in Lengths : c.kind = "length"
          BY DEF Lengths, Length
        <5> QED BY <2>2, <5>1
      <4> QED BY <3>1, <4>1, <4>2 DEF Cells
    <3> QED BY <3>2 DEF SealedBytes
  <2>5. file[at + 1].index = index
    <3> DEFINE q == SubSeq(file, at + 1, at + n)
               u == file[at + 1].plain
    <3>1. at + 1 \in 1 .. Len(file) + 1 /\ at + n \in 0 .. Len(file)
      BY ONLY <1>3, <1>5, <2>2
    <3>2. \A j \in 1 .. (at + n) - (at + 1) + 1 : q[j] = file[(at + 1) + j - 1]
      BY ONLY <1>2, <3>1, PartOf
    <3>3. 1 \in 1 .. (at + n) - (at + 1) + 1 /\ (at + 1) + 1 - 1 = at + 1
      BY ONLY <1>3, <1>5
    <3>4. q[1] = file[at + 1]
      BY ONLY <3>2, <3>3
    <3>5. q = Sealed(index, u)
      BY <2>2 DEF Part
    <3>6. Len(u) \in Nat
      <4>1. u = Text(W, ix)
        BY <2>4 DEF SealedByte
      <4>2. Text(W, ix) \in Seq(Nat)
        BY <1>1, <2>4, TextFacts
      <4> QED BY <4>1, <4>2, LenProperties
    <3> HIDE DEF u, q
    <3>7. Sealed(index, u)[1] = SealedByte(index, u, 1)
      <4>1. 1 \in 1 .. Len(u) + OVERHEAD
        BY <3>6, FileAssumption
      <4> QED BY <4>1 DEF Sealed
    <3> QED BY <3>4, <3>5, <3>7 DEF SealedByte
  <2>6. intact /\ file[at + 1].plain = t
    <3>1. ix = index /\ file[at + 1].plain = Text(W, ix)
      BY <2>4, <2>5 DEF SealedByte
    <3> QED BY <2>4, <3>1
  <2>7. plain' = SubSeq(W, 1, LeastOf((index + 1) * CHUNK_PLAINTEXT, Len(W)))
    <3>1. plain = SubSeq(W, 1, LeastOf(index * CHUNK_PLAINTEXT, Len(W)))
      BY <1>1 DEF FileInv, OpenedChunks
    <3>2. SubSeq(W, 1, LeastOf(index * CHUNK_PLAINTEXT, Len(W))) \o t
            = SubSeq(W, 1, LeastOf((index + 1) * CHUNK_PLAINTEXT, Len(W)))
      BY <1>1, <1>3, <2>6, TextFacts
    <3> HIDE DEF t
    <3> QED BY <2>1, <2>6, <3>1, <3>2, Zenon
  <2>8. OpenedChunks'
    BY <1>1, <2>1, <2>7, Zenon DEF OpenedChunks
  <2>9. TypeOK'
    BY <1>3, <2>1, <2>3 DEF FileInv, TypeOK
  <2>10. MadeOfChunks'
    BY DEF FileInv, MadeOfChunks
  <2>11. IntactAhead'
    <3>1. CASE damage = 0
      <4>1. SubSeq(file, at', Len(file)) = Rests(W)[index']
        BY <1>6, <2>1, <3>1
      <4> QED BY <1>1, <2>1, <4>1 DEF FileInv, IntactAhead
    <3>2. CASE damage # 0
      BY <3>2 DEF IntactAhead
    <3> QED BY <3>1, <3>2
  <2> QED BY <2>1, <2>8, <2>9, <2>10, <2>11 DEF FileInv, AcceptedIsWritten
<1> QED BY <1>7, <1>8

(* Every step keeps it.                                                     *)
LEMMA FileStep == FileInv /\ [Next]_vars => FileInv'
<1> SUFFICES ASSUME FileInv, [Next]_vars PROVE FileInv'
  OBVIOUS
<1>1. CASE Suffer
  BY <1>1, SufferStep
<1>2. CASE StartReading
  <2>1. status = "stored" /\ status' = "reading"
        /\ UNCHANGED <<recs, file, damage, at, index, plain, got>>
    BY <1>2 DEF StartReading
  <2> QED BY <2>1 DEF FileInv, TypeOK, MadeOfChunks, OpenedChunks, AcceptedIsWritten,
                      IntactAhead
<1>3. CASE ReadFrame
  BY <1>3, NoEofStep, EofStep, ChunkStep DEF ReadFrame
<1>4. CASE UNCHANGED vars
  <2>1. UNCHANGED <<recs, file, damage, at, index, plain, status, got>>
    BY <1>4 DEF vars
  <2> QED BY <2>1 DEF FileInv, TypeOK, MadeOfChunks, OpenedChunks, AcceptedIsWritten,
                      IntactAhead
<1> QED BY <1>1, <1>2, <1>3, <1>4 DEF Next, Done

(* The invariant holds of every file at any time.                           *)
LEMMA FileIsSound == Spec => []FileInv
<1>1. Init => FileInv
  BY InitFile
<1>2. FileInv /\ [Next]_vars => FileInv'
  BY FileStep
<1> QED BY <1>1, <1>2, PTL DEF Spec

(* For every file and every damage: the reader of check_history_snapshot.py *)
(* has opened nothing but the beginning of the stream that seal_stream was  *)
(* given.                                                                   *)
THEOREM OpensOnlyTheBeginning == Spec => []OpenedIsPrefix
<1>1. FileInv => OpenedIsPrefix
  <2> SUFFICES ASSUME FileInv PROVE OpenedIsPrefix
    OBVIOUS
  <2>1. PICK W : W = stream(recs) /\ W \in Seq(Nat) /\ Len(W) \in Nat
    BY StreamIsSeq DEF FileInv, TypeOK
  <2>2. index * CHUNK_PLAINTEXT \in Nat
    BY <2>1, ChunkBounds DEF FileInv, TypeOK
  <2>3. PICK l : l = LeastOf(index * CHUNK_PLAINTEXT, Len(W)) /\ l \in 0 .. Len(W)
    BY <2>1, <2>2 DEF LeastOf
  <2>4. Len(SubSeq(W, 1, l)) = l
    BY <2>1, <2>3, Beginning
  <2>5. plain = SubSeq(W, 1, l)
    BY <2>1, <2>3 DEF FileInv, OpenedChunks
  <2> QED BY <2>1, <2>4, <2>5 DEF OpenedIsPrefix
<1> QED BY <1>1, FileIsSound, PTL

(* A file that the reader accepts holds exactly the records that were       *)
(* written, although neither the lengths nor the end are authenticated: an  *)
(* early end leaves a stream that parse_cth1 refuses.                       *)
THEOREM AcceptsOnlyTheWhole == Spec => []AcceptedIsWritten
<1>1. FileInv => AcceptedIsWritten
  BY DEF FileInv
<1> QED BY <1>1, FileIsSound, PTL

(* No undamaged file is refused, whatever its length, the size of a chunk   *)
(* and where its records cross from one chunk into the next.                *)
THEOREM RefusesOnlyTheDamaged == Spec => []IntactIsAccepted
<1>1. FileInv => IntactIsAccepted
  <2> SUFFICES ASSUME FileInv, status = "refused" PROVE damage > 0
    BY DEF IntactIsAccepted
  <2>1. damage # 0
    BY DEF FileInv, IntactAhead
  <2>2. damage \in Nat
    BY FileAssumption DEF FileInv, TypeOK
  <2> QED BY <2>1, <2>2
<1> QED BY <1>1, FileIsSound, PTL

(* The reader stays within the file and the damage within its bound. *)
THEOREM FileTypes == Spec => []TypeOK
<1>1. FileInv => TypeOK
  BY DEF FileInv
<1> QED BY <1>1, FileIsSound, PTL

=============================================================================
