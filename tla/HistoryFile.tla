----------------------------- MODULE HistoryFile -----------------------------
(***************************************************************************)
(* A CTHF history file from its writer to its reader, over storage that    *)
(* may cut, lose, repeat or exchange parts of it.  seal_stream cuts a CTH1 *)
(* stream into chunks and seals each with its index; a length precedes     *)
(* every chunk and a length of zero ends the file.  The lengths, the zero  *)
(* included, are not authenticated.  chunk_frames says which framings a    *)
(* reader takes.                                                           *)
(*                                                                         *)
(* A file is a sequence of cells: the header (signed; its bytes are        *)
(* another matter), a length, or one byte of a sealed chunk.  Sealing is   *)
(* ideal: a chunk opens only whole and at the index it was sealed for.     *)
(***************************************************************************)
EXTENDS HistoryStream

CONSTANTS
    CHUNK_PLAINTEXT,    \* bytes of the stream in one chunk
    OVERHEAD,           \* nonce and tag
    Histories,          \* the lists of records that are written
    MaxDamage           \* bound: how often the storage damages the file of each

ASSUME FileAssumption ==
    /\ {CHUNK_PLAINTEXT, OVERHEAD} \subseteq Nat \ {0} /\ MaxDamage \in [Histories -> Nat]

(* What a writer is given: records of payloads within the cap, in an order  *)
(* that is legal in a file.                                                 *)
ASSUME HistoriesAssumption ==
    \A h \in Histories :
        /\ h \in Seq([type : 1 .. BASE - 1, payload : Seq(0 .. BASE - 1)])
        /\ \A k \in DOMAIN h : Len(h[k].payload) <= MAX_RECORD_BYTES
        /\ phase_ok(3, Types(h))

MAX_SEALED_CHUNK == CHUNK_PLAINTEXT + OVERHEAD

VARIABLES
    recs,       \* history: the records that were written
    file,       \* the file as stored
    damage,     \* how often it was damaged
    at,         \* the reader: the next cell
    index,      \* the reader: chunks opened
    plain,      \* the reader: the stream they held
    status,     \* stored, reading, accepted or refused
    got         \* the records the reader accepted

vars == <<recs, file, damage, at, index, plain, status, got>>
reader == <<at, index, plain, status, got>>

-----------------------------------------------------------------------------
Header == [kind |-> "header"]
Length(n) == [kind |-> "length", n |-> n]
SealedByte(ix, text, k) == [kind |-> "sealed", index |-> ix, plain |-> text, k |-> k]

(* A sealed chunk is OVERHEAD bytes longer than its text. *)
Sealed(ix, text) == [k \in 1 .. Len(text) + OVERHEAD |-> SealedByte(ix, text, k)]

LeastOf(a, b) == IF a < b THEN a ELSE b

seal_stream(plaintext) ==
    LET ChunkText(ix) == SubSeq(plaintext, ix * CHUNK_PLAINTEXT + 1,
                                LeastOf((ix + 1) * CHUNK_PLAINTEXT, Len(plaintext)))
        from[ix \in Nat] ==
            IF ix * CHUNK_PLAINTEXT >= Len(plaintext) THEN <<Length(0)>>
            ELSE <<Length(Len(ChunkText(ix)) + OVERHEAD)>>
                   \o Sealed(ix, ChunkText(ix)) \o from[ix + 1]
    IN  from[0]

TypeOK ==
    /\ recs \in Histories
    /\ damage \in 0 .. MaxDamage[recs]
    /\ at \in 2 .. Len(file) + 1 /\ index \in Nat
    /\ status \in {"stored", "reading", "accepted", "refused"}

Init ==
    /\ recs \in Histories
    /\ file = <<Header>> \o seal_stream(stream(recs))
    /\ damage = 0
    /\ at = 2 /\ index = 0 /\ plain = <<>> /\ status = "stored" /\ got = <<>>

-----------------------------------------------------------------------------
(* The storage: everything after the header may suffer.                     *)
Damage(new) ==
    /\ damage' = damage + 1
    /\ file' = new
    /\ UNCHANGED <<recs, reader>>

Part(i, j) == SubSeq(file, i, j)
RestFrom(i) == SubSeq(file, i, Len(file))

Lose(i, j) == i <= j /\ Damage(Part(1, i - 1) \o RestFrom(j + 1))

Repeat(i, j) == i <= j /\ Damage(Part(1, j) \o RestFrom(i))

Exchange(i, j, k) ==
    i < j /\ j <= k /\ Damage(Part(1, i - 1) \o Part(j, k) \o Part(i, j - 1) \o RestFrom(k + 1))

OverwriteLength(i, n) == file[i].kind = "length" /\ Damage([file EXCEPT ![i] = Length(n)])

Suffer ==
    /\ status = "stored" /\ damage < MaxDamage[recs]
    /\ \E i, j \in 2 .. Len(file) :
          \/ Lose(i, j) \/ Repeat(i, j)
          \/ \E k \in 2 .. Len(file) : Exchange(i, j, k)
          \/ \E n \in 0 .. MAX_SEALED_CHUNK + 1 : i = j /\ OverwriteLength(i, n)

-----------------------------------------------------------------------------
StartReading ==
    /\ status = "stored"
    /\ status' = "reading"
    /\ UNCHANGED <<recs, file, damage, at, index, plain, got>>

Refuse == status' = "refused" /\ UNCHANGED <<at, index, plain, got>>

(* The length at the reader's place.  Bytes of a chunk may read as any.     *)
LengthHere(n) ==
    IF file[at].kind = "length" THEN n = file[at].n ELSE n \in 0 .. MAX_SEALED_CHUNK + 1

(* Mutant: the bound forgets nonce and tag. *)
LengthIsLegalBare(n) == n <= CHUNK_PLAINTEXT /\ n >= OVERHEAD + 1

(* Lengths a writer produces. *)
LengthIsLegal(n) == n <= MAX_SEALED_CHUNK /\ n >= OVERHEAD + 1

(* Mutant: the index is not part of what is sealed. *)
OpensAnywhere(n) ==
    /\ at + n <= Len(file) /\ file[at + 1].kind = "sealed"
    /\ Part(at + 1, at + n) = Sealed(file[at + 1].index, file[at + 1].plain)

(* The next n cells are one whole chunk, sealed for this place.             *)
Opens(n) ==
    /\ at + n <= Len(file) /\ file[at + 1].kind = "sealed"
    /\ Part(at + 1, at + n) = Sealed(index, file[at + 1].plain)

NoEofFrame == at > Len(file) /\ Refuse

(* The EOF frame: nothing may follow it, and the stream has to be whole.    *)
EofFrame ==
    LET p == parse_cth1(plain) IN
    /\ at <= Len(file) /\ LengthHere(0)
    /\ IF at = Len(file) /\ p.ok /\ (p.ok => phase_ok(3, Types(p.recs)))
       THEN status' = "accepted" /\ got' = p.recs /\ UNCHANGED <<at, index, plain>>
       ELSE Refuse

Chunk ==
    /\ at <= Len(file)
    /\ \E n \in 1 .. MAX_SEALED_CHUNK + 1 :
          /\ LengthHere(n)
          /\ IF LengthIsLegal(n) /\ Opens(n)
             THEN /\ at' = at + 1 + n
                  /\ index' = index + 1
                  /\ plain' = plain \o file[at + 1].plain
                  /\ UNCHANGED <<status, got>>
             ELSE Refuse

ReadFrame ==
    /\ status = "reading"
    /\ NoEofFrame \/ EofFrame \/ Chunk
    /\ UNCHANGED <<recs, file, damage>>

Done == status \in {"accepted", "refused"} /\ UNCHANGED vars

Next == Suffer \/ StartReading \/ ReadFrame \/ Done

Spec == Init /\ [][Next]_vars

-----------------------------------------------------------------------------
(* Whatever the storage does, what the reader has opened is the beginning   *)
(* of the stream that was written: a client that takes records in as they   *)
(* come never takes in one that was not there, or one out of its place.     *)
OpenedIsPrefix == plain = SubSeq(stream(recs), 1, Len(plain))

(* An accepted file holds the records that were written, all of them,       *)
(* although the end of the file is not authenticated.                       *)
AcceptedIsWritten == status = "accepted" => got = recs

(* The reader refuses nothing that a writer produces: chunks of exactly the *)
(* largest size, a last chunk of one byte, payloads across chunks.          *)
IntactIsAccepted == status = "refused" => damage > 0

=============================================================================
