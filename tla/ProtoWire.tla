----------------------------- MODULE ProtoWire -----------------------------
(***************************************************************************)
(* Protobuf as this repository writes and reads it by hand: varints and    *)
(* fields in scripts/gen_history_snapshot_vectors.py, and the varint       *)
(* reader of conformance/check_history_snapshot.py.  Decode stands for     *)
(* protoc and the clients' decoders (external).                            *)
(***************************************************************************)
EXTENDS Naturals, Sequences

CONSTANTS
    LOW,        \* values the low bits of a varint byte take (128)
    WORD        \* values of an integer (2^64)

ASSUME WireAssumption == LOW \in Nat \ {0, 1} /\ WORD \in Nat \ {0}

Least(a, b) == IF a < b THEN a ELSE b

Cut == <<256>>    \* not the result of any walk: this one ran past the end

-----------------------------------------------------------------------------
(* Mutant: a value of exactly LOW is put into one byte. *)
varintShort(n) ==
    LET from[m \in Nat] == IF m <= LOW THEN <<m>> ELSE <<(m % LOW) + LOW>> \o from[m \div LOW]
    IN  from[n % WORD]

varint(n) ==
    LET from[m \in Nat] == IF m < LOW THEN <<m>> ELSE <<(m % LOW) + LOW>> \o from[m \div LOW]
    IN  from[n % WORD]

VARINT == 0
BYTES == 2

WireKey(field, wire) == varint(field * 8 + wire)
p_varint(field, value) == WireKey(field, VARINT) \o varint(value)
p_bytes(field, value) == WireKey(field, BYTES) \o varint(Len(value)) \o value

-----------------------------------------------------------------------------
(* The varint at i: its value and where it ends, or Cut.  High bits beyond a *)
(* WORD count as WORD, which is past the end of anything.                   *)
Varint(p, i) ==
    LET from[j \in Nat] ==
            IF j > Len(p) THEN Cut
            ELSE IF p[j] < LOW THEN <<p[j], j>>
            ELSE LET rest == from[j + 1]
                 IN  IF rest = Cut THEN Cut ELSE <<(p[j] % LOW) + LOW * Least(rest[1], WORD), rest[2]>>
    IN  from[i]

Field(number, wire, value) == [number |-> number, wire |-> wire, value |-> value]

(* No field has number 0: what is cut short decodes to this one. *)
CutShort == <<Field(0, VARINT, 0)>>
IsCutShort(fields) == fields # <<>> /\ fields[1].number = 0

(* The fields of a message, in the order they come. *)
Decode(p) ==
    LET from[i \in Nat] ==
            LET k == Varint(p, i)
                n == Varint(p, k[2] + 1)
                isBytes == k[1] % 8 = BYTES
                end == IF isBytes THEN n[2] + n[1] ELSE n[2]
                value == IF isBytes THEN SubSeq(p, n[2] + 1, end) ELSE n[1]
            IN  IF i > Len(p) THEN <<>>
                ELSE IF k = Cut \/ (k # Cut /\ n = Cut) THEN CutShort
                ELSE IF end > Len(p) \/ IsCutShort(from[end + 1]) THEN CutShort
                ELSE <<Field(k[1] \div 8, k[1] % 8, value)>> \o from[end + 1]
    IN  from[1]

=============================================================================
