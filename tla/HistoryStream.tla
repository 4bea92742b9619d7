---------------------------- MODULE HistoryStream ----------------------------
(***************************************************************************)
(* A CTH1 history stream: what scripts/gen_history_snapshot_vectors.py     *)
(* writes and how conformance/check_history_snapshot.py reads it.  A       *)
(* stream is the magic, a version, records (type, payload length, payload) *)
(* and End.  The code's numbers - a length of 8 bytes of 256 values, a cap *)
(* of 512 MiB - are constants; the four letters of the magic are one.      *)
(***************************************************************************)
EXTENDS Naturals, Sequences

CONSTANTS
    BASE,               \* values of a byte
    LEN_BYTES,          \* bytes of payload_len
    MAX_RECORD_BYTES    \* cap on payload_len

(* The weight of a byte that k others come before: BASE to the power k. *)
Place[k \in Nat] == IF k = 0 THEN 1 ELSE BASE * Place[k - 1]

ASSUME StreamAssumption ==
    /\ BASE \in Nat /\ BASE > 9
    /\ LEN_BYTES \in 1 .. 8
    /\ MAX_RECORD_BYTES \in 1 .. Place[LEN_BYTES] - 1

MAGIC == 67         \* "C", for the four letters
VERSION == 1

RT_END == 0
RT_MANIFEST == 1
RT_MESSAGE == 4
RT_REACTION == 5
MEDIA_TYPES == {8}

Rec(type, payload) == [type |-> type, payload |-> payload]
Malformed == [ok |-> FALSE]
Parsed(recs) == [ok |-> TRUE, recs |-> recs]

Types(recs) == [k \in DOMAIN recs |-> recs[k].type]

-----------------------------------------------------------------------------
(* The writer.                                                              *)
(* payload_len, least significant byte first. *)
PackLen(n) == [k \in 1 .. LEN_BYTES |-> (n \div Place[k - 1]) % BASE]

record(r) == <<r.type>> \o PackLen(Len(r.payload)) \o r.payload

stream(recs) ==
    LET upTo[n \in 0 .. Len(recs)] ==
            IF n = 0 THEN <<MAGIC, VERSION>> ELSE upTo[n - 1] \o record(recs[n])
    IN  Append(upTo[Len(recs)], RT_END)

-----------------------------------------------------------------------------
(* The reader.                                                              *)
UnpackLen(data, i) ==
    LET upTo[k \in 0 .. LEN_BYTES] ==
            IF k = 0 THEN 0 ELSE upTo[k - 1] + data[i + k - 1] * Place[k - 1]
    IN  upTo[LEN_BYTES]

(* Mutant: what follows End is not looked at. *)
EndsHereAnyway(data, i) == TRUE

(* End is the last byte. *)
EndsHere(data, i) == i = Len(data)

(* Mutant: no cap on the length. *)
FitsUncapped(data, i, plen) == i + plen - 1 <= Len(data)

(* A payload of this length starting at i is allowed and is all there. *)
Fits(data, i, plen) == plen <= MAX_RECORD_BYTES /\ i + plen - 1 <= Len(data)

(* Mutant: a stream may stop between two records. *)
NoEndIsFine == Parsed(<<>>)

(* The stream stops without End. *)
NoEnd == Malformed

(* parse_cth1: the records of a well-formed stream. *)
parse_cth1(data) ==
    LET from[i \in 1 .. Len(data) + 1] ==
            IF i > Len(data) THEN NoEnd
            ELSE IF data[i] = RT_END
            THEN IF EndsHere(data, i) THEN Parsed(<<>>) ELSE Malformed
            ELSE IF i + LEN_BYTES > Len(data) THEN Malformed
            ELSE LET plen == UnpackLen(data, i + 1)
                     at == i + 1 + LEN_BYTES
                 IN  IF ~Fits(data, at, plen) THEN Malformed
                     ELSE LET rest == from[at + plen]
                          IN  IF ~rest.ok THEN Malformed
                              ELSE Parsed(<<Rec(data[i], SubSeq(data, at, at + plen - 1))>>
                                            \o rest.recs)
    IN  IF /\ Len(data) >= 3 /\ data[1] = MAGIC /\ data[2] = VERSION
        THEN from[3] ELSE Malformed

(* struct.unpack_from stops the two walks below where the bytes of a length *)
(* are not all there: what they found until then, and no byte.              *)
StructError == <<BASE>>

(* The generator's own reader of the types, written a second time with no   *)
(* bounds check of its own; it is only called on streams the generator      *)
(* wrote.                                                                   *)
parse_record_types(data) ==
    LET from[i \in Nat] ==
            IF i > Len(data) THEN <<>>
            ELSE IF data[i] = RT_END THEN <<RT_END>>
            ELSE IF i + LEN_BYTES > Len(data) THEN StructError
            ELSE <<data[i]>> \o from[i + 1 + LEN_BYTES + UnpackLen(data, i + 1)]
    IN  from[3]

(* Mutant: the payload is taken to start at the last byte of its length. *)
PayloadAtOff(i) == i + LEN_BYTES

(* Where the payload of the record at i starts, and the next record.        *)
PayloadAt(i) == i + 1 + LEN_BYTES
NextRecord(data, i) == i + 1 + LEN_BYTES + UnpackLen(data, i + 1)

(* The payloads of the media records, walked a third time. *)
media_payloads(data) ==
    LET from[i \in Nat] ==
            IF i > Len(data) \/ data[i] = RT_END THEN <<>>
            ELSE IF i + LEN_BYTES > Len(data) THEN StructError
            ELSE (IF data[i] \in MEDIA_TYPES
                  THEN <<SubSeq(data, PayloadAt(i), NextRecord(data, i) - 1)>> ELSE <<>>)
                 \o from[NextRecord(data, i)]
    IN  from[3]

-----------------------------------------------------------------------------
(* The loop over seen_message: no reaction before the first message. *)
ReactionsFollow(rest) ==
    \A k \in DOMAIN rest : rest[k] = RT_REACTION =>
        \E j \in 1 .. k - 1 : rest[j] = RT_MESSAGE

(* Phase 1 is the transcript, 2 the media, 3 both; every other is refused.  *)
PhaseBody(phase, rest) ==
    CASE phase = 1 -> \A k \in DOMAIN rest : rest[k] \notin MEDIA_TYPES
      [] phase = 2 -> \A k \in DOMAIN rest : rest[k] \in MEDIA_TYPES
      [] phase = 3 -> TRUE
      [] OTHER -> FALSE

(* Mutant: only a file is asked for its order. *)
phase_okFileOnly(phase, types) ==
    /\ types # <<>> /\ Head(types) = RT_MANIFEST
    /\ PhaseBody(phase, Tail(types))
    /\ phase = 3 => ReactionsFollow(Tail(types))

(* The types of a stream, End left out, are legal in this phase. *)
phase_ok(phase, types) ==
    LET rest == Tail(types)
    IN  /\ types # <<>> /\ Head(types) = RT_MANIFEST
        /\ PhaseBody(phase, rest)
        /\ ReactionsFollow(rest)

=============================================================================
