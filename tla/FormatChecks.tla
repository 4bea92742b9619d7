---------------------------- MODULE FormatChecks ----------------------------
(***************************************************************************)
(* The formats of this repository that are written by one program and read *)
(* by another, each on every input up to a bound.  Some inputs grow piece  *)
(* by piece: a CTH1 stream, the record types of two phases, the fields of  *)
(* a MediaBlob, the bytes of a sticker's text.  The others are picked at   *)
(* the start: records, contact cards, invites, pairs of signed statements, *)
(* and the cases of the transport route, which both platforms replay.      *)
(***************************************************************************)
EXTENDS HistoryStream, HistoryMedia, HistoryRecords, ContactCard, Invite, SignedBytes, StickerText,
        TransportRouteCases

CONSTANTS
    StreamBytes,    \* bytes streams are made of
    MaxStream,      \* bound: bytes of a stream
    RecordTypes,    \* record types phases are made of, an unknown one (9) included
    MaxRecords,     \* bound: records of two streams together
    FieldNumbers,   \* numbers of a MediaBlob's fields, one it does not have (4) included
    MaxBlob,        \* bound: fields of a MediaBlob
    TextBytes,      \* bytes a sticker's text is made of
    MaxText,        \* bound: bytes of a sticker's text
    EdgeNumbers,      \* numbers at the edges of a varint's bytes
    EdgeLengths         \* lengths of fields, at the edges of a varint's bytes

VARIABLES
    subject,    \* what is written
    data,       \* the bytes, the fields or the value; phases: the record types of a stream
    second      \* phases: the record types of the stream after it; signed: another statement

inputs == <<subject, data, second>>

-----------------------------------------------------------------------------
(* The inputs that are picked.                                              *)
RecordInputs == [name : DOMAIN encode, x : EdgeNumbers, n : EdgeLengths]

(* Cards with fields that are there, absent or of a wrong length.           *)
CardInputs ==
    {Card(k, a, g) : k \in {OfLength(n) : n \in {0, 1, LOW - 1} \cup KEY_LEN - 2 .. KEY_LEN + 1},
                     a \in {<<>>, ADDR}, g \in EdgeNumbers}

(* Texts of digits and bars, which look like other parts of the string that *)
(* is signed.                                                               *)
Texts == {<<>>, <<DIGIT + 1>>, <<DIGIT + 4, DIGIT + 1>>, <<DIGIT + 4, BAR>>, <<DIGIT + 1, BAR, DIGIT>>}
Stamps == {0, STAMP, STAMP * STAMP - 1}
Lives == {0, 12}
Hexes == {Hex(1, "lower"), Hex(1, "upper"), Hex(2, "lower")}
LowerHexes == {Hex(1, "lower"), Hex(2, "lower")}
InviteInputs ==
    [v : {V5}, jti : Hexes, uuid : {Hex(1, "lower"), Hex(2, "upper")}, device_id : LowerHexes,
     server : Texts, ts : Stamps, un : Texts, ttl : Lives, addr : LowerHexes]

(* Invites that say something else: other texts and numbers, or another id. *)
Reworded(f) ==
    [v : {f.v}, jti : {f.jti}, uuid : {f.uuid}, device_id : {f.device_id},
     server : Texts, ts : Stamps, un : Texts, ttl : Lives, addr : {f.addr}]
Renamed(f) ==
    {[f EXCEPT !.jti = h] : h \in Hexes} \cup {[f EXCEPT !.uuid = h] : h \in Hexes}
    \cup {[f EXCEPT !.device_id = h] : h \in LowerHexes}
    \cup {[f EXCEPT !.addr = h] : h \in LowerHexes}
AlteredOf(f) == Reworded(f) \cup Renamed(f)

(* Values of a MediaBlob's fields: none, bytes that look like the fields    *)
(* that may come (the key of the blob and a length), and one whose length   *)
(* takes two bytes.                                                         *)
FieldValues == {<<>>, <<26>>, <<26, 0>>, Bytes(LOW)}
BlobFieldInputs == {Field(m, BYTES, v) : m \in FieldNumbers, v \in FieldValues}

(* Statements whose fixed fields differ in at most two places from the      *)
(* first; the texts of a sender certificate take every value.               *)
Fixed(kind, names) ==
    {[n \in names \cup {"kind"} |-> IF n = "kind" THEN kind ELSE IF n \in ones THEN 1 ELSE 0] :
        ones \in {S \in SUBSET names : \A a, b, c \in S : a = b \/ b = c \/ a = c}}

Letters == {<<>>, <<1>>, <<2>>}
SenderCerts ==
    [kind : {"sender_cert"}, key : {0}, user_id : Letters, domain : Letters,
     identity_key : Letters, device_id : Letters, issued_at : {0, 1}, expires_at : {1}]

ServerSignatures ==
    [kind : {"server_signature"}, user_id : Letters, domain : Letters, identity_key : {0, 1},
     device_id : Letters, issued_at : {0, 1}, expires_at : {1}]

Openings ==
    {s \in {[r EXCEPT !.typ = t] : t \in {2, 3},
               r \in Fixed("opening", {"sender_eph", "typ", "payload_len", "sender_identity",
                        "sender_hybrid", "snapshot_id", "sender_id", "receiver_id",
                        "kyber_key_id", "kem_ct"})} :
        s.snapshot_id = SnapshotOf(s.typ, s.snapshot_id)}

Statements ==
    SenderCerts \cup ServerSignatures
    \cup Fixed("kt_head", {"key", "tree_size", "root_hash"})
    \cup [kind : {"delegation"}, key : {0, 1}, purpose : DOMAIN PURPOSE, not_before : {0, 1},
          not_after : {1, 2}]
    \cup Fixed("device_cert", {"signer", "identity", "verifying", "hybrid", "issued_at"})
    \cup Fixed("link_proof", {"identity", "hybrid"})
    \cup Openings
    \cup Fixed("reply", {"receiver_eph", "sender_eph", "receiver_identity", "receiver_hybrid",
                         "snapshot_id", "sender_id", "receiver_id", "kem_ct"})
    \cup Fixed("cthf", {"user_id", "recipient", "source", "snapshot_id", "sender_eph",
                        "sender_identity", "sender_hybrid", "kyber_key_id", "kem_ct"})

-----------------------------------------------------------------------------
PickInput ==
    \/ /\ second = <<>>
       /\ \/ subject = "stream" /\ data \in {<<>>, <<MAGIC>>, <<VERSION, VERSION>>,
                                             <<MAGIC, VERSION>>, <<MAGIC, 2>>}
          \/ subject \in {"phases", "blob", "text"} /\ data = <<>>
          \/ subject = "record" /\ data \in RecordInputs
          \/ subject = "card" /\ data \in CardInputs
          \/ subject = "invite" /\ data \in InviteInputs
          \/ subject = "route" /\ data \in Cases
    \/ subject = "signed" /\ data \in Statements /\ second \in Statements

WriteStream(b) ==
    /\ subject = "stream" /\ Len(data) < MaxStream
    /\ data' = Append(data, b) /\ UNCHANGED <<subject, second>>

WritePhase(t) ==
    /\ subject = "phases" /\ Len(data) + Len(second) < MaxRecords
    /\ \/ data' = Append(data, t) /\ UNCHANGED second
       \/ second' = Append(second, t) /\ UNCHANGED data
    /\ UNCHANGED subject

WriteBlob(f) ==
    /\ subject = "blob" /\ Len(data) < MaxBlob
    /\ data' = Append(data, f) /\ UNCHANGED <<subject, second>>

WriteText(b) ==
    /\ subject = "text" /\ Len(data) < MaxText
    /\ data' = Append(data, b) /\ UNCHANGED <<subject, second>>

WriteMore ==
    \/ \E b \in StreamBytes : WriteStream(b)
    \/ \E t \in RecordTypes : WritePhase(t)
    \/ \E f \in BlobFieldInputs : WriteBlob(f)
    \/ \E b \in TextBytes : WriteText(b)

Inputs == PickInput /\ [][WriteMore]_inputs

-----------------------------------------------------------------------------
(* A stream has one reading and a list of records one writing: what         *)
(* parse_cth1 accepts is byte for byte what the generator writes for the    *)
(* records it found, and no record is over the cap.                         *)
OneWriting ==
    LET p == parse_cth1(data) IN
    subject = "stream" /\ p.ok =>
        /\ stream(p.recs) = data
        /\ \A k \in DOMAIN p.recs : Len(p.recs[k].payload) <= MAX_RECORD_BYTES

(* A stream that is cut short is never taken for a whole one, wherever it   *)
(* is cut: no stream that parse_cth1 accepts begins another.  The sealed    *)
(* file relies on it, since its end marker is not authenticated.            *)
NoStreamBeginsAnother ==
    subject = "stream" /\ parse_cth1(data).ok =>
        \A n \in 0 .. Len(data) - 1 : ~parse_cth1(SubSeq(data, 1, n)).ok

(* The payloads of the records of some types, and the types of a list that  *)
(* are among some, in their order.                                          *)
PayloadsOf(recs, types) ==
    LET from[k \in Nat] ==
            IF k > Len(recs) THEN <<>>
            ELSE (IF recs[k].type \in types THEN <<recs[k].payload>> ELSE <<>>) \o from[k + 1]
    IN  from[1]

Kept(list, types) ==
    LET from[k \in Nat] ==
            IF k > Len(list) THEN <<>>
            ELSE (IF list[k] \in types THEN <<list[k]>> ELSE <<>>) \o from[k + 1]
    IN  from[1]

(* The three walks over a stream - parse_cth1, the generator's              *)
(* parse_record_types and media_payloads - see the same records.            *)
WalksAgree ==
    LET p == parse_cth1(data) IN
    subject = "stream" /\ p.ok =>
        /\ parse_record_types(data) = Append(Types(p.recs), RT_END)
        /\ media_payloads(data) = PayloadsOf(p.recs, MEDIA_TYPES)

(* A history travels as one file (phase 3) or as a transcript (phase 1)     *)
(* followed by its media (phase 2), and either way can be made of the       *)
(* other: a transcript and the media that follow it make a legal file, and  *)
(* a legal file with its media taken out leaves a legal transcript and a    *)
(* legal second phase.                                                      *)
PhasesMakeAFile ==
    subject = "phases" =>
        /\ phase_ok(1, data) /\ phase_ok(2, second) => phase_ok(3, data \o Tail(second))
        /\ phase_ok(3, data) =>
              /\ phase_ok(1, Kept(data, Nat \ MEDIA_TYPES))
              /\ phase_ok(2, <<RT_MANIFEST>> \o Kept(data, MEDIA_TYPES))

(* media_fields_in_order accepts a MediaBlob exactly when the fields that   *)
(* were written go up in number - so media_id, mime_type and blob come at   *)
(* most once, and what is left after the blob is neither of the others.     *)
(* The values of the fields do not matter: not when they look like fields   *)
(* themselves, and not when a length takes two bytes.  A number that the    *)
(* message does not have is accepted after the blob.                        *)
BlobCanBeStreamed ==
    subject = "blob" =>
        (media_fields_in_order(Encoded(data)) <=>
            \A i, j \in DOMAIN data : i < j => data[i].number < data[j].number)

(* A decoder that follows the proto files reads every record the generator  *)
(* writes, whatever the size of its numbers and values: the same fields in  *)
(* the same order, each declared under its number and wire type.  The media *)
(* record can be streamed, and the one with its blob first is refused.      *)
RecordsFollowSchema ==
    subject = "record" =>
        LET fields == Written(data.name, data.x, data.n) IN
        /\ Decode(Encoded(fields)) = fields
        /\ \A k \in DOMAIN fields :
              fields[k].number \in IF fields[k].wire = VARINT THEN Declared[data.name].varint
                                   ELSE Declared[data.name].bytes
        /\ data.name = "media" => media_fields_in_order(Encoded(fields))
        /\ data.name = "media_blob_first" => ~media_fields_in_order(Encoded(fields))

(* A card is read as it was written: whatever fields it has, it is not      *)
(* taken for the bare key of an older build, nor a bare key for a card, and *)
(* its generation is read whole.  A field of a wrong length is left out and *)
(* the rest is read, unless the payload is as long as a bare key.  The      *)
(* vectors read as they say.                                                *)
CardIsReadBack ==
    subject = "card" =>
        LET whole == Len(data.intake_key) \in {0, KEY_LEN}
            read == ReadCard(Payload(data))
        IN  /\ whole => read = data
            /\ ~whole /\ Len(Payload(data)) # KEY_LEN => read = [data EXCEPT !.intake_key = <<>>]
            /\ \A c \in CardCases : ReadCard(c.payload) = c.reads

(* Whoever scans an invite can check its signature: the fields in the       *)
(* binary make the string that was signed, in whichever case jti and uuid   *)
(* were written.  A binary that is cut short anywhere, longer, or of        *)
(* another version is refused.  And no field changes unnoticed: with the    *)
(* signature of an invite whose server and username have no bar, no invite  *)
(* verifies that says something else, bars or not.  (With a bar in one of   *)
(* them another invite may be the same string.)                             *)
InviteVerifies ==
    subject = "invite" =>
        LET b == derive(data).binary IN
        /\ Verifies(b) /\ canonical(ReadInvite(b).fields) = derive(data).canonical
        /\ \A n \in 0 .. Len(b) - 1 : ~ReadInvite(SubSeq(b, 1, n)).ok
        /\ \A r \in RefusedOf(b) : ~ReadInvite(r).ok
        /\ HasNoBar(data.server) /\ HasNoBar(data.un) =>
              \A g \in AlteredOf(data) :
                 Verifies(binary(g, derive(data).signature)) => AsRead(g) = AsRead(data)

(* Two statements a key signs with the same bytes.  server_signature is     *)
(* made by the server's Ed25519 key, the others by hybrid keys.             *)
ShareASignature(s, t) ==
    (s.kind = "server_signature" <=> t.kind = "server_signature") /\ Signed(s) = Signed(t)

(* Two certificates in server_signature's layout whose texts end elsewhere. *)
CutDifferently(s, t) ==
    /\ s.kind = "server_signature" /\ t.kind = "server_signature"
    /\ \/ Len(s.user_id) # Len(t.user_id)
       \/ Len(s.domain) # Len(t.domain)
       \/ Len(s.device_id) # Len(t.device_id)

(* A signature is for one statement: two statements with the same signed    *)
(* bytes are of the same kind and agree in every field - so a frame says    *)
(* nothing that its signature does not cover.  Except in server_signature,  *)
(* where a letter can move from one text to the next: there the bytes tell  *)
(* certificates apart only when their texts have the same lengths.          *)
SignedBytesTellApart ==
    subject = "signed" /\ ShareASignature(data, second) =>
        data = second \/ CutDifferently(data, second)

(* The sticker checks see the bytes that are there: unescape gives back the *)
(* bytes that protoc printed, also when an escaped byte is followed by one  *)
(* that prints as a digit, and what esc writes reads the same.              *)
StickerTextIsReadBack ==
    subject = "text" =>
        unescape(TextOf(Escaped, data)) = data /\ unescape(TextOf(esc, data)) = data

(* The reducer that TransportSystem runs is the one the table pins: every   *)
(* case ends as the table says, in its state and in the order of its last   *)
(* effects.                                                                 *)
Conforms ==
    subject = "route" => Ending(data) = Out(data.wantState, data.wantEffects)

=============================================================================
