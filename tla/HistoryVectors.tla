--------------------------- MODULE HistoryVectors ---------------------------
(***************************************************************************)
(* knst_history_snapshot.json between the program that writes it           *)
(* (scripts/gen_history_snapshot_vectors.py) and the program that checks   *)
(* it (conformance/check_history_snapshot.py), with hand edits in between. *)
(* A row is abstracted to what the check looks at: the record types its    *)
(* bytes hold, the types it lists, the phase it names, whether its         *)
(* MediaBlob fields are in order, and - as one flag - whether the lengths, *)
(* prefixes, keys and fields that its kind asks for are right; and to what *)
(* a client looks at: the phase in the manifest, the stream's own record.  *)
(***************************************************************************)
EXTENDS HistoryStream

CONSTANT MaxEdits   \* bound: edits by hand

VARIABLES
    rows,       \* the vectors, in the order of the file
    edits       \* how many edits were made

-----------------------------------------------------------------------------
(* The generator.                                                           *)
(* The phase of a row and the phase of its manifest are given separately,   *)
(* and agree in every row.                                                  *)
Row(id, kind, expect, phase, types, inOrder) ==
    [id |-> id, kind |-> kind, expect |-> expect, phase |-> phase, types |-> types,
     records |-> types, manifest |-> phase, inOrder |-> inOrder, layout |-> TRUE, from |-> 0]

Stream(id, expect, phase, types) == Row(id, "cth1_stream", expect, phase, types, TRUE)
Other(id, kind, expect) == Row(id, kind, expect, 0, <<>>, TRUE)

(* 1 manifest, 2 contact, 3 chat, 4 message, 5 reaction, 6 peer, 7 call,    *)
(* 8 media, 9 reserved.                                                     *)
StreamRows == <<
    Stream(1, "decode_ok", 1, <<1>>), Stream(2, "decode_ok", 2, <<1>>),
    Stream(3, "decode_ok", 3, <<1>>), Stream(4, "malformed", 0, <<1>>),
    Stream(5, "decode_ok", 1, <<1, 2, 3, 6, 7>>),
    Stream(6, "hint_dropped_bad_id", 1, <<1, 6>>),
    Stream(7, "decode_ok", 1, <<1, 4>>), Stream(8, "decode_ok", 1, <<1, 4>>),
    Stream(9, "decode_ok", 1, <<1, 4>>), Stream(10, "applied", 1, <<1, 4, 5>>),
    Stream(11, "record_order", 1, <<1, 5, 4>>), Stream(12, "record_order", 1, <<1, 8>>),
    Stream(13, "record_order", 2, <<1, 4>>),
    Stream(14, "envelope_manifest_mismatch", 1, <<1>>) >>

FrameRows == <<
    Other(15, "cth1_header_only", "malformed"), Stream(16, "skipped", 1, <<1, 9>>),
    Other(17, "preimage", "exact_hex"), Other(18, "preimage", "exact_hex"),
    Other(19, "ctt1_v2_opening", "verify_ok_with_tag"),
    Other(20, "ctt1_v2_reply", "verify_ok_with_tag"),
    Other(21, "ctt1_v2_opening", "verify_fail"), Other(22, "ctt1_v2_opening", "malformed"),
    Other(23, "cthf_header", "verify_ok"), Other(24, "cthf_header", "kem_key_id_mismatch") >>

FileRows == <<
    Row(25, "cth1_stream", "malformed", 2, <<1, 8>>, FALSE),
    Other(26, "channel_key", "exact_hex"),
    Row(27, "cthf_file", "decode_ok", 3, <<1, 4, 8>>, TRUE),
    [Other(28, "cthf_file", "chunk_open_failed") EXCEPT !.from = 27] >>

Generated == StreamRows \o FrameRows \o FileRows

-----------------------------------------------------------------------------
(* The check.                                                               *)
REQUIRED_IDS == 1 .. 28
DecodableExpects ==
    {"decode_ok", "applied", "skipped", "hint_dropped_bad_id", "envelope_manifest_mismatch"}

Legal(row) == phase_ok(row.phase, row.types) /\ row.inOrder

(* A stream lists the records it holds; what it promises to decode is       *)
(* legal, and what it promises to be refused for its order is not.          *)
StreamAgrees(row) ==
    /\ row.layout /\ row.records = row.types
    /\ row.expect = "record_order" => ~Legal(row)
    /\ row.expect = "malformed" /\ row.phase # 0 => ~Legal(row)
    /\ row.expect \in DecodableExpects => Legal(row)

(* Expectations that are checked by the row's id. *)
ExpectById ==
    [id \in {15, 19, 21, 22, 24} |->
        CASE id = 15 -> "malformed" [] id = 19 -> "verify_ok_with_tag"
          [] id = 21 -> "verify_fail" [] id = 22 -> "malformed"
          [] id = 24 -> "kem_key_id_mismatch"]

RowAgrees(row) ==
    CASE row.kind = "cth1_stream" -> StreamAgrees(row)
      [] row.kind = "cth1_header_only" -> row.id = 15 /\ row.layout /\ row.expect = "malformed"
      [] row.kind = "cthf_file" /\ row.from # 0 -> row.layout /\ row.expect = "chunk_open_failed"
      [] row.kind = "preimage" -> row.layout /\ row.expect = "exact_hex"
      [] OTHER -> row.layout /\ (row.id \in DOMAIN ExpectById => row.expect = ExpectById[row.id])

(* The check reads the rows into a dictionary: the last of an id is seen.   *)
Seen(i) == \A j \in DOMAIN rows : rows[j].id = rows[i].id => j <= i

IdsAgree == {rows[i].id : i \in DOMAIN rows} = REQUIRED_IDS

Agrees == IdsAgree /\ \A i \in DOMAIN rows : Seen(i) => RowAgrees(rows[i])

-----------------------------------------------------------------------------
Generate == rows = Generated /\ edits = 0

Edited(new) == edits' = edits + 1 /\ rows' = new

(* A row is lost in a merge, or copied to be changed. *)
Drop(i) == Edited(SubSeq(rows, 1, i - 1) \o SubSeq(rows, i + 1, Len(rows)))
Copy(i) == Edited(Append(rows, rows[i]))

(* A row's expectation, phase, records or bytes change.  The phase is       *)
(* changed in the row, in the manifest, or in both.                         *)
Relabel(i, expect) == Edited([rows EXCEPT ![i].expect = expect])
Rephase(i, phase) ==
    /\ rows[i].types # <<>>
    /\ \/ Edited([rows EXCEPT ![i].phase = phase])
       \/ Edited([rows EXCEPT ![i].manifest = phase])
       \/ Edited([rows EXCEPT ![i].phase = phase, ![i].manifest = phase])
SwapRecords(i, k) ==
    LET t == rows[i].types
        swapped == [t EXCEPT ![k] = t[k + 1], ![k + 1] = t[k]]
    IN  \/ Edited([rows EXCEPT ![i].types = swapped])
        \/ Edited([rows EXCEPT ![i].types = swapped, ![i].records = swapped])
DamageRow(i) ==
    \/ Edited([rows EXCEPT ![i].layout = FALSE])
    \/ \E k \in DOMAIN rows[i].types :
          rows[i].types[k] \in MEDIA_TYPES /\ Edited([rows EXCEPT ![i].inOrder = FALSE])

Edit ==
    /\ edits < MaxEdits
    /\ \E i \in DOMAIN rows :
          \/ Drop(i) \/ Copy(i) \/ DamageRow(i)
          \/ \E expect \in {"decode_ok", "record_order", "malformed"} : Relabel(i, expect)
          \/ \E phase \in 0 .. 4 : Rephase(i, phase)
          \/ \E k \in 1 .. Len(rows[i].types) - 1 : SwapRecords(i, k)

Vectors == Generate /\ [][Edit]_<<rows, edits>>

-----------------------------------------------------------------------------
(* "Does check: [...] CTH1 record order and phase legality": in a file that *)
(* the check accepts, every stream that a client is told to decode is legal *)
(* for the phase it is in.  That is the phase its manifest names: a client  *)
(* has nothing but the bytes, while the check goes by what the row says of  *)
(* them.                                                                    *)
PhaseLegalityChecked ==
    Agrees => \A i \in DOMAIN rows :
        Seen(i) /\ rows[i].kind = "cth1_stream" /\ rows[i].expect \in DecodableExpects =>
            phase_ok(rows[i].manifest, rows[i].types)

=============================================================================
