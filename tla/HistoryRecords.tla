--------------------------- MODULE HistoryRecords ---------------------------
(***************************************************************************)
(* The records the generator writes by hand (encode_* in                   *)
(* scripts/gen_history_snapshot_vectors.py), beside the messages that      *)
(* client/history_snapshot.proto and messaging/content.proto declare.  The *)
(* conformance check never decodes them, so a field with the wrong number  *)
(* or wire type is first met by a client.  Of a field's value only the     *)
(* length, or the size of the number, matters.                             *)
(***************************************************************************)
EXTENDS ProtoWire

(* A record: its fields in the order they are written, and which of them    *)
(* are varints.  item is the album's picture, text the body of a message    *)
(* and content what text travels in.                                        *)
Layout(numbers, varints) == [numbers |-> numbers, varints |-> varints]

encode ==
    [manifest |-> Layout([k \in 1 .. 13 |-> k], {1, 5, 7, 8, 9, 10, 11, 12, 13}),
     contact |-> Layout([k \in 1 .. 11 |-> k], 6 .. 11),
     chat |-> Layout(<<1, 2, 3>>, {2, 3}),
     text |-> Layout(<<1>>, {}),
     content |-> Layout(<<1>>, {}),
     text_message |-> Layout(<<1, 2, 3, 4, 5, 6, 14>>, {4, 5, 14}),
     item |-> Layout(<<1, 2, 3, 4, 5, 6, 13>>, {1, 5}),
     album |-> Layout(<<1>>, {}),
     album_message |-> Layout(<<1, 2, 3, 4, 5, 15>>, {4, 5}),
     profile_share |-> Layout(<<1, 2, 3, 4, 5, 16>>, {4, 5}),
     reaction |-> Layout(<<1, 2, 3, 4>>, {4}),
     peer |-> Layout(<<1, 2, 3, 4>>, {4}),
     call |-> Layout(<<1, 2, 3, 4, 5, 6>>, {3, 4, 5, 6}),
     media |-> Layout(<<1, 2, 3>>, {}),
     media_blob_first |-> Layout(<<3, 1, 2>>, {})]

Message == [varint |-> {4, 5, 9, 10, 13, 14}, bytes |-> {1, 2, 3, 6, 7, 8, 11, 12, 15, 16}]
MediaBlob == [varint |-> {}, bytes |-> {1, 2, 3}]

(* The fields the proto files declare, by wire type. *)
Declared ==
    [manifest |-> [varint |-> {1, 5} \cup 7 .. 13, bytes |-> {2, 3, 4, 6}],
     contact |-> [varint |-> 6 .. 11, bytes |-> 1 .. 5],
     chat |-> [varint |-> {2, 3}, bytes |-> {1}],
     text |-> [varint |-> {}, bytes |-> {1, 2, 3}],
     content |-> [varint |-> {}, bytes |-> 1 .. 11 \cup {21, 22}],
     text_message |-> Message, album_message |-> Message, profile_share |-> Message,
     item |-> [varint |-> {1, 5, 10, 14}, bytes |-> {2, 3, 4, 6, 7, 8, 9, 11, 12, 13}],
     album |-> [varint |-> {}, bytes |-> {1, 2, 3}],
     reaction |-> [varint |-> {4}, bytes |-> {1, 2, 3}],
     peer |-> [varint |-> {4}, bytes |-> {1, 2, 3}],
     call |-> [varint |-> {3, 4, 5, 6}, bytes |-> {1, 2}],
     media |-> MediaBlob, media_blob_first |-> MediaBlob]

(* Every record with numbers of size x and values of n bytes. *)
Bytes(n) == [k \in 1 .. n |-> LOW + 1]

Written(name, x, n) ==
    [k \in DOMAIN encode[name].numbers |->
        LET f == encode[name].numbers[k] IN
        IF f \in encode[name].varints THEN Field(f, VARINT, x) ELSE Field(f, BYTES, Bytes(n))]

Encoded(fields) ==
    LET upTo[k \in 0 .. Len(fields)] ==
            IF k = 0 THEN <<>>
            ELSE upTo[k - 1] \o (IF fields[k].wire = VARINT
                                 THEN p_varint(fields[k].number, fields[k].value)
                                 ELSE p_bytes(fields[k].number, fields[k].value))
    IN  upTo[Len(fields)]

=============================================================================
