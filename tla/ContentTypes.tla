---------------------------- MODULE ContentTypes ----------------------------
(***************************************************************************)
(* The check that keeps knst_content_types.json, the table every client    *)
(* follows, in step with enum ContentType (check_content_types.py).  Types *)
(* are added to the enum and rows to the table, one change at a time;      *)
(* Accepted says whether the check passes.  Rows are built from the names  *)
(* the check knows, so only the rules that relate fields are left.         *)
(***************************************************************************)
EXTENDS Naturals, Sequences

CONSTANTS
    Values,     \* values an enum member may take
    MaxRows     \* bound: rows of the table

VARIABLES
    proto,      \* the values of enum ContentType
    types       \* the rows of the table, in order

NameOf(v) == <<"CONTENT_TYPE", v>>

Rows == [value : Values, name : {NameOf(v) : v \in Values},
         disposition : {"transcript_incoming", "transcript_own_device", "silent_control",
                        "not_carried"},
         routing_kind : {"DIRECT_MESSAGE", "CONTROL_MESSAGE", "SENDER_SYNC",
                         "SESSION_RESET_INIT"},
         knst_byte5 : BOOLEAN, framed_side_channel : BOOLEAN,
         sealed_inner_content_type : BOOLEAN, own_devices_only : BOOLEAN]

(* rows: a dictionary by value, so a later row of a value replaces earlier. *)
RowValues == {types[i].value : i \in DOMAIN types}
RowOf(v) ==
    types[CHOOSE i \in DOMAIN types : /\ types[i].value = v
                                      /\ \A j \in DOMAIN types : types[j].value = v => j <= i]

RowAgrees(row) ==
    /\ row.framed_side_channel => row.knst_byte5
    /\ row.own_devices_only =>
          row.routing_kind = "SENDER_SYNC" /\ ~row.sealed_inner_content_type
    /\ row.disposition = "not_carried" => ~row.knst_byte5

Accepted ==
    /\ RowValues = proto
    /\ \A v \in proto : RowOf(v).name = NameOf(v) /\ RowAgrees(RowOf(v))

Init == proto = {} /\ types = <<>>

AddType(v) == v \notin proto /\ proto' = proto \cup {v} /\ UNCHANGED types

AddRow(row) == Len(types) < MaxRows /\ types' = Append(types, row) /\ UNCHANGED proto

Next == (\E v \in Values : AddType(v)) \/ (\E row \in Rows : AddRow(row))

Spec == Init /\ [][Next]_<<proto, types>>

-----------------------------------------------------------------------------
(* "Every ContentType in envelope.proto has exactly one row here, and vice  *)
(* versa."                                                                  *)
ExactlyOneRow ==
    Accepted => \A i, j \in DOMAIN types : types[i].value = types[j].value => i = j

=============================================================================
