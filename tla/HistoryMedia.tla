---------------------------- MODULE HistoryMedia ----------------------------
(***************************************************************************)
(* The fields of a HistoryMediaBlob: the record whose blob a client        *)
(* streams to disk, so its media_id and mime_type have to come first       *)
(* (media_fields_in_order in conformance/check_history_snapshot.py).       *)
(* A field is a key byte (number * 8 + 2), a varint length and that many   *)
(* bytes.                                                                  *)
(***************************************************************************)
EXTENDS ProtoWire

(* The field numbers, in the order they come; the code stops with an        *)
(* IndexError where a key has no length, and does not mind a value that is  *)
(* cut off.                                                                 *)
Numbers(p) ==
    LET from[i \in Nat] ==
            IF i > Len(p) THEN <<>>
            ELSE LET length == Varint(p, i + 1)
                 IN  IF length = Cut THEN Cut
                     ELSE LET rest == from[length[2] + 1 + length[1]]
                          IN  IF rest = Cut THEN Cut ELSE <<p[i] \div 8>> \o rest
    IN  from[1]

(* Mutant: a field may come twice. *)
AscendingLoosely(ns) == \A i, j \in DOMAIN ns : i < j => ns[i] <= ns[j]

Ascending(ns) == \A i, j \in DOMAIN ns : i < j => ns[i] < ns[j]

media_fields_in_order(p) == Numbers(p) # Cut /\ Ascending(Numbers(p))

=============================================================================
