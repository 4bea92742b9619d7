--------------------------- MODULE MCHistoryFile ---------------------------
(* Histories of different lengths; the short ones are damaged twice. *)
EXTENDS HistoryFile

Manifest == Rec(RT_MANIFEST, <<3>>)

(* With chunks of four bytes: a last chunk of two bytes, and a stream of    *)
(* exactly two chunks.                                                      *)
Short == { <<Manifest>>, <<Manifest, Rec(8, <<>>)>> }

(* Five chunks, the last of one byte; one record ends where a chunk does,   *)
(* and payloads cross the other boundaries.                                 *)
Long == <<Manifest, Rec(RT_MESSAGE, <<0>>), Rec(RT_REACTION, <<7>>), Rec(8, <<1, 0, 8>>)>>

MCHistories == Short \cup {Long}
MCMaxDamage == [h \in MCHistories |-> IF h = Long THEN 1 ELSE 2]

=============================================================================
