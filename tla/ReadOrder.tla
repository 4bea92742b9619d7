----------------------------- MODULE ReadOrder -----------------------------
(***************************************************************************)
(* The one ordering of read positions every client uses                    *)
(* (conformance/check_read_markers.py) and the two rules built on it.  A   *)
(* message is named by its sender's timestamp and its id; ids are compared *)
(* as bytes, so any order-preserving numbering of them stands for them.    *)
(***************************************************************************)
EXTENDS Naturals

CONSTANT NoBoundary     \* Python's None: no boundary held yet for the partner

Stamp == [at : Nat, id : Nat]

ASSUME NoBoundaryAssumption == NoBoundary \notin Stamp

(* (sent_at_ms, message_id) strictly after: by time, then by id. *)
Later(a, b) ==
    \/ a.at > b.at
    \/ a.at = b.at /\ a.id > b.id

(* Mutant: the last marker to arrive wins. *)
MovesAlways(held, marker) == TRUE

(* A marker moves the boundary held only if it is strictly later. *)
Moves(held, marker) == IF held = NoBoundary THEN TRUE ELSE Later(marker, held)

(* Mutant: the account check is forgotten. *)
ApplyResultAnySender(held, marker, fromOwnAccount) ==
    IF Moves(held, marker) THEN "apply" ELSE "ignore"

(* What a receiver does with one marker. *)
ApplyResult(held, marker, fromOwnAccount) ==
    IF ~fromOwnAccount THEN "drop"
    ELSE IF Moves(held, marker) THEN "apply" ELSE "ignore"

(* Which incoming messages a boundary covers: those at or before it. *)
Covers(boundary, message) ==
    boundary # NoBoundary /\ ~Later(message, boundary)

=============================================================================
