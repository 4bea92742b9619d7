---------------------------- MODULE AccountRead ----------------------------
(***************************************************************************)
(* What CONTENT_TYPE_READ_SYNC (30) promises: an account on several        *)
(* devices reads like an account on one.  There is one reading position    *)
(* per chat; it starts at "nothing read" and moves, only forward, when and *)
(* only when the person reads.  How many devices there are, and which of   *)
(* them lag behind, is not visible here.                                   *)
(***************************************************************************)
EXTENDS ReadOrder

CONSTANTS
    Partners,   \* the contacts the account has a chat with
    Messages    \* the incoming messages, each named by its (sent_at_ms, id)

VARIABLES
    position,   \* position[p]: the furthest message read in the chat with p
    opened      \* opened[p]: the messages the person has read

Init ==
    /\ position = [p \in Partners |-> NoBoundary]
    /\ opened = [p \in Partners |-> {}]

(* The person reads message m of the chat with p. *)
Read(p, m) ==
    /\ opened' = [opened EXCEPT ![p] = @ \cup {m}]
    /\ position' = [position EXCEPT ![p] = IF Moves(@, m) THEN m ELSE @]

Next == \E p \in Partners, m \in Messages : Read(p, m)

Spec == Init /\ [][Next]_<<position, opened>>

=============================================================================
