------------------------- MODULE MCTransportSystem -------------------------
(* Two fronts: one carries both lanes, the other takes the connection and   *)
(* carries only the authenticated lane.                                     *)
EXTENDS TransportSystem

HalfDead == [r \in Relays |-> IF r = "good" THEN Lanes ELSE {"auth"}]
=============================================================================
