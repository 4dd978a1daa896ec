--------------------------- MODULE MCFollowupQueue ---------------------------
(***************************************************************************)
(* Three messages, the last from another channel, at a cap of two.         *)
(***************************************************************************)
EXTENDS FollowupQueue

MCRouteOf == [m \in Messages |-> IF m = 3 THEN "telegram" ELSE "discord"]
=============================================================================
