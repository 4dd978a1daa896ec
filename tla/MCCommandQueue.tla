--------------------------- MODULE MCCommandQueue ---------------------------
(***************************************************************************)
(* Two agent runs of one session share the main lane with a third caller;  *)
(* a cron job holds the cron lane and later enqueues a turn in the main    *)
(* lane, whose body at once enqueues in the same lane.                     *)
(***************************************************************************)
EXTENDS CommandQueue

MCLanes == {"session", "main", "cron"}
MCEntries == {"run1", "main1", "run2", "main2", "job", "turn", "nested"}
MCLaneOf == [e \in MCEntries |->
               CASE e \in {"run1", "run2"} -> "session"
                 [] e \in {"main1", "main2", "turn", "nested"} -> "main"
                 [] e = "job" -> "cron"]
MCInner == [e \in MCEntries |->
              CASE e = "run1" -> "main1"
                [] e = "run2" -> "main2"
                [] e = "job" -> "turn"
                [] e = "turn" -> "nested"
                [] OTHER -> "none"]
MCEager == {"run1", "run2", "turn"}
MCCaps == {0, 2}
=============================================================================
