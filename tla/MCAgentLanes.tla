---------------------------- MODULE MCAgentLanes ----------------------------
(***************************************************************************)
(* Two runs of session A and a manual cron job whose run, in session B,    *)
(* asks for the cron lane.                                                 *)
(***************************************************************************)
EXTENDS AgentLanes

MCRuns == {"a1", "a2", "b"}
MCSessionOf == [r \in MCRuns |-> IF r = "b" THEN "B" ELSE "A"]
MCLaneParam == [r \in MCRuns |-> IF r = "b" THEN "cron" ELSE ""]
MCJobs == {"j"}
MCRunOfJob == [j \in MCJobs |-> "b"]
MCCaps == {1, 2}

\* One run and the manual cron job, for the slower liveness check.
SmallRuns == {"a1", "b"}
SmallSessionOf == [r \in SmallRuns |-> IF r = "b" THEN "B" ELSE "A"]
SmallLaneParam == [r \in SmallRuns |-> IF r = "b" THEN "cron" ELSE ""]
=============================================================================
