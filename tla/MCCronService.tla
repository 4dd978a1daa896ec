---------------------------- MODULE MCCronService ----------------------------
(***************************************************************************)
(* A recurring job and a one-shot, and one of them alone once a reload has *)
(* started a second service.                                               *)
(***************************************************************************)
EXTENDS CronService

MCKindOf == [j \in Jobs |-> IF j = "o" THEN "at" ELSE "cron"]
MCAtTime == [j \in Jobs |-> 1]

\* Bound of the search: what two services do to two jobs, or after a second
\* operation, is not explored.
There == {j \in Jobs : Has(disk[j]) \/ \E s \in Services : Has(mem[s][j])}
LessForTwo == OneService \/ (Cardinality(There) <= 1 /\ ops <= 1)
=============================================================================
