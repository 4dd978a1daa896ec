----------------------------- MODULE LaneLedger -----------------------------
(***************************************************************************)
(* What the callers of the command queue are promised, with nothing of how *)
(* the lanes are pumped: a lane is a FIFO of waiting entries; an entry is  *)
(* accepted or refused when it is offered; an accepted entry is started    *)
(* from the head of its lane or dropped with the rest of its lane; and it  *)
(* is settled once.  CommandQueue implements this specification.           *)
(***************************************************************************)
EXTENDS Sequences

CONSTANTS Lanes, Entries, LaneOf

VARIABLES
  waiting,  \* the accepted entries not yet started, by lane, oldest first
  fate,     \* "idle", "waiting", "running", "done" or "dropped"
  open      \* whether new entries are accepted

vars == <<waiting, fate, open>>

Init ==
  /\ waiting = [l \in Lanes |-> <<>>]
  /\ fate = [e \in Entries |-> "idle"]
  /\ open = TRUE

Admit(e) ==
  /\ open
  /\ fate[e] = "idle"
  /\ fate' = [fate EXCEPT ![e] = "waiting"]
  /\ waiting' = [waiting EXCEPT ![LaneOf[e]] = Append(@, e)]
  /\ UNCHANGED open

TurnAway(e) ==
  /\ ~open
  /\ fate[e] = "idle"
  /\ fate' = [fate EXCEPT ![e] = "dropped"]
  /\ UNCHANGED <<waiting, open>>

StartOldest(l) ==
  /\ waiting[l] # <<>>
  /\ fate[Head(waiting[l])] = "waiting"
  /\ fate' = [fate EXCEPT ![Head(waiting[l])] = "running"]
  /\ waiting' = [waiting EXCEPT ![l] = Tail(@)]
  /\ UNCHANGED open

Settle(e) ==
  /\ fate[e] = "running"
  /\ fate' = [fate EXCEPT ![e] = "done"]
  /\ UNCHANGED <<waiting, open>>

DropLane(l) ==
  /\ waiting' = [waiting EXCEPT ![l] = <<>>]
  /\ fate' = [e \in Entries |->
                 IF fate[e] = "waiting" /\ LaneOf[e] = l THEN "dropped" ELSE fate[e]]
  /\ UNCHANGED open

OpenOrClose ==
  /\ open' = ~open
  /\ UNCHANGED <<waiting, fate>>

Next ==
  \/ \E e \in Entries : Admit(e) \/ TurnAway(e) \/ Settle(e)
  \/ \E l \in Lanes : StartOldest(l) \/ DropLane(l)
  \/ OpenOrClose

Spec == Init /\ [][Next]_vars
=============================================================================
