---------------------------- MODULE CommandQueue ----------------------------
(***************************************************************************)
(* The lane-aware in-process command queue (process/command-queue.ts).     *)
(*                                                                         *)
(* Every lane is a FIFO of entries with a concurrency cap.  JavaScript     *)
(* runs one callback at a time to completion, but a callback of the queue  *)
(* is re-entrant: starting a task runs its body up to its first await, and *)
(* that body may enqueue in another lane (an agent run enqueues in its     *)
(* global lane as soon as its session lane starts it).  The call stack of  *)
(* one callback is the variable stack; while it is not empty no other      *)
(* callback runs, so the small steps below interleave exactly as the       *)
(* program's calls nest and never with another event.                      *)
(*                                                                         *)
(* A lane that the code has not created yet behaves as an empty lane with  *)
(* the default cap, so every lane exists from the start.  An entry is      *)
(* started at most once, so it also stands for its task id.                *)
(***************************************************************************)
EXTENDS Integers, Sequences, FiniteSets, Functions

CONSTANTS
  Lanes,      \* lane names
  Entries,    \* the calls to enqueueCommandInLane made over a behaviour
  LaneOf,     \* the lane each entry is enqueued in
  NoEntry,    \* no inner entry
  Inner,      \* the entry that the task of an entry enqueues and awaits, or NoEntry
  Eager,      \* entries whose task enqueues Inner before its first await
  Configured, \* lanes whose cap the gateway sets; the others keep the default 1
  Caps,       \* values the configuration gives to setCommandLaneConcurrency
  MaxResets   \* bound on in-process restarts

ASSUME CommandQueueAssumption ==
  /\ IsFiniteSet(Entries)
  /\ NoEntry \notin Entries
  /\ LaneOf \in [Entries -> Lanes]
  /\ Inner \in [Entries -> Entries \cup {NoEntry}]
  /\ \A e, f \in Entries : Inner[e] = Inner[f] /\ Inner[e] # NoEntry => e = f
  /\ \A e \in Entries : Inner[e] # e
  /\ Eager \subseteq {e \in Entries : Inner[e] # NoEntry}
  /\ Configured \subseteq Lanes
  /\ Caps \subseteq Int
  /\ MaxResets \in Nat

VARIABLES
  queue,          \* LaneState.queue: entries waiting, oldest first
  active,         \* LaneState.activeTaskIds
  maxConcurrent,  \* LaneState.maxConcurrent
  draining,       \* LaneState.draining
  generation,     \* LaneState.generation (every lane is bumped together)
  gatewayDraining,\* refuse new entries
  status,         \* what has become of each entry's promise and task
  startGen,       \* the generation captured when the entry's task started
  stack,          \* calls of the running callback, innermost first
  toDrain         \* lanes resetAllLanes has still to drain

laneVars == <<queue, active, maxConcurrent, draining, generation, gatewayDraining>>
runVars == <<status, startGen>>
vars == <<laneVars, runVars, stack, toDrain>>

---------------------------------------------------------------------------
(* "done": the task returned or threw, which the queue treats alike;       *)
(* "cleared": CommandLaneClearedError; "refused": GatewayDrainingError.    *)

Settled == {"done", "cleared", "refused"}
Status == {"idle", "queued", "running"} \cup Settled

\* Frames of the call stack: a call of drainLane or of its pump, or the call
\* by which a task body enqueues its inner entry.
Call(l) == [kind |-> "drainLane", lane |-> l, entry |-> NoEntry]
Pump(l) == [kind |-> "pump", lane |-> l, entry |-> NoEntry]
Body(e) == [kind |-> "enqueue", lane |-> LaneOf[e], entry |-> e]
Frame == {Call(l) : l \in Lanes} \cup {Pump(l) : l \in Lanes} \cup {Body(e) : e \in Entries}

Running(kind) == stack # <<>> /\ Head(stack).kind = kind
Here == Head(stack).lane

Push(f) == stack' = <<f>> \o stack
Pop == stack' = Tail(stack)

\* No callback is running: the event loop may pick the next one.
Quiet == stack = <<>> /\ toDrain = {}

InnerEntries == {Inner[e] : e \in Entries} \ {NoEntry}

HasRoom(l) == Cardinality(active[l]) < maxConcurrent[l] /\ queue[l] # <<>>

Init ==
  /\ queue = [l \in Lanes |-> <<>>]
  /\ active = [l \in Lanes |-> {}]
  /\ maxConcurrent = [l \in Lanes |-> 1]
  /\ draining = [l \in Lanes |-> FALSE]
  /\ generation = 0
  /\ gatewayDraining = FALSE
  /\ status = [e \in Entries |-> "idle"]
  /\ startGen = [e \in Entries |-> 0]
  /\ stack = <<>>
  /\ toDrain = {}

---------------------------------------------------------------------------
(* enqueueCommandInLane, called from outside by a root entry's caller or,  *)
(* for an entry that is not eager, by its running task after an await.     *)

MayBeEnqueued(e) ==
  /\ status[e] = "idle"
  /\ \A p \in Entries : Inner[p] = e => p \notin Eager /\ status[p] = "running"

Refuse(e) ==
  /\ gatewayDraining
  /\ status' = [status EXCEPT ![e] = "refused"]
  /\ UNCHANGED <<queue, active, maxConcurrent, draining, generation,
                 gatewayDraining, startGen, toDrain>>

Accept(e) ==
  /\ ~gatewayDraining
  /\ status' = [status EXCEPT ![e] = "queued"]
  /\ queue' = [queue EXCEPT ![LaneOf[e]] = Append(@, e)]
  /\ UNCHANGED <<active, maxConcurrent, draining, generation, gatewayDraining,
                 startGen, toDrain>>

EnqueueRefused(e) ==
  /\ Quiet
  /\ MayBeEnqueued(e)
  /\ Refuse(e)
  /\ UNCHANGED stack

EnqueueAccepted(e) ==
  /\ Quiet
  /\ MayBeEnqueued(e)
  /\ Accept(e)
  /\ Push(Call(LaneOf[e]))

---------------------------------------------------------------------------
(* drainLane and its pump loop, one call or one loop turn at a time.       *)

DrainLaneBusy ==
  /\ Running("drainLane")
  /\ draining[Here]
  /\ Pop
  /\ UNCHANGED <<laneVars, runVars, toDrain>>

DrainLaneEnter ==
  /\ Running("drainLane")
  /\ ~draining[Here]
  /\ draining' = [draining EXCEPT ![Here] = TRUE]
  /\ stack' = <<Pump(Here)>> \o Tail(stack)
  /\ UNCHANGED <<queue, active, maxConcurrent, generation, gatewayDraining,
                 runVars, toDrain>>

\* Mutants: no slot is taken for the task; the queue is served from its end.
PumpStartNoSlot ==
  /\ Running("pump")
  /\ HasRoom(Here)
  /\ LET e == Head(queue[Here])
     IN  /\ queue' = [queue EXCEPT ![Here] = Tail(@)]
         /\ startGen' = [startGen EXCEPT ![e] = generation]
         /\ status' = [status EXCEPT ![e] = "running"]
         /\ IF e \in Eager THEN Push(Body(Inner[e])) ELSE UNCHANGED stack
  /\ UNCHANGED <<active, maxConcurrent, draining, generation, gatewayDraining, toDrain>>

PumpStartNewest ==
  /\ Running("pump")
  /\ HasRoom(Here)
  /\ LET e == queue[Here][Len(queue[Here])]
     IN  /\ queue' = [queue EXCEPT ![Here] = SubSeq(@, 1, Len(@) - 1)]
         /\ active' = [active EXCEPT ![Here] = @ \cup {e}]
         /\ startGen' = [startGen EXCEPT ![e] = generation]
         /\ status' = [status EXCEPT ![e] = "running"]
         /\ IF e \in Eager THEN Push(Body(Inner[e])) ELSE UNCHANGED stack
  /\ UNCHANGED <<maxConcurrent, draining, generation, gatewayDraining, toDrain>>

\* One turn of the loop: shift an entry, take a slot, call its task.
PumpStart ==
  /\ Running("pump")
  /\ HasRoom(Here)
  /\ LET e == Head(queue[Here])
     IN  /\ queue' = [queue EXCEPT ![Here] = Tail(@)]
         /\ active' = [active EXCEPT ![Here] = @ \cup {e}]
         /\ startGen' = [startGen EXCEPT ![e] = generation]
         /\ status' = [status EXCEPT ![e] = "running"]
         /\ IF e \in Eager THEN Push(Body(Inner[e])) ELSE UNCHANGED stack
  /\ UNCHANGED <<maxConcurrent, draining, generation, gatewayDraining, toDrain>>

\* Mutant: the pump returns without its finally block.
PumpExitStillDraining ==
  /\ Running("pump")
  /\ ~HasRoom(Here)
  /\ Pop
  /\ UNCHANGED <<laneVars, runVars, toDrain>>

\* The loop condition fails; the finally block ends the pump.
PumpExit ==
  /\ Running("pump")
  /\ ~HasRoom(Here)
  /\ draining' = [draining EXCEPT ![Here] = FALSE]
  /\ Pop
  /\ UNCHANGED <<queue, active, maxConcurrent, generation, gatewayDraining,
                 runVars, toDrain>>

\* enqueueCommandInLane called from inside a task body.
InnerRefused ==
  /\ Running("enqueue")
  /\ Refuse(Head(stack).entry)
  /\ Pop

InnerAccepted ==
  /\ Running("enqueue")
  /\ Accept(Head(stack).entry)
  /\ stack' = <<Call(Here)>> \o Tail(stack)

---------------------------------------------------------------------------
(* The end of a task: completeTask, then pump for the current generation.  *)

\* A task does not end while the entry it awaits is unsettled; one that is
\* not eager may also end before it enqueues anything.
MayEnd(e) ==
  /\ status[e] = "running"
  /\ Inner[e] # NoEntry =>
       status[Inner[e]] \in Settled \cup (IF e \in Eager THEN {} ELSE {"idle"})

TaskEndsCurrent(e) ==
  /\ Quiet
  /\ MayEnd(e)
  /\ startGen[e] = generation
  /\ status' = [status EXCEPT ![e] = "done"]
  /\ active' = [active EXCEPT ![LaneOf[e]] = @ \ {e}]
  /\ Push(Pump(LaneOf[e]))
  /\ UNCHANGED <<queue, maxConcurrent, draining, generation, gatewayDraining,
                 startGen, toDrain>>

TaskEndsStale(e) ==
  /\ Quiet
  /\ MayEnd(e)
  /\ startGen[e] # generation
  /\ status' = [status EXCEPT ![e] = "done"]
  /\ UNCHANGED <<laneVars, startGen, stack, toDrain>>

---------------------------------------------------------------------------
\* Mutant: the configured number is taken as it is.
CapUnclamped(n) == n

\* The code also rounds a fraction down; its callers, the configuration's schema
\* and agent-limits.ts, hand over whole numbers only.
CapFor(n) == IF n < 1 THEN 1 ELSE n

SetCommandLaneConcurrency(l, n) ==
  /\ Quiet
  /\ maxConcurrent' = [maxConcurrent EXCEPT ![l] = CapFor(n)]
  /\ Push(Call(l))
  /\ UNCHANGED <<queue, active, draining, generation, gatewayDraining,
                 runVars, toDrain>>

\* Mutant: the entries are rejected but stay in the queue.
ClearKeepsQueue(l) ==
  /\ Quiet
  /\ queue[l] # <<>>
  /\ status' = [e \in Entries |->
                  IF status[e] = "queued" /\ LaneOf[e] = l THEN "cleared" ELSE status[e]]
  /\ UNCHANGED <<laneVars, startGen, stack, toDrain>>

ClearCommandLane(l) ==
  /\ Quiet
  /\ queue[l] # <<>>
  /\ queue' = [queue EXCEPT ![l] = <<>>]
  /\ status' = [e \in Entries |->
                  IF status[e] = "queued" /\ LaneOf[e] = l THEN "cleared" ELSE status[e]]
  /\ UNCHANGED <<active, maxConcurrent, draining, generation, gatewayDraining,
                 startGen, stack, toDrain>>

MarkGatewayDraining ==
  /\ Quiet
  /\ gatewayDraining' = TRUE
  /\ UNCHANGED <<queue, active, maxConcurrent, draining, generation,
                 runVars, stack, toDrain>>

\* Mutants: slots of interrupted tasks stay taken; lanes that kept entries are
\* not drained; the generation is not bumped.
ResetKeepsSlots ==
  /\ Quiet
  /\ gatewayDraining
  /\ generation < MaxResets
  /\ gatewayDraining' = FALSE
  /\ generation' = generation + 1
  /\ draining' = [l \in Lanes |-> FALSE]
  /\ toDrain' = {l \in Lanes : queue[l] # <<>>}
  /\ UNCHANGED <<queue, active, maxConcurrent, runVars, stack>>

ResetWithoutDrain ==
  /\ Quiet
  /\ gatewayDraining
  /\ generation < MaxResets
  /\ gatewayDraining' = FALSE
  /\ generation' = generation + 1
  /\ active' = [l \in Lanes |-> {}]
  /\ draining' = [l \in Lanes |-> FALSE]
  /\ UNCHANGED <<queue, maxConcurrent, runVars, stack, toDrain>>

ResetKeepsGeneration ==
  /\ Quiet
  /\ gatewayDraining
  /\ gatewayDraining' = FALSE
  /\ active' = [l \in Lanes |-> {}]
  /\ draining' = [l \in Lanes |-> FALSE]
  /\ toDrain' = {l \in Lanes : queue[l] # <<>>}
  /\ UNCHANGED <<queue, maxConcurrent, generation, runVars, stack>>

\* The run loop calls resetAllLanes only after a restart request, which has
\* marked the gateway draining.
ResetAllLanes ==
  /\ Quiet
  /\ gatewayDraining
  /\ generation < MaxResets
  /\ gatewayDraining' = FALSE
  /\ generation' = generation + 1
  /\ active' = [l \in Lanes |-> {}]
  /\ draining' = [l \in Lanes |-> FALSE]
  /\ toDrain' = {l \in Lanes : queue[l] # <<>>}
  /\ UNCHANGED <<queue, maxConcurrent, runVars, stack>>

\* The second pass of resetAllLanes, in the order of the lanes map.
DrainNext(l) ==
  /\ stack = <<>>
  /\ l \in toDrain
  /\ toDrain' = toDrain \ {l}
  /\ Push(Call(l))
  /\ UNCHANGED <<laneVars, runVars>>

---------------------------------------------------------------------------
QueueStep ==
  \/ DrainLaneBusy
  \/ DrainLaneEnter
  \/ PumpStart
  \/ PumpExit
  \/ InnerRefused
  \/ InnerAccepted
  \/ \E l \in Lanes : DrainNext(l)

TaskEnds(e) == TaskEndsCurrent(e) \/ TaskEndsStale(e)

Next ==
  \/ QueueStep
  \/ \E e \in Entries : EnqueueRefused(e) \/ EnqueueAccepted(e) \/ TaskEnds(e)
  \/ \E l \in Lanes : ClearCommandLane(l)
  \/ \E l \in Configured, n \in Caps : SetCommandLaneConcurrency(l, n)
  \/ MarkGatewayDraining
  \/ ResetAllLanes

Spec == Init /\ [][Next]_vars

---------------------------------------------------------------------------
(* Properties.                                                             *)

\* Every variable has its type: queues hold known entries, slots are entries
\* of the lane, caps stay positive, call frames are well formed.
TypeOK ==
  /\ queue \in [Lanes -> Seq(Entries)]
  /\ active \in [Lanes -> SUBSET Entries]
  /\ maxConcurrent \in [Lanes -> Nat \ {0}]
  /\ draining \in [Lanes -> BOOLEAN]
  /\ generation \in Nat
  /\ gatewayDraining \in BOOLEAN
  /\ status \in [Entries -> Status]
  /\ startGen \in [Entries -> Nat]
  /\ stack \in Seq(Frame)
  /\ toDrain \in SUBSET Lanes

\* An entry's promise is unsettled and its task not started exactly while it
\* waits, once, in the queue of its own lane: clearing, draining, restarting
\* and starting neither lose an entry nor leave it behind to run again.
QueuedExactlyOnce ==
  /\ \A l \in Lanes : IsInjective(queue[l])
  /\ \A l \in Lanes, e \in Entries :
       e \in Range(queue[l]) <=> LaneOf[e] = l /\ status[e] = "queued"

\* The tasks of the current generation that a lane is running.
RunsOf(l) ==
  {e \in Entries : LaneOf[e] = l /\ status[e] = "running" /\ startGen[e] = generation}

\* The slots a lane counts are exactly the tasks of the current generation
\* still running in it: no slot leaks (it would shrink the lane for ever) and
\* no running task is forgotten, whatever completes around a restart.
SlotsMatchRuns == \A l \in Lanes : active[l] = RunsOf(l)

\* Between callbacks no lane holds waiting work while it has a free slot: no
\* order of completions, cap changes, clears, nested enqueues and restarts
\* loses the wake-up that the next start depends on.
NoStrandedWork ==
  Quiet => \A l \in Lanes : ~HasRoom(l)

\* The draining flag never outlives the callback that set it, so the
\* "drainLane blocked" state the code warns about is never reached.
DrainFlagReleased ==
  Quiet => \A l \in Lanes : ~draining[l]

\* What the three invariants above rest on.
\* An inner entry is untouched until the task that enqueues it has started; a
\* pending enqueue is always the innermost call and its entry is untouched.
InnerUntouched ==
  \A e \in Entries :
    Inner[e] # NoEntry /\ status[e] \in {"idle", "queued"} => status[Inner[e]] = "idle"

BodyOnTop == stack # <<>> => \A f \in Range(Tail(stack)) : f.kind # "enqueue"

BodyFresh ==
  Running("enqueue") =>
    /\ status[Head(stack).entry] = "idle"
    /\ \E p \in Eager : Inner[p] = Head(stack).entry /\ status[p] = "running"

\* No task belongs to a generation yet to come.
GenerationBound == \A e \in Entries : startGen[e] <= generation

\* A lane with work and room has a call on the stack, or a pending drain, that
\* will pump it; a lane marked draining has its pump on the stack.
PumpPending ==
  \A l \in Lanes :
    HasRoom(l) => l \in toDrain \/ Call(l) \in Range(stack) \/ Pump(l) \in Range(stack)

DrainingPumped == \A l \in Lanes : draining[l] => Pump(l) \in Range(stack)

Nesting == InnerUntouched /\ BodyOnTop /\ BodyFresh

\* What compositions of the queue rest on.
\* A task does not end before the entry it has enqueued and awaits.
InnerAwaited ==
  \A e \in Entries :
    Inner[e] # NoEntry /\ status[Inner[e]] \in {"queued", "running"} => status[e] = "running"

\* A lane whose cap nobody configures runs its tasks of one lifecycle one by
\* one: a session lane serialises the session's runs, up to a restart.
SerialLanes ==
  \A l \in Lanes \ Configured :
    /\ maxConcurrent[l] = 1
    /\ \A e, f \in Entries :
         /\ LaneOf[e] = l /\ status[e] = "running"
         /\ LaneOf[f] = l /\ status[f] = "running"
         /\ startGen[e] = startGen[f]
         => e = f

Inv ==
  /\ TypeOK
  /\ Nesting
  /\ QueuedExactlyOnce
  /\ GenerationBound
  /\ SlotsMatchRuns
  /\ PumpPending
  /\ DrainingPumped
  /\ InnerAwaited
  /\ SerialLanes

\* A lane never starts a task when as many as its cap allows run in it since
\* the last restart, re-entrant starts and freshly changed caps included
\* (lowering the cap may leave more running than the new cap allows).
StartsWithinCap ==
  [][\A l \in Lanes : ~(RunsOf(l)' \subseteq RunsOf(l))
                        => Cardinality(RunsOf(l)') <= maxConcurrent'[l]]_vars

\* A task's end and the ways an entry ends without a task, as callers see them.
FateOf(s) ==
  CASE s = "queued" -> "waiting"
    [] s \in {"cleared", "refused"} -> "dropped"
    [] OTHER -> s

Ledger == INSTANCE LaneLedger
  WITH waiting <- queue,
       fate <- [e \in Entries |-> FateOf(status[e])],
       open <- ~gatewayDraining

\* What callers rely on: each lane is a FIFO, each accepted entry is started
\* or dropped once, and settled once.
LedgerSpec == Ledger!Spec
=============================================================================
