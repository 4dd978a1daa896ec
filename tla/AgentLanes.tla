----------------------------- MODULE AgentLanes -----------------------------
(***************************************************************************)
(* Agent runs and manual cron jobs on the command queue, under the         *)
(* restart protocol of the gateway's run loop.                             *)
(*                                                                         *)
(* An agent run is an entry of its session's lane whose task at once       *)
(* enqueues the real work in a global lane (pi-embedded-runner/run.ts).  A *)
(* manual cron job is an entry of the cron lane whose task later starts an *)
(* agent run (cron/service/ops.ts, cron/isolated-agent/run.ts).  On        *)
(* SIGUSR1 the run loop (cli/gateway-cli/run-loop.ts) closes the queue,    *)
(* waits for the active tasks, closes the server and, when it restarts in  *)
(* the same process, resets the lanes.                                     *)
(***************************************************************************)
EXTENDS Integers, Sequences, FiniteSets

CONSTANTS
  Runs,        \* agent runs
  SessionOf,   \* the session of each run
  LaneParam,   \* the lane parameter each run is given, "" for none
  Jobs,        \* manual cron jobs
  RunOfJob,    \* the agent run each job starts
  Caps,        \* caps the configuration gives a lane
  MaxResets    \* bound on in-process restarts

\* Each job starts an agent run of its own.
ASSUME AgentLanesAssumption ==
  /\ IsFiniteSet(Runs)
  /\ IsFiniteSet(Jobs)
  /\ RunOfJob \in [Jobs -> Runs]
  /\ \A i, j \in Jobs : RunOfJob[i] = RunOfJob[j] => i = j
  /\ Caps \subseteq Int
  /\ MaxResets \in Nat

VARIABLES
  queue, active, maxConcurrent, draining, generation, gatewayDraining,
  status, startGen, stack, toDrain,
  phase,       \* where the run loop is
  waitSet,     \* the tasks waitForActiveTasks found active
  drained,     \* how the last wait ended
  starting,    \* the loop awaits params.start() and has no server to close
  early        \* history: the last restart was requested during such a start

queueVars == <<queue, active, maxConcurrent, draining, generation, gatewayDraining,
               status, startGen, stack, toDrain>>
loopVars == <<phase, waitSet, drained, starting, early>>
vars == <<queueVars, loopVars>>

---------------------------------------------------------------------------
ResolveSessionLane(s) == <<"session", s>>

\* Mutant: a run that asks for the cron lane gets it.
GlobalLaneAsAsked(p) == <<"global", IF p = "" THEN "main" ELSE p>>

\* A cron job holds the cron lane while its run works in the nested lane.
ResolveGlobalLane(p) ==
  <<"global", CASE p = "cron" -> "nested" [] p = "" -> "main" [] OTHER -> p>>

CronLane == <<"global", "cron">>
MainLane == <<"global", "main">>
NoEntry == <<"none", "none">>

AgentEntries == {<<"session", r>> : r \in Runs} \cup {<<"global", r>> : r \in Runs}
                  \cup {<<"job", j>> : j \in Jobs}

AgentLaneOf ==
  [e \in AgentEntries |->
     CASE e[1] = "session" -> ResolveSessionLane(SessionOf[e[2]])
       [] e[1] = "global" -> ResolveGlobalLane(LaneParam[e[2]])
       [] e[1] = "job" -> CronLane]

AgentInner ==
  [e \in AgentEntries |->
     CASE e[1] = "session" -> <<"global", e[2]>>
       [] e[1] = "global" -> NoEntry
       [] e[1] = "job" -> <<"session", RunOfJob[e[2]]>>]

\* The subagent lane is the third one, and no entry here uses it.
ConfiguredLanes == {CronLane, MainLane}

AgentLaneSet == {AgentLaneOf[e] : e \in AgentEntries} \cup ConfiguredLanes

CQ == INSTANCE CommandQueue
  WITH Lanes <- AgentLaneSet, Entries <- AgentEntries, LaneOf <- AgentLaneOf,
       Inner <- AgentInner, Eager <- {<<"session", r>> : r \in Runs},
       Configured <- ConfiguredLanes

ActiveTasks == UNION {active[l] : l \in AgentLaneSet}

Init ==
  /\ CQ!Init
  /\ phase = "serving"
  /\ waitSet = {}
  /\ drained = FALSE
  /\ starting = TRUE
  /\ early = FALSE

---------------------------------------------------------------------------
(* The queue's own operations, while the process lives.                    *)

QueueStep ==
  /\ phase # "exited"
  /\ CQ!QueueStep
  /\ UNCHANGED loopVars

TaskEnds(e) ==
  /\ phase # "exited"
  /\ CQ!TaskEnds(e)
  /\ UNCHANGED loopVars

Enqueue(e) ==
  /\ phase # "exited"
  /\ CQ!EnqueueRefused(e) \/ CQ!EnqueueAccepted(e)
  /\ UNCHANGED loopVars

\* get-reply-run.ts clears a session lane to interrupt the session.
InterruptSession(s) ==
  /\ phase # "exited"
  /\ CQ!ClearCommandLane(ResolveSessionLane(s))
  /\ UNCHANGED loopVars

\* applyGatewayLaneConcurrency, lane by lane.
ApplyLaneConcurrency(l, n) ==
  /\ phase = "serving"
  /\ CQ!SetCommandLaneConcurrency(l, n)
  /\ UNCHANGED loopVars

---------------------------------------------------------------------------
(* request("restart"): the queue closes and, if any task or embedded run   *)
(* is active, the loop waits for those tasks and for all embedded runs.    *)

\* An executing agent run counts as an embedded run from some moment of its
\* task on, so the code may or may not find it active.
Executing(r) == status[<<"global", r>>] = "running"
AnyExecuting == \E r \in Runs : Executing(r)

Wait ==
  /\ waitSet' = ActiveTasks
  /\ \E awaited \in BOOLEAN :
       /\ ActiveTasks # {} => awaited
       /\ awaited => ActiveTasks # {} \/ AnyExecuting
       /\ phase' = IF awaited THEN "draining" ELSE "closing"
       /\ drained' = ~awaited
  /\ early' = starting
  /\ UNCHANGED starting

\* Mutant: the active tasks are counted but the queue stays open.
RequestRestartOpen ==
  /\ phase = "serving"
  /\ CQ!Quiet
  /\ Wait
  /\ UNCHANGED queueVars

RequestRestart ==
  /\ phase = "serving"
  /\ CQ!MarkGatewayDraining
  /\ Wait

\* waitForActiveTasks finds none of those tasks active, and no run counts.
TasksDrained ==
  /\ phase = "draining"
  /\ CQ!Quiet
  /\ ActiveTasks \cap waitSet = {}
  /\ phase' = "closing"
  /\ drained' = TRUE
  /\ waitSet' = {}
  /\ UNCHANGED <<queueVars, starting, early>>

\* The 90 s deadline passes; every agent run is told to abort, and its task
\* ends whenever it notices.
DrainTimeout ==
  /\ phase = "draining"
  /\ CQ!Quiet
  /\ ActiveTasks \cap waitSet # {} \/ AnyExecuting
  /\ phase' = "closing"
  /\ drained' = FALSE
  /\ waitSet' = {}
  /\ UNCHANGED <<queueVars, starting, early>>

\* The server is closed and no new process was spawned: restartResolver lets
\* the loop go round, which resets the lanes and starts the server again.
RestartInProcess ==
  /\ phase = "closing"
  /\ ~starting
  /\ CQ!ResetAllLanes
  /\ phase' = "serving"
  /\ drained' = FALSE
  /\ waitSet' = {}
  /\ starting' = TRUE
  /\ early' = FALSE

\* The loop still awaits params.start(): restartResolver is the one of the last
\* round, and calling it does nothing.  The queue stays closed.
RestartLost ==
  /\ phase = "closing"
  /\ starting
  /\ CQ!Quiet
  /\ phase' = "serving"
  /\ drained' = FALSE
  /\ waitSet' = {}
  /\ UNCHANGED <<queueVars, starting, early>>

\* params.start() returns, or fails on a later round and is only logged.
StartReturns ==
  /\ phase # "exited"
  /\ starting
  /\ CQ!Quiet
  /\ starting' = FALSE
  /\ UNCHANGED <<queueVars, phase, waitSet, drained, early>>

\* The first start fails: the error leaves the loop and ends the process.
FirstStartFails ==
  /\ phase # "exited"
  /\ starting
  /\ generation = 0
  /\ CQ!Quiet
  /\ phase' = "exited"
  /\ UNCHANGED <<queueVars, waitSet, drained, starting, early>>

\* A new process was spawned, or closing took longer than the watchdog allows.
Exit ==
  /\ phase \in {"closing", "stopping"}
  /\ CQ!Quiet
  /\ phase' = "exited"
  /\ UNCHANGED <<queueVars, waitSet, drained, starting, early>>

\* request("stop") does not close the queue.
RequestStop ==
  /\ phase = "serving"
  /\ CQ!Quiet
  /\ phase' = "stopping"
  /\ UNCHANGED <<queueVars, waitSet, drained, starting, early>>

\* Mutant: the wait for active tasks has no deadline.
LoopStepNoDeadline == TasksDrained \/ RestartInProcess \/ RestartLost \/ Exit

LoopStep == TasksDrained \/ DrainTimeout \/ RestartInProcess \/ RestartLost \/ Exit

Next ==
  \/ QueueStep
  \/ \E e \in AgentEntries : Enqueue(e) \/ TaskEnds(e)
  \/ \E r \in Runs : InterruptSession(SessionOf[r])
  \/ \E l \in ConfiguredLanes, n \in Caps : ApplyLaneConcurrency(l, n)
  \/ RequestRestart
  \/ RequestStop
  \/ StartReturns
  \/ FirstStartFails
  \/ LoopStep

Spec == Init /\ [][Next]_vars

\* A callback that has begun runs to its end.  Every task ends (agent runs
\* carry their own timeout) and the run loop's timers fire; the event loop runs
\* continuations in order and does not put one off for ever in favour of other
\* callbacks: strong fairness, since these are disabled while a callback runs.
Fairness ==
  /\ WF_vars(QueueStep)
  /\ \A e \in AgentEntries : SF_vars(TaskEnds(e))
  /\ SF_vars(LoopStep)

FairSpec == Spec /\ Fairness

\* Here no task need ever end: the restart may rely on its own timers only.
HangingSpec == Spec /\ WF_vars(QueueStep) /\ SF_vars(LoopStep)

---------------------------------------------------------------------------
(* Properties.                                                             *)

\* docs/concepts/queue.md:20 and :83: only one agent run touches a session at
\* a time.
OneRunPerSession ==
  \A r, s \in Runs :
    Executing(r) /\ Executing(s) /\ SessionOf[r] = SessionOf[s] => r = s

\* The part of it that the lanes do guarantee: two runs of one session execute
\* together only if one of them was started before an in-process restart.
OneRunPerSessionPerLifecycle ==
  \A r, s \in Runs :
    /\ Executing(r) /\ Executing(s) /\ SessionOf[r] = SessionOf[s]
    /\ startGen[<<"session", r>>] = startGen[<<"session", s>>]
    => r = s

\* When the wait before a restart reports that the work is drained, no agent
\* run begun in this lifecycle executes, though only the tasks active at the
\* request were waited for and the lanes went on starting queued entries
\* meanwhile.  (A run begun before an earlier restart may: its session's slot
\* was given up then, and its entry in the global lane may be served only now.)
DrainedMeansNoAgentRun ==
  phase = "closing" /\ drained =>
    \A r \in Runs : Executing(r) => startGen[<<"session", r>>] # generation

\* What it rests on.
Phases == {"serving", "draining", "closing", "stopping", "exited"}

LoopTypeOK == phase \in Phases /\ {drained, starting, early} \subseteq BOOLEAN

\* The queue stays closed from the request to the restart.
ClosedWhileRestarting == phase \in {"draining", "closing"} => gatewayDraining

\* A run of this lifecycle whose work is queued or executes holds its session
\* lane, so the wait of a restart knows it, and it is gone when the wait ends.
Unfinished(r) ==
  status[<<"global", r>>] \in {"queued", "running"} /\ startGen[<<"session", r>>] = generation

UnfinishedAwaited ==
  \A r \in Runs : Unfinished(r) =>
    /\ phase = "draining" => <<"session", r>> \in waitSet
    /\ ~(phase = "closing" /\ drained)

LoopInv == LoopTypeOK /\ ClosedWhileRestarting /\ UnfinishedAwaited

\* Neither the lane nesting nor a restart makes accepted work wait for ever:
\* in a process that lives, whatever is accepted is settled.
AcceptedWorkSettles ==
  \A e \in AgentEntries :
    status[e] \in {"queued", "running"} ~> status[e] \in CQ!Settled \/ phase = "exited"

\* A restart asked for when the server is up ends: the queue opens again or the
\* process is replaced, even when tasks hang.  It ends, too, when an earlier
\* request, accepted during params.start(), was lost and left the queue closed.
RestartEnds == gatewayDraining /\ ~early ~> ~gatewayDraining \/ phase = "exited"
=============================================================================
