# A verification project for the stableclaw gateway

stableclaw (a fork of OpenClaw) is a long-running Node.js gateway: it receives
messages from chat channels, runs an agent for each session, sends the answers
back, runs scheduled jobs, and restarts itself in place. This directory holds
TLA+ models of the parts of it that decide *when* something happens: queues,
retries, restarts, races. TLC checks them on small instances, and TLAPS proves
every safety property of the passing runs for every instance; liveness stays with
TLC. File names below are relative to the repository; `src/...` is its
TypeScript source.

## 1. Inventory

The gateway is one process on one JavaScript event loop. A callback runs to
completion; everything between two callbacks, across an `await`, a timer or a
promise continuation, may interleave. Several processes meet only through files.

| Component | State it keeps | Operations | What is hard, what must hold |
|---|---|---|---|
| **Command queue** `src/process/command-queue.ts` | per lane: FIFO of entries, ids of active tasks, cap, draining flag, generation; one `gatewayDraining` flag | enqueue, drain/pump, complete, set cap, clear, mark draining, reset all lanes, wait for active tasks | starting a task runs its body inside the pump, which may enqueue again; completions of tasks from before a restart. No entry lost or run twice, no slot leaked, no lane left with work and room, caps respected |
| **Agent runs on lanes** `src/agents/pi-embedded-runner/{run,lanes,runs}.ts`, `src/cron/service/ops.ts` | none of their own | a run is queued in its session's lane, whose task queues the work in a global lane; a manual cron job holds the cron lane and starts such a run | one run per session at a time; nested lanes must not wait on themselves |
| **Run loop** `src/cli/gateway-cli/run-loop.ts` | `shuttingDown`, the server, the lock, timers | stop, restart (drain, close, respawn or restart in process) | drain deadline against late completions; queued work at a restart; a signal during the start of the server; a hung task must not block the restart |
| **Outbound delivery queue** `src/infra/outbound/{deliver,delivery-queue-storage,delivery-queue-recovery}.ts` | one JSON file per delivery, `.delivered` markers, `failed/` | write ahead, send, acknowledge (rename, unlink), count a failed attempt (read, write), give up, recover at start | crash between any two file operations; recovery overlapping live deliveries after an in-process restart; a write that revives an acknowledged entry; retry budget |
| **Follow-up queue** `src/auto-reply/reply/queue/*.ts`, `src/utils/queue-helpers.ts` | per session: waiting messages, dropped count and lines, settings, draining flag, last run | enqueue with drop policy and dedupe, drain (collect or one by one), clear, finalise after a run | state read before an await and used after it; a cleared queue object still being drained; backlog nobody drains |
| **Cron service** `src/cron/service/*.ts` | job store on disk and in memory, one timer, `running`, per job `enabled`, `nextRunAtMs`, `runningAtMs`, `lastRunAtMs` | tick, manual run, list, add, update, remove, start with catch-up, replacement by a hot reload | everything under a lock but the execution of jobs; memory against file; a replaced service that goes on, and that requests still reach; marks that outlive or lose their run. No job runs twice at once, no due run is passed over, the timer is never lost, one job does not stop the others |
| **Heartbeat wake and runner** `src/infra/heartbeat-wake.ts`, `src/infra/heartbeat-runner.ts` | pending wakes by target, one timer with a kind, `running`, `scheduled`, handler; per agent its next due time, the runner's timer | request, fire, handle a batch, retry, replace the handler; interval timer, configuration update, on and off | coalescing and priorities, retry floor, a batch that outlives its handler, a timer chain that each call continues. No wake stranded, one batch at a time, due agents and events handled |
| **Channel manager** `src/gateway/server-channels.ts`, `src/gateway/channel-health-monitor.ts` | per account: task, abort controller, start gate, attempts, the mark of a manual stop, status | start, hand-over, crash, back-off, automatic restart, stop, check | stop or start during a start, a back-off or a plugin's hook; the monitor among them. One run per account, a stop is final, a wanted account comes back, stops end |
| **Gateway lock** `src/infra/gateway-lock.ts` | two lock files with the owner's pid | acquire, judge and reclaim, release | several processes at one file; crashes anywhere. A listening gateway is left alone, what a crash left does not keep the next one out |
| **Exec approvals** `src/gateway/exec-approval-manager.ts` | pending approvals with timers | register, resolve, expire, consume once | decision against timeout and grace window |
| Subagent registry, task registry, task flows, ACP manager | records with life cycles | announce, clean up, recover | long sequences, restarts |
| Session write lock, inbound debounce and dedupe, restart scheduler and sentinel, config reload, plugin cache and health, auth profiles and model fallback, process supervisor, pairing stores, execution helpers | small tables or files each | | see `PROJECT.json` for why each is not modelled yet |
| Server wiring, UI, apps, extensions, CLI | | | presentation and I/O, out of scope |

How they interact: a channel message becomes an agent run (command queue, two
lanes) or, if the session is busy, an entry of the follow-up queue, drained when
the run ends. The run's answer goes through the delivery queue. Cron jobs and
heartbeats start runs too. `SIGUSR1` makes the run loop close the command queue,
wait, close the server, release the gateway lock, and either hand over to a new
process or take the lock again, reset the lanes and start the server in the same
process, which also starts a recovery of the delivery queue, a new heartbeat
runner and a new cron service.

The hazards this leads to are listed, each at its line and with the properties
that would catch it going wrong, in `PROJECT.json`.

## 2. Plan

1. *(done)* `CommandQueue`, its abstract specification `LaneLedger`, the proofs.
2. *(done)* `AgentLanes`: composes `CommandQueue` with the lane nesting of agent
   runs and the restart protocol of the run loop.
3. *(done)* `DeliveryQueue`. 4. *(done)* `FollowupQueue`.
5. *(done)* `HeartbeatWake`. 6. *(done)* `CronService`. 7. *(done)*
   `ServerChannels`. 8. *(done)* `GatewayLock`.
9. *(done)* Proofs of every invariant and action property of the runs, of the
   ledger `CommandQueue` implements, and that `AgentLanes` takes only steps of
   `CommandQueue`, so that the queue's theorems carry over.
10. Abstract specifications of more components, with proofs: what a caller of
   the delivery queue and of the follow-up queue is promised.
11. `ExecApprovals`: a decision against its timeout and the grace window.
12. Nested agent-to-agent runs in `AgentLanes`; their waits carry timeouts.

No module of the plan declares a RECURSIVE operator, so each can be proved about.

## 3. Modules

### CommandQueue

Variables `queue`, `active`, `maxConcurrent`, `draining`, `generation` are the
fields of `LaneState`, `gatewayDraining` the flag; `active` holds entries instead
of task ids, since an entry is started once. `status` is what has become of each
entry (`idle`, `queued`, `running`, `done`, `cleared`, `refused`), `startGen` the
generation its task captured.

The interesting part is re-entrance. `entry.task()` is called inside the pump
loop and runs up to its first `await`; an agent run's task enqueues in its
global lane at once. The model keeps the call stack of the running callback in
`stack`: frames are a call of `drainLane`, its `pump` loop, or the enqueue made
by a task body. Actions that are callbacks of their own (enqueue from outside,
a task's end, a cap change, a clear, a reset) need an empty stack (`Quiet`);
while it is not empty only the frame on top moves. `toDrain` is the list of
lanes the second half of `resetAllLanes` has still to visit.

| Action | Code |
|---|---|
| `EnqueueAccepted`, `EnqueueRefused` | `enqueueCommandInLane` from a caller |
| `InnerAccepted`, `InnerRefused` | the same from inside a task body |
| `DrainLaneEnter`, `DrainLaneBusy` | `drainLane` up to `pump()`, and its early return |
| `PumpStart`, `PumpExit` | one turn of the loop; the `finally` |
| `TaskEndsCurrent`, `TaskEndsStale` | the task settles; `completeTask` says true or false |
| `SetCommandLaneConcurrency`, `ClearCommandLane`, `MarkGatewayDraining`, `ResetAllLanes`, `DrainNext` | the functions of those names |

`Entries`, `LaneOf`, `Inner`, `Eager` say which calls are made: an entry may
enqueue and await one inner entry, at once (`Eager`) or after an await. Lanes
exist from the start with the default cap, which behaves as a lane not yet
created; the generation is one number because `resetAllLanes` bumps all lanes
and it is only compared within a lane. Success and failure of a task are one
outcome: the queue treats them alike. `setCommandLaneConcurrency` also rounds
down; the schema (`zod-schema.ts:532`, `zod-schema.agent-defaults.ts:183`) and
`agent-limits.ts` give it whole numbers only, so caps are integers here. Wait
warnings are left out, and `resetCommandQueueStateForTest` with them.

### LaneLedger

What callers rely on, without pumps, slots or flags: a lane is a FIFO of waiting
entries; an entry offered is accepted or turned away; an accepted one is started
from the head of its lane or dropped with its lane; a started one settles once.
`LedgerSpec` in `CommandQueue` is this specification under the mapping
`waiting <- queue`, `fate <- FateOf(status)`, `open <- ~gatewayDraining`.

### AgentLanes

Instantiates `CommandQueue` with the entries of agent runs (a session entry
eagerly enqueueing a global entry) and manual cron jobs (a cron-lane entry that
later starts a run), with `resolveSessionLane` and `resolveGlobalLane` choosing
the lanes, and adds the run loop: `phase`, the set of tasks `waitForActiveTasks`
snapshotted (`waitSet`), and how the wait ended (`drained`). `RequestRestart`
is one callback: mark draining, count, snapshot. The wait for embedded runs,
which are registered some time after their task starts, is a choice: an
executing run may or may not be found. `starting` says that the loop awaits
`params.start()`: a restart requested then finds no server and, at its end, the
resolver of the round before, so calling it does nothing (`RestartLost`);
otherwise the lanes are reset and the next start begins (`RestartInProcess`).
`StartReturns` is the start's end, also a failed one of a later round,
`FirstStartFails` the one that ends the process. `early` remembers such a
request for the property. `DrainTimeout` aborts runs, which only
asks them to end, so their tasks end whenever they do. `Exit` stands for a
spawned or supervised new process, a stop, a lock that cannot be taken again,
and the watchdog. The subagent lane is not used by any entry of the module.

### DeliveryQueue

Files: `pending` (with `retryCount`), `marked` (`.delivered`), `failed`. A live
delivery (`sender`) enqueues, sends and settles; a recovery (`scan`) lists,
reads entry by entry, then visits them oldest first. Every file operation that
awaits between two steps is two actions, `FailRead`/`FailWrite` and
`AckRename`/`AckUnlink`, run by a caller (`"live"` or a recovery) for a message;
`CallFails` is the file system refusing. `Crash` keeps files and drops the rest.
Time is a choice: a backoff has passed or not, the budget may be over before any
entry but the first. The JSON content other than the retry count, migration of
old files, and temporary names are left out. `failDelivery` counts without end.
The count is compared with zero and with `MaxRetries` only, so the model may
stop at any `CountBound` from `MaxRetries` on; the run takes one beyond it, and
the proofs hold for all. `attempts` is a history variable: how often an entry
was taken up for sending, by its caller or a recovery.

### FollowupQueue

One session key. `current` is the map entry of `FOLLOWUP_QUEUES`; queue objects
are identified because a drain keeps its object after a clear removed it from
the map. `drain[q]` is where the async function of `scheduleFollowupDrain` is:
`looping` (running, no other callback), `waiting` (debounce), `running` (awaiting
a follow-up turn), `off`. `turn[q]` records what the turn was given and how many
items will be removed afterwards. `dropped` are the messages `droppedCount`
counts; a summary turn is told their number, and shown the lines of the newest
of them only (`queue-helpers.ts:103-106` trims to the cap), so "told of" means
counted. `settings` are the session's settings, applied
at each enqueue. Ghost variables record what finished turns were given or told.
The debounce time, prompts, the expiry of remembered message ids and the first
drain's callback caching are left out.

### HeartbeatWake

The module-level state of `heartbeat-wake.ts` (`pending` in insertion order,
`timer` with ticks left, kind and delay, `scheduled`, `running`, `handler`) and
the runner it calls (`agents`, `armed` for its timer, `due`). A wake keeps its
target and its priority. `Request`, `Tick`, `FireUnhandled`, `FireWhileRunning`
and `FireBatch` are the timer; a batch is then handled call by call, and the end
of a call is `CallIdle` (an early return of the handler), `CallDone`, `CallBusy`
(the main lane is busy: the wake is queued again with a retry timer) or
`CallThrows`. Each carries the handler's own `finally`, and the last of a batch
also the wake layer's. What a call goes through is fixed when it starts (`call`,
`CallFor`): an interval wake takes the agents due at that moment, as the code
compares with `now` of the call's start, and passes over one that another call
has run since (`Visited`). A reload in the middle of a call replaces the agents
it works on (`old`), so what it runs moves on nobody's schedule; after a switch
it may stop short (`cut`). A busy lane ends a call after any of its agents; for
a wake that names its agent the schedule moves on all the same. `Start` and
`Stop` are `startHeartbeatRunner` and its cleanup; the batches of a stopped
runner go on, which is why `batches` is indexed. `UpdateConfig` is a reload:
`resolveNextDue` keeps a due agent due or gives it a time an interval from now,
if it never ran or its interval grew, so `due'` is any part of what was due;
`owed` is a history variable, the agents that were due and not run since. Times
are ticks for the wake timer and a choice (`FallsDue`) for intervals; sessions
within an agent are left out. `crossed` and `lapsed` are ghosts: a batch ended
under one of a later runner; a wake for all agents met switched-off heartbeats
and the runner's timer was not set since.

### CronService

`disk` is the store file, `mem[s]` the copy of service `s`. Every section under
the lock of `locked.ts` is one action, and what lies between two sections of one
operation is state: `phase` for a start, `tick` for a tick - `fired`, `claimed`,
and `swept`, from the last section to the end of the `finally`, the sweep of
sessions in between -, `batch` for the jobs a start or a tick runs, `manual` for
the manual runs, one in each slot of the cron lane (`Slots`; the lane's cap is
`cron.maxConcurrentRuns`, `server-lanes.ts:7`). Which sections read the file
again (`forceReload`) and which trust the memory is taken over, as is whether a
tick still holds the job objects of the memory (`held`). `Recomputed` and
`Maintained` are `recomputeNextRuns` and `recomputeNextRunsForMaintenance`,
`Applied` is `applyJobResult`: a one-shot that succeeds is deleted, else retried
or disabled; a recurring job is due again.

`Reload` may come at any point. It takes the timer from the service and starts
another one; the former service goes on with what it is doing, and a tick or a
manual run in flight sets its timer again at its end. The requests of the user
reach the *first* service of the gateway's life (`Front`): the request context
takes `cron` as it is at the start (`server.impl.ts:1240-1242`), while a reload
replaces another variable (`server.impl.ts:1459-1461`). `Crash` keeps the file.
`slips` says why a job under way may have lost its mark: it was off or switched
off, or it ran longer than `STUCK_RUN_MS`. Time advances by choice, a recurring
job is due at each tick. The names at the module's end (`Lives` to `OwnMarks`)
are the parts of the invariant the proofs use.

### ServerChannels

One account. `task`, `abort` and `gate` are the entries of the store's maps,
`manual`, `attempts` and `shown` the mark, the counter and `running` of the
status. A run is `starting` (between the reservation and the hand-over), `live`
or `sleeping` (its back-off). `Refused`, `Abandoned` and `HandOver` are the ways
a start goes on after its await, `RunEnds` and `Wake` the chain of promises
behind a run, `BeginStop`, `HookReturns`, `HookThrows` and `StopFinishes` a stop
of the operator or of the monitor, `CheckUnhealthy`, `CheckNotRunning` and
`MonitorStarts` the health monitor. `slips` names what may go wrong (section 6):
a start overtook a stop's hook, a stop came in the middle of the monitor's
restart, a mark was not set or was removed, a start was ignored or failed while
the mark was set.

### GatewayLock

Each await of `acquireGatewayLock` is a step of a process (`pc`): open, read,
probe, remove, for the global file and then for that of the configuration, then
the two writes. A file says who created it and whether its content was written;
an owner is judged by a connection to the prober's own port on 127.0.0.1 and by
the process table. `host` is what a gateway is bound to: one bound to `other`,
a tailnet or custom address, does not answer there (`Answers`), so the port
counts as free (`PortFree`); so it does if the connection takes longer than a
second (`ProbeTimesOut`). Around it the
run loop: listen, close, release, restart in place, a failed start that goes on
without a lock (`parked`, `bare`), and `Crash`. `Ended` processes have left any
files behind that a crash can leave. A process id is used once, so the
comparison of start times always agrees. A restart requested while the server
is being started, which releases and takes the lock under that start, is in
`AgentLanes` and not here.

## 4. Runs

| Run | Instance | Shows |
|---|---|---|
| `command_queue` | lanes session (2 runs, eager inner), main (caps 0 and 2, i.e. 1 and 2), cron (a job whose late inner turn re-enters its own lane); 1 reset | all invariants, starts within the cap, `LedgerSpec` |
| `agent_lanes` | two runs of session A, a manual cron job whose run asks for the cron lane; caps 1, 2; 1 restart; tasks may hang for ever | one run per session within a lifecycle; "drained" means no run of this lifecycle executes, although only a snapshot of tasks is waited for; a restart asked for when the server is up ends |
| `agent_lanes_live` | one run and the job | accepted work settles: no deadlock between cron, nested, session and main lanes, nothing stranded by a restart |
| `delivery_queue` | 2 deliveries, one of them best-effort with `onError`; one recovery at a time; 2 retries, 1 fault (crash or refused operation) | nothing written ahead is lost; no delivery is taken up more often than the limit, and once more per fault; after starts that found nothing in flight a settled entry is final, and every entry leaves the queue |
| `followup_queue` | 3 messages, the last from another channel, cap 2, 2 queue objects, all policies and both modes, 1 change of settings | see below |
| `heartbeat_wake` | 1 agent (two targets), 1 request from outside, 2 runners, 2 batches, 1 switch or reload | nothing stranded, one batch at a time, the chain of interval wakes, liveness of due agents and of event wakes |
| `cron_service` | a cron job and a one-shot, 3 instants, 2 operations, 1 reload or crash at any point, 2 services, one worker and one slot, one catch-up job; after a reload one job and one operation | never asleep; until a reload one run per job, no due run passed over |
| `server_channels` | one account, with and without a hook; 4 starts and stops, 1 automatic restart, 2 runs | one run, final stops, wanted accounts come back, stops end |
| `gateway_lock` | 2 gateways after an ended one, one configuration, 2 ports, bound to loopback or elsewhere, probes that time out | a settled gateway stays; a lone start succeeds |
| `agent_lanes_session`, `followup_queue_loss` | as above | disagreements of section 6 |
| `cron_stuck` | as `cron_service`, two workers, no operations or faults; jobs may take for ever | the time limit of a job does not work |

Why the bounds are enough: two entries per lane and a cap of two are the least
at which overtaking, a full lane and a re-entrant start in the same lane differ;
one reset separates two generations, and generations are only compared for
equality; three messages at a cap of two overflow while a batch is out; two
retries give an entry in its first attempt, one in backoff and one given up; one
recovery at a time overlaps a live delivery and, after a crash, entries left by
another recovery (the crash turns the recovery off and a new one may start); two
queue objects are all that can be reachable with one clear during a drain, and
their identifiers are reused. Two targets give a wake for all and one for an
agent, and two runners a batch that outlives its handler; a third batch would
need a second crossing. Two jobs are the least at which one worker makes another
wait and one catch-up job defers another. In `cron_service` a reload starts a
second service beside the first; what the two do to two jobs, or after a second
operation, is beyond five minutes and cut off by a constraint (`LessForTwo`);
that more jobs, services, slots and workers change nothing is proved. With one
agent a call of `heartbeat_wake` has one agent to visit; calls that end half-way
through several are covered by the proofs of the safety properties. The address
`all` of `GatewayLock` answers as `loopback` does and is left to the proofs. Four requests allow a stop
within a start within a stop, and two runs show a second one where it exists.
Two gateways suffice for every race at one file, since a step of a process
touches one file and its own state; that more of them change nothing for
`SettledStays` is proved. Deadlock is not checked: each system may stop with
nothing left to do within the bounds.

**Properties of the follow-up queue.** `NothingLost` is what the documentation
says and is false. `LossOnlyByRaces` says that only three steps lose a message,
an overflow while a turn runs, a clear while the queue is drained, and a summary
turn outside collect mode, and that no other combination of arrivals, policies,
failing turns and settings does. `AnsweredOnce` holds even in those races,
`AnsweredInOrder` and `EveryMessageHandled` outside them. `NoIdleBacklog` is
about the recheck after an enqueue: waiting messages have a drain of their own
queue object, or a run whose end looks at them. After a race the drain may be
that of an object the key no longer maps to.

**Fairness.** A callback that has started ends: weak fairness of the steps of
the queue while the stack is not empty. Timers fire and continuations are run in
order, so an event that is ready again and again is not put off for ever: strong
fairness of each task's end, of the run loop and of the drain steps (each is
disabled while another callback runs). Tasks are assumed to end only in
`agent_lanes_live`: agent runs carry a timeout of their own. `RestartEnds` is
checked without it, under `HangingSpec`. In `DeliveryQueue` calls to channels
and files return, the gateway is started again and again, and the backoff of an
entry has passed at some of those starts; the last is strong fairness of
`Attempt`. In `FollowupQueue` a turn may throw, but not for ever (strong
fairness of `TurnEnds`). In `HeartbeatWake` timers fire, calls end, and the main
lane is not found busy for ever (strong fairness of `CallDone`), and intervals pass
(`FallsDue`), which brings an agent back that a reload passed over; no fairness
is assumed of requests, restarts, reloads or switches. In
`ServerChannels` the configuration check and the hook return, an aborted run
ends, back-offs pass, the monitor goes its rounds, and an account is not found
unfit for ever (strong fairness of `HandOver`, a loop of refusals being the
configuration's doing); a live run need not end. In `GatewayLock` file
operations return; nothing is assumed of timeouts, servers or crashes. In
`cron_stuck` sections get the lock, timers fire and free workers take jobs up;
only the end of a job is left open, which is what the time limit is for.

## 5. Proofs

Each proof module takes its component as it is checked and uses the assumptions
on the constants that the component states, which say no more than what kind of
thing each constant is. Every invariant and action property of the passing runs
has a theorem. Hardly one of them is inductive alone; what each needs besides is
the interesting part.

**`CommandQueueProofs`**, for any lanes, caps and nesting (finitely many
entries, an inner entry has one parent and is not its own): `Typing`,
`Invariance` (the inductive invariant `Inv`), `QueuedExactlyOnceHolds`,
`SlotsMatchRunsHolds`, `NoStrandedWorkHolds`, `DrainFlagReleasedHolds`,
`StartsWithinCapHolds`, `SerialLanesHold`, and `ImplementsLedger`: `Spec =>
LedgerSpec`. `QueuedExactlyOnce` breaks if an entry that is already queued could
be offered again by its parent's body, so `Inv` carries *nesting*: an inner
entry is idle until its parent has started (`InnerUntouched`), a pending enqueue
of a body is the innermost call only (`BodyOnTop`) and its entry is still idle
(`BodyFresh`). `SlotsMatchRuns` needs that no task captured a generation yet to
come (`GenerationBound`), or a reset would turn an old task into a current one.
`NoStrandedWork` speaks of quiet states only; between them `PumpPending` says
that a lane with work and room has a call of `drainLane`, its pump or a drain of
the reset ahead of it, and `DrainingPumped` that the flag that makes `drainLane`
return early is set only while the lane's pump is on the stack, so the early
return never drops the last wake-up. `SerialLanes` (a lane whose cap nobody sets
runs one task per generation) and `InnerAwaited` (a task runs while its inner
entry is unfinished) are what callers build on. The refinement maps every action
to one action of the ledger or to a stutter.

**`AgentLanesProofs`**, for any runs, sessions, jobs and caps: `ImplementsQueue`
says that every step of the composition is a step of the queue or leaves it
alone (`Spec => CQ!Spec`), so `QueueInvariance` has the queue's invariant here
without proving it again. `OneRunPerSessionPerLifecycleHolds` is then short: an
executing run's session entry runs (`InnerAwaited`) in a lane of cap one
(`SerialLanes`). `DrainedMeansNoAgentRunHolds` adds the run loop:
`ClosedWhileRestarting`, the queue stays closed from the request to the restart,
and `UnfinishedAwaited`, a run of this lifecycle that is queued or executing in
the global lane holds its session lane, hence was in the snapshot, and no new
one comes up while the queue is closed.

**`DeliveryQueueProofs`**, for any deliveries, recoveries, retries and faults:
`Typing`, `Invariance`, `KeptUntilSettledHolds`, `AttemptsWithinBudgetHolds`,
`SettledIsFinalHolds`.
`AckEarned` says that an acknowledgement that has begun has a reason and keeps it
across the file operations, `NeverQueued` and `ScanShape` say where an entry
cannot be. Finality holds only while every recovery so far began with nothing in
flight (`clean`); then `OneParty` holds, that each entry is in the hands of its
sender, of one file operation or of the list of one recovery, so that no second
party can write it back after it was removed. `AttemptsWithinBudget` rests on
that too: what an entry was taken up for is what its file counts, one less while
the attempt is under way or its count is about to be written, up to the counts
that faults lost.

**`FollowupQueueProofs`**, for any messages, caps, routes, policies and numbers
of queue objects: `Typing`, `Invariance`, `AnsweredOnceHolds`,
`LossOnlyByRacesHolds`, `NoIdleBacklogHolds`, `AnsweredInOrderHolds`. The first
part of the invariant survives all races: queues are in the order of arrival,
and what a turn's end will leave is newer than what the turn was given, even if
an overflow has shifted the queue under it (`ArrivalOrder`); a message is in one
queue and one turn (`HeldOnce`, `HeldArrived`). `AnsweredOnce` follows. The
second part, `UnlessRaced`, ends with the first race: only the mapped queue is
drained, a turn's end removes only what the turn had, what is not dealt with
waits in the mapped queue, behind all that is answered.

**`CronServiceProofs`**, for any jobs, limits, slots and number of services:
`Typing`, `Invariance`, `OneRunPerJobHolds`, `NeverAsleepHolds`,
`DueNeverSkippedHolds`. `Lives` orders the services of a life, `Timed` bounds
marks by the clock. The next ones end with a reload that starts a second
service (`OneService`), as the two properties that rest on them do: `InStep`,
memory and file agree on what is on and when it is due - which makes it safe
that some sections trust the memory; `MarkedUnderWay`, a job under way is on and
marked in the file for no longer than marks last and in memory at least as late;
`OnePlace`, it is under way in one batch or one slot. `NeverAsleep` holds after
any number of reloads and needs `Watched`: while the file has a job with a next
run someone `WillCome` - a service new, at work, up with its timer, or in its
start or at the end of its tick with a plan in memory - or a manual run is about
to write a job of the stopped first service back and to set a timer
(`StaleManual`); and the current service, if it is up, has its timer, is at work
or has nothing planned. A timer is set from memory and the property speaks of
the file, hence the two halves. A `list` through the stopped first service
may write its memory to the file without setting a timer, but only if it clears
a mark: `OwnMarks` says that this is the mark of a manual run, whose end sets
one, and `Tidied`, a job that is off has no next run, that nothing else makes a
`list` write.

**`HeartbeatWakeProofs`**, for any agents and bounds: `Typing`,
`NoStrandedWakeHolds`, `OneBatchAtATimeHolds`, `ChainUnbrokenHolds`,
`EventKeptHolds`; several agents and calls that visit only some of them are
included. The invariant has the shape of batches, that no batch is a
later runner's than the current one, and `FlagHolds`: while the flag `running` is
down the current runner has no batch in flight unless `crossed`; the flag is
cleared by any batch, so its own batch's end must be told from that of an
earlier runner. The types need `TimerEarned`: a firing put off for `running` has
a timer, or the end of a batch would set one with nothing to hand over.
`QueueMerges` says what a request does to the queue, and `QueueAllMerges` that
the loop of the catch block, which is a recursive function, does so for a whole
batch. That is an induction; since the library's induction theorems cannot be
instantiated here, it goes over a set of numbers (`CountingReachesAll`, from the
well-foundedness of `<`), which also shows that the recursive definition has a
solution (`LoopIs`). `Bearer` names the batches that carry the chain on, and
`EventKept`, an action property stated with its proof, says that a wake for an
event leaves the queue only whole, with a batch that starts.

**`ServerChannelsProofs`**, for any number of requests, attempts and runs:
`Typing`, `OneRunPerAccountHolds`, `StoppedStaysStoppedHolds`,
`MarkedOnlyIfStoppedHolds`. `OneRun` ties the three entries of the store to the
run they belong to; `StopsOK` says that a stop waits only for the run that is
the task, so that clearing the store afterwards clears nobody else's entries. A
second invariant, proved from the first, says what the mark implies of runs and
of the monitor.

**`GatewayLockProofs`**, for any processes, configurations and ports: `Typing`
and `SettledStaysHolds`. The argument is in `SettledFacts` and `OthersWait`: a
process that reads the settled owner's file finds the port taken, since the
owner answers on loopback, and the owner alive, and goes back to wait.

Left to TLC is liveness: `RestartEnds`, `AcceptedWorkSettles`, `PendingSettles`,
`EveryMessageHandled`, `DueAgentRuns`, `EventWakeHandled`, `WantedComesBack`,
`StopEnds`, `LoneStartSucceeds` and the three disagreements. Fairness and
`ENABLED` are outside what the installed provers can do.

## 6. What the models disagree with

Three runs end in a counterexample to something the repository says of itself;
`PROJECT.json` quotes the lines.

* `OneRunPerSession`: after a drain timeout and an in-process restart a second
  run of a session may execute beside the first.
* `NothingLost`: an overflow during a collected turn loses messages.
* `OthersGoOn`: the time limit of a cron job is cleared as soon as it is set, so
  a job that never ends stops all others.

What does hold is stated beside them (`OneRunPerSessionPerLifecycle`,
`DrainedMeansNoAgentRun`, `LossOnlyByRaces`, `NeverAsleep`) so that a change for
the worse is noticed. Other observations have no run of their own; where a
property would fail because of one, it exempts it by name.

*Command queue.* `command-queue.ts:277-279` says that queued entries are
preserved for after a restart. While the queue drains, a session entry that was
waiting is started when the run before it ends, and its enqueue in the global
lane is refused, so it fails.

*A restart during the start of the server.* A `SIGUSR1` that is accepted while
the loop awaits `params.start()` (`run-loop.ts:255`) closes the queue, finds no
server to close, and at its end calls the resolver of the round before, which
does nothing (`run-loop.ts:115`, `:279`); no iteration follows and no lane is
reset. The gateway then serves with its queue closed: every enqueue is refused
until the next restart. `RestartEnds` exempts such a request (`early`); without
the exemption TLC finds it violated.

*Restarts.* `run-loop.ts:175` reports "all active work drained". That holds of
the runs of the lifecycle (`DrainedMeansNoAgentRun`), not of all: a run whose
session task was started before an earlier in-process restart, and whose work
was still queued in the global lane, belongs to no active task that a second
restart counts, and it may be started after that restart's snapshot. It takes
three runs of different sessions in a main lane of cap one, and two restarts.

*Follow-up queue.* A clear during a drain leaves the old queue object draining
beside the session's new one. Messages may then wait in the new one, which is
idle, and only the end of the old one's drain looks at them (`NoIdleBacklog`
after a race).

*Delivery queue.* `deliver.ts:502` says "remove after success". Recovery passes
`bestEffort` without `onError`, cannot see such a delivery fail and acknowledges
it (`KeptUntilSettled` exempts `swallowed`).

*Cron.* The last step of a start and the addition of a job recompute the next
run of every job that is due (`ops.ts:130`, `ops.ts:257`), and so pass over runs
which the comment at `timer.ts:1093-1095` says are to be preserved
(`DueNeverSkipped` names the two steps). A forced manual run of a disabled job
loses its mark at the next maintenance; a job switched off and on while it runs
loses it too; so does one that runs longer than `STUCK_RUN_MS`. In each case it
may be started twice (`slips` in `OneRunPerJob`).

*Cron after a hot reload.* The reload stops the timer of the former service
(`server-reload-handlers.ts:88`) but not what it is doing. A tick in flight -
running jobs, having found nothing, or sweeping sessions - and a manual run set
the timer again at their end (`timer.ts:826-827`), and the service lives on
beside the new one. More than that, the request context keeps the first service
(`server.impl.ts:1240-1242`), so every later `list`, `add`, `update`, `remove`
and `run` of a user reaches the stopped one: it works on its own memory, which
does not see the marks and edits of the new service, writes that memory to the
file, and sets its own timer. The new service's start also clears the marks of
running jobs. Two runs of one job at a time are the consequence, with none of
the `slips`; that is why `OneRunPerJob` and `DueNeverSkipped` are stated until a
reload. Jobs the user has removed may come back when a manual run ends or the
other service writes its memory; `NeverAsleep` holds all the same. A mark
written back holds a job up until `STUCK_RUN_MS` is over. Limits of the new
configuration reach the new service's ticks only: the cap of the cron lane is
set at the start of the gateway (`server.impl.ts:877`).

*Heartbeats.* `docs/cli/system.md:41` says that `enable` turns heartbeats back
on. A wake that comes while they are off returns before the `finally` that sets
the runner's timer (`heartbeat-runner.ts:1074`), and `set-heartbeats` only sets
the flag, so interval wakes stay off until something else wakes the runner
(`lapsed`). Wakes in the batch of a stopped runner are answered and dropped. The
"hard minimum delay" of `heartbeat-wake.ts:123` is not kept if a normal timer
was set while the batch ran. With a delay of 0 the timer polls while a batch is
being handled.
A reload of the configuration gives an agent that is due but never ran, or whose
interval has grown, a time an interval from now (`heartbeat-runner.ts:976-984`):
the heartbeat that was due is passed over, and reloads that come more often than
the interval put such an agent off for ever. Nothing in the code or the docs
says otherwise, so `DueAgentRuns` asks for a heartbeat in the end, with reloads
bounded.

*Channels.* A start that comes while a stop awaits the plugin's hook is let in;
the stop then deletes its entries and a second run can start beside it, which no
stop finds (`overtaken`). A stop in the middle of the monitor's restart is
overruled; a stop with nothing running and no hook sets no mark; one during a
start has its mark removed by that start. A monitor's restart whose hook throws
leaves the account marked, and neither restarts nor the monitor touch it again;
so does a start ignored while a stop was under way. The comment "next crash will
retry" (`server-channels.ts:440`) is not so, the monitor does.

*Gateway lock.* `gateway-lock.ts:243` calls the global lock strict
single-instance mode. A stale file is removed without looking at it again, so
two processes acquiring at once may both get through. The probe asks 127.0.0.1
at the prober's own port (`gateway-lock.ts:148-174`): a gateway bound to a
tailnet or custom address does not answer there, so a second process on the
*same* port judges the listening owner dead and takes its files, and the
bind keeps it out only if it binds the same address; so does one on another
port, and one whose connection is not made within a second. `SettledStays` says
what is left. After a failed restart in place the lock is released and later
restarts serve without it. `docs/gateway/gateway-lock.md` describes the bind to
the port as the guard, and the model agrees that it is.

## 7. Not modelled

Exec approvals are in the plan: a small table with timers, where a decision
races the timeout and the grace period (`exec-approval-manager.ts:109`, listed as
a hazard that no property covers yet). The rest of the
inventory is left out for the reasons given per component in `PROJECT.json`:
pure I/O, presentation, third-party protocols, or record keeping without
concurrency of its own. The bulk of the repository's lines is user interface,
channel adapters, provider plugins, configuration schemas and generated code,
whose behaviour is text and I/O rather than states a checker could tell apart.

Within the modelled parts the following are left out: what an agent run, a
heartbeat or a cron job does; message content and prompts; the schedule
expressions of cron jobs, failure alerts and edits of fields other than the
schedule; a restart in place of a gateway whose cron service was reloaded, whose
close handler stops the first service only; more than one account of a channel at once, since accounts share only
a store's maps, and the start of all channels at boot; the monitor's cooldown
and hourly limit; lock files on Windows and macOS; refused file operations other
than those of the delivery queue.

## 8. Running

    tlc -config MCCommandQueue.cfg MCCommandQueue
    tlc -config MCDeliveryQueue.cfg DeliveryQueue
    tlapm CommandQueueProofs.tla
    tlapm AgentLanesProofs.tla
    tlapm DeliveryQueueProofs.tla
    tlapm FollowupQueueProofs.tla
    tlapm CronServiceProofs.tla
    tlapm HeartbeatWakeProofs.tla
    tlapm ServerChannelsProofs.tla
    tlapm GatewayLockProofs.tla

Each run of `PROJECT.json` names its module and configuration. The operators
marked "Mutant" in the modules are wrong versions of the definition that follows
them; with one put in place of that definition the property named in
`PROJECT.json` fails.
