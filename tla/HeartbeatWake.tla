---------------------------- MODULE HeartbeatWake ----------------------------
(***************************************************************************)
(* The heartbeat's wake layer (infra/heartbeat-wake.ts) and the runner     *)
(* whose handler it calls (startHeartbeatRunner, infra/heartbeat-runner.ts)*)
(*                                                                         *)
(* Requests for a wake collect in pendingWakes until one timer fires; the  *)
(* whole batch is then given to the handler, wake by wake.  A handler call *)
(* that finds the main lane busy is put back for a retry.  The runner has  *)
(* a timer of its own that asks for the next interval wake, and each call  *)
(* that gets that far arms it again.  The wake layer outlives the runner,  *)
(* which an in-process restart replaces while its last batch may go on.    *)
(*                                                                         *)
(* Delays are ticks: 0 for none, 1 for the coalescing delay, 2 for the     *)
(* retry delay.  Of a wake only its target and its priority are kept; the  *)
(* priority tells an interval wake from the others.  An agent is due once  *)
(* its interval has passed.  Sessions within an agent are left out, and    *)
(* which agents a reload finds due is left open: it reckons the interval,  *)
(* which may have changed, from the last run, if there was one.            *)
(***************************************************************************)
EXTENDS Integers, Sequences, FiniteSets, SequencesExt

CONSTANTS
  Agents,       \* agents that have a heartbeat
  AnyAgent,     \* the target of a wake that names no agent
  MaxRequests,  \* bound on requests from outside the runner
  MaxRunners,   \* bound on runners, one per start of the gateway
  MaxSettings,  \* bound on heartbeat switches and configuration reloads
  MaxBatches    \* bound on batches in flight together

Targets == Agents \cup {AnyAgent}
Runners == 1..MaxRunners
Slots == 1..MaxBatches

ASSUME HeartbeatWakeAssumption ==
  /\ IsFiniteSet(Agents) /\ AnyAgent \notin Agents
  /\ MaxRequests \in Nat /\ MaxRunners \in Nat
  /\ MaxSettings \in Nat /\ MaxBatches \in Nat

Interval == 1
Default == 2
Action == 3

Coalesce == 1
Retry == 2
Delays == {0, Coalesce, Retry}

VARIABLES
  pending,     \* pendingWakes, in insertion order
  timer,       \* the wake timer: ticks left, its kind and its whole delay
  scheduled,
  running,
  handler,     \* the runner whose handler is registered, or 0
  batches,     \* the batches being handled
  generation,  \* runners started so far
  agents,      \* state.agents of the runner
  armed,       \* state.timer of the runner is set
  due,         \* agents whose interval has passed
  owed,        \* history: agents that fell due and have not been run since
  call,        \* what the call of each batch works on
  enabled,     \* heartbeatsEnabled
  requests,
  settings,
  crossed,     \* a batch ended under the batch of a later runner
  lapsed       \* a wake for all was passed over and the timer not set since

wakeLayer == <<pending, timer, scheduled, running, handler, batches>>
runner == <<generation, agents, armed, due, owed, call, lapsed>>
outside == <<enabled, requests, settings>>
vars == <<wakeLayer, runner, outside, crossed>>

NoTimer == [left |-> 0, kind |-> "none", delay |-> 0]
NoBatch == [todo |-> <<>>, all |-> <<>>, delay |-> 0, by |-> 0, idle |-> FALSE]
Busy(b) == batches[b] # NoBatch

\* The agents a call goes through, whether the configuration they are from was
\* replaced since it started, and whether heartbeats were switched off since.
NoCall == [visits |-> {}, old |-> FALSE, cut |-> FALSE]

Init ==
  /\ pending = <<>>
  /\ timer = NoTimer
  /\ scheduled = FALSE
  /\ running = FALSE
  /\ handler = 0
  /\ batches = [b \in Slots |-> NoBatch]
  /\ generation = 0
  /\ agents = {}
  /\ armed = FALSE
  /\ due = {}
  /\ owed = {}
  /\ call = [b \in Slots |-> NoCall]
  /\ enabled = TRUE
  /\ requests = 0
  /\ settings = 0
  /\ crossed = FALSE
  /\ lapsed = FALSE

---------------------------------------------------------------------------
(* The wake layer's helpers.                                               *)

\* Mutant: the later request replaces the earlier one of the same target.
LatestWins(p, w) ==
  IF \E i \in DOMAIN p : p[i].target = w.target
  THEN [i \in DOMAIN p |-> IF p[i].target = w.target THEN w ELSE p[i]]
  ELSE Append(p, w)

\* Mutant: a request is added whether or not its target waits already.
Enqueue(p, w) == Append(p, w)

\* queuePendingWakeReason: per target the highest priority is kept.
Queue(p, w) ==
  IF \E i \in DOMAIN p : p[i].target = w.target
  THEN [i \in DOMAIN p |->
         IF p[i].target = w.target /\ w.priority >= p[i].priority THEN w ELSE p[i]]
  ELSE Append(p, w)

\* Mutant: a wake that met a busy lane is dropped.
Drop(p, w) == p

PutBack(p, w) == Queue(p, w)

\* The catch block's loop over the batch.
QueueAll(p, ws) ==
  LET queued[n \in 0..Len(ws)] == IF n = 0 THEN p ELSE Queue(queued[n - 1], ws[n])
  IN  queued[Len(ws)]

\* schedule: a retry timer is never preempted, nor one that is due no later.
Schedule(t, d, k) ==
  IF t.kind = "retry" \/ (t.kind = "normal" /\ t.left <= d)
  THEN t
  ELSE [left |-> d, kind |-> k, delay |-> d]

\* The finally block: what came in the meantime is handled after the delay.
WakeAgain(t, p, d) == IF p # <<>> \/ scheduled THEN Schedule(t, d, "normal") ELSE t

\* The handler's early returns: its runner stopped, or heartbeats are off.
Idle(g) == g # handler \/ ~enabled \/ agents = {}

\* The agents a call of runner g that starts now for the wake w goes through, if
\* D are due: an interval wake compares their times with the time it starts at.
CallFor(g, w, D) ==
  [NoCall EXCEPT !.visits = IF Idle(g) THEN {}
                            ELSE IF w.target # AnyAgent THEN {w.target} \cap agents
                            ELSE IF w.priority = Interval THEN D ELSE agents]

---------------------------------------------------------------------------
(* Requests and the timer.                                                 *)

Request(t, p) ==
  /\ requests < MaxRequests
  /\ requests' = requests + 1
  /\ pending' = Queue(pending, [target |-> t, priority |-> p])
  /\ timer' = Schedule(timer, Coalesce, "normal")
  /\ UNCHANGED <<scheduled, running, handler, batches, runner, enabled, settings, crossed>>

Tick ==
  /\ timer.kind # "none"
  /\ timer.left > 0
  /\ timer' = [timer EXCEPT !.left = @ - 1]
  /\ UNCHANGED <<pending, scheduled, running, handler, batches, runner, outside, crossed>>

\* Mutant: a batch is taken although one is being handled.
MayHandleAnyway == TRUE

MayHandle == ~running

Fires == timer.kind # "none" /\ timer.left = 0

\* With no handler the wakes stay where they are, without a timer.
FireUnhandled ==
  /\ Fires
  /\ handler = 0
  /\ timer' = NoTimer
  /\ scheduled' = FALSE
  /\ UNCHANGED <<pending, running, handler, batches, runner, outside, crossed>>

FireWhileRunning ==
  /\ Fires
  /\ handler # 0
  /\ running
  /\ scheduled' = TRUE
  /\ timer' = [timer EXCEPT !.left = timer.delay]
  /\ UNCHANGED <<pending, running, handler, batches, runner, outside, crossed>>

\* The handler is called with the first wake before anything else happens.
\* The code's return for an empty batch is never taken (see TypeOK).
FireBatch(b) ==
  /\ Fires
  /\ handler # 0
  /\ MayHandle
  /\ pending # <<>>
  /\ ~Busy(b)
  /\ \A a \in Slots : a < b => Busy(a)
  /\ batches' = [batches EXCEPT ![b] = [todo |-> pending, all |-> pending,
                                        delay |-> timer.delay, by |-> handler,
                                        idle |-> Idle(handler)]]
  /\ pending' = <<>>
  /\ timer' = NoTimer
  /\ scheduled' = FALSE
  /\ running' = TRUE
  /\ call' = [call EXCEPT ![b] = CallFor(handler, Head(pending), due)]
  /\ UNCHANGED <<handler, generation, agents, armed, due, owed, lapsed, outside, crossed>>

---------------------------------------------------------------------------
(* The end of a handler call, and of the batch when it was the last.       *)

\* The flag is cleared whichever batch ends.
Leave(b, p, t) ==
  /\ batches' = [batches EXCEPT ![b] = NoBatch]
  /\ running' = FALSE
  /\ pending' = p
  /\ timer' = WakeAgain(t, p, batches[b].delay)
  /\ crossed' = \E a \in Slots \ {b} : Busy(a) /\ (crossed \/ batches[a].by > batches[b].by)

Proceed(b, p, t) ==
  IF Len(batches[b].todo) = 1
  THEN Leave(b, p, t)
  ELSE /\ batches' = [batches EXCEPT ![b].todo = Tail(@),
                                     ![b].idle = Idle(batches[b].by)]
       /\ pending' = p
       /\ timer' = t
       /\ UNCHANGED <<running, crossed>>

Wake(b) == Head(batches[b].todo)

\* A stopped runner's schedule is nobody's any more, nor what its calls work on.
Current(b) == batches[b].by = handler

\* scheduleNext
Arm == armed' = (agents # {}) /\ lapsed' = FALSE

\* Mutant: the runner's timer is armed again only after an interval wake.
ArmAfterInterval(w) == IF w.priority = Interval THEN Arm ELSE UNCHANGED <<armed, lapsed>>

\* The finally block of run.
ArmAfter(w) == Arm

\* The next call of a batch starts when D are due.
NextCall(b, D) ==
  call' = [call EXCEPT ![b] = IF Len(batches[b].todo) = 1 THEN NoCall
                              ELSE CallFor(batches[b].by, batches[b].todo[2], D)]

\* An interval wake passes over an agent another call has run since.
Visited(b) ==
  IF Wake(b) = [target |-> AnyAgent, priority |-> Interval] /\ Current(b) /\ ~call[b].old
  THEN call[b].visits \cap due ELSE call[b].visits

\* advanceAgentSchedule moves on the agents the call works on, which a reload
\* has replaced by others.
Advance(b, A) == due' = IF Current(b) /\ ~call[b].old THEN due \ A ELSE due

HaveRun(b, A) == owed' = IF Current(b) THEN owed \ A ELSE owed

CallIdle(b) ==
  /\ Busy(b)
  /\ batches[b].idle
  /\ Proceed(b, pending, timer)
  /\ NextCall(b, due)
  /\ lapsed' = (lapsed \/ (Current(b) /\ Wake(b).target = AnyAgent))
  /\ UNCHANGED <<scheduled, handler, generation, agents, armed, due, owed, outside>>

\* run: the agents it ran are due again an interval later; one it came to
\* after heartbeats were switched off stays as it was, and so may one that a
\* reload has taken away.
CallDone(b) ==
  /\ Busy(b)
  /\ ~batches[b].idle
  /\ \E ran \in SUBSET Visited(b) :
       /\ ~call[b].cut /\ ~call[b].old => ran = Visited(b)
       /\ Advance(b, ran)
       /\ HaveRun(b, ran)
  /\ NextCall(b, due')
  /\ Proceed(b, pending, timer)
  /\ IF Current(b) THEN ArmAfter(Wake(b)) ELSE UNCHANGED <<armed, lapsed>>
  /\ UNCHANGED <<scheduled, handler, generation, agents, outside>>

\* The main lane is busy.  For a wake that names its agent the runner's
\* schedule moves on; otherwise only for the agents that came before.
CallBusy(b) ==
  /\ Busy(b)
  /\ ~batches[b].idle
  /\ Visited(b) # {} \/ ~Current(b)
  /\ LET retry == Schedule(timer, Retry, "retry") IN
     Proceed(b, PutBack(pending, Wake(b)), retry)
  /\ \E ran \in SUBSET Visited(b) :
       /\ ran # Visited(b) \/ ~Current(b)
       /\ Advance(b, IF Wake(b).target # AnyAgent THEN Visited(b) ELSE ran)
       /\ HaveRun(b, ran)
  /\ NextCall(b, due')
  /\ IF Current(b) /\ Wake(b).target # AnyAgent THEN Arm ELSE UNCHANGED <<armed, lapsed>>
  /\ UNCHANGED <<scheduled, handler, generation, agents, outside>>

\* The wake layer also handles a call that throws: the whole batch, with the
\* wakes already handled, is put back.
CallThrows(b) ==
  /\ Busy(b)
  /\ ~batches[b].idle
  /\ requests < MaxRequests
  /\ requests' = requests + 1
  /\ Leave(b, QueueAll(pending, batches[b].all), Schedule(timer, Retry, "retry"))
  /\ call' = [call EXCEPT ![b] = NoCall]
  /\ IF Current(b) THEN Arm ELSE UNCHANGED <<armed, lapsed>>
  /\ UNCHANGED <<scheduled, handler, generation, agents, due, owed, enabled, settings>>

---------------------------------------------------------------------------
(* The runner's life, its timer, and the switches.                         *)

\* Mutant: the wakes that waited for a handler get no timer.
NoTimerForWaiting(p) == NoTimer

TimerForWaiting(p) == IF p = <<>> THEN NoTimer ELSE Schedule(NoTimer, Coalesce, "normal")

\* startHeartbeatRunner; setHeartbeatWakeHandler clears what the last runner
\* left behind and sets the timer for the wakes that waited for a handler.
Start(A) ==
  /\ handler = 0
  /\ generation < MaxRunners
  /\ generation' = generation + 1
  /\ handler' = generation + 1
  /\ timer' = TimerForWaiting(pending)
  /\ running' = FALSE
  /\ scheduled' = FALSE
  /\ agents' = A
  /\ due' = {}
  /\ owed' = {}
  /\ armed' = (A # {})
  /\ lapsed' = FALSE
  /\ UNCHANGED <<pending, batches, call, outside, crossed>>

\* cleanup, when the gateway closes; a call in flight goes on.
Stop ==
  /\ handler # 0
  /\ handler' = 0
  /\ armed' = FALSE
  /\ lapsed' = FALSE
  /\ due' = {}
  /\ owed' = {}
  /\ call' = [b \in Slots |-> NoCall]
  /\ UNCHANGED <<pending, timer, scheduled, running, batches, generation, agents, outside, crossed>>

FallsDue(a) ==
  /\ handler # 0
  /\ a \in agents \ due
  /\ due' = due \cup {a}
  /\ owed' = owed \cup {a}
  /\ UNCHANGED <<wakeLayer, generation, agents, armed, call, lapsed, outside, crossed>>

IntervalTimer ==
  /\ armed
  /\ due # {}
  /\ armed' = FALSE
  /\ pending' = Queue(pending, [target |-> AnyAgent, priority |-> Interval])
  /\ timer' = Schedule(timer, 0, "normal")
  /\ UNCHANGED <<scheduled, running, handler, batches, generation, agents, due, owed, call,
                 lapsed, outside, crossed>>

\* A call of the runner is in flight.
InCall(b) == Busy(b) /\ Current(b) /\ ~batches[b].idle

SetHeartbeatsEnabled ==
  /\ settings < MaxSettings
  /\ settings' = settings + 1
  /\ enabled' = ~enabled
  /\ call' = [b \in Slots |-> [call[b] EXCEPT !.cut = InCall(b)]]
  /\ UNCHANGED <<wakeLayer, generation, agents, armed, due, owed, lapsed, requests, crossed>>

\* updateConfig of a running runner.  resolveNextDue passes over an agent that
\* is due but never ran, or whose interval grew, and finds one due whose
\* interval shrank; an agent that is new is due an interval from now.
UpdateConfig(A) ==
  /\ handler # 0
  /\ settings < MaxSettings
  /\ settings' = settings + 1
  /\ agents' = A
  /\ due' \in SUBSET (agents \cap A)
  /\ owed' = (owed \cap A) \cup due'
  /\ call' = [b \in Slots |-> [call[b] EXCEPT !.old = InCall(b)]]
  /\ armed' = (A # {})
  /\ lapsed' = FALSE
  /\ UNCHANGED <<wakeLayer, generation, enabled, requests, crossed>>

---------------------------------------------------------------------------
Configurations == {{}, Agents}

CallEnds(b) == CallIdle(b) \/ CallDone(b) \/ CallBusy(b) \/ CallThrows(b)

Fire == FireUnhandled \/ FireWhileRunning \/ \E b \in Slots : FireBatch(b)

Next ==
  \/ \E t \in Targets, p \in {Default, Action} : Request(t, p)
  \/ Tick \/ Fire \/ IntervalTimer
  \/ \E b \in Slots : CallEnds(b)
  \/ \E A \in Configurations : Start(A) \/ UpdateConfig(A)
  \/ Stop \/ SetHeartbeatsEnabled
  \/ \E a \in Agents : FallsDue(a)

Spec == Init /\ [][Next]_vars

\* Timers fire, intervals pass, a handler call ends, and the main lane is not
\* found busy for ever by the calls that come to an agent.
Fairness ==
  /\ WF_vars(Tick)
  /\ WF_vars(Fire)
  /\ WF_vars(IntervalTimer)
  /\ \A b \in Slots : WF_vars(CallEnds(b))
  /\ \A a \in Agents :
       /\ WF_vars(FallsDue(a))
       /\ SF_vars(\E b \in Slots : Busy(b) /\ a \in Visited(b) /\ CallDone(b))

FairSpec == Spec /\ Fairness

---------------------------------------------------------------------------
(* Properties.                                                             *)

WakeType == [target : Targets, priority : {Interval, Default, Action}]
CallType == [visits : SUBSET Agents, old : BOOLEAN, cut : BOOLEAN]

OneWakePerTarget(s) == \A i, j \in DOMAIN s : s[i].target = s[j].target => i = j

TypeOK ==
  /\ pending \in Seq(WakeType) /\ OneWakePerTarget(pending)
  /\ timer.kind \in {"none", "normal", "retry"}
  /\ timer.delay \in Delays /\ timer.left \in 0..timer.delay
  /\ timer.kind # "none" => pending # <<>>
  /\ scheduled \in BOOLEAN /\ running \in BOOLEAN
  /\ handler \in {0, generation}
  /\ \A b \in Slots :
       /\ batches[b].todo \in Seq(WakeType) /\ batches[b].all \in Seq(WakeType)
       /\ batches[b].by \in 0..generation
       /\ batches[b] # NoBatch <=> batches[b].todo # <<>>
  /\ agents \subseteq Agents /\ due \subseteq agents /\ owed \subseteq agents
  /\ call \in [Slots -> CallType]
  /\ armed \in BOOLEAN /\ enabled \in BOOLEAN /\ crossed \in BOOLEAN /\ lapsed \in BOOLEAN

\* Wakes never wait for a handler that is there without a timer to hand them
\* over, whatever batches, retries and restarts overlapped.
NoStrandedWake == pending # <<>> /\ handler # 0 => timer.kind # "none"

\* A runner handles one batch at a time, although the flag that says so is
\* shared: only a batch of an earlier runner that ends under one of its own
\* lets a second one in.
OneBatchAtATime ==
  \A a, b \in Slots : Busy(a) /\ Busy(b) /\ batches[a].by = batches[b].by /\ a # b => crossed

\* The runner's next interval wake is on its way: its timer is set, or a wake
\* that will set it waits, or a call that will is running - however wakes
\* merged, batches overlapped and calls were put off.  Only a wake that was
\* handed over while heartbeats were off, or had no agent, breaks the chain.
ChainUnbroken ==
  handler # 0 /\ agents # {} =>
    \/ armed
    \/ \E i \in DOMAIN pending : pending[i].target = AnyAgent
    \/ \E b \in Slots :
         /\ Busy(b) /\ Current(b)
         /\ ~batches[b].idle \/ \E w \in ToSet(batches[b].todo) : w.target = AnyAgent
    \/ lapsed

\* An agent whose heartbeat is due gets one, however requests, busy lanes and
\* retries fall in between and although a reload of the configuration may pass
\* it over, unless heartbeats are switched off or the agent has none any more.
\* Reloads are bounded here: one that comes before each interval has passed
\* puts an agent that never ran off for ever.
DueAgentRuns ==
  \A a \in Agents : a \in owed /\ ~lapsed ~> a \notin owed \/ ~enabled \/ handler = 0

\* A wake asked for an event is never reduced to an interval wake, which would
\* pass over the agents that are not due: it waits until a handler takes it.
Wanted(t) == \E i \in DOMAIN pending : pending[i] = [target |-> t, priority |-> Action]
Taken(t) ==
  \E b \in Slots : Busy(b) /\ Wake(b) = [target |-> t, priority |-> Action]
EventWakeHandled == \A t \in Targets : Wanted(t) ~> Taken(t) \/ handler = 0
=============================================================================
