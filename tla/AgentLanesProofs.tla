--------------------------- MODULE AgentLanesProofs ---------------------------
(***************************************************************************)
(* Proofs about AgentLanes for every set of runs, sessions, jobs, lane     *)
(* parameters and caps.  The queue's own invariant is not proved again:    *)
(* the composition's steps are steps of the queue, so CQP, the queue with  *)
(* its proofs at the entries and lanes used here, lends it.                *)
(***************************************************************************)
EXTENDS AgentLanes, FiniteSetTheorems, TLAPS

CQP == INSTANCE CommandQueueProofs
  WITH Lanes <- AgentLaneSet, Entries <- AgentEntries, LaneOf <- AgentLaneOf,
       Inner <- AgentInner, Eager <- {<<"session", r>> : r \in Runs},
       Configured <- ConfiguredLanes

---------------------------------------------------------------------------
(* The queue is used within its assumptions.                               *)

\* Both copies of a library operator are the operator.
LEMMA SameFinite == ASSUME NEW S PROVE IsFiniteSet(S) <=> CQP!IsFiniteSet(S)
BY DEF IsFiniteSet, CQP!IsFiniteSet

LEMMA TaggedFinite ==
  ASSUME NEW S, IsFiniteSet(S), NEW t
  PROVE  IsFiniteSet({<<t, x>> : x \in S})
<1> DEFINE T == {<<t, x>> : x \in S}
           f == [x \in S |-> <<t, x>>]
<1>1. f \in Surjection(S, T)
  BY DEF Surjection
<1>2. QED
  BY <1>1, FS_Surjection

LEMMA EntriesFinite == IsFiniteSet(AgentEntries)
<1> DEFINE ofSession == {<<"session", r>> : r \in Runs}
           ofGlobal == {<<"global", r>> : r \in Runs}
           ofJob == {<<"job", j>> : j \in Jobs}
<1>1. IsFiniteSet(ofSession)
  BY AgentLanesAssumption, TaggedFinite
<1>2. IsFiniteSet(ofGlobal)
  BY AgentLanesAssumption, TaggedFinite
<1>3. IsFiniteSet(ofJob)
  BY AgentLanesAssumption, TaggedFinite
<1>4. AgentEntries = (ofSession \cup ofGlobal) \cup ofJob
  BY DEF AgentEntries
<1> HIDE DEF ofSession, ofGlobal, ofJob
<1>5. QED
  BY <1>1, <1>2, <1>3, <1>4, FS_Union

\* What the entries are: every run has one in its session lane that enqueues
\* one in its global lane.
LEMMA EntryOfRun ==
  ASSUME NEW r \in Runs
  PROVE  /\ <<"session", r>> \in AgentEntries /\ <<"global", r>> \in AgentEntries
         /\ AgentInner[<<"session", r>>] = <<"global", r>>
         /\ AgentLaneOf[<<"session", r>>] = ResolveSessionLane(SessionOf[r])
         /\ AgentInner[<<"session", r>>] # NoEntry
         /\ <<"session", r>> # <<"global", r>>
BY DEF AgentEntries, AgentInner, AgentLaneOf, NoEntry

LEMMA SessionLane ==
  ASSUME NEW r \in Runs
  PROVE  ResolveSessionLane(SessionOf[r]) \in AgentLaneSet \ ConfiguredLanes
<1>1. ResolveSessionLane(SessionOf[r]) \in AgentLaneSet
  BY EntryOfRun DEF AgentLaneSet
<1>2. ResolveSessionLane(SessionOf[r]) \notin ConfiguredLanes
  BY DEF ResolveSessionLane, ConfiguredLanes, CronLane, MainLane
<1>3. QED
  BY <1>1, <1>2

LEMMA QueueAssumption == CQP!CommandQueueAssumption
<1>1. CQP!IsFiniteSet(AgentEntries)
  BY EntriesFinite, SameFinite
<1>2. NoEntry \notin AgentEntries
  BY DEF NoEntry, AgentEntries
<1>3. AgentLaneOf \in [AgentEntries -> AgentLaneSet]
  BY DEF AgentLaneOf, AgentLaneSet
<1>4. AgentInner \in [AgentEntries -> AgentEntries \cup {NoEntry}]
  <2> SUFFICES ASSUME NEW e \in AgentEntries PROVE AgentInner[e] \in AgentEntries \cup {NoEntry}
    BY DEF AgentInner
  <2>1. QED
    BY AgentLanesAssumption DEF AgentInner, AgentEntries
<1>5. ASSUME NEW e \in AgentEntries, NEW f \in AgentEntries,
             AgentInner[e] = AgentInner[f], AgentInner[e] # NoEntry
      PROVE  e = f
  BY <1>5, AgentLanesAssumption DEF AgentInner, AgentEntries, NoEntry
<1>6. \A e \in AgentEntries : AgentInner[e] # e
  BY DEF AgentInner, AgentEntries, NoEntry
<1>7. {<<"session", r>> : r \in Runs} \subseteq {e \in AgentEntries : AgentInner[e] # NoEntry}
  BY EntryOfRun
<1>8. ConfiguredLanes \subseteq AgentLaneSet
  BY DEF AgentLaneSet
<1>9. Caps \subseteq Int /\ MaxResets \in Nat
  BY AgentLanesAssumption
<1>10. QED
  BY <1>1, <1>2, <1>3, <1>4, <1>5, <1>6, <1>7, <1>8, <1>9 DEF CQP!CommandQueueAssumption

---------------------------------------------------------------------------
(* Every step of the composition is a step of the queue, or leaves it.     *)

LEMMA SameCardinality == ASSUME NEW S PROVE CQ!Cardinality(S) = CQP!Cardinality(S)
BY DEF CQ!Cardinality, CQP!Cardinality, CQ!IsFiniteSet, CQP!IsFiniteSet

LEMMA SameInit == CQ!Init <=> CQP!Init
BY DEF CQ!Init, CQP!Init

LEMMA SameVars == UNCHANGED CQ!vars <=> UNCHANGED CQP!vars
BY DEF CQ!vars, CQP!vars, CQ!laneVars, CQP!laneVars, CQ!runVars, CQP!runVars

LEMMA SameQueueStep == CQ!QueueStep <=> CQP!QueueStep
BY SameCardinality
   DEF CQ!QueueStep, CQP!QueueStep, CQ!DrainLaneBusy, CQP!DrainLaneBusy,
       CQ!DrainLaneEnter, CQP!DrainLaneEnter, CQ!PumpStart, CQP!PumpStart,
       CQ!PumpExit, CQP!PumpExit, CQ!InnerRefused, CQP!InnerRefused,
       CQ!InnerAccepted, CQP!InnerAccepted, CQ!DrainNext, CQP!DrainNext,
       CQ!Refuse, CQP!Refuse, CQ!Accept, CQP!Accept, CQ!Running, CQP!Running,
       CQ!Here, CQP!Here, CQ!Push, CQP!Push, CQ!Pop, CQP!Pop, CQ!HasRoom, CQP!HasRoom,
       CQ!Call, CQP!Call, CQ!Pump, CQP!Pump, CQ!Body, CQP!Body,
       CQ!laneVars, CQP!laneVars, CQ!runVars, CQP!runVars

LEMMA SameEntrySteps ==
  ASSUME NEW e \in AgentEntries
  PROVE  /\ CQ!EnqueueRefused(e) <=> CQP!EnqueueRefused(e)
         /\ CQ!EnqueueAccepted(e) <=> CQP!EnqueueAccepted(e)
         /\ CQ!TaskEnds(e) <=> CQP!TaskEnds(e)
BY DEF CQ!EnqueueRefused, CQP!EnqueueRefused, CQ!EnqueueAccepted, CQP!EnqueueAccepted,
       CQ!TaskEnds, CQP!TaskEnds, CQ!TaskEndsCurrent, CQP!TaskEndsCurrent,
       CQ!TaskEndsStale, CQP!TaskEndsStale, CQ!MayBeEnqueued, CQP!MayBeEnqueued,
       CQ!MayEnd, CQP!MayEnd, CQ!Settled, CQP!Settled, CQ!Refuse, CQP!Refuse,
       CQ!Accept, CQP!Accept, CQ!Quiet, CQP!Quiet, CQ!Push, CQP!Push, CQ!Call, CQP!Call,
       CQ!Pump, CQP!Pump, CQ!laneVars, CQP!laneVars

LEMMA SameLaneSteps ==
  ASSUME NEW l
  PROVE  /\ CQ!ClearCommandLane(l) <=> CQP!ClearCommandLane(l)
         /\ \A n : CQ!SetCommandLaneConcurrency(l, n) <=> CQP!SetCommandLaneConcurrency(l, n)
BY DEF CQ!ClearCommandLane, CQP!ClearCommandLane, CQ!SetCommandLaneConcurrency,
       CQP!SetCommandLaneConcurrency, CQ!CapFor, CQP!CapFor, CQ!Quiet, CQP!Quiet,
       CQ!Push, CQP!Push, CQ!Call, CQP!Call, CQ!laneVars, CQP!laneVars,
       CQ!runVars, CQP!runVars

LEMMA SameRestartSteps ==
  /\ CQ!Quiet <=> CQP!Quiet
  /\ CQ!MarkGatewayDraining <=> CQP!MarkGatewayDraining
  /\ CQ!ResetAllLanes <=> CQP!ResetAllLanes
BY DEF CQ!MarkGatewayDraining, CQP!MarkGatewayDraining, CQ!ResetAllLanes,
       CQP!ResetAllLanes, CQ!Quiet, CQP!Quiet, CQ!runVars, CQP!runVars

\* What a step of the composition does to the queue.
LEMMA StepOfQueue == [Next]_vars => [CQ!Next]_(CQ!vars)
<1> SUFFICES ASSUME [Next]_vars PROVE CQ!Next \/ UNCHANGED CQ!vars
  OBVIOUS
<1>1. CASE QueueStep
  BY <1>1 DEF QueueStep, CQ!Next
<1>2. ASSUME NEW e \in AgentEntries, Enqueue(e) \/ TaskEnds(e) PROVE CQ!Next
  BY <1>2 DEF Enqueue, TaskEnds, CQ!Next
<1>3. ASSUME NEW r \in Runs, InterruptSession(SessionOf[r]) PROVE CQ!Next
  BY <1>3, SessionLane DEF InterruptSession, CQ!Next
<1>4. ASSUME NEW l \in ConfiguredLanes, NEW n \in Caps, ApplyLaneConcurrency(l, n) PROVE CQ!Next
  BY <1>4 DEF ApplyLaneConcurrency, CQ!Next
<1>5. CASE RequestRestart
  BY <1>5 DEF RequestRestart, CQ!Next
<1>6. CASE RestartInProcess
  BY <1>6 DEF RestartInProcess, CQ!Next
<1>7. CASE \/ RequestStop \/ TasksDrained \/ DrainTimeout \/ RestartLost \/ Exit
           \/ StartReturns \/ FirstStartFails \/ UNCHANGED vars
  BY <1>7 DEF RequestStop, TasksDrained, DrainTimeout, RestartLost, Exit, StartReturns,
              FirstStartFails, vars, queueVars, CQ!vars, CQ!laneVars, CQ!runVars
<1>8. QED
  BY <1>1, <1>2, <1>3, <1>4, <1>5, <1>6, <1>7 DEF Next, LoopStep

\* Agent runs, jobs and the run loop use the queue by its operations only, so
\* what holds of the queue under any callers holds of it here.
THEOREM ImplementsQueue == Spec => CQ!Spec
<1>1. Init => CQ!Init
  BY DEF Init
<1>2. QED
  BY <1>1, StepOfQueue, PTL DEF Spec, CQ!Spec

LEMMA SameNext == CQ!Next <=> CQP!Next
<1>1. CQ!QueueStep <=> CQP!QueueStep
  BY SameQueueStep
<1>2. \A e \in AgentEntries : CQ!EnqueueRefused(e) \/ CQ!EnqueueAccepted(e) \/ CQ!TaskEnds(e)
                           <=> CQP!EnqueueRefused(e) \/ CQP!EnqueueAccepted(e) \/ CQP!TaskEnds(e)
  BY SameEntrySteps
<1>3. \A l : /\ CQ!ClearCommandLane(l) <=> CQP!ClearCommandLane(l)
             /\ \A n : CQ!SetCommandLaneConcurrency(l, n) <=> CQP!SetCommandLaneConcurrency(l, n)
  BY SameLaneSteps
<1>4. QED
  BY <1>1, <1>2, <1>3, SameRestartSteps DEF CQ!Next, CQP!Next

LEMMA QueueInit == Init => CQP!Inv
BY SameInit, QueueAssumption, CQP!InvInit DEF Init

LEMMA QueueInvStep == CQP!Inv /\ [Next]_vars => CQP!Inv'
<1>1. [Next]_vars => [CQP!Next]_(CQP!vars)
  BY StepOfQueue, SameNext, SameVars
<1>2. QED
  BY <1>1, QueueAssumption, CQP!InvStep

---------------------------------------------------------------------------
(* Sessions.                                                               *)

\* An executing run holds its session lane.
LEMMA HoldsSession ==
  ASSUME CQP!Inv, NEW r \in Runs, status[<<"global", r>>] \in {"queued", "running"}
  PROVE  status[<<"session", r>>] = "running"
BY EntryOfRun DEF CQP!Inv, CQP!InnerAwaited

LEMMA OneRunFollows == CQP!Inv => OneRunPerSessionPerLifecycle
<1> SUFFICES ASSUME CQP!Inv, NEW r \in Runs, NEW s \in Runs,
                    Executing(r), Executing(s), SessionOf[r] = SessionOf[s],
                    startGen[<<"session", r>>] = startGen[<<"session", s>>]
             PROVE  r = s
  BY DEF OneRunPerSessionPerLifecycle
<1> DEFINE l == ResolveSessionLane(SessionOf[r])
<1>1. status[<<"session", r>>] = "running" /\ status[<<"session", s>>] = "running"
  BY HoldsSession DEF Executing
<1>2. /\ <<"session", r>> \in AgentEntries /\ <<"session", s>> \in AgentEntries
      /\ AgentLaneOf[<<"session", r>>] = l /\ AgentLaneOf[<<"session", s>>] = l
  BY EntryOfRun
<1>3. l \in AgentLaneSet \ ConfiguredLanes
  BY SessionLane
<1>4. <<"session", r>> = <<"session", s>>
  BY <1>1, <1>2, <1>3 DEF CQP!Inv, CQP!SerialLanes
<1>5. QED
  BY <1>4

\* The queue's invariant in the composition.
THEOREM QueueInvariance == Spec => []CQP!Inv
BY QueueInit, QueueInvStep, PTL DEF Spec

\* Two runs of one session never execute at once unless an in-process restart
\* lies between their starts.
THEOREM OneRunPerSessionPerLifecycleHolds == Spec => []OneRunPerSessionPerLifecycle
BY QueueInvariance, OneRunFollows, PTL

---------------------------------------------------------------------------
(* The drain before a restart.                                             *)

\* A run of this lifecycle that is not finished is among the active tasks.
LEMMA UnfinishedIsActive ==
  ASSUME CQP!Inv, NEW r \in Runs, Unfinished(r)
  PROVE  <<"session", r>> \in ActiveTasks
<1> DEFINE e == <<"session", r>>
           l == ResolveSessionLane(SessionOf[r])
<1>1. e \in AgentEntries /\ AgentLaneOf[e] = l /\ l \in AgentLaneSet
  BY EntryOfRun, SessionLane
<1>2. status[e] = "running" /\ startGen[e] = generation
  BY HoldsSession DEF Unfinished
<1>3. e \in active[l]
  BY <1>1, <1>2 DEF CQP!Inv, CQP!SlotsMatchRuns, CQP!RunsOf
<1>4. QED
  BY <1>1, <1>3 DEF ActiveTasks

\* While the queue is closed no run becomes unfinished.
LEMMA NoNewUnfinished ==
  ASSUME CQP!Inv, gatewayDraining, generation' = generation, [Next]_vars,
         NEW r \in Runs, Unfinished(r)'
  PROVE  Unfinished(r)
<1> DEFINE g == <<"global", r>>
           s == <<"session", r>>
<1>1. g \in AgentEntries /\ s \in AgentEntries /\ AgentInner[s] = g /\ AgentInner[s] # NoEntry
  BY EntryOfRun
<1>2. [CQP!Next]_(CQP!vars)
  BY StepOfQueue, SameNext, SameVars
<1>3. \A e \in AgentEntries :
        /\ status'[e] \in {"queued", "running"} => status[e] \in {"queued", "running"}
        /\ startGen'[e] # startGen[e] => status[e] = "queued"
  BY <1>2, QueueAssumption, CQP!ClosedQueue DEF CQP!Inv
<1>4. status[g] \in {"queued", "running"}
  BY <1>1, <1>3 DEF Unfinished
<1>5. status[s] # "queued"
  BY <1>1, <1>4 DEF CQP!Inv, CQP!Nesting, CQP!InnerUntouched
<1>6. startGen'[s] = startGen[s]
  BY <1>1, <1>3, <1>5
<1>7. QED
  BY <1>4, <1>6 DEF Unfinished

LEMMA LoopInit == Init => LoopInv
BY DEF Init, LoopInv, LoopTypeOK, Phases, ClosedWhileRestarting, UnfinishedAwaited

\* Steps of the queue itself, on which the run loop does not move.
LEMMA LoopStays ==
  ASSUME CQP!Inv, LoopInv, [Next]_vars, UNCHANGED <<loopVars, generation>>,
         gatewayDraining => gatewayDraining'
  PROVE  LoopInv'
<1>1. LoopTypeOK' /\ ClosedWhileRestarting'
  BY DEF LoopInv, LoopTypeOK, ClosedWhileRestarting, loopVars
<1>2. ASSUME NEW r \in Runs, Unfinished(r)', phase \in {"draining", "closing"}
      PROVE  Unfinished(r)
  BY <1>2, NoNewUnfinished DEF LoopInv, ClosedWhileRestarting
<1>3. UnfinishedAwaited'
  BY <1>2 DEF LoopInv, UnfinishedAwaited, loopVars
<1>4. QED
  BY <1>1, <1>3 DEF LoopInv

LEMMA LoopInvStep == CQP!Inv /\ LoopInv /\ [Next]_vars => LoopInv'
<1> SUFFICES ASSUME CQP!Inv, LoopInv, [Next]_vars PROVE LoopInv'
  OBVIOUS
<1>0. \A r \in Runs : Unfinished(r) => <<"session", r>> \in ActiveTasks
  BY UnfinishedIsActive
<1>1. CASE QueueStep
  <2>1. CQ!QueueStep /\ UNCHANGED loopVars
    BY <1>1 DEF QueueStep
  <2>2. UNCHANGED <<gatewayDraining, generation>>
    BY <2>1 DEF CQ!QueueStep, CQ!DrainLaneBusy, CQ!DrainLaneEnter, CQ!PumpStart, CQ!PumpExit,
                CQ!InnerRefused, CQ!InnerAccepted, CQ!Refuse, CQ!Accept, CQ!DrainNext,
                CQ!laneVars
  <2>3. QED
    BY <2>1, <2>2, LoopStays
<1>2. ASSUME NEW e \in AgentEntries, Enqueue(e) \/ TaskEnds(e) PROVE LoopInv'
  <2>1. UNCHANGED <<loopVars, gatewayDraining, generation>>
    BY <1>2 DEF Enqueue, TaskEnds, CQ!EnqueueRefused, CQ!EnqueueAccepted, CQ!Refuse, CQ!Accept,
                CQ!TaskEnds, CQ!TaskEndsCurrent, CQ!TaskEndsStale, CQ!laneVars
  <2>2. QED
    BY <2>1, LoopStays
<1>3. ASSUME NEW r \in Runs, InterruptSession(SessionOf[r]) PROVE LoopInv'
  BY <1>3, LoopStays DEF InterruptSession, CQ!ClearCommandLane
<1>4. ASSUME NEW l \in ConfiguredLanes, NEW n \in Caps, ApplyLaneConcurrency(l, n) PROVE LoopInv'
  BY <1>4, LoopStays DEF ApplyLaneConcurrency, CQ!SetCommandLaneConcurrency
<1>5. CASE RequestRestart
  <2>1. /\ gatewayDraining' /\ UNCHANGED <<status, startGen, generation, active>>
        /\ waitSet' = ActiveTasks /\ phase' \in {"draining", "closing"}
        /\ phase' = "closing" => ActiveTasks = {}
        /\ {drained', starting', early'} \subseteq BOOLEAN
    BY <1>5 DEF RequestRestart, Wait, CQ!MarkGatewayDraining, CQ!runVars, LoopInv, LoopTypeOK
  <2>2. \A r \in Runs : Unfinished(r)' <=> Unfinished(r)
    BY <2>1 DEF Unfinished
  <2>3. UnfinishedAwaited'
    BY <1>0, <2>1, <2>2 DEF UnfinishedAwaited
  <2>4. QED
    BY <2>1, <2>3 DEF LoopInv, LoopTypeOK, Phases, ClosedWhileRestarting
<1>6. CASE RequestStop \/ DrainTimeout \/ RestartLost \/ Exit \/ FirstStartFails
  <2>1. /\ phase' \in Phases /\ phase' # "draining" /\ ~(phase' = "closing" /\ drained')
        /\ drained' \in BOOLEAN
        /\ phase' = "closing" => phase = "draining"
        /\ UNCHANGED <<gatewayDraining, starting, early>>
    BY <1>6 DEF RequestStop, DrainTimeout, RestartLost, Exit, FirstStartFails, queueVars,
                LoopInv, LoopTypeOK, Phases
  <2>2. QED
    BY <2>1 DEF LoopInv, LoopTypeOK, ClosedWhileRestarting, UnfinishedAwaited
<1>7. CASE TasksDrained
  <2>1. /\ phase = "draining" /\ ActiveTasks \cap waitSet = {}
        /\ phase' = "closing" /\ drained' = TRUE /\ UNCHANGED <<queueVars, starting, early>>
    BY <1>7 DEF TasksDrained
  <2>2. \A r \in Runs : ~Unfinished(r)
    BY <1>0, <2>1 DEF LoopInv, UnfinishedAwaited
  <2>3. \A r \in Runs : ~Unfinished(r)'
    BY <2>1, <2>2 DEF Unfinished, queueVars
  <2>4. QED
    BY <2>1, <2>3 DEF LoopInv, LoopTypeOK, Phases, ClosedWhileRestarting, UnfinishedAwaited, queueVars
<1>8. CASE RestartInProcess
  BY <1>8 DEF RestartInProcess, LoopInv, LoopTypeOK, Phases, ClosedWhileRestarting,
              UnfinishedAwaited
<1>9. CASE UNCHANGED vars
  BY <1>9, LoopStays DEF vars, queueVars
<1>10. CASE StartReturns
  <2>1. UNCHANGED <<queueVars, phase, waitSet, drained, early>> /\ starting' = FALSE
    BY <1>10 DEF StartReturns
  <2>2. \A r \in Runs : Unfinished(r)' <=> Unfinished(r)
    BY <2>1 DEF Unfinished, queueVars
  <2>3. QED
    BY <2>1, <2>2 DEF LoopInv, LoopTypeOK, ClosedWhileRestarting, UnfinishedAwaited, queueVars
<1>11. QED
  BY <1>1, <1>2, <1>3, <1>4, <1>5, <1>6, <1>7, <1>8, <1>9, <1>10 DEF Next, LoopStep

\* The invariant of the run loop: closed while it restarts, and no run of this
\* lifecycle escapes the wait.
THEOREM LoopInvariance == Spec => []LoopInv
BY LoopInit, LoopInvStep, QueueInvariance, PTL DEF Spec

\* The loop closes the server as drained only when no agent run begun in this
\* lifecycle executes any more.
THEOREM DrainedMeansNoAgentRunHolds == Spec => []DrainedMeansNoAgentRun
<1>1. LoopInv => DrainedMeansNoAgentRun
  BY DEF LoopInv, UnfinishedAwaited, Unfinished, DrainedMeansNoAgentRun, Executing
<1>2. QED
  BY <1>1, LoopInvariance, PTL
=============================================================================
