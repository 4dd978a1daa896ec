-------------------------- MODULE HeartbeatWakeProofs --------------------------
(***************************************************************************)
(* For any agents, requests, runners and batches: no wake is stranded, a   *)
(* runner handles one batch at a time, its chain of interval wakes holds,  *)
(* and a wake for an event stays one.  What the loop of the catch block    *)
(* leaves in the queue is proved by induction, in the form of a set that   *)
(* counting reaches.                                                       *)
(***************************************************************************)
EXTENDS HeartbeatWake, WellFoundedInduction, TLAPS

\* A batch is a record with the fields of NoBatch, by a runner of the past or
\* the present.
Shape(x) == x = [todo |-> x.todo, all |-> x.all, delay |-> x.delay, by |-> x.by, idle |-> x.idle]

BatchesOK ==
  /\ generation \in Nat
  /\ handler \in {0, generation}
  /\ batches = [b \in Slots |-> batches[b]]
  /\ \A b \in Slots :
       /\ Shape(batches[b])
       /\ batches[b].by \in 0..generation
       /\ Busy(b) => batches[b].by # 0

\* The flag holds while the present runner has a batch, as long as no batch
\* ended under a later runner's.
FlagHolds ==
  ~crossed =>
    /\ handler # 0 => \A b \in Slots : Busy(b) /\ batches[b].by = handler => running
    /\ \A a, b \in Slots : Busy(a) /\ Busy(b) /\ batches[a].by = batches[b].by => a = b

IInv == BatchesOK /\ FlagHolds /\ NoStrandedWake

\* schedule leaves a timer set.
LEMMA ScheduleSets ==
  ASSUME NEW t, NEW d, NEW k, k # "none" PROVE Schedule(t, d, k).kind # "none"
  BY DEF Schedule

\* So does the end of a batch if wakes wait.
LEMMA WakeAgainSets ==
  ASSUME NEW t, NEW p, NEW d PROVE p # <<>> => WakeAgain(t, p, d).kind # "none"
  BY ScheduleSets DEF WakeAgain

\* A free slot has the shape of a batch.
LEMMA NoBatchFacts == Shape(NoBatch) /\ NoBatch.by = 0
  BY DEF Shape, NoBatch

\* The invariant holds at first.
LEMMA InitIInv == Init => IInv
  BY DEF Init, IInv, BatchesOK, FlagHolds, NoStrandedWake, Shape, Busy, NoBatch

---------------------------------------------------------------------------
(* The end of a handler call.                                              *)

\* The end of a batch keeps the invariant if its wakes have a timer.
LEMMA LeaveKeeps ==
  ASSUME IInv, NEW b \in Slots, Busy(b), NEW p, NEW t, Leave(b, p, t),
         UNCHANGED <<handler, generation>>
  PROVE  IInv'
<1>1. /\ batches' = [batches EXCEPT ![b] = NoBatch] /\ running' = FALSE
      /\ pending' = p /\ timer' = WakeAgain(t, p, batches[b].delay)
      /\ crossed' = \E a \in Slots \ {b} : Busy(a) /\ (crossed \/ batches[a].by > batches[b].by)
  BY DEF Leave
<1>2. /\ ~Busy(b)' /\ batches'[b] = NoBatch
      /\ \A a \in Slots \ {b} : batches'[a] = batches[a] /\ (Busy(a)' <=> Busy(a))
  BY <1>1 DEF IInv, BatchesOK, Busy
<1>3. BatchesOK'
  <2>1. batches' = [c \in Slots |-> batches'[c]]
    BY <1>1 DEF IInv, BatchesOK
  <2>2. generation \in Nat /\ 0 \in 0..generation
    BY DEF IInv, BatchesOK
  <2>3. \A c \in Slots : Shape(batches'[c]) /\ batches'[c].by \in 0..generation
    BY <1>2, <2>2, NoBatchFacts DEF IInv, BatchesOK
  <2>4. \A c \in Slots : Busy(c)' => batches'[c].by # 0
    BY <1>2 DEF IInv, BatchesOK
  <2> QED BY <2>1, <2>2, <2>3, <2>4 DEF IInv, BatchesOK, Shape
<1>4. FlagHolds'
  <2> SUFFICES ASSUME ~crossed' PROVE
        /\ handler' # 0 => \A a \in Slots : Busy(a)' /\ batches'[a].by = handler' => running'
        /\ \A a, c \in Slots : Busy(a)' /\ Busy(c)' /\ batches'[a].by = batches'[c].by => a = c
    BY DEF FlagHolds, Busy
  <2>1. ASSUME NEW a \in Slots, Busy(a)'
        PROVE  a # b /\ Busy(a) /\ ~crossed /\ ~(batches[a].by > batches[b].by)
    BY <1>1, <1>2, <2>1
  <2>2. ASSUME handler # 0, NEW a \in Slots, Busy(a)', batches'[a].by = handler' PROVE FALSE
    <3>1. a # b /\ Busy(a) /\ ~crossed /\ ~(batches[a].by > batches[b].by)
      BY <2>1, <2>2
    <3>2. batches[a].by = generation /\ batches[b].by \in 0..generation /\ generation \in Nat
      BY <1>2, <2>2, <3>1 DEF IInv, BatchesOK
    <3>3. batches[a].by = batches[b].by
      BY <3>1, <3>2
    <3> QED BY <3>1, <3>3 DEF IInv, FlagHolds
  <2>3. ASSUME NEW a \in Slots, NEW c \in Slots, Busy(a)', Busy(c)', batches'[a].by = batches'[c].by
        PROVE  a = c
    <3>1. a # b /\ c # b /\ Busy(a) /\ Busy(c) /\ ~crossed
      BY <2>1, <2>3
    <3> QED BY <1>2, <2>3, <3>1 DEF IInv, FlagHolds
  <2> QED BY <2>2, <2>3
<1>5. NoStrandedWake'
  BY <1>1, WakeAgainSets DEF NoStrandedWake
<1> QED BY <1>3, <1>4, <1>5 DEF IInv

\* So does the end of a call, whether or not it was the last.
LEMMA ProceedKeeps ==
  ASSUME IInv, NEW b \in Slots, Busy(b), NEW p, NEW t, Proceed(b, p, t),
         UNCHANGED <<handler, generation>>,
         (pending = p /\ timer = t) \/ t.kind # "none"
  PROVE  IInv'
<1>1. CASE Len(batches[b].todo) = 1
  BY <1>1, LeaveKeeps DEF Proceed
<1>2. CASE Len(batches[b].todo) # 1
  <2>1. /\ batches' = [batches EXCEPT ![b].todo = Tail(@), ![b].idle = Idle(batches[b].by)]
        /\ pending' = p /\ timer' = t /\ UNCHANGED <<running, crossed>>
    BY <1>2 DEF Proceed
  <2>2. Shape(batches[b]) /\ b \in DOMAIN batches
    BY DEF IInv, BatchesOK
  <2>3. batches'[b] = [todo |-> Tail(batches[b].todo), all |-> batches[b].all,
                       delay |-> batches[b].delay, by |-> batches[b].by,
                       idle |-> Idle(batches[b].by)]
    BY <2>1, <2>2 DEF Shape
  <2>4. batches' = [c \in Slots |-> batches'[c]] /\ \A c \in Slots \ {b} : batches'[c] = batches[c]
    BY <2>1 DEF IInv, BatchesOK
  <2>5. batches'[b].by = batches[b].by /\ batches[b].by # 0
    BY <2>3 DEF IInv, BatchesOK
  <2>6. \A c \in Slots : batches'[c].by = batches[c].by /\ (Busy(c)' <=> Busy(c))
    <3>1. Busy(b)'
      BY <2>5, NoBatchFacts DEF Busy
    <3> QED BY <2>4, <2>5, <3>1 DEF Busy
  <2>7. BatchesOK'
    <3>1. Shape(batches'[b])
      BY <2>3 DEF Shape
    <3> QED BY <2>4, <2>6, <3>1 DEF IInv, BatchesOK, Shape
  <2>8. FlagHolds'
    BY <2>1, <2>6 DEF IInv, FlagHolds
  <2>9. NoStrandedWake'
    BY <2>1 DEF IInv, NoStrandedWake
  <2> QED BY <2>7, <2>8, <2>9 DEF IInv
<1> QED BY <1>1, <1>2

---------------------------------------------------------------------------
(* Every step.                                                             *)

\* Steps that touch neither batches nor runners, nor leave a wake without a
\* timer.
LEMMA OthersKeep ==
  ASSUME IInv, UNCHANGED <<batches, generation, handler, running, crossed>>,
         \/ UNCHANGED pending /\ timer'.kind = timer.kind
         \/ timer'.kind # "none"
         \/ handler = 0
  PROVE  IInv'
  BY DEF IInv, BatchesOK, FlagHolds, NoStrandedWake, Shape, Busy

\* Every step keeps the invariant.
LEMMA StepIInv == IInv /\ [Next]_vars => IInv'
<1> SUFFICES ASSUME IInv, [Next]_vars PROVE IInv'
  OBVIOUS
<1>1. CASE UNCHANGED vars
  BY <1>1, OthersKeep DEF vars, wakeLayer, runner
<1>2. ASSUME NEW t \in Targets, NEW p \in {Default, Action}, Request(t, p) PROVE IInv'
  BY <1>2, OthersKeep, ScheduleSets DEF Request, runner
<1>3. CASE Tick
  BY <1>3, OthersKeep DEF Tick, runner
<1>4. CASE FireUnhandled
  BY <1>4, OthersKeep DEF FireUnhandled, runner
<1>5. CASE FireWhileRunning
  BY <1>5, OthersKeep DEF FireWhileRunning, runner, Fires
<1>6. ASSUME NEW b \in Slots, FireBatch(b) PROVE IInv'
  <2> DEFINE new == [todo |-> pending, all |-> pending, delay |-> timer.delay, by |-> handler,
                     idle |-> Idle(handler)]
  <2>1. /\ handler # 0 /\ ~running /\ ~Busy(b) /\ running' = TRUE /\ pending' = <<>>
        /\ batches' = [batches EXCEPT ![b] = new]
        /\ UNCHANGED <<handler, generation, crossed>>
    BY <1>6 DEF FireBatch, MayHandle, runner
  <2>2. batches' = [c \in Slots |-> batches'[c]] /\ batches'[b] = new
        /\ \A c \in Slots \ {b} : batches'[c] = batches[c]
    BY <2>1 DEF IInv, BatchesOK
  <2>3. new.by = handler /\ handler = generation /\ Shape(new)
    BY <2>1 DEF IInv, BatchesOK, Shape
  <2> HIDE DEF new
  <2>4. BatchesOK'
    BY <2>1, <2>2, <2>3 DEF IInv, BatchesOK, Shape, Busy
  <2>5. \A c \in Slots \ {b} : ~crossed /\ Busy(c) => batches[c].by # handler
    BY <2>1 DEF IInv, FlagHolds
  <2>6. FlagHolds'
    BY <2>1, <2>2, <2>3, <2>5 DEF IInv, FlagHolds, Busy
  <2>7. NoStrandedWake'
    BY <2>1 DEF NoStrandedWake
  <2> QED BY <2>4, <2>6, <2>7 DEF IInv
<1>7. CASE IntervalTimer
  BY <1>7, OthersKeep, ScheduleSets DEF IntervalTimer
<1>8. ASSUME NEW b \in Slots, CallEnds(b) PROVE IInv'
  <2>1. CASE CallIdle(b)
    BY <2>1, ProceedKeeps DEF CallIdle
  <2>2. CASE CallDone(b)
    BY <2>2, ProceedKeeps DEF CallDone
  <2>3. CASE CallBusy(b)
    BY <2>3, ProceedKeeps, ScheduleSets DEF CallBusy
  <2>4. CASE CallThrows(b)
    BY <2>4, LeaveKeeps DEF CallThrows
  <2> QED BY <1>8, <2>1, <2>2, <2>3, <2>4 DEF CallEnds
<1>9. ASSUME NEW A, Start(A) PROVE IInv'
  <2>1. /\ generation' = generation + 1 /\ handler' = generation + 1 /\ running' = FALSE
        /\ UNCHANGED <<pending, batches, crossed>> /\ timer' = TimerForWaiting(pending)
    BY <1>9 DEF Start
  <2>2. BatchesOK' /\ FlagHolds'
    BY <2>1 DEF IInv, BatchesOK, FlagHolds, Shape, Busy
  <2>3. NoStrandedWake'
    BY <2>1, ScheduleSets DEF NoStrandedWake, TimerForWaiting
  <2> QED BY <2>2, <2>3 DEF IInv
<1>10. CASE Stop
  BY <1>10 DEF Stop, IInv, BatchesOK, FlagHolds, NoStrandedWake, Shape, Busy
<1>11. ASSUME NEW A, UpdateConfig(A) PROVE IInv'
  BY <1>11, OthersKeep DEF UpdateConfig, wakeLayer
<1>12. CASE SetHeartbeatsEnabled
  BY <1>12, OthersKeep DEF SetHeartbeatsEnabled, wakeLayer, runner
<1>13. ASSUME NEW a \in Agents, FallsDue(a) PROVE IInv'
  BY <1>13, OthersKeep DEF FallsDue, wakeLayer
<1> QED
  BY <1>1, <1>2, <1>3, <1>4, <1>5, <1>6, <1>7, <1>8, <1>9, <1>10, <1>11, <1>12, <1>13
  DEF Next, Fire

\* The inductive invariant of the wake layer.
THEOREM Invariance == Spec => []IInv
  BY InitIInv, StepIInv, PTL DEF Spec

\* Wakes never wait for a registered handler without a timer, for any agents,
\* requests, restarts and overlapping batches.
THEOREM NoStrandedWakeHolds == Spec => []NoStrandedWake
<1>1. IInv => NoStrandedWake
  BY DEF IInv
<1> QED BY <1>1, Invariance, PTL

\* A runner handles one batch at a time, however many runners share the flag,
\* unless a batch of an earlier one ended under a later one's.
THEOREM OneBatchAtATimeHolds == Spec => []OneBatchAtATime
<1>1. IInv => OneBatchAtATime
  BY DEF IInv, FlagHolds, OneBatchAtATime
<1> QED BY <1>1, Invariance, PTL

---------------------------------------------------------------------------
(* Wakes in a queue.                                                       *)

Waits(s, t) == \E i \in DOMAIN s : s[i].target = t

\* Requests merge by target: none that waits is lost, the new one waits, and
\* no target waits twice.
LEMMA QueueMerges ==
  ASSUME NEW p \in Seq(WakeType), OneWakePerTarget(p), NEW w \in WakeType
  PROVE  /\ Queue(p, w) \in Seq(WakeType) /\ OneWakePerTarget(Queue(p, w))
         /\ Waits(Queue(p, w), w.target)
         /\ \A t : Waits(p, t) => Waits(Queue(p, w), t)
<1> DEFINE q == Queue(p, w)
<1>1. Len(p) \in Nat /\ DOMAIN p = 1..Len(p) /\ \A i \in 1..Len(p) : p[i] \in WakeType
  OBVIOUS
<1>2. CASE Waits(p, w.target)
  <2>1. q = [i \in 1..Len(p) |-> IF p[i].target = w.target /\ w.priority >= p[i].priority
                                 THEN w ELSE p[i]]
    BY <1>1, <1>2 DEF Queue, Waits
  <2>2. q \in Seq(WakeType)
    BY <1>1, <2>1
  <2>3. DOMAIN q = DOMAIN p /\ \A i \in DOMAIN p : q[i].target = p[i].target
    BY <1>1, <2>1
  <2> QED BY <1>2, <2>2, <2>3 DEF OneWakePerTarget, Waits
<1>3. CASE ~Waits(p, w.target)
  <2>1. q = Append(p, w)
    BY <1>3 DEF Queue, Waits
  <2>2. q \in Seq(WakeType) /\ DOMAIN q = 1..(Len(p) + 1)
    BY <1>1, <2>1
  <2>3. (\A i \in 1..Len(p) : q[i] = p[i]) /\ q[Len(p) + 1] = w
    BY <1>1, <2>1
  <2>4. OneWakePerTarget(q)
    BY <1>1, <1>3, <2>2, <2>3 DEF OneWakePerTarget, Waits
  <2>5. Waits(q, w.target) /\ \A t : Waits(p, t) => Waits(q, t)
    BY <1>1, <2>2, <2>3 DEF Waits
  <2> QED BY <2>2, <2>4, <2>5
<1> QED BY <1>2, <1>3

\* A set of numbers that is not empty has a least one.
LEMMA LeastNumber ==
  ASSUME NEW T \in SUBSET Nat, T # {}
  PROVE  \E n \in T : \A m \in T : n <= m
<1>1. PICK n \in T : \A m \in T : ~(<<m, n>> \in OpToRel(<, Nat))
  BY NatLessThanWellFounded, WFMin
<1>2. \A m \in T : ~(m < n)
  BY <1>1 DEF OpToRel
<1> QED BY <1>2

\* Induction, as a fact about sets.
LEMMA CountingReachesAll ==
  ASSUME NEW S, 0 \in S, \A n \in Nat : n \in S => n + 1 \in S
  PROVE  Nat \subseteq S
<1> SUFFICES ASSUME Nat \ S # {} PROVE FALSE
  OBVIOUS
<1>1. PICK n \in Nat \ S : \A m \in Nat \ S : n <= m
  BY LeastNumber
<1>2. n # 0 /\ n - 1 \in Nat /\ n - 1 \in S
  BY <1>1
<1> QED BY <1>1, <1>2

\* The loop of the catch block is well defined.
LEMMA LoopIs ==
  ASSUME NEW p, NEW ws, Len(ws) \in Nat
  PROVE  \E f : /\ f = [m \in 0..Len(ws) |-> IF m = 0 THEN p ELSE Queue(f[m - 1], ws[m])]
                /\ QueueAll(p, ws) = f[Len(ws)]
<1> DEFINE Loop(f, n) == f = [m \in 0..n |-> IF m = 0 THEN p ELSE Queue(f[m - 1], ws[m])]
           S == {n \in Nat : \E f : Loop(f, n)}
<1>1. 0 \in S
  <2>1. Loop([m \in 0..0 |-> p], 0)
    OBVIOUS
  <2> QED BY <2>1
<1>2. ASSUME NEW n \in Nat, n \in S PROVE n + 1 \in S
  <2>1. PICK f : Loop(f, n)
    BY <1>2
  <2> DEFINE g == [m \in 0..(n + 1) |-> IF m <= n THEN f[m] ELSE Queue(f[n], ws[n + 1])]
  <2>2. f[0] = p /\ \A m \in 0..n : m # 0 => f[m] = Queue(f[m - 1], ws[m])
    BY <2>1
  <2>3. (\A m \in 0..n : g[m] = f[m]) /\ g[n + 1] = Queue(f[n], ws[n + 1])
    OBVIOUS
  <2> HIDE DEF g
  <2>4. \A m \in 0..(n + 1) : g[m] = IF m = 0 THEN p ELSE Queue(g[m - 1], ws[m])
    <3> SUFFICES ASSUME NEW m \in 0..(n + 1)
                 PROVE  g[m] = IF m = 0 THEN p ELSE Queue(g[m - 1], ws[m])
      OBVIOUS
    <3>1. CASE m = 0
      BY <2>2, <2>3, <3>1
    <3>2. CASE m \in 0..n /\ m # 0
      BY <2>2, <2>3, <3>2
    <3>3. CASE m = n + 1
      BY <2>3, <3>3
    <3> QED BY <3>1, <3>2, <3>3
  <2>5. g = [m \in 0..(n + 1) |-> g[m]]
    BY DEF g
  <2>6. Loop(g, n + 1)
    BY <2>4, <2>5
  <2> QED BY <2>6
<1>3. \E f : Loop(f, Len(ws))
  BY <1>1, <1>2, CountingReachesAll
<1> QED BY <1>3 DEF QueueAll

\* Putting a batch back keeps the queue's order of targets distinct, and every
\* target that waited or was in the batch waits.
LEMMA QueueAllMerges ==
  ASSUME NEW p \in Seq(WakeType), OneWakePerTarget(p), NEW ws \in Seq(WakeType)
  PROVE  /\ QueueAll(p, ws) \in Seq(WakeType) /\ OneWakePerTarget(QueueAll(p, ws))
         /\ \A t : Waits(p, t) \/ Waits(ws, t) => Waits(QueueAll(p, ws), t)
<1>1. Len(ws) \in Nat /\ DOMAIN ws = 1..Len(ws) /\ \A i \in 1..Len(ws) : ws[i] \in WakeType
  OBVIOUS
<1>2. PICK f : /\ f = [m \in 0..Len(ws) |-> IF m = 0 THEN p ELSE Queue(f[m - 1], ws[m])]
               /\ QueueAll(p, ws) = f[Len(ws)]
  BY <1>1, LoopIs
<1> DEFINE Merged(n) == /\ f[n] \in Seq(WakeType) /\ OneWakePerTarget(f[n])
                        /\ \A t : Waits(p, t) => Waits(f[n], t)
                        /\ \A i \in 1..n : Waits(f[n], ws[i].target)
           S == {n \in Nat : n <= Len(ws) => Merged(n)}
<1>3. 0 \in S
  <2>1. f[0] = p
    BY <1>1, <1>2
  <2> QED BY <2>1
<1>4. ASSUME NEW n \in Nat, n \in S PROVE n + 1 \in S
  <2> SUFFICES ASSUME n + 1 <= Len(ws) PROVE Merged(n + 1)
    OBVIOUS
  <2>1. Merged(n) /\ n + 1 \in 1..Len(ws)
    BY <1>1, <1>4
  <2>2. f[n + 1] = Queue(f[n], ws[n + 1])
    BY <1>1, <1>2, <2>1
  <2>3. /\ f[n + 1] \in Seq(WakeType) /\ OneWakePerTarget(f[n + 1])
        /\ Waits(f[n + 1], ws[n + 1].target)
        /\ \A t : Waits(f[n], t) => Waits(f[n + 1], t)
    BY <1>1, <2>1, <2>2, QueueMerges
  <2>4. \A i \in 1..(n + 1) : i \in 1..n \/ i = n + 1
    OBVIOUS
  <2> QED BY <2>1, <2>3, <2>4
<1>5. Len(ws) \in S
  BY <1>1, <1>3, <1>4, CountingReachesAll
<1>6. Merged(Len(ws))
  BY <1>1, <1>5
<1> QED BY <1>1, <1>2, <1>6 DEF Waits

---------------------------------------------------------------------------
(* Types: what the timer, the queue and the batches hold.                  *)

QueueTyped(p) == p \in Seq(WakeType) /\ OneWakePerTarget(p)

TimerTyped(t) ==
  /\ t = [left |-> t.left, kind |-> t.kind, delay |-> t.delay]
  /\ t.kind \in {"none", "normal", "retry"}
  /\ t.delay \in Delays /\ t.left \in 0..t.delay

BatchTyped(x) ==
  /\ x.todo \in Seq(WakeType) /\ x.all \in Seq(WakeType)
  /\ x.delay \in Delays /\ x.idle \in BOOLEAN
  /\ x # NoBatch <=> x.todo # <<>>
  /\ x # NoBatch => x.all # <<>>

\* A timer has wakes to hand over, and a firing put off has a timer.
TimerEarned == (timer.kind # "none" => pending # <<>>) /\ (scheduled => timer.kind # "none")

WakeLayerTyped ==
  /\ QueueTyped(pending)
  /\ TimerTyped(timer)
  /\ TimerEarned
  /\ scheduled \in BOOLEAN /\ running \in BOOLEAN /\ crossed \in BOOLEAN
  /\ \A b \in Slots : BatchTyped(batches[b])

RunnerTyped ==
  /\ agents \subseteq Agents /\ due \subseteq agents /\ owed \subseteq agents
  /\ call \in [Slots -> CallType]
  /\ armed \in BOOLEAN /\ enabled \in BOOLEAN /\ lapsed \in BOOLEAN

Types == WakeLayerTyped /\ RunnerTyped

\* What these and the wake layer's invariant say is the type invariant.
LEMMA TypesGiveTypeOK == IInv /\ Types => TypeOK
  BY DEF IInv, BatchesOK, Types, WakeLayerTyped, RunnerTyped, QueueTyped, TimerTyped,
         BatchTyped, TimerEarned, TypeOK

LEMMA ScheduleTyped ==
  ASSUME NEW t, TimerTyped(t), NEW d \in Delays, NEW k \in {"normal", "retry"}
  PROVE  TimerTyped(Schedule(t, d, k)) /\ Schedule(t, d, k).kind # "none"
<1>1. TimerTyped([left |-> d, kind |-> k, delay |-> d])
  BY DEF TimerTyped, Delays, Coalesce, Retry
<1> QED BY <1>1, ScheduleSets DEF Schedule

LEMMA EmptyTyped == QueueTyped(<<>>) /\ TimerTyped(NoTimer) /\ BatchTyped(NoBatch)
  BY DEF QueueTyped, OneWakePerTarget, TimerTyped, NoTimer, BatchTyped, NoBatch, Delays

LEMMA QueueTypedKept ==
  ASSUME NEW p, QueueTyped(p), NEW w \in WakeType
  PROVE  QueueTyped(Queue(p, w)) /\ Queue(p, w) # <<>>
<1>1. QueueTyped(Queue(p, w)) /\ Waits(Queue(p, w), w.target)
  BY QueueMerges DEF QueueTyped
<1> QED BY <1>1 DEF Waits

\* What a batch has left after its first wake.
LEMMA TailLeft ==
  ASSUME NEW s \in Seq(WakeType), s # <<>>
  PROVE  /\ Head(s) = s[1] /\ Head(s) \in WakeType /\ Tail(s) \in Seq(WakeType)
         /\ Len(s) # 1 => Tail(s) # <<>>
         /\ \A i \in DOMAIN s : i = 1 \/ (i - 1 \in DOMAIN Tail(s) /\ Tail(s)[i - 1] = s[i])
<1>1. Len(s) \in Nat \ {0} /\ DOMAIN s = 1..Len(s)
  OBVIOUS
<1>2. /\ Tail(s) \in Seq(WakeType) /\ Len(Tail(s)) = Len(s) - 1
      /\ \A i \in 1..(Len(s) - 1) : Tail(s)[i] = s[i + 1]
  BY <1>1
<1>3. DOMAIN Tail(s) = 1..(Len(s) - 1)
  BY <1>1, <1>2
<1>4. Len(s) # 1 => Tail(s) # <<>>
  <2>1. ASSUME NEW q \in Seq(WakeType), Len(q) # 0 PROVE q # <<>>
    BY <2>1
  <2>2. Len(s) # 1 => Len(Tail(s)) # 0
    BY <1>1, <1>2
  <2> QED BY <1>2, <2>1, <2>2, Zenon
<1>5. \A i \in DOMAIN s : i = 1 \/ (i - 1 \in DOMAIN Tail(s) /\ Tail(s)[i - 1] = s[i])
  BY <1>1, <1>2, <1>3
<1>6. Head(s) = s[1] /\ Head(s) \in WakeType
  BY <1>1
<1> QED BY <1>2, <1>4, <1>5, <1>6

\* What a call works on has its type, at first and when the next call starts.
LEMMA CallForTyped ==
  ASSUME RunnerTyped, NEW g, NEW w, NEW D \in SUBSET Agents
  PROVE  NoCall \in CallType /\ CallFor(g, w, D) \in CallType
<1>1. NoCall \in CallType
  BY DEF NoCall, CallType
<1>2. ASSUME NEW V \in SUBSET Agents PROVE [NoCall EXCEPT !.visits = V] \in CallType
  BY DEF NoCall, CallType
<1>3. /\ {} \in SUBSET Agents /\ {w.target} \cap agents \in SUBSET Agents
      /\ agents \in SUBSET Agents
  BY DEF RunnerTyped
<1> QED BY <1>1, <1>2, <1>3 DEF CallFor

LEMMA NextCallTyped ==
  ASSUME RunnerTyped, NEW b \in Slots, NEW D \in SUBSET Agents, NextCall(b, D)
  PROVE  call' \in [Slots -> CallType]
  BY CallForTyped DEF NextCall, RunnerTyped

\* So it has when a switch or a reload marks the calls in flight.
LEMMA MarksTyped ==
  ASSUME RunnerTyped
  PROVE  /\ [b \in Slots |-> [call[b] EXCEPT !.cut = InCall(b)]] \in [Slots -> CallType]
         /\ [b \in Slots |-> [call[b] EXCEPT !.old = InCall(b)]] \in [Slots -> CallType]
<1>1. \A b \in Slots : call[b] \in CallType /\ InCall(b) \in BOOLEAN
  BY DEF RunnerTyped, InCall
<1>2. \A c \in CallType : \A v \in BOOLEAN :
        [c EXCEPT !.cut = v] \in CallType /\ [c EXCEPT !.old = v] \in CallType
  BY DEF CallType
<1> QED BY <1>1, <1>2

LEMMA IdleIs == \A g : Idle(g) \in BOOLEAN
  BY DEF Idle

\* The types hold at first.
LEMMA InitTypes == Init => Types
<1> SUFFICES ASSUME Init PROVE Types
  OBVIOUS
<1>1. QueueTyped(pending) /\ TimerTyped(timer)
  BY EmptyTyped DEF Init, QueueTyped, TimerTyped
<1>2. TimerEarned
  BY DEF Init, TimerEarned, NoTimer
<1>3. \A b \in Slots : batches[b] = NoBatch
  BY DEF Init
<1>4. \A b \in Slots : BatchTyped(batches[b])
  BY <1>3, EmptyTyped
<1>5. RunnerTyped /\ scheduled \in BOOLEAN /\ running \in BOOLEAN /\ crossed \in BOOLEAN
  BY DEF Init, RunnerTyped, NoCall, CallType
<1> QED BY <1>1, <1>2, <1>4, <1>5 DEF Types, WakeLayerTyped

\* The end of a batch keeps the wake layer's types.
LEMMA LeaveTyped ==
  ASSUME IInv, WakeLayerTyped, NEW b \in Slots, NEW p, NEW t, Leave(b, p, t),
         QueueTyped(p), TimerTyped(t), t.kind # "none" => p # <<>>,
         scheduled => t.kind # "none", UNCHANGED scheduled
  PROVE  WakeLayerTyped'
<1>1. /\ batches' = [batches EXCEPT ![b] = NoBatch] /\ running' = FALSE /\ pending' = p
      /\ timer' = WakeAgain(t, p, batches[b].delay) /\ crossed' \in BOOLEAN
  BY DEF Leave
<1>2. \A a \in Slots : BatchTyped(batches'[a])
  BY <1>1, EmptyTyped DEF IInv, BatchesOK, WakeLayerTyped
<1>3. CASE p # <<>> \/ scheduled
  <2>1. timer' = Schedule(t, batches[b].delay, "normal") /\ batches[b].delay \in Delays
    BY <1>1, <1>3 DEF WakeAgain, WakeLayerTyped, BatchTyped
  <2>2. TimerTyped(timer') /\ timer'.kind # "none" /\ p # <<>>
    BY <1>3, <2>1, ScheduleTyped
  <2> QED BY <1>1, <1>2, <2>2 DEF WakeLayerTyped, TimerEarned, QueueTyped, TimerTyped
<1>4. CASE ~(p # <<>> \/ scheduled)
  <2>1. timer' = t
    BY <1>1, <1>4 DEF WakeAgain
  <2> QED BY <1>1, <1>2, <1>4, <2>1 DEF WakeLayerTyped, TimerEarned, QueueTyped, TimerTyped
<1> QED BY <1>3, <1>4

\* So does the end of a call.
LEMMA ProceedTyped ==
  ASSUME IInv, WakeLayerTyped, NEW b \in Slots, Busy(b), NEW p, NEW t, Proceed(b, p, t),
         QueueTyped(p), TimerTyped(t), t.kind # "none" => p # <<>>,
         scheduled => t.kind # "none", UNCHANGED scheduled
  PROVE  WakeLayerTyped'
<1>1. CASE Len(batches[b].todo) = 1
  BY <1>1, LeaveTyped DEF Proceed
<1>2. CASE Len(batches[b].todo) # 1
  <2>1. /\ batches' = [batches EXCEPT ![b].todo = Tail(@), ![b].idle = Idle(batches[b].by)]
        /\ pending' = p /\ timer' = t /\ UNCHANGED <<running, crossed>>
    BY <1>2 DEF Proceed
  <2>2. Shape(batches[b]) /\ BatchTyped(batches[b]) /\ batches[b] # NoBatch
    BY DEF IInv, BatchesOK, WakeLayerTyped, Busy
  <2>3. batches'[b] = [todo |-> Tail(batches[b].todo), all |-> batches[b].all,
                       delay |-> batches[b].delay, by |-> batches[b].by,
                       idle |-> Idle(batches[b].by)]
    BY <2>1, <2>2 DEF IInv, BatchesOK, Shape
  <2>4. Tail(batches[b].todo) \in Seq(WakeType) /\ Tail(batches[b].todo) # <<>>
    BY <1>2, <2>2, TailLeft DEF BatchTyped
  <2>5. batches'[b] # NoBatch /\ batches'[b].todo = Tail(batches[b].todo)
    <3>1. batches'[b].todo = Tail(batches[b].todo) /\ NoBatch.todo = <<>>
      BY <2>3 DEF NoBatch
    <3> QED BY <2>4, <3>1
  <2>6. /\ batches'[b].all = batches[b].all /\ batches'[b].delay = batches[b].delay
        /\ batches'[b].idle = Idle(batches[b].by)
    BY <2>3
  <2>7. BatchTyped(batches'[b])
    <3>1. Idle(batches[b].by) \in BOOLEAN
      BY IdleIs
    <3> QED BY <2>2, <2>4, <2>5, <2>6, <3>1 DEF BatchTyped
  <2>8. \A a \in Slots : BatchTyped(batches'[a])
    BY <2>1, <2>7 DEF IInv, BatchesOK, WakeLayerTyped
  <2> QED BY <2>1, <2>8 DEF WakeLayerTyped, TimerEarned, QueueTyped, TimerTyped
<1> QED BY <1>1, <1>2

\* What a call of a batch is about is a wake.
LEMMA WakeTyped ==
  ASSUME WakeLayerTyped, NEW b \in Slots, Busy(b)
  PROVE  Wake(b) \in WakeType
  BY TailLeft DEF WakeLayerTyped, BatchTyped, Busy, Wake

\* The calls of a batch keep the types.
LEMMA CallTyped == ASSUME IInv, Types, NEW b \in Slots, CallEnds(b) PROVE Types'
<1>1. /\ QueueTyped(pending) /\ TimerTyped(timer) /\ TimerEarned
      /\ \A a \in Slots : BatchTyped(batches[a])
  BY DEF Types, WakeLayerTyped
<1>2. WakeLayerTyped
  BY DEF Types
<1>3. TimerTyped(Schedule(timer, Retry, "retry")) /\ Schedule(timer, Retry, "retry").kind # "none"
  BY <1>1, ScheduleTyped DEF Delays
<1>4. CASE CallIdle(b)
  <2>1. WakeLayerTyped'
    BY <1>1, <1>2, <1>4, ProceedTyped DEF CallIdle, TimerEarned
  <2>2. call' \in [Slots -> CallType]
    BY <1>4, NextCallTyped DEF CallIdle, Types, RunnerTyped
  <2> QED BY <1>4, <2>1, <2>2 DEF CallIdle, Types, RunnerTyped, outside
<1>5. CASE CallDone(b)
  <2>1. WakeLayerTyped'
    BY <1>1, <1>2, <1>5, ProceedTyped DEF CallDone, TimerEarned
  <2>2. due' \subseteq due /\ owed' \subseteq owed /\ NextCall(b, due')
    BY <1>5 DEF CallDone, Advance, HaveRun
  <2>3. call' \in [Slots -> CallType]
    BY <2>2, NextCallTyped DEF Types, RunnerTyped
  <2> QED BY <1>5, <2>1, <2>2, <2>3 DEF CallDone, Types, RunnerTyped, outside, ArmAfter, Arm
<1>6. CASE CallBusy(b)
  <2>1. QueueTyped(PutBack(pending, Wake(b))) /\ PutBack(pending, Wake(b)) # <<>>
    BY <1>1, <1>2, <1>6, WakeTyped, QueueTypedKept DEF CallBusy, PutBack
  <2>2. WakeLayerTyped'
    BY <1>2, <1>3, <1>6, <2>1, ProceedTyped DEF CallBusy
  <2>3. due' \subseteq due /\ owed' \subseteq owed /\ NextCall(b, due')
    BY <1>6 DEF CallBusy, Advance, HaveRun
  <2>4. call' \in [Slots -> CallType]
    BY <2>3, NextCallTyped DEF Types, RunnerTyped
  <2> QED BY <1>6, <2>2, <2>3, <2>4 DEF CallBusy, Types, RunnerTyped, outside, Arm
<1>7. CASE CallThrows(b)
  <2>1. batches[b].all \in Seq(WakeType) /\ batches[b].all # <<>>
    BY <1>1, <1>7 DEF CallThrows, BatchTyped, Busy
  <2>2. Waits(batches[b].all, batches[b].all[1].target)
    BY <2>1 DEF Waits
  <2>3. /\ QueueTyped(QueueAll(pending, batches[b].all))
        /\ Waits(QueueAll(pending, batches[b].all), batches[b].all[1].target)
    BY <1>1, <2>1, <2>2, QueueAllMerges DEF QueueTyped
  <2>4. QueueAll(pending, batches[b].all) # <<>>
    BY <2>3 DEF Waits
  <2>5. WakeLayerTyped'
    BY <1>2, <1>3, <1>7, <2>3, <2>4, LeaveTyped DEF CallThrows
  <2>6. call' \in [Slots -> CallType]
    BY <1>7, CallForTyped DEF CallThrows, Types, RunnerTyped
  <2> QED BY <1>7, <2>5, <2>6 DEF CallThrows, Types, RunnerTyped, Arm
<1> QED BY <1>4, <1>5, <1>6, <1>7 DEF CallEnds

\* Steps that leave the batches alone keep the wake layer's types if they do.
LEMMA OthersTyped ==
  ASSUME WakeLayerTyped, QueueTyped(pending'), TimerTyped(timer'), TimerEarned',
         scheduled' \in BOOLEAN, running' \in BOOLEAN, UNCHANGED <<batches, crossed>>
  PROVE  WakeLayerTyped'
  BY DEF WakeLayerTyped, QueueTyped, TimerTyped

\* Every step keeps the types.
LEMMA StepTypes == IInv /\ Types /\ [Next]_vars => Types'
<1> SUFFICES ASSUME IInv, Types, [Next]_vars PROVE Types'
  OBVIOUS
<1> DEFINE Same == UNCHANGED <<pending, timer, scheduled, running, batches, crossed>>
<1>1. /\ WakeLayerTyped /\ QueueTyped(pending) /\ TimerTyped(timer) /\ TimerEarned
      /\ scheduled \in BOOLEAN /\ running \in BOOLEAN
  BY DEF Types, WakeLayerTyped
<1>2. ASSUME Same PROVE WakeLayerTyped'
  BY <1>1, <1>2, OthersTyped DEF TimerEarned, QueueTyped, TimerTyped
<1> HIDE DEF Same
<1>3. CASE UNCHANGED vars
  <2>1. WakeLayerTyped'
    BY <1>2, <1>3 DEF vars, wakeLayer, Same
  <2> QED BY <1>3, <2>1 DEF vars, runner, outside, Types, RunnerTyped
<1>4. ASSUME NEW t \in Targets, NEW p \in {Default, Action}, Request(t, p) PROVE Types'
  <2>1. [target |-> t, priority |-> p] \in WakeType
    BY <1>4 DEF WakeType
  <2>2. QueueTyped(pending') /\ pending' # <<>>
    BY <1>1, <1>4, <2>1, QueueTypedKept DEF Request
  <2>3. TimerTyped(timer') /\ timer'.kind # "none"
    BY <1>1, <1>4, ScheduleTyped DEF Request, Delays
  <2>4. WakeLayerTyped'
    BY <1>1, <1>4, <2>2, <2>3, OthersTyped DEF Request, TimerEarned
  <2> QED BY <1>4, <2>4 DEF Request, runner, Types, RunnerTyped
<1>5. CASE Tick
  <2>1. timer' = [left |-> timer.left - 1, kind |-> timer.kind, delay |-> timer.delay]
        /\ timer.left > 0
    BY <1>1, <1>5 DEF Tick, TimerTyped
  <2>2. TimerTyped(timer')
    BY <1>1, <2>1 DEF TimerTyped, Delays, Coalesce, Retry
  <2>3. WakeLayerTyped'
    BY <1>1, <1>5, <2>1, <2>2, OthersTyped DEF Tick, TimerEarned, QueueTyped
  <2> QED BY <1>5, <2>3 DEF Tick, runner, outside, Types, RunnerTyped
<1>6. CASE FireUnhandled
  <2>1. WakeLayerTyped'
    BY <1>1, <1>6, EmptyTyped, OthersTyped DEF FireUnhandled, TimerEarned, NoTimer, QueueTyped
  <2> QED BY <1>6, <2>1 DEF FireUnhandled, runner, outside, Types, RunnerTyped
<1>7. CASE FireWhileRunning
  <2>1. timer' = [left |-> timer.delay, kind |-> timer.kind, delay |-> timer.delay]
        /\ timer.kind # "none"
    BY <1>1, <1>7 DEF FireWhileRunning, Fires, TimerTyped
  <2>2. TimerTyped(timer')
    BY <1>1, <2>1 DEF TimerTyped, Delays, Coalesce, Retry
  <2>3. WakeLayerTyped'
    BY <1>1, <1>7, <2>1, <2>2, OthersTyped DEF FireWhileRunning, TimerEarned, QueueTyped
  <2> QED BY <1>7, <2>3 DEF FireWhileRunning, runner, outside, Types, RunnerTyped
<1>8. ASSUME NEW b \in Slots, FireBatch(b) PROVE Types'
  <2> DEFINE new == [todo |-> pending, all |-> pending, delay |-> timer.delay, by |-> handler,
                     idle |-> Idle(handler)]
  <2>1. /\ batches' = [batches EXCEPT ![b] = new] /\ pending # <<>>
        /\ pending' = <<>> /\ timer' = NoTimer /\ scheduled' = FALSE /\ running' = TRUE
        /\ UNCHANGED crossed
    BY <1>8 DEF FireBatch
  <2>2. BatchTyped(new)
    BY <1>1, <2>1, IdleIs DEF BatchTyped, NoBatch, QueueTyped, TimerTyped
  <2>3. \A a \in Slots : BatchTyped(batches'[a])
    <3> HIDE DEF new
    <3> QED BY <1>1, <2>1, <2>2 DEF IInv, BatchesOK, WakeLayerTyped
  <2>4. TimerEarned' /\ QueueTyped(pending') /\ TimerTyped(timer')
    BY <2>1, EmptyTyped DEF TimerEarned, NoTimer
  <2>5. WakeLayerTyped'
    BY <1>1, <2>1, <2>3, <2>4 DEF WakeLayerTyped, QueueTyped, TimerTyped
  <2>6. call' \in [Slots -> CallType]
    BY <1>8, CallForTyped DEF FireBatch, Types, RunnerTyped
  <2> QED BY <1>8, <2>5, <2>6 DEF FireBatch, outside, Types, RunnerTyped
<1>9. CASE IntervalTimer
  <2>1. [target |-> AnyAgent, priority |-> Interval] \in WakeType
    BY DEF WakeType, Targets
  <2>2. QueueTyped(pending') /\ pending' # <<>>
    BY <1>1, <1>9, <2>1, QueueTypedKept DEF IntervalTimer
  <2>3. TimerTyped(timer') /\ timer'.kind # "none"
    BY <1>1, <1>9, ScheduleTyped DEF IntervalTimer, Delays
  <2>4. WakeLayerTyped'
    BY <1>1, <1>9, <2>2, <2>3, OthersTyped DEF IntervalTimer, TimerEarned
  <2> QED BY <1>9, <2>4 DEF IntervalTimer, outside, Types, RunnerTyped
<1>10. ASSUME NEW b \in Slots, CallEnds(b) PROVE Types'
  BY <1>10, CallTyped
<1>11. ASSUME NEW A \in Configurations, Start(A) PROVE Types'
  <2>1. TimerTyped(timer') /\ (timer'.kind # "none" => pending # <<>>)
    BY <1>1, <1>11, EmptyTyped, ScheduleTyped DEF Start, TimerForWaiting, NoTimer, Delays
  <2>2. WakeLayerTyped'
    BY <1>1, <1>11, <2>1, OthersTyped DEF Start, TimerEarned, QueueTyped
  <2> QED BY <1>11, <2>2 DEF Start, outside, Configurations, Types, RunnerTyped
<1>12. ASSUME NEW A \in Configurations, UpdateConfig(A) PROVE Types'
  <2>1. WakeLayerTyped'
    BY <1>2, <1>12 DEF UpdateConfig, wakeLayer, Same
  <2>2. call' \in [Slots -> CallType]
    BY <1>12, MarksTyped DEF UpdateConfig, Types
  <2> QED BY <1>12, <2>1, <2>2 DEF UpdateConfig, Configurations, Types, RunnerTyped
<1>13. CASE Stop
  <2>1. WakeLayerTyped'
    BY <1>2, <1>13 DEF Stop, Same
  <2>2. call' \in [Slots -> CallType]
    BY <1>13, CallForTyped DEF Stop, Types
  <2> QED BY <1>13, <2>1, <2>2 DEF Stop, outside, Types, RunnerTyped
<1>14. CASE SetHeartbeatsEnabled
  <2>1. WakeLayerTyped'
    BY <1>2, <1>14 DEF SetHeartbeatsEnabled, wakeLayer, Same
  <2>2. call' \in [Slots -> CallType]
    BY <1>14, MarksTyped DEF SetHeartbeatsEnabled, Types
  <2> QED BY <1>14, <2>1, <2>2 DEF SetHeartbeatsEnabled, Types, RunnerTyped
<1>15. ASSUME NEW a \in Agents, FallsDue(a) PROVE Types'
  <2>1. WakeLayerTyped'
    BY <1>2, <1>15 DEF FallsDue, wakeLayer, Same
  <2> QED BY <1>15, <2>1 DEF FallsDue, outside, Types, RunnerTyped
<1> QED
  BY <1>3, <1>4, <1>5, <1>6, <1>7, <1>8, <1>9, <1>10, <1>11, <1>12, <1>13, <1>14, <1>15
  DEF Next, Fire

\* The types of the wake layer and of the runner, for any agents and bounds.
THEOREM Typing == Spec => []TypeOK
<1>1. Spec => []Types
  BY InitTypes, StepTypes, Invariance, PTL DEF Spec
<1> QED BY <1>1, Invariance, TypesGiveTypeOK, PTL


---------------------------------------------------------------------------
(* The chain of interval wakes.                                            *)

\* A batch of the present runner that will set its timer: a call under way
\* that gets that far, or a wake for all agents still to come.
Bearer(b) ==
  /\ Busy(b) /\ Current(b)
  /\ ~batches[b].idle \/ Waits(batches[b].todo, AnyAgent)

Chain ==
  handler # 0 /\ agents # {} =>
    armed \/ lapsed \/ Waits(pending, AnyAgent) \/ \E b \in Slots : Bearer(b)

LEMMA ChainIs == Chain <=> ChainUnbroken
<1>1. \A b : (\E w \in ToSet(batches[b].todo) : w.target = AnyAgent)
               <=> Waits(batches[b].todo, AnyAgent)
  BY DEF ToSet, Waits
<1> QED BY <1>1 DEF Chain, ChainUnbroken, Bearer, Waits

\* The end of a call leaves the other batches what they are, and its own with
\* the wakes that follow.
LEMMA ProceedBears ==
  ASSUME IInv, WakeLayerTyped, NEW b \in Slots, Busy(b), NEW p, NEW t, Proceed(b, p, t),
         UNCHANGED handler
  PROVE  /\ pending' = p
         /\ \A a \in Slots \ {b} : Bearer(a) => Bearer(a)'
         /\ Bearer(b) /\ batches[b].idle /\ Wake(b).target # AnyAgent => Bearer(b)'
<1> DEFINE s == batches[b].todo
<1>1. /\ s \in Seq(WakeType) /\ s # <<>> /\ Shape(batches[b])
      /\ batches = [c \in Slots |-> batches[c]]
  BY DEF WakeLayerTyped, BatchTyped, Busy, IInv, BatchesOK
<1>2. ASSUME NEW i \in DOMAIN s, s[i].target = AnyAgent, Wake(b).target # AnyAgent
      PROVE  i # 1 /\ Waits(Tail(s), AnyAgent)
  <2>1. Wake(b) = s[1] /\ (i = 1 \/ (i - 1 \in DOMAIN Tail(s) /\ Tail(s)[i - 1] = s[i]))
    BY <1>1, TailLeft DEF Wake
  <2>2. i # 1
    BY <1>2, <2>1
  <2> QED BY <1>2, <2>1, <2>2 DEF Waits
<1>3. CASE Len(s) = 1
  <2>1. Leave(b, p, t)
    BY <1>3 DEF Proceed
  <2>2. pending' = p /\ \A a \in Slots \ {b} : batches'[a] = batches[a]
    BY <1>1, <2>1 DEF Leave
  <2>3. DOMAIN s = {1}
    BY <1>1, <1>3
  <2>4. ~(Waits(s, AnyAgent) /\ Wake(b).target # AnyAgent)
    BY <1>2, <2>3 DEF Waits
  <2> QED BY <2>2, <2>4 DEF Bearer, Busy, Current
<1>4. CASE Len(s) # 1
  <2>1. /\ batches' = [batches EXCEPT ![b].todo = Tail(@), ![b].idle = Idle(batches[b].by)]
        /\ pending' = p
    BY <1>4 DEF Proceed
  <2>2. \A a \in Slots \ {b} : batches'[a] = batches[a]
    BY <1>1, <2>1
  <2>3. batches'[b].todo = Tail(s) /\ batches'[b].by = batches[b].by
    BY <1>1, <2>1 DEF Shape
  <2>4. Tail(s) # <<>>
    BY <1>1, <1>4, TailLeft
  <2>5. NoBatch.todo = <<>>
    BY DEF NoBatch
  <2>6. batches'[b] # NoBatch
    BY <2>3, <2>4, <2>5
  <2>7. Waits(s, AnyAgent) /\ Wake(b).target # AnyAgent => Waits(Tail(s), AnyAgent)
    BY <1>2 DEF Waits
  <2>8. Bearer(b) /\ batches[b].idle => Waits(s, AnyAgent) /\ batches[b].by = handler
    BY DEF Bearer, Current
  <2>9. Waits(Tail(s), AnyAgent) /\ batches[b].by = handler => Bearer(b)'
    BY <2>3, <2>6 DEF Bearer, Busy, Current
  <2>10. \A a \in Slots \ {b} : Bearer(a) => Bearer(a)'
    BY <2>2 DEF Bearer, Busy, Current
  <2> QED BY <2>1, <2>7, <2>8, <2>9, <2>10
<1> QED BY <1>3, <1>4

\* The chain is kept by whatever sets the timer, and by what takes nothing of
\* it away.
LEMMA ChainKept ==
  ASSUME Chain,
         \/ armed' = (agents' # {}) \/ lapsed' \/ handler' = 0
         \/ /\ UNCHANGED <<handler, agents>>
            /\ armed => armed'
            /\ lapsed => lapsed'
            /\ Waits(pending, AnyAgent) => Waits(pending', AnyAgent)
            /\ \A b \in Slots : Bearer(b) => Bearer(b)'
  PROVE  Chain'
  BY DEF Chain, Waits

LEMMA SameBearers == UNCHANGED <<batches, handler>> => \A b \in Slots : Bearer(b) => Bearer(b)'
  BY DEF Bearer, Busy, Current

\* The ends of calls keep the chain: all but an idle one and one that met a
\* busy lane set the timer, the first passes no wake for all over without
\* saying so, and the second puts such a wake back.
LEMMA CallChain == ASSUME IInv, Types, Chain, NEW b \in Slots, CallEnds(b) PROVE Chain'
<1>1. /\ QueueTyped(pending) /\ WakeLayerTyped /\ lapsed \in BOOLEAN
      /\ batches[b].idle \in BOOLEAN
  BY DEF Types, WakeLayerTyped, RunnerTyped, BatchTyped
<1>2. CASE CallIdle(b)
  <2>1. /\ Busy(b) /\ batches[b].idle /\ Proceed(b, pending, timer)
        /\ UNCHANGED <<handler, agents, armed>>
        /\ lapsed' = (lapsed \/ (Current(b) /\ Wake(b).target = AnyAgent))
    BY <1>2 DEF CallIdle
  <2>2. /\ pending' = pending /\ \A a \in Slots \ {b} : Bearer(a) => Bearer(a)'
        /\ Bearer(b) /\ Wake(b).target # AnyAgent => Bearer(b)'
    BY <1>1, <2>1, ProceedBears
  <2>3. CASE Current(b) /\ Wake(b).target = AnyAgent
    BY <2>1, <2>3, ChainKept
  <2>4. CASE ~(Current(b) /\ Wake(b).target = AnyAgent)
    <3>1. Bearer(b) => Bearer(b)'
      BY <2>2, <2>4 DEF Bearer
    <3> QED BY <2>1, <2>2, <3>1, ChainKept
  <2> QED BY <2>3, <2>4
<1>3. CASE CallDone(b)
  <2>1. /\ Busy(b) /\ Proceed(b, pending, timer) /\ UNCHANGED <<handler, agents>>
        /\ IF Current(b) THEN Arm ELSE UNCHANGED <<armed, lapsed>>
    BY <1>3 DEF CallDone, ArmAfter
  <2>2. pending' = pending /\ \A a \in Slots \ {b} : Bearer(a) => Bearer(a)'
    BY <1>1, <2>1, ProceedBears
  <2>3. CASE Current(b)
    BY <2>1, <2>3, ChainKept DEF Arm
  <2>4. CASE ~Current(b)
    <3>1. ~Bearer(b)
      BY <2>4 DEF Bearer
    <3> QED BY <2>1, <2>2, <2>4, <3>1, ChainKept
  <2> QED BY <2>3, <2>4
<1>4. CASE CallBusy(b)
  <2> DEFINE q == PutBack(pending, Wake(b))
  <2>1. /\ Busy(b) /\ Proceed(b, q, Schedule(timer, Retry, "retry"))
        /\ UNCHANGED <<handler, agents>>
        /\ IF Current(b) /\ Wake(b).target # AnyAgent THEN Arm ELSE UNCHANGED <<armed, lapsed>>
    BY <1>4 DEF CallBusy
  <2>2. Waits(q, Wake(b).target) /\ \A t : Waits(pending, t) => Waits(q, t)
    BY <1>1, <2>1, WakeTyped, QueueMerges DEF QueueTyped, PutBack
  <2>3. pending' = q /\ \A a \in Slots \ {b} : Bearer(a) => Bearer(a)'
    <3> HIDE DEF q
    <3> QED BY <1>1, <2>1, ProceedBears
  <2> HIDE DEF q
  <2>4. CASE ~Current(b)
    <3>1. ~Bearer(b)
      BY <2>4 DEF Bearer
    <3> QED BY <2>1, <2>2, <2>3, <2>4, <3>1, ChainKept
  <2>5. CASE Current(b) /\ Wake(b).target # AnyAgent
    BY <2>1, <2>5, ChainKept DEF Arm
  <2>6. CASE Current(b) /\ Wake(b).target = AnyAgent
    BY <2>2, <2>3, <2>6 DEF Chain, Waits
  <2> QED BY <2>4, <2>5, <2>6
<1>5. CASE CallThrows(b)
  <2> DEFINE q == QueueAll(pending, batches[b].all)
  <2>1. /\ Busy(b) /\ Leave(b, q, Schedule(timer, Retry, "retry")) /\ UNCHANGED <<handler, agents>>
        /\ IF Current(b) THEN Arm ELSE UNCHANGED <<armed, lapsed>>
    BY <1>5 DEF CallThrows
  <2>2. batches[b].all \in Seq(WakeType)
    BY <1>1 DEF WakeLayerTyped, BatchTyped
  <2>3. \A t : Waits(pending, t) => Waits(q, t)
    BY <1>1, <2>2, QueueAllMerges DEF QueueTyped
  <2> HIDE DEF q
  <2>4. pending' = q /\ \A a \in Slots \ {b} : batches'[a] = batches[a]
    BY <2>1 DEF Leave, IInv, BatchesOK
  <2>5. \A a \in Slots \ {b} : Bearer(a) => Bearer(a)'
    BY <2>1, <2>4 DEF Bearer, Busy, Current
  <2>6. CASE Current(b)
    BY <2>1, <2>6, ChainKept DEF Arm
  <2>7. CASE ~Current(b)
    <3>1. ~Bearer(b)
      BY <2>7 DEF Bearer
    <3> QED BY <2>1, <2>3, <2>4, <2>5, <2>7, <3>1, ChainKept
  <2> QED BY <2>6, <2>7
<1> QED BY <1>2, <1>3, <1>4, <1>5 DEF CallEnds

\* Every step keeps the chain.
LEMMA StepChain == IInv /\ Types /\ Chain /\ [Next]_vars => Chain'
<1> SUFFICES ASSUME IInv, Types, Chain, [Next]_vars PROVE Chain'
  OBVIOUS
<1>1. QueueTyped(pending) /\ \A b \in Slots : BatchTyped(batches[b])
  BY DEF Types, WakeLayerTyped
<1>2. CASE UNCHANGED vars
  BY <1>2, ChainKept, SameBearers DEF vars, wakeLayer, runner
<1>3. ASSUME NEW t \in Targets, NEW p \in {Default, Action}, Request(t, p) PROVE Chain'
  <2>1. [target |-> t, priority |-> p] \in WakeType
    BY <1>3 DEF WakeType
  <2>2. \A u : Waits(pending, u) => Waits(pending', u)
    BY <1>1, <1>3, <2>1, QueueMerges DEF Request, QueueTyped
  <2> QED BY <1>3, <2>2, ChainKept, SameBearers DEF Request, runner
<1>4. CASE Tick
  BY <1>4, ChainKept, SameBearers DEF Tick, runner
<1>5. CASE FireUnhandled
  BY <1>5, ChainKept, SameBearers DEF FireUnhandled, runner
<1>6. CASE FireWhileRunning
  BY <1>6, ChainKept, SameBearers DEF FireWhileRunning, runner
<1>7. ASSUME NEW b \in Slots, FireBatch(b) PROVE Chain'
  <2> DEFINE new == [todo |-> pending, all |-> pending, delay |-> timer.delay, by |-> handler,
                     idle |-> Idle(handler)]
  <2>1. /\ ~Busy(b) /\ batches' = [batches EXCEPT ![b] = new] /\ pending # <<>>
        /\ UNCHANGED <<handler, agents, armed, lapsed>>
    BY <1>7 DEF FireBatch, runner
  <2>2. batches'[b] = new /\ \A a \in Slots \ {b} : batches'[a] = batches[a]
    BY <2>1 DEF IInv, BatchesOK
  <2>3. \A a \in Slots : Bearer(a) => Bearer(a)'
    <3>1. \A a \in Slots \ {b} : Bearer(a) => Bearer(a)'
      <4> HIDE DEF new
      <4> QED BY <2>1, <2>2 DEF Bearer, Busy, Current
    <3> QED BY <2>1, <3>1 DEF Bearer
  <2>4. Waits(pending, AnyAgent) => Bearer(b)'
    <3>1. batches'[b].todo = pending /\ batches'[b].by = handler
      BY <2>2
    <3>2. NoBatch.todo = <<>>
      BY DEF NoBatch
    <3>3. Busy(b)'
      BY <2>1, <3>1, <3>2 DEF Busy
    <3> HIDE DEF new
    <3> QED BY <2>1, <3>1, <3>3 DEF Bearer, Current
  <2> HIDE DEF new
  <2> QED BY <2>1, <2>3, <2>4 DEF Chain
<1>8. CASE IntervalTimer
  <2>1. [target |-> AnyAgent, priority |-> Interval] \in WakeType
    BY DEF WakeType, Targets
  <2>2. Waits(pending', AnyAgent)
    BY <1>1, <1>8, <2>1, QueueMerges DEF IntervalTimer, QueueTyped
  <2> QED BY <2>2 DEF Chain, Waits
<1>9. ASSUME NEW b \in Slots, CallEnds(b) PROVE Chain'
  BY <1>9, CallChain
<1>10. ASSUME NEW A \in Configurations, Start(A) \/ UpdateConfig(A) PROVE Chain'
  BY <1>10, ChainKept DEF Start, UpdateConfig
<1>11. CASE Stop
  BY <1>11, ChainKept DEF Stop
<1>12. CASE SetHeartbeatsEnabled
  BY <1>12, ChainKept, SameBearers DEF SetHeartbeatsEnabled, wakeLayer, runner
<1>13. ASSUME NEW a \in Agents, FallsDue(a) PROVE Chain'
  BY <1>13, ChainKept, SameBearers DEF FallsDue, wakeLayer
<1> QED
  BY <1>2, <1>3, <1>4, <1>5, <1>6, <1>7, <1>8, <1>9, <1>10, <1>11, <1>12, <1>13 DEF Next, Fire

\* The runner's next interval wake is on its way, for any agents and however
\* many requests, batches, runners and switches overlap, unless a wake for all
\* agents was passed over.
THEOREM ChainUnbrokenHolds == Spec => []ChainUnbroken
<1>1. Spec => []Types
  BY InitTypes, StepTypes, Invariance, PTL DEF Spec
<1>2. Init => Chain
  BY DEF Init, Chain
<1>3. Spec => []Chain
  BY <1>1, <1>2, StepChain, Invariance, PTL DEF Spec
<1> QED BY <1>3, ChainIs, PTL

---------------------------------------------------------------------------
(* Wakes for events.                                                       *)

Event(t) == [target |-> t, priority |-> Action]

Holds(s, w) == \E i \in DOMAIN s : s[i] = w

\* A wake for an event leaves the queue only whole, with a batch that starts.
EventKept ==
  \A t \in Targets :
    Wanted(t) => Wanted(t)' \/ \E b \in Slots : ~Busy(b) /\ Holds(batches'[b].todo, Event(t))

\* No request reduces a wake for an event.
LEMMA QueueKeepsEvent ==
  ASSUME NEW p \in Seq(WakeType), NEW w \in WakeType, NEW t, Holds(p, Event(t))
  PROVE  Holds(Queue(p, w), Event(t))
<1>1. PICK i \in DOMAIN p : p[i] = Event(t)
  BY DEF Holds
<1>2. Len(p) \in Nat /\ DOMAIN p = 1..Len(p)
  OBVIOUS
<1>3. CASE Waits(p, w.target)
  <2>1. Queue(p, w) = [j \in DOMAIN p |-> IF p[j].target = w.target /\ w.priority >= p[j].priority
                                          THEN w ELSE p[j]]
    BY <1>3 DEF Queue, Waits
  <2>2. w = [target |-> w.target, priority |-> w.priority] /\ w.priority \in {Interval, Default, Action}
    BY DEF WakeType
  <2>3. p[i].target = t /\ p[i].priority = Action
    BY <1>1 DEF Event
  <2>4. w.priority >= p[i].priority => w.priority = Action
    BY <2>2, <2>3 DEF Interval, Default, Action
  <2>5. p[i].target = w.target /\ w.priority >= p[i].priority => w = Event(t)
    BY <2>2, <2>3, <2>4 DEF Event
  <2>6. Queue(p, w)[i] = Event(t) /\ DOMAIN Queue(p, w) = DOMAIN p
    BY <1>1, <2>1, <2>5
  <2> QED BY <2>6 DEF Holds
<1>4. CASE ~Waits(p, w.target)
  <2>1. Queue(p, w) = Append(p, w)
    BY <1>4 DEF Queue, Waits
  <2>2. DOMAIN Queue(p, w) = 1..(Len(p) + 1) /\ Queue(p, w)[i] = p[i]
    BY <1>1, <1>2, <2>1
  <2> QED BY <1>1, <1>2, <2>2 DEF Holds
<1> QED BY <1>3, <1>4

\* Nor does putting back a batch.
LEMMA QueueAllKeepsEvent ==
  ASSUME NEW p \in Seq(WakeType), OneWakePerTarget(p), NEW ws \in Seq(WakeType), NEW t,
         Holds(p, Event(t))
  PROVE  Holds(QueueAll(p, ws), Event(t))
<1>1. Len(ws) \in Nat /\ \A i \in 1..Len(ws) : ws[i] \in WakeType
  OBVIOUS
<1>2. PICK f : /\ f = [m \in 0..Len(ws) |-> IF m = 0 THEN p ELSE Queue(f[m - 1], ws[m])]
               /\ QueueAll(p, ws) = f[Len(ws)]
  BY <1>1, LoopIs
<1> DEFINE Kept(n) == f[n] \in Seq(WakeType) /\ OneWakePerTarget(f[n]) /\ Holds(f[n], Event(t))
           S == {n \in Nat : n <= Len(ws) => Kept(n)}
<1>3. 0 \in S
  <2>1. f[0] = p
    BY <1>1, <1>2
  <2> QED BY <2>1
<1>4. ASSUME NEW n \in Nat, n \in S PROVE n + 1 \in S
  <2> SUFFICES ASSUME n + 1 <= Len(ws) PROVE Kept(n + 1)
    OBVIOUS
  <2>1. Kept(n) /\ n + 1 \in 1..Len(ws)
    BY <1>1, <1>4
  <2>2. f[n + 1] = Queue(f[n], ws[n + 1])
    BY <1>1, <1>2, <2>1
  <2> QED BY <1>1, <2>1, <2>2, QueueMerges, QueueKeepsEvent
<1>5. Len(ws) \in S
  BY <1>1, <1>3, <1>4, CountingReachesAll
<1> QED BY <1>1, <1>2, <1>5

\* Every step keeps the wakes for events or starts a batch with them.
LEMMA StepEventKept == IInv /\ Types /\ [Next]_vars => EventKept
<1> SUFFICES ASSUME IInv, Types, [Next]_vars, NEW t \in Targets, Wanted(t),
                    ~ \E b \in Slots : ~Busy(b) /\ Holds(batches'[b].todo, Event(t))
             PROVE  Holds(pending', Event(t))
  BY DEF EventKept, Wanted, Holds, Event
<1>1. /\ pending \in Seq(WakeType) /\ OneWakePerTarget(pending) /\ WakeLayerTyped
      /\ Holds(pending, Event(t))
  BY DEF Types, WakeLayerTyped, QueueTyped, Wanted, Holds, Event
<1>2. CASE UNCHANGED pending
  BY <1>1, <1>2
<1>3. ASSUME NEW u \in Targets, NEW p \in {Default, Action}, Request(u, p)
      PROVE  Holds(pending', Event(t))
  <2>1. [target |-> u, priority |-> p] \in WakeType
    BY <1>3 DEF WakeType
  <2> QED BY <1>1, <1>3, <2>1, QueueKeepsEvent DEF Request
<1>4. CASE IntervalTimer
  <2>1. [target |-> AnyAgent, priority |-> Interval] \in WakeType
    BY DEF WakeType, Targets
  <2> QED BY <1>1, <1>4, <2>1, QueueKeepsEvent DEF IntervalTimer
<1>5. ASSUME NEW b \in Slots, FireBatch(b) PROVE Holds(pending', Event(t))
  <2>1. ~Busy(b) /\ batches'[b].todo = pending
    BY <1>5 DEF FireBatch, IInv, BatchesOK
  <2> QED BY <1>1, <2>1
<1>6. ASSUME NEW b \in Slots, CallEnds(b) PROVE Holds(pending', Event(t))
  <2>1. ASSUME NEW p, NEW k, Proceed(b, p, k) PROVE pending' = p
    BY <2>1 DEF Proceed, Leave
  <2>2. CASE CallIdle(b) \/ CallDone(b)
    BY <1>1, <2>1, <2>2 DEF CallIdle, CallDone
  <2>3. CASE CallBusy(b)
    <3>1. Wake(b) \in WakeType /\ pending' = Queue(pending, Wake(b))
      BY <1>1, <2>1, <2>3, WakeTyped DEF CallBusy, PutBack
    <3> QED BY <1>1, <3>1, QueueKeepsEvent
  <2>4. CASE CallThrows(b)
    <3>1. pending' = QueueAll(pending, batches[b].all) /\ batches[b].all \in Seq(WakeType)
      BY <1>1, <2>4 DEF CallThrows, Leave, WakeLayerTyped, BatchTyped
    <3> QED BY <1>1, <3>1, QueueAllKeepsEvent
  <2> QED BY <1>6, <2>2, <2>3, <2>4 DEF CallEnds
<1>7. CASE Tick \/ FireUnhandled \/ FireWhileRunning \/ Stop \/ SetHeartbeatsEnabled
  BY <1>2, <1>7 DEF Tick, FireUnhandled, FireWhileRunning, Stop, SetHeartbeatsEnabled, wakeLayer
<1>8. ASSUME NEW A, Start(A) \/ UpdateConfig(A) PROVE Holds(pending', Event(t))
  BY <1>2, <1>8 DEF Start, UpdateConfig, wakeLayer
<1>9. ASSUME NEW a \in Agents, FallsDue(a) PROVE Holds(pending', Event(t))
  BY <1>2, <1>9 DEF FallsDue, wakeLayer
<1>10. CASE UNCHANGED vars
  BY <1>2, <1>10 DEF vars, wakeLayer
<1> QED BY <1>3, <1>4, <1>5, <1>6, <1>7, <1>8, <1>9, <1>10 DEF Next, Fire

\* A wake for an event is never dropped from the queue nor reduced to an
\* interval wake by a later one, a busy lane, a batch that throws or a restart.
THEOREM EventKeptHolds == Spec => [][EventKept]_vars
<1>1. Spec => []Types
  BY InitTypes, StepTypes, Invariance, PTL DEF Spec
<1> QED BY <1>1, StepEventKept, Invariance, PTL DEF Spec
===============================================================================
