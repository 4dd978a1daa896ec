------------------------- MODULE CommandQueueProofs -------------------------
(***************************************************************************)
(* Proofs about CommandQueue for every choice of lanes, entries, nesting   *)
(* and caps.                                                               *)
(***************************************************************************)
EXTENDS CommandQueue, SequenceTheorems, FiniteSetTheorems, TLAPS

---------------------------------------------------------------------------
(* Facts about sequences used as queues and as call stacks.                *)

\* What a queue holds after a push at its tail, as enqueueCommandInLane does.
LEMMA RangeAppend ==
  ASSUME NEW S, NEW s \in Seq(S), NEW e \in S
  PROVE  Range(Append(s, e)) = Range(s) \cup {e}
<1>1. /\ Len(Append(s, e)) = Len(s) + 1
      /\ \A i \in 1 .. Len(s) : Append(s, e)[i] = s[i]
      /\ Append(s, e)[Len(s) + 1] = e
      /\ Append(s, e) \in Seq(S)
  OBVIOUS
<1>2. DOMAIN Append(s, e) = 1 .. Len(s) + 1 /\ DOMAIN s = 1 .. Len(s) /\ Len(s) \in Nat
  BY <1>1
<1>3. ASSUME NEW x \in Range(Append(s, e)) PROVE x \in Range(s) \cup {e}
  BY <1>1, <1>2, <1>3 DEF Range
<1>4. ASSUME NEW x \in Range(s) PROVE x \in Range(Append(s, e))
  BY <1>1, <1>2, <1>4 DEF Range
<1>5. e \in Range(Append(s, e))
  BY <1>1, <1>2 DEF Range
<1>6. QED
  BY <1>3, <1>4, <1>5

LEMMA InjectiveAppend ==
  ASSUME NEW S, NEW s \in Seq(S), NEW e \in S, IsInjective(s), e \notin Range(s)
  PROVE  IsInjective(Append(s, e))
<1>1. /\ Len(Append(s, e)) = Len(s) + 1
      /\ \A i \in 1 .. Len(s) : Append(s, e)[i] = s[i]
      /\ Append(s, e)[Len(s) + 1] = e
      /\ Append(s, e) \in Seq(S)
  OBVIOUS
<1>2. DOMAIN Append(s, e) = 1 .. Len(s) + 1 /\ DOMAIN s = 1 .. Len(s) /\ Len(s) \in Nat
  BY <1>1
<1>3. QED
  BY <1>1, <1>2 DEF Range, IsInjective

\* What a queue holds after shift().
LEMMA RangeTail ==
  ASSUME NEW S, NEW s \in Seq(S), s # <<>>
  PROVE  /\ Head(s) \in Range(s)
         /\ Range(s) = Range(Tail(s)) \cup {Head(s)}
<1>1. /\ Len(s) \in Nat \ {0} /\ DOMAIN s = 1 .. Len(s)
      /\ Tail(s) \in Seq(S) /\ Len(Tail(s)) = Len(s) - 1
      /\ DOMAIN Tail(s) = 1 .. Len(s) - 1
      /\ \A i \in 1 .. Len(s) - 1 : Tail(s)[i] = s[i + 1]
      /\ Head(s) = s[1]
  OBVIOUS
<1>2. Head(s) \in Range(s)
  BY <1>1 DEF Range
<1>3. ASSUME NEW x \in Range(s), x # Head(s) PROVE x \in Range(Tail(s))
  <2>1. PICK i \in 1 .. Len(s) : s[i] = x
    BY <1>1 DEF Range
  <2>2. i - 1 \in 1 .. Len(s) - 1 /\ Tail(s)[i - 1] = x
    BY <1>1, <1>3, <2>1
  <2>3. QED
    BY <1>1, <2>2 DEF Range
<1>4. ASSUME NEW x \in Range(Tail(s)) PROVE x \in Range(s)
  BY <1>1 DEF Range
<1>5. QED
  BY <1>2, <1>3, <1>4

LEMMA InjectiveTail ==
  ASSUME NEW S, NEW s \in Seq(S), s # <<>>, IsInjective(s)
  PROVE  IsInjective(Tail(s)) /\ Head(s) \notin Range(Tail(s))
<1>1. /\ Len(s) \in Nat \ {0} /\ DOMAIN s = 1 .. Len(s)
      /\ DOMAIN Tail(s) = 1 .. Len(s) - 1
      /\ \A i \in 1 .. Len(s) - 1 : Tail(s)[i] = s[i + 1]
      /\ Head(s) = s[1]
  OBVIOUS
<1>2. QED
  BY <1>1 DEF IsInjective, Range

\* What the stack holds after a call is pushed.
LEMMA RangePush ==
  ASSUME NEW S, NEW s \in Seq(S), NEW f \in S
  PROVE  /\ <<f>> \o s \in Seq(S)
         /\ <<f>> \o s # <<>>
         /\ Head(<<f>> \o s) = f
         /\ Tail(<<f>> \o s) = s
         /\ Range(<<f>> \o s) = Range(s) \cup {f}
<1>1. /\ <<f>> \o s \in Seq(S) /\ <<f>> \o s # <<>>
      /\ Head(<<f>> \o s) = f /\ Tail(<<f>> \o s) = s
  OBVIOUS
<1>2. QED
  BY <1>1, RangeTail

---------------------------------------------------------------------------
(* Types.                                                                  *)

\* A frame names a lane, and an enqueue frame names an entry of that lane.
LEMMA FrameType ==
  ASSUME NEW f \in Frame
  PROVE  /\ f.lane \in Lanes
         /\ f.kind \in {"drainLane", "pump", "enqueue"}
         /\ f.kind = "drainLane" => f = Call(f.lane)
         /\ f.kind = "pump" => f = Pump(f.lane)
         /\ f.kind = "enqueue" => f.entry \in Entries /\ f.lane = LaneOf[f.entry]
BY CommandQueueAssumption DEF Frame, Call, Pump, Body

LEMMA FrameMake ==
  /\ \A l \in Lanes : Call(l) \in Frame /\ Pump(l) \in Frame
  /\ \A e \in Entries : Body(e) \in Frame
BY DEF Frame

LEMMA TopType ==
  ASSUME TypeOK, stack # <<>>
  PROVE  /\ Head(stack) \in Frame
         /\ Here \in Lanes
         /\ Tail(stack) \in Seq(Frame)
<1>1. Head(stack) \in Frame /\ Tail(stack) \in Seq(Frame)
  BY DEF TypeOK
<1>2. QED
  BY <1>1, FrameType DEF Here

LEMMA EagerInner ==
  ASSUME NEW e \in Eager
  PROVE  e \in Entries /\ Inner[e] \in Entries
BY CommandQueueAssumption

LEMMA QueueHeadType ==
  ASSUME TypeOK, NEW l \in Lanes, queue[l] # <<>>
  PROVE  Head(queue[l]) \in Entries /\ Tail(queue[l]) \in Seq(Entries)
BY DEF TypeOK

LEMMA TypeInit == Init => TypeOK
<1> SUFFICES ASSUME Init PROVE TypeOK
  OBVIOUS
<1>1. queue \in [Lanes -> Seq(Entries)] /\ stack \in Seq(Frame)
  BY DEF Init
<1>2. maxConcurrent \in [Lanes -> Nat \ {0}]
  BY DEF Init
<1>3. QED
  BY <1>1, <1>2 DEF Init, TypeOK, Status

LEMMA TypeStep == TypeOK /\ [Next]_vars => TypeOK'
<1> SUFFICES ASSUME TypeOK, [Next]_vars
             PROVE  TypeOK'
  OBVIOUS
<1> USE CommandQueueAssumption
<1>1. CASE DrainLaneBusy
  <2>1. stack' \in Seq(Frame)
    BY <1>1, TopType DEF DrainLaneBusy, Running, Pop
  <2>2. QED
    BY <1>1, <2>1 DEF DrainLaneBusy, TypeOK, laneVars, runVars
<1>2. CASE DrainLaneEnter
  <2>1. Here \in Lanes /\ stack' \in Seq(Frame)
    BY <1>2, TopType, FrameMake, RangePush DEF DrainLaneEnter, Running
  <2>2. QED
    BY <1>2, <2>1 DEF DrainLaneEnter, TypeOK, runVars
<1>3. CASE PumpStart
  <2> DEFINE e == Head(queue[Here])
  <2>1. Here \in Lanes /\ queue[Here] # <<>>
    BY <1>3, TopType DEF PumpStart, Running, HasRoom
  <2>2. e \in Entries /\ Tail(queue[Here]) \in Seq(Entries)
    BY <2>1, QueueHeadType
  <2>3. stack' \in Seq(Frame)
    <3>1. CASE e \in Eager
      <4>1. Body(Inner[e]) \in Frame
        BY <3>1, EagerInner, FrameMake
      <4>2. stack' = <<Body(Inner[e])>> \o stack
        BY <1>3, <3>1 DEF PumpStart, Push
      <4>3. stack \in Seq(Frame)
        BY DEF TypeOK
      <4>4. QED
        BY <4>1, <4>2, <4>3, RangePush
    <3>2. CASE e \notin Eager
      BY <1>3, <3>2 DEF PumpStart, TypeOK
    <3>3. QED
      BY <3>1, <3>2
  <2>4. /\ queue' = [queue EXCEPT ![Here] = Tail(@)]
        /\ active' = [active EXCEPT ![Here] = @ \cup {e}]
        /\ startGen' = [startGen EXCEPT ![e] = generation]
        /\ status' = [status EXCEPT ![e] = "running"]
        /\ UNCHANGED <<maxConcurrent, draining, generation, gatewayDraining, toDrain>>
    BY <1>3 DEF PumpStart
  <2> HIDE DEF e
  <2>5. QED
    BY <2>1, <2>2, <2>3, <2>4 DEF TypeOK, Status
<1>4. CASE PumpExit
  <2>1. Here \in Lanes /\ stack' \in Seq(Frame)
    BY <1>4, TopType DEF PumpExit, Running, Pop
  <2>2. QED
    BY <1>4, <2>1 DEF PumpExit, TypeOK, runVars
<1>5. CASE InnerRefused
  <2>1. stack' \in Seq(Frame)
    BY <1>5, TopType DEF InnerRefused, Running, Pop
  <2>2. QED
    BY <1>5, <2>1 DEF InnerRefused, Refuse, TypeOK, Status, Settled
<1>6. CASE InnerAccepted
  <2>1. Here \in Lanes /\ Head(stack).entry \in Entries /\ stack' \in Seq(Frame)
    BY <1>6, TopType, FrameType, FrameMake, RangePush DEF InnerAccepted, Running
  <2>2. LaneOf[Head(stack).entry] \in Lanes
    BY <2>1
  <2>3. QED
    BY <1>6, <2>1, <2>2 DEF InnerAccepted, Accept, TypeOK, Status
<1>7. ASSUME NEW l \in Lanes, DrainNext(l) PROVE TypeOK'
  <2>1. stack' \in Seq(Frame)
    BY <1>7, FrameMake, RangePush DEF DrainNext, Push, TypeOK
  <2>2. QED
    BY <1>7, <2>1 DEF DrainNext, TypeOK, laneVars, runVars
<1>8. ASSUME NEW e \in Entries, EnqueueRefused(e) PROVE TypeOK'
  BY <1>8 DEF EnqueueRefused, Refuse, TypeOK, Status, Settled
<1>9. ASSUME NEW e \in Entries, EnqueueAccepted(e) PROVE TypeOK'
  <2>1. LaneOf[e] \in Lanes
    OBVIOUS
  <2>2. stack' \in Seq(Frame)
    BY <1>9, <2>1, FrameMake, RangePush DEF EnqueueAccepted, Push, TypeOK
  <2>3. QED
    BY <1>9, <2>1, <2>2 DEF EnqueueAccepted, Accept, TypeOK, Status
<1>10. ASSUME NEW e \in Entries, TaskEndsCurrent(e) PROVE TypeOK'
  <2>1. LaneOf[e] \in Lanes
    OBVIOUS
  <2>2. stack' \in Seq(Frame)
    BY <1>10, <2>1, FrameMake, RangePush DEF TaskEndsCurrent, Push, TypeOK
  <2>3. QED
    BY <1>10, <2>1, <2>2 DEF TaskEndsCurrent, TypeOK, Status, Settled
<1>11. ASSUME NEW e \in Entries, TaskEndsStale(e) PROVE TypeOK'
  BY <1>11 DEF TaskEndsStale, TypeOK, Status, Settled, laneVars
<1>12. ASSUME NEW l \in Lanes, ClearCommandLane(l) PROVE TypeOK'
  BY <1>12 DEF ClearCommandLane, TypeOK, Status, Settled
<1>13. ASSUME NEW l \in Configured, NEW n \in Caps, SetCommandLaneConcurrency(l, n)
       PROVE  TypeOK'
  <2>1. stack' \in Seq(Frame)
    BY <1>13, FrameMake, RangePush DEF SetCommandLaneConcurrency, Push, TypeOK
  <2>2. CapFor(n) \in Nat \ {0}
    BY DEF CapFor
  <2>3. QED
    BY <1>13, <2>1, <2>2 DEF SetCommandLaneConcurrency, TypeOK, runVars
<1>14. CASE MarkGatewayDraining
  BY <1>14 DEF MarkGatewayDraining, TypeOK, runVars
<1>15. CASE ResetAllLanes
  <2>1. generation' \in Nat /\ toDrain' \in SUBSET Lanes
    BY <1>15 DEF ResetAllLanes, TypeOK
  <2>2. active' \in [Lanes -> SUBSET Entries] /\ draining' \in [Lanes -> BOOLEAN]
    BY <1>15 DEF ResetAllLanes
  <2>3. QED
    BY <1>15, <2>1, <2>2 DEF ResetAllLanes, TypeOK, runVars
<1>16. CASE UNCHANGED vars
  BY <1>16 DEF vars, laneVars, runVars, TypeOK
<1>17. QED
  BY <1>1, <1>2, <1>3, <1>4, <1>5, <1>6, <1>7, <1>8, <1>9, <1>10, <1>11, <1>12,
     <1>13, <1>14, <1>15, <1>16 DEF Next, QueueStep, TaskEnds

\* Type correctness of the command queue.
THEOREM Typing == Spec => []TypeOK
BY TypeInit, TypeStep, PTL DEF Spec

---------------------------------------------------------------------------
(* Nested enqueues.                                                        *)

\* The entry being offered is untouched, and whatever awaits it is running.
LEMMA OfferedByRunning ==
  ASSUME TypeOK, BodyFresh, NEW e \in Entries,
         MayBeEnqueued(e) \/ (Running("enqueue") /\ e = Head(stack).entry)
  PROVE  status[e] = "idle" /\ \A p \in Entries : Inner[p] = e => status[p] = "running"
<1>1. CASE MayBeEnqueued(e)
  BY <1>1 DEF MayBeEnqueued
<1>2. CASE Running("enqueue") /\ e = Head(stack).entry
  <2>1. PICK p \in Eager : Inner[p] = e /\ status[p] = "running"
    BY <1>2 DEF BodyFresh
  <2>2. p \in Entries /\ Inner[p] # NoEntry
    BY <2>1, CommandQueueAssumption
  <2>3. \A q \in Entries : Inner[q] = e => q = p
    BY <2>1, <2>2, CommandQueueAssumption
  <2>4. QED
    BY <1>2, <2>1, <2>3 DEF BodyFresh
<1>3. QED
  BY <1>1, <1>2

\* Offering an entry, or ending a task, leaves other inner entries untouched.
LEMMA UntouchedAfterOffer ==
  ASSUME TypeOK, InnerUntouched, NEW e \in Entries, NEW o \in {"queued", "refused"},
         \A p \in Entries : Inner[p] = e => status[p] = "running",
         status[e] = "idle", status' = [status EXCEPT ![e] = o]
  PROVE  InnerUntouched'
<1> SUFFICES ASSUME NEW q \in Entries, Inner[q] # NoEntry, status'[q] \in {"idle", "queued"}
             PROVE  status'[Inner[q]] = "idle"
  BY DEF InnerUntouched
<1>1. status[q] \in {"idle", "queued"}
  BY DEF TypeOK
<1>2. Inner[q] # e
  BY <1>1
<1>3. Inner[q] \in Entries /\ status[Inner[q]] = "idle"
  BY <1>1, CommandQueueAssumption DEF InnerUntouched
<1>4. QED
  BY <1>2, <1>3 DEF TypeOK

LEMMA UntouchedAfterEnd ==
  ASSUME TypeOK, InnerUntouched, NEW e \in Entries, status[e] = "running",
         status' = [status EXCEPT ![e] = "done"]
  PROVE  InnerUntouched'
<1> SUFFICES ASSUME NEW q \in Entries, Inner[q] # NoEntry, status'[q] \in {"idle", "queued"}
             PROVE  status'[Inner[q]] = "idle"
  BY DEF InnerUntouched
<1>1. status[q] \in {"idle", "queued"}
  BY DEF TypeOK
<1>2. Inner[q] \in Entries /\ status[Inner[q]] = "idle"
  BY <1>1, CommandQueueAssumption DEF InnerUntouched
<1>3. Inner[q] # e
  BY <1>2
<1>4. QED
  BY <1>2, <1>3 DEF TypeOK

\* Pushing a frame on a stack without a pending enqueue, or on an empty one.
LEMMA NestingPush ==
  ASSUME TypeOK, NEW f \in Frame, f.kind # "enqueue", stack' = <<f>> \o stack,
         \A g \in Range(stack) : g.kind # "enqueue"
  PROVE  BodyOnTop' /\ BodyFresh'
<1>1. Head(stack') = f /\ Tail(stack') = stack
  BY RangePush DEF TypeOK
<1>2. QED
  BY <1>1 DEF BodyOnTop, BodyFresh, Running

LEMMA NestingPop ==
  ASSUME TypeOK, BodyOnTop, stack # <<>>, stack' = Tail(stack)
  PROVE  BodyOnTop' /\ BodyFresh' /\ \A g \in Range(stack') : g.kind # "enqueue"
<1>1. \A g \in Range(stack') : g.kind # "enqueue"
  BY DEF BodyOnTop
<1>2. stack' \in Seq(Frame)
  BY TopType
<1>3. stack' # <<>> => Head(stack') \in Range(stack') /\ Range(Tail(stack')) \subseteq Range(stack')
  BY <1>2, RangeTail
<1>4. QED
  BY <1>1, <1>3 DEF BodyOnTop, BodyFresh, Running

LEMMA NestingReplace ==
  ASSUME TypeOK, BodyOnTop, stack # <<>>, NEW f \in Frame, f.kind # "enqueue",
         stack' = <<f>> \o Tail(stack)
  PROVE  BodyOnTop' /\ BodyFresh'
<1>1. Head(stack') = f /\ Tail(stack') = Tail(stack)
  BY TopType, RangePush
<1>2. QED
  BY <1>1 DEF BodyOnTop, BodyFresh, Running

LEMMA EmptyStack ==
  stack = <<>> => \A g \in Range(stack) : g.kind # "enqueue"
BY DEF Range

LEMMA NestingStep == TypeOK /\ Nesting /\ QueuedExactlyOnce /\ [Next]_vars => Nesting'
<1> SUFFICES ASSUME TypeOK, InnerUntouched, BodyOnTop, BodyFresh, QueuedExactlyOnce,
                    [Next]_vars
             PROVE  InnerUntouched' /\ BodyOnTop' /\ BodyFresh'
  BY DEF Nesting
<1> USE CommandQueueAssumption
<1>1. CASE DrainLaneBusy
  BY <1>1, NestingPop DEF DrainLaneBusy, Running, Pop, runVars, InnerUntouched
<1>2. CASE DrainLaneEnter
  <2>1. Pump(Here) \in Frame /\ Pump(Here).kind # "enqueue"
    BY <1>2, TopType, FrameMake DEF DrainLaneEnter, Running, Pump
  <2>2. QED
    BY <1>2, <2>1, NestingReplace DEF DrainLaneEnter, Running, runVars, InnerUntouched
<1>3. CASE PumpStart
  <2> DEFINE e == Head(queue[Here])
  <2>1. /\ Here \in Lanes /\ queue[Here] # <<>> /\ e \in Entries
        /\ stack # <<>> /\ Head(stack).kind # "enqueue"
        /\ status' = [status EXCEPT ![e] = "running"]
        /\ IF e \in Eager THEN stack' = <<Body(Inner[e])>> \o stack ELSE stack' = stack
    BY <1>3, TopType, QueueHeadType DEF PumpStart, Running, HasRoom, Push
  <2>2. status[e] = "queued"
    <3>1. e \in Range(queue[Here])
      BY <2>1, RangeTail DEF TypeOK
    <3>2. QED
      BY <2>1, <3>1 DEF QueuedExactlyOnce
  <2> HIDE DEF e
  <2>3. InnerUntouched'
    <3> SUFFICES ASSUME NEW q \in Entries, Inner[q] # NoEntry,
                        status'[q] \in {"idle", "queued"}
                 PROVE  status'[Inner[q]] = "idle"
      BY DEF InnerUntouched
    <3>1. status[q] \in {"idle", "queued"}
      BY <2>1 DEF TypeOK
    <3>2. Inner[q] \in Entries /\ status[Inner[q]] = "idle"
      BY <3>1 DEF InnerUntouched
    <3>3. QED
      BY <2>1, <2>2, <3>2 DEF TypeOK
  <2>4. \A g \in Range(stack) : g.kind # "enqueue"
    BY <2>1, RangeTail DEF BodyOnTop, TypeOK
  <2>5. CASE e \in Eager
    <3>1. /\ Inner[e] \in Entries /\ Inner[e] # e /\ status[Inner[e]] = "idle"
          /\ Body(Inner[e]) \in Frame
      BY <2>2, <2>5, EagerInner, FrameMake DEF InnerUntouched
    <3>2. Head(stack') = Body(Inner[e]) /\ Tail(stack') = stack
      <4>1. stack \in Seq(Frame) /\ stack' = <<Body(Inner[e])>> \o stack
        BY <2>1, <2>5 DEF TypeOK
      <4>2. QED
        BY <3>1, <4>1, RangePush
    <3>3. status'[Inner[e]] = "idle" /\ status'[e] = "running"
      BY <2>1, <3>1 DEF TypeOK
    <3>4. BodyOnTop'
      BY <2>4, <3>2 DEF BodyOnTop
    <3>5. Head(stack').entry = Inner[e]
      BY <3>2 DEF Body
    <3>6. BodyFresh'
      BY <2>5, <3>3, <3>5 DEF BodyFresh
    <3>7. QED
      BY <2>3, <3>4, <3>6
  <2>6. CASE e \notin Eager
    <3>1. stack' = stack
      BY <2>1, <2>6
    <3>2. QED
      BY <2>1, <2>3, <3>1 DEF BodyOnTop, BodyFresh, Running
  <2>7. QED
    BY <2>5, <2>6
<1>4. CASE PumpExit
  BY <1>4, NestingPop DEF PumpExit, Running, Pop, runVars, InnerUntouched
<1>5. CASE InnerRefused
  <2> DEFINE e == Head(stack).entry
  <2>1. e \in Entries /\ status' = [status EXCEPT ![e] = "refused"]
        /\ stack # <<>> /\ stack' = Tail(stack)
    BY <1>5, TopType, FrameType DEF InnerRefused, Refuse, Running, Pop
  <2>2. status[e] = "idle" /\ \A p \in Entries : Inner[p] = e => status[p] = "running"
    BY <1>5, <2>1, OfferedByRunning DEF InnerRefused
  <2> HIDE DEF e
  <2>3. QED
    BY <2>1, <2>2, UntouchedAfterOffer, NestingPop
<1>6. CASE InnerAccepted
  <2> DEFINE e == Head(stack).entry
  <2>1. /\ e \in Entries /\ status' = [status EXCEPT ![e] = "queued"]
        /\ stack # <<>> /\ stack' = <<Call(Here)>> \o Tail(stack)
        /\ Call(Here) \in Frame /\ Call(Here).kind # "enqueue"
    BY <1>6, TopType, FrameType, FrameMake DEF InnerAccepted, Accept, Running, Call
  <2>2. status[e] = "idle" /\ \A p \in Entries : Inner[p] = e => status[p] = "running"
    BY <1>6, <2>1, OfferedByRunning DEF InnerAccepted
  <2> HIDE DEF e
  <2>3. QED
    BY <2>1, <2>2, UntouchedAfterOffer, NestingReplace
<1>7. ASSUME NEW l \in Lanes, DrainNext(l) PROVE InnerUntouched' /\ BodyOnTop' /\ BodyFresh'
  <2>1. Call(l) \in Frame /\ Call(l).kind # "enqueue"
    BY FrameMake DEF Call
  <2>2. QED
    BY <1>7, <2>1, NestingPush, EmptyStack DEF DrainNext, Push, runVars, InnerUntouched
<1>8. ASSUME NEW e \in Entries, EnqueueRefused(e)
      PROVE  InnerUntouched' /\ BodyOnTop' /\ BodyFresh'
  <2>1. status[e] = "idle" /\ \A p \in Entries : Inner[p] = e => status[p] = "running"
    BY <1>8, OfferedByRunning DEF EnqueueRefused
  <2>2. InnerUntouched'
    BY <1>8, <2>1, UntouchedAfterOffer DEF EnqueueRefused, Refuse
  <2>3. QED
    BY <1>8, <2>2 DEF EnqueueRefused, Quiet, BodyOnTop, BodyFresh, Running
<1>9. ASSUME NEW e \in Entries, EnqueueAccepted(e)
      PROVE  InnerUntouched' /\ BodyOnTop' /\ BodyFresh'
  <2>1. status[e] = "idle" /\ \A p \in Entries : Inner[p] = e => status[p] = "running"
    BY <1>9, OfferedByRunning DEF EnqueueAccepted
  <2>2. InnerUntouched'
    BY <1>9, <2>1, UntouchedAfterOffer DEF EnqueueAccepted, Accept
  <2>3. Call(LaneOf[e]) \in Frame /\ Call(LaneOf[e]).kind # "enqueue"
    BY FrameMake DEF Call
  <2>4. QED
    BY <1>9, <2>2, <2>3, NestingPush, EmptyStack DEF EnqueueAccepted, Push, Quiet
<1>10. ASSUME NEW e \in Entries, TaskEndsCurrent(e)
       PROVE  InnerUntouched' /\ BodyOnTop' /\ BodyFresh'
  <2>1. InnerUntouched'
    BY <1>10, UntouchedAfterEnd DEF TaskEndsCurrent, MayEnd
  <2>2. Pump(LaneOf[e]) \in Frame /\ Pump(LaneOf[e]).kind # "enqueue"
    BY FrameMake DEF Pump
  <2>3. QED
    BY <1>10, <2>1, <2>2, NestingPush, EmptyStack DEF TaskEndsCurrent, Push, Quiet
<1>11. ASSUME NEW e \in Entries, TaskEndsStale(e)
       PROVE  InnerUntouched' /\ BodyOnTop' /\ BodyFresh'
  <2>1. InnerUntouched'
    BY <1>11, UntouchedAfterEnd DEF TaskEndsStale, MayEnd
  <2>2. QED
    BY <1>11, <2>1 DEF TaskEndsStale, Quiet, BodyOnTop, BodyFresh, Running
<1>12. ASSUME NEW l \in Lanes, ClearCommandLane(l)
       PROVE  InnerUntouched' /\ BodyOnTop' /\ BodyFresh'
  <2>1. InnerUntouched'
    <3> SUFFICES ASSUME NEW q \in Entries, Inner[q] # NoEntry,
                        status'[q] \in {"idle", "queued"}
                 PROVE  status'[Inner[q]] = "idle"
      BY DEF InnerUntouched
    <3>1. status[q] \in {"idle", "queued"}
      BY <1>12 DEF ClearCommandLane, TypeOK
    <3>2. Inner[q] \in Entries /\ status[Inner[q]] = "idle"
      BY <3>1 DEF InnerUntouched
    <3>3. QED
      BY <1>12, <3>2 DEF ClearCommandLane
  <2>2. QED
    BY <1>12, <2>1 DEF ClearCommandLane, Quiet, BodyOnTop, BodyFresh, Running
<1>13. ASSUME NEW l \in Configured, NEW n \in Caps, SetCommandLaneConcurrency(l, n)
       PROVE  InnerUntouched' /\ BodyOnTop' /\ BodyFresh'
  <2>1. Call(l) \in Frame /\ Call(l).kind # "enqueue"
    BY FrameMake DEF Call
  <2>2. QED
    BY <1>13, <2>1, NestingPush, EmptyStack
       DEF SetCommandLaneConcurrency, Push, Quiet, runVars, InnerUntouched
<1>14. CASE MarkGatewayDraining
  BY <1>14 DEF MarkGatewayDraining, runVars, InnerUntouched, BodyOnTop, BodyFresh, Running
<1>15. CASE ResetAllLanes
  BY <1>15 DEF ResetAllLanes, runVars, InnerUntouched, BodyOnTop, BodyFresh, Running
<1>16. CASE UNCHANGED vars
  BY <1>16 DEF vars, runVars, InnerUntouched, BodyOnTop, BodyFresh, Running
<1>17. QED
  BY <1>1, <1>2, <1>3, <1>4, <1>5, <1>6, <1>7, <1>8, <1>9, <1>10, <1>11, <1>12,
     <1>13, <1>14, <1>15, <1>16 DEF Next, QueueStep, TaskEnds

---------------------------------------------------------------------------
(* Nothing queued is lost, duplicated or run twice.                        *)

LEMMA QueuedAfterOffer ==
  ASSUME TypeOK, QueuedExactlyOnce, NEW e \in Entries, status[e] = "idle",
         Accept(e)
  PROVE  QueuedExactlyOnce'
<1> DEFINE m == LaneOf[e]
<1>1. m \in Lanes
  BY CommandQueueAssumption
<1>2. /\ queue' = [queue EXCEPT ![m] = Append(@, e)]
      /\ status' = [status EXCEPT ![e] = "queued"]
  BY DEF Accept
<1>3. queue[m] \in Seq(Entries) /\ IsInjective(queue[m]) /\ e \notin Range(queue[m])
  BY <1>1 DEF TypeOK, QueuedExactlyOnce
<1>4. IsInjective(Append(queue[m], e)) /\ Range(Append(queue[m], e)) = Range(queue[m]) \cup {e}
  BY <1>3, InjectiveAppend, RangeAppend
<1> HIDE DEF m
<1>5. /\ queue'[m] = Append(queue[m], e)
      /\ \A l \in Lanes \ {m} : queue'[l] = queue[l]
  BY <1>1, <1>2 DEF TypeOK
<1>6. \A f \in Entries : status'[f] = IF f = e THEN "queued" ELSE status[f]
  BY <1>2 DEF TypeOK
<1>7. \A l \in Lanes : IsInjective(queue'[l])
  BY <1>4, <1>5 DEF QueuedExactlyOnce
<1>8. ASSUME NEW l \in Lanes, NEW f \in Entries
      PROVE  f \in Range(queue'[l]) <=> LaneOf[f] = l /\ status'[f] = "queued"
  <2>1. f \in Range(queue[l]) <=> LaneOf[f] = l /\ status[f] = "queued"
    BY DEF QueuedExactlyOnce
  <2>2. CASE l = m
    BY <1>4, <1>5, <1>6, <2>1, <2>2 DEF m
  <2>3. CASE l # m
    BY <1>5, <1>6, <2>1, <2>3 DEF m
  <2>4. QED
    BY <2>2, <2>3
<1>9. QED
  BY <1>7, <1>8 DEF QueuedExactlyOnce

LEMMA QueuedUntouched ==
  ASSUME TypeOK, QueuedExactlyOnce, queue' = queue,
         NEW e \in Entries, NEW o \in Status \ {"queued"},
         status[e] # "queued", status' = [status EXCEPT ![e] = o]
  PROVE  QueuedExactlyOnce'
BY DEF TypeOK, QueuedExactlyOnce

LEMMA QueuedStep == TypeOK /\ Nesting /\ QueuedExactlyOnce /\ [Next]_vars => QueuedExactlyOnce'
<1> SUFFICES ASSUME TypeOK, Nesting, QueuedExactlyOnce, [Next]_vars
             PROVE  QueuedExactlyOnce'
  OBVIOUS
<1> USE CommandQueueAssumption
<1>1. CASE UNCHANGED <<queue, status>>
  BY <1>1 DEF QueuedExactlyOnce
<1>2. CASE PumpStart
  <2> DEFINE l == Here
             e == Head(queue[l])
  <2>1. /\ l \in Lanes /\ queue[l] # <<>>
        /\ queue' = [queue EXCEPT ![l] = Tail(@)]
        /\ status' = [status EXCEPT ![e] = "running"]
    BY <1>2, TopType DEF PumpStart, Running, HasRoom
  <2>2. queue[l] \in Seq(Entries) /\ IsInjective(queue[l])
    BY <2>1 DEF TypeOK, QueuedExactlyOnce
  <2>3. /\ e \in Range(queue[l]) /\ Range(queue[l]) = Range(Tail(queue[l])) \cup {e}
        /\ IsInjective(Tail(queue[l])) /\ e \notin Range(Tail(queue[l]))
    BY <2>1, <2>2, RangeTail, InjectiveTail
  <2>4. e \in Entries
    BY <2>1, QueueHeadType
  <2> HIDE DEF l, e
  <2>5. LaneOf[e] = l
    BY <2>1, <2>3, <2>4 DEF QueuedExactlyOnce
  <2>6. /\ queue'[l] = Tail(queue[l])
        /\ \A m \in Lanes \ {l} : queue'[m] = queue[m]
    BY <2>1 DEF TypeOK
  <2>7. \A f \in Entries : status'[f] = IF f = e THEN "running" ELSE status[f]
    BY <2>1, <2>4 DEF TypeOK
  <2>8. \A m \in Lanes : IsInjective(queue'[m])
    BY <2>3, <2>6 DEF QueuedExactlyOnce
  <2>9. ASSUME NEW m \in Lanes, NEW f \in Entries
        PROVE  f \in Range(queue'[m]) <=> LaneOf[f] = m /\ status'[f] = "queued"
    <3>1. f \in Range(queue[m]) <=> LaneOf[f] = m /\ status[f] = "queued"
      BY DEF QueuedExactlyOnce
    <3>2. CASE m = l
      BY <2>3, <2>6, <2>7, <3>1, <3>2
    <3>3. CASE m # l
      BY <2>5, <2>6, <2>7, <3>1, <3>3
    <3>4. QED
      BY <3>2, <3>3
  <2>10. QED
    BY <2>8, <2>9 DEF QueuedExactlyOnce
<1>3. CASE InnerRefused
  <2> DEFINE e == Head(stack).entry
  <2>1. e \in Entries
    BY <1>3, TopType, FrameType DEF InnerRefused, Running
  <2>2. status[e] = "idle"
    BY <1>3, <2>1, OfferedByRunning DEF InnerRefused, Nesting
  <2>3. queue' = queue /\ status' = [status EXCEPT ![e] = "refused"]
    BY <1>3 DEF InnerRefused, Refuse
  <2> HIDE DEF e
  <2>4. QED
    BY <2>1, <2>2, <2>3, QueuedUntouched DEF Status, Settled
<1>4. CASE InnerAccepted
  <2>1. Head(stack).entry \in Entries
    BY <1>4, TopType, FrameType DEF InnerAccepted, Running
  <2>2. status[Head(stack).entry] = "idle"
    BY <1>4, <2>1, OfferedByRunning DEF InnerAccepted, Nesting
  <2>3. QED
    BY <1>4, <2>1, <2>2, QueuedAfterOffer DEF InnerAccepted
<1>5. ASSUME NEW e \in Entries, EnqueueRefused(e) PROVE QueuedExactlyOnce'
  BY <1>5, QueuedUntouched DEF EnqueueRefused, MayBeEnqueued, Refuse, Status, Settled
<1>6. ASSUME NEW e \in Entries, EnqueueAccepted(e) PROVE QueuedExactlyOnce'
  BY <1>6, QueuedAfterOffer DEF EnqueueAccepted, MayBeEnqueued
<1>7. ASSUME NEW e \in Entries, TaskEnds(e) PROVE QueuedExactlyOnce'
  BY <1>7, QueuedUntouched
     DEF TaskEnds, TaskEndsCurrent, TaskEndsStale, MayEnd, laneVars, Status, Settled
<1>8. ASSUME NEW l \in Lanes, ClearCommandLane(l) PROVE QueuedExactlyOnce'
  <2>1. /\ queue'[l] = <<>>
        /\ \A m \in Lanes \ {l} : queue'[m] = queue[m]
        /\ \A f \in Entries : status'[f] = IF status[f] = "queued" /\ LaneOf[f] = l
                                           THEN "cleared" ELSE status[f]
    BY <1>8 DEF ClearCommandLane, TypeOK
  <2>2. IsInjective(queue'[l]) /\ Range(queue'[l]) = {}
    BY <2>1 DEF IsInjective, Range
  <2>3. QED
    BY <2>1, <2>2 DEF QueuedExactlyOnce
<1>9. QED
  BY <1>1, <1>2, <1>3, <1>4, <1>5, <1>6, <1>7, <1>8
     DEF Next, QueueStep, DrainLaneBusy, DrainLaneEnter, PumpExit, DrainNext,
         SetCommandLaneConcurrency, MarkGatewayDraining, ResetAllLanes, vars, laneVars, runVars

---------------------------------------------------------------------------
(* Slots.                                                                  *)

LEMMA SlotsStep ==
  TypeOK /\ Nesting /\ QueuedExactlyOnce /\ GenerationBound /\ SlotsMatchRuns /\ [Next]_vars
    => GenerationBound' /\ SlotsMatchRuns'
<1> SUFFICES ASSUME TypeOK, Nesting, QueuedExactlyOnce, GenerationBound, SlotsMatchRuns,
                    [Next]_vars
             PROVE  GenerationBound' /\ SlotsMatchRuns'
  OBVIOUS
<1> USE CommandQueueAssumption
<1>1. CASE UNCHANGED <<active, status, startGen, generation>>
  BY <1>1 DEF GenerationBound, SlotsMatchRuns, RunsOf
<1>2. ASSUME NEW e \in Entries, NEW o \in Status \ {"running"}, status[e] # "running",
             status' = [status EXCEPT ![e] = o], UNCHANGED <<active, startGen, generation>>
      PROVE  GenerationBound' /\ SlotsMatchRuns'
  BY <1>2 DEF TypeOK, GenerationBound, SlotsMatchRuns, RunsOf
<1>3. CASE PumpStart
  <2> DEFINE l == Here
             e == Head(queue[l])
  <2>1. /\ l \in Lanes /\ queue[l] # <<>> /\ e \in Entries
        /\ active' = [active EXCEPT ![l] = @ \cup {e}]
        /\ startGen' = [startGen EXCEPT ![e] = generation]
        /\ status' = [status EXCEPT ![e] = "running"]
        /\ generation' = generation
    BY <1>3, TopType, QueueHeadType DEF PumpStart, Running, HasRoom
  <2>2. e \in Range(queue[l])
    BY <2>1, RangeTail DEF TypeOK
  <2> HIDE DEF l, e
  <2>3. LaneOf[e] = l
    BY <2>1, <2>2 DEF QueuedExactlyOnce
  <2>4. /\ \A f \in Entries \ {e} : status'[f] = status[f] /\ startGen'[f] = startGen[f]
        /\ status'[e] = "running" /\ startGen'[e] = generation
        /\ active'[l] = active[l] \cup {e}
        /\ \A m \in Lanes \ {l} : active'[m] = active[m]
    BY <2>1 DEF TypeOK
  <2>5. GenerationBound'
    BY <2>1, <2>4 DEF GenerationBound, TypeOK
  <2>6. ASSUME NEW m \in Lanes
        PROVE  active'[m] = {f \in Entries : LaneOf[f] = m /\ status'[f] = "running"
                                             /\ startGen'[f] = generation'}
    BY <2>1, <2>3, <2>4 DEF SlotsMatchRuns, RunsOf
  <2>7. QED
    BY <2>5, <2>6 DEF SlotsMatchRuns, RunsOf
<1>4. CASE InnerRefused
  <2>1. Head(stack).entry \in Entries
    BY <1>4, TopType, FrameType DEF InnerRefused, Running
  <2>2. status[Head(stack).entry] = "idle"
    BY <1>4, <2>1, OfferedByRunning DEF InnerRefused, Nesting
  <2>3. QED
    BY <1>2, <1>4, <2>1, <2>2 DEF InnerRefused, Refuse, Status, Settled
<1>5. CASE InnerAccepted
  <2>1. Head(stack).entry \in Entries
    BY <1>5, TopType, FrameType DEF InnerAccepted, Running
  <2>2. status[Head(stack).entry] = "idle"
    BY <1>5, <2>1, OfferedByRunning DEF InnerAccepted, Nesting
  <2>3. QED
    BY <1>2, <1>5, <2>1, <2>2 DEF InnerAccepted, Accept, Status
<1>6. ASSUME NEW e \in Entries, EnqueueRefused(e) PROVE GenerationBound' /\ SlotsMatchRuns'
  BY <1>2, <1>6 DEF EnqueueRefused, MayBeEnqueued, Refuse, Status, Settled
<1>7. ASSUME NEW e \in Entries, EnqueueAccepted(e) PROVE GenerationBound' /\ SlotsMatchRuns'
  BY <1>2, <1>7 DEF EnqueueAccepted, MayBeEnqueued, Accept, Status
<1>8. ASSUME NEW e \in Entries, TaskEndsCurrent(e) PROVE GenerationBound' /\ SlotsMatchRuns'
  <2>1. /\ status' = [status EXCEPT ![e] = "done"]
        /\ active' = [active EXCEPT ![LaneOf[e]] = @ \ {e}]
        /\ LaneOf[e] \in Lanes
        /\ UNCHANGED <<startGen, generation>>
    BY <1>8 DEF TaskEndsCurrent
  <2>2. /\ \A f \in Entries \ {e} : status'[f] = status[f]
        /\ status'[e] = "done"
        /\ active'[LaneOf[e]] = active[LaneOf[e]] \ {e}
        /\ \A m \in Lanes \ {LaneOf[e]} : active'[m] = active[m]
    BY <2>1 DEF TypeOK
  <2>3. QED
    BY <2>1, <2>2 DEF GenerationBound, SlotsMatchRuns, RunsOf
<1>9. ASSUME NEW e \in Entries, TaskEndsStale(e) PROVE GenerationBound' /\ SlotsMatchRuns'
  <2>1. /\ status' = [status EXCEPT ![e] = "done"] /\ startGen[e] # generation
        /\ UNCHANGED <<active, startGen, generation>>
    BY <1>9 DEF TaskEndsStale, laneVars
  <2>2. \A f \in Entries \ {e} : status'[f] = status[f]
    BY <2>1 DEF TypeOK
  <2>3. status'[e] = "done"
    BY <2>1 DEF TypeOK
  <2>4. QED
    BY <2>1, <2>2, <2>3 DEF GenerationBound, SlotsMatchRuns, RunsOf
<1>10. ASSUME NEW l \in Lanes, ClearCommandLane(l) PROVE GenerationBound' /\ SlotsMatchRuns'
  <2>1. /\ \A f \in Entries : status'[f] = "running" <=> status[f] = "running"
        /\ UNCHANGED <<active, startGen, generation>>
    BY <1>10 DEF ClearCommandLane
  <2>2. QED
    BY <2>1 DEF GenerationBound, SlotsMatchRuns, RunsOf
<1>11. CASE ResetAllLanes
  <2>1. /\ generation' = generation + 1 /\ generation \in Nat
        /\ \A m \in Lanes : active'[m] = {}
        /\ UNCHANGED <<status, startGen>>
        /\ \A f \in Entries : startGen[f] \in Nat
    BY <1>11 DEF ResetAllLanes, runVars, TypeOK
  <2>2. \A f \in Entries : startGen[f] < generation'
    BY <2>1 DEF GenerationBound
  <2>3. QED
    BY <2>1, <2>2 DEF GenerationBound, SlotsMatchRuns, RunsOf
<1>12. QED
  BY <1>1, <1>3, <1>4, <1>5, <1>6, <1>7, <1>8, <1>9, <1>10, <1>11
     DEF Next, QueueStep, TaskEnds, DrainLaneBusy, DrainLaneEnter, PumpExit, DrainNext,
         SetCommandLaneConcurrency, MarkGatewayDraining, vars, laneVars, runVars

---------------------------------------------------------------------------
(* Wake-ups.                                                               *)

LEMMA FramesDiffer ==
  \A l, m : /\ Call(l) # Pump(m)
            /\ Call(l).kind = "drainLane" /\ Pump(l).kind = "pump"
            /\ Pump(l) = Pump(m) => l = m
            /\ Call(l) = Call(m) => l = m
BY DEF Call, Pump

\* Pushing a call, or adding lanes to drain, wakes at least as many lanes.
LEMMA PumpAfterPush ==
  ASSUME TypeOK, PumpPending, DrainingPumped, NEW f \in Frame, stack' = <<f>> \o stack,
         toDrain' = toDrain, draining' = draining,
         \A l \in Lanes : HasRoom(l)' => HasRoom(l) \/ f = Call(l) \/ f = Pump(l)
  PROVE  PumpPending' /\ DrainingPumped'
<1>1. Range(stack') = Range(stack) \cup {f}
  BY RangePush DEF TypeOK
<1>2. QED
  BY <1>1 DEF PumpPending, DrainingPumped

\* A step that ends a call leaves its lane without room or with another call
\* on the stack, and disturbs the wake-up of no other lane.
LEMMA PumpStep == TypeOK /\ Nesting /\ PumpPending /\ DrainingPumped /\ [Next]_vars
                    => PumpPending' /\ DrainingPumped'
<1> SUFFICES ASSUME TypeOK, Nesting, PumpPending, DrainingPumped, [Next]_vars
             PROVE  PumpPending' /\ DrainingPumped'
  OBVIOUS
<1> USE CommandQueueAssumption
<1>a. stack # <<>> =>
        /\ Head(stack) \in Frame /\ Here \in Lanes
        /\ Range(stack) = Range(Tail(stack)) \cup {Head(stack)}
        /\ Head(stack).kind = "drainLane" => Head(stack) = Call(Here)
        /\ Head(stack).kind = "pump" => Head(stack) = Pump(Here)
        /\ Head(stack).kind = "enqueue" =>
             Head(stack).entry \in Entries /\ Here = LaneOf[Head(stack).entry]
             /\ \A l \in Lanes : Head(stack) # Call(l) /\ Head(stack) # Pump(l)
  BY TopType, FrameType, RangeTail DEF TypeOK, Here, Call, Pump
<1>b. UNCHANGED <<queue, active, maxConcurrent>> => \A l \in Lanes : HasRoom(l)' <=> HasRoom(l)
  BY DEF HasRoom
<1>1. CASE DrainLaneBusy
  <2>1. /\ Head(stack) = Call(Here) /\ Here \in Lanes /\ draining[Here]
        /\ stack' = Tail(stack) /\ Range(stack) = Range(stack') \cup {Call(Here)}
        /\ UNCHANGED <<toDrain, draining>> /\ \A l \in Lanes : HasRoom(l)' <=> HasRoom(l)
    BY <1>1, <1>a, <1>b DEF DrainLaneBusy, Running, Pop, laneVars
  <2>2. \A l \in Lanes : Pump(l) \in Range(stack) => Pump(l) \in Range(stack')
    BY <2>1, FramesDiffer
  <2>3. \A l \in Lanes \ {Here} : Call(l) \in Range(stack) => Call(l) \in Range(stack')
    BY <2>1, FramesDiffer
  <2>4. Pump(Here) \in Range(stack')
    BY <2>1, <2>2 DEF DrainingPumped
  <2>5. QED
    BY <2>1, <2>2, <2>3, <2>4 DEF PumpPending, DrainingPumped
<1>2. CASE DrainLaneEnter
  <2>1. /\ Head(stack) = Call(Here) /\ Here \in Lanes
        /\ Range(stack) = Range(Tail(stack)) \cup {Call(Here)}
        /\ draining' = [draining EXCEPT ![Here] = TRUE]
        /\ toDrain' = toDrain /\ \A l \in Lanes : HasRoom(l)' <=> HasRoom(l)
        /\ stack' = <<Pump(Here)>> \o Tail(stack)
    BY <1>2, <1>a, <1>b DEF DrainLaneEnter, Running
  <2>2. Range(stack') = Range(Tail(stack)) \cup {Pump(Here)}
    <3>1. Tail(stack) \in Seq(Frame) /\ Pump(Here) \in Frame
      BY <1>2, TopType, FrameMake DEF DrainLaneEnter, Running
    <3>2. Range(<<Pump(Here)>> \o Tail(stack)) = Range(Tail(stack)) \cup {Pump(Here)}
      BY <3>1, RangePush
    <3>3. QED
      BY <2>1, <3>2
  <2>3. \A l \in Lanes : Pump(l) \in Range(stack) => Pump(l) \in Range(stack')
    BY <2>1, <2>2, FramesDiffer
  <2>4. \A l \in Lanes \ {Here} : Call(l) \in Range(stack) => Call(l) \in Range(stack')
    BY <2>1, <2>2, FramesDiffer
  <2>5. Pump(Here) \in Range(stack') /\ \A l \in Lanes \ {Here} : draining'[l] = draining[l]
    BY <2>1, <2>2 DEF TypeOK
  <2>6. QED
    BY <2>1, <2>3, <2>4, <2>5 DEF PumpPending, DrainingPumped
<1>3. CASE PumpStart
  <2> DEFINE e == Head(queue[Here])
  <2>1. /\ Head(stack) = Pump(Here) /\ Here \in Lanes /\ e \in Entries
        /\ queue' = [queue EXCEPT ![Here] = Tail(@)]
        /\ active' = [active EXCEPT ![Here] = @ \cup {e}]
        /\ UNCHANGED <<maxConcurrent, draining, toDrain>>
        /\ Pump(Here) \in Range(stack)
        /\ IF e \in Eager THEN stack' = <<Body(Inner[e])>> \o stack ELSE stack' = stack
    BY <1>3, <1>a, QueueHeadType DEF PumpStart, Running, HasRoom, Push
  <2> HIDE DEF e
  <2>2. Range(stack) \subseteq Range(stack')
    <3>1. CASE e \in Eager
      <4>1. stack \in Seq(Frame) /\ Body(Inner[e]) \in Frame
        BY <3>1, EagerInner, FrameMake DEF TypeOK
      <4>2. QED
        BY <2>1, <3>1, <4>1, RangePush
    <3>2. CASE e \notin Eager
      BY <2>1, <3>2
    <3>3. QED
      BY <3>1, <3>2
  <2>3. \A l \in Lanes \ {Here} : HasRoom(l)' <=> HasRoom(l)
    BY <2>1 DEF HasRoom, TypeOK
  <2>4. QED
    BY <2>1, <2>2, <2>3 DEF PumpPending, DrainingPumped
<1>4. CASE PumpExit
  <2>1. /\ Head(stack) = Pump(Here) /\ Here \in Lanes /\ ~HasRoom(Here)
        /\ stack' = Tail(stack) /\ Range(stack) = Range(stack') \cup {Pump(Here)}
        /\ draining' = [draining EXCEPT ![Here] = FALSE]
        /\ toDrain' = toDrain /\ \A l \in Lanes : HasRoom(l)' <=> HasRoom(l)
    BY <1>4, <1>a, <1>b DEF PumpExit, Running, Pop
  <2>2. \A l \in Lanes : Call(l) \in Range(stack) => Call(l) \in Range(stack')
    BY <2>1, FramesDiffer
  <2>3. \A l \in Lanes \ {Here} : Pump(l) \in Range(stack) => Pump(l) \in Range(stack')
    BY <2>1, FramesDiffer
  <2>4. \A l \in Lanes : draining'[l] => l # Here /\ draining[l]
    BY <2>1 DEF TypeOK
  <2>5. QED
    BY <2>1, <2>2, <2>3, <2>4 DEF PumpPending, DrainingPumped
<1>5. CASE InnerRefused
  <2>1. /\ stack' = Tail(stack) /\ Range(stack) = Range(stack') \cup {Head(stack)}
        /\ \A l \in Lanes : Head(stack) # Call(l) /\ Head(stack) # Pump(l)
        /\ UNCHANGED <<toDrain, draining>> /\ \A l \in Lanes : HasRoom(l)' <=> HasRoom(l)
    BY <1>5, <1>a, <1>b DEF InnerRefused, Refuse, Running, Pop
  <2>2. QED
    BY <2>1 DEF PumpPending, DrainingPumped
<1>6. CASE InnerAccepted
  <2> DEFINE e == Head(stack).entry
  <2>1. /\ stack' = <<Call(Here)>> \o Tail(stack) /\ Here \in Lanes
        /\ Range(stack) = Range(Tail(stack)) \cup {Head(stack)}
        /\ \A l \in Lanes : Head(stack) # Call(l) /\ Head(stack) # Pump(l)
        /\ UNCHANGED <<toDrain, draining, active, maxConcurrent>>
        /\ queue' = [queue EXCEPT ![Here] = Append(@, e)]
    BY <1>6, <1>a DEF InnerAccepted, Accept, Running
  <2>2. Range(stack') = Range(Tail(stack)) \cup {Call(Here)}
    <3>1. Tail(stack) \in Seq(Frame) /\ Call(Here) \in Frame
      BY <1>6, TopType, FrameMake DEF InnerAccepted, Running
    <3>2. Range(<<Call(Here)>> \o Tail(stack)) = Range(Tail(stack)) \cup {Call(Here)}
      BY <3>1, RangePush
    <3>3. QED
      BY <2>1, <3>2
  <2>3. \A l \in Lanes \ {Here} : HasRoom(l)' <=> HasRoom(l)
    BY <2>1 DEF HasRoom, TypeOK
  <2>4. \A f \in Range(stack) : f # Head(stack) => f \in Range(stack')
    BY <2>1, <2>2
  <2>5. \A l \in Lanes : (Call(l) \in Range(stack) => Call(l) \in Range(stack'))
                         /\ (Pump(l) \in Range(stack) => Pump(l) \in Range(stack'))
    BY <2>1, <2>4
  <2>6. Call(Here) \in Range(stack')
    BY <2>2
  <2> HIDE DEF e
  <2>7. QED
    BY <2>1, <2>3, <2>5, <2>6 DEF PumpPending, DrainingPumped
<1>7. ASSUME NEW l \in Lanes, DrainNext(l) PROVE PumpPending' /\ DrainingPumped'
  <2>1. Range(stack') = Range(stack) \cup {Call(l)}
    BY <1>7, FrameMake, RangePush DEF DrainNext, Push, TypeOK
  <2>2. /\ toDrain' = toDrain \ {l} /\ UNCHANGED draining
        /\ \A m \in Lanes : HasRoom(m)' <=> HasRoom(m)
    BY <1>7, <1>b DEF DrainNext, laneVars
  <2>3. QED
    BY <2>1, <2>2 DEF PumpPending, DrainingPumped
<1>8. ASSUME NEW e \in Entries, EnqueueRefused(e) PROVE PumpPending' /\ DrainingPumped'
  BY <1>8, <1>b DEF EnqueueRefused, Refuse, PumpPending, DrainingPumped
<1>9. ASSUME NEW e \in Entries, EnqueueAccepted(e) PROVE PumpPending' /\ DrainingPumped'
  <2>1. /\ queue' = [queue EXCEPT ![LaneOf[e]] = Append(@, e)]
        /\ UNCHANGED <<active, maxConcurrent, draining, toDrain>>
        /\ stack' = <<Call(LaneOf[e])>> \o stack /\ LaneOf[e] \in Lanes
    BY <1>9 DEF EnqueueAccepted, Accept, Push
  <2>2. \A l \in Lanes \ {LaneOf[e]} : HasRoom(l)' <=> HasRoom(l)
    BY <2>1 DEF HasRoom, TypeOK
  <2>3. Call(LaneOf[e]) \in Frame
    BY <2>1, FrameMake
  <2>4. QED
    BY <2>1, <2>2, <2>3, PumpAfterPush
<1>10. ASSUME NEW e \in Entries, TaskEndsCurrent(e) PROVE PumpPending' /\ DrainingPumped'
  <2>1. /\ active' = [active EXCEPT ![LaneOf[e]] = @ \ {e}]
        /\ UNCHANGED <<queue, maxConcurrent, draining, toDrain>>
        /\ stack' = <<Pump(LaneOf[e])>> \o stack /\ LaneOf[e] \in Lanes
    BY <1>10 DEF TaskEndsCurrent, Push
  <2>2. \A l \in Lanes \ {LaneOf[e]} : HasRoom(l)' <=> HasRoom(l)
    BY <2>1 DEF HasRoom, TypeOK
  <2>3. Pump(LaneOf[e]) \in Frame
    BY <2>1, FrameMake
  <2>4. QED
    BY <2>1, <2>2, <2>3, PumpAfterPush
<1>11. ASSUME NEW e \in Entries, TaskEndsStale(e) PROVE PumpPending' /\ DrainingPumped'
  BY <1>11, <1>b DEF TaskEndsStale, laneVars, PumpPending, DrainingPumped
<1>12. ASSUME NEW l \in Lanes, ClearCommandLane(l) PROVE PumpPending' /\ DrainingPumped'
  <2>1. /\ queue' = [queue EXCEPT ![l] = <<>>]
        /\ UNCHANGED <<active, maxConcurrent, draining, toDrain, stack>>
    BY <1>12 DEF ClearCommandLane
  <2>2. \A m \in Lanes : HasRoom(m)' => HasRoom(m)
    BY <2>1 DEF HasRoom, TypeOK
  <2>3. QED
    BY <2>1, <2>2 DEF PumpPending, DrainingPumped
<1>13. ASSUME NEW l \in Configured, NEW n \in Caps, SetCommandLaneConcurrency(l, n)
       PROVE  PumpPending' /\ DrainingPumped'
  <2>1. /\ maxConcurrent' = [maxConcurrent EXCEPT ![l] = CapFor(n)]
        /\ UNCHANGED <<queue, active, draining, toDrain>>
        /\ stack' = <<Call(l)>> \o stack /\ l \in Lanes
    BY <1>13 DEF SetCommandLaneConcurrency, Push
  <2>2. \A m \in Lanes \ {l} : HasRoom(m)' <=> HasRoom(m)
    BY <2>1 DEF HasRoom, TypeOK
  <2>3. Call(l) \in Frame
    BY <2>1, FrameMake
  <2>4. QED
    BY <2>1, <2>2, <2>3, PumpAfterPush
<1>14. CASE MarkGatewayDraining
  BY <1>14, <1>b DEF MarkGatewayDraining, PumpPending, DrainingPumped
<1>15. CASE ResetAllLanes
  <2>1. /\ toDrain' = {l \in Lanes : queue[l] # <<>>} /\ queue' = queue
        /\ \A l \in Lanes : ~draining'[l]
    BY <1>15 DEF ResetAllLanes
  <2>2. QED
    BY <2>1 DEF PumpPending, DrainingPumped, HasRoom
<1>16. CASE UNCHANGED vars
  BY <1>16, <1>b DEF vars, laneVars, PumpPending, DrainingPumped
<1>17. QED
  BY <1>1, <1>2, <1>3, <1>4, <1>5, <1>6, <1>7, <1>8, <1>9, <1>10, <1>11, <1>12,
     <1>13, <1>14, <1>15, <1>16 DEF Next, QueueStep, TaskEnds

---------------------------------------------------------------------------
(* What compositions of the queue rest on.                                 *)

\* Offering or ending an entry, or starting one that was queued, changes the
\* state of one entry; these are the changes InnerAwaited survives.
LEMMA AwaitedAfter ==
  ASSUME TypeOK, InnerAwaited, NEW e \in Entries, NEW o \in Status,
         status' = [status EXCEPT ![e] = o],
         o \in {"queued", "running"} =>
           status[e] = "queued" \/ \A p \in Entries : Inner[p] = e => status[p] = "running",
         status[e] = "running" /\ o # "running" /\ Inner[e] # NoEntry =>
           status[Inner[e]] \notin {"queued", "running"}
  PROVE  InnerAwaited'
<1> SUFFICES ASSUME NEW q \in Entries, Inner[q] # NoEntry,
                    status'[Inner[q]] \in {"queued", "running"}
             PROVE  status'[q] = "running"
  BY DEF InnerAwaited
<1>1. Inner[q] \in Entries /\ Inner[q] # q
  BY CommandQueueAssumption
<1>2. /\ \A f \in Entries \ {e} : status'[f] = status[f]
      /\ status'[e] = o
  BY DEF TypeOK
<1>3. CASE Inner[q] = e
  BY <1>1, <1>2, <1>3 DEF InnerAwaited
<1>4. CASE Inner[q] # e
  BY <1>1, <1>2, <1>4 DEF InnerAwaited
<1>5. QED
  BY <1>3, <1>4

LEMMA AwaitedStep ==
  TypeOK /\ Nesting /\ QueuedExactlyOnce /\ InnerAwaited /\ [Next]_vars => InnerAwaited'
<1> SUFFICES ASSUME TypeOK, Nesting, QueuedExactlyOnce, InnerAwaited, [Next]_vars
             PROVE  InnerAwaited'
  OBVIOUS
<1> USE CommandQueueAssumption
<1>1. CASE UNCHANGED status
  BY <1>1 DEF InnerAwaited
<1>2. CASE PumpStart
  <2> DEFINE e == Head(queue[Here])
  <2>1. /\ Here \in Lanes /\ queue[Here] # <<>> /\ e \in Entries
        /\ status' = [status EXCEPT ![e] = "running"]
    BY <1>2, TopType, QueueHeadType DEF PumpStart, Running, HasRoom
  <2>2. e \in Range(queue[Here])
    BY <2>1, RangeTail DEF TypeOK
  <2>3. status[e] = "queued"
    BY <2>1, <2>2 DEF QueuedExactlyOnce
  <2> HIDE DEF e
  <2>4. QED
    BY <2>1, <2>3, AwaitedAfter DEF Status
<1>3. CASE InnerRefused \/ InnerAccepted
  <2> DEFINE e == Head(stack).entry
  <2>1. e \in Entries
    BY <1>3, TopType, FrameType DEF InnerRefused, InnerAccepted, Running
  <2>2. status[e] = "idle" /\ \A p \in Entries : Inner[p] = e => status[p] = "running"
    BY <1>3, <2>1, OfferedByRunning DEF InnerRefused, InnerAccepted, Nesting
  <2>3. \E o \in {"queued", "refused"} : status' = [status EXCEPT ![e] = o]
    BY <1>3 DEF InnerRefused, InnerAccepted, Refuse, Accept
  <2> HIDE DEF e
  <2>4. QED
    BY <2>1, <2>2, <2>3, AwaitedAfter DEF Status, Settled
<1>4. ASSUME NEW e \in Entries, EnqueueRefused(e) \/ EnqueueAccepted(e) PROVE InnerAwaited'
  <2>1. status[e] = "idle" /\ \A p \in Entries : Inner[p] = e => status[p] = "running"
    BY <1>4 DEF EnqueueRefused, EnqueueAccepted, MayBeEnqueued
  <2>2. \E o \in {"queued", "refused"} : status' = [status EXCEPT ![e] = o]
    BY <1>4 DEF EnqueueRefused, EnqueueAccepted, Refuse, Accept
  <2>3. QED
    BY <2>1, <2>2, AwaitedAfter DEF Status, Settled
<1>5. ASSUME NEW e \in Entries, TaskEnds(e) PROVE InnerAwaited'
  <2>1. MayEnd(e) /\ status' = [status EXCEPT ![e] = "done"]
    BY <1>5 DEF TaskEnds, TaskEndsCurrent, TaskEndsStale
  <2>2. Inner[e] # NoEntry => status[Inner[e]] \notin {"queued", "running"}
    BY <2>1 DEF MayEnd, Settled
  <2>3. QED
    BY <2>1, <2>2, AwaitedAfter DEF Status, Settled
<1>6. ASSUME NEW l \in Lanes, ClearCommandLane(l) PROVE InnerAwaited'
  <2>1. \A f \in Entries : status'[f] = status[f] \/ (status[f] = "queued" /\ status'[f] = "cleared")
    BY <1>6 DEF ClearCommandLane
  <2> SUFFICES ASSUME NEW q \in Entries, Inner[q] # NoEntry,
                      status'[Inner[q]] \in {"queued", "running"}
               PROVE  status'[q] = "running"
    BY DEF InnerAwaited
  <2>2. Inner[q] \in Entries
    OBVIOUS
  <2>3. status[Inner[q]] \in {"queued", "running"}
    BY <2>1, <2>2
  <2>4. QED
    BY <2>1, <2>3 DEF InnerAwaited
<1>7. QED
  BY <1>1, <1>2, <1>3, <1>4, <1>5, <1>6
     DEF Next, QueueStep, DrainLaneBusy, DrainLaneEnter, PumpExit, DrainNext,
         SetCommandLaneConcurrency, MarkGatewayDraining, ResetAllLanes, vars, laneVars, runVars

\* A step that starts nothing and leaves the caps of the other lanes alone.
LEMMA SerialUntouched ==
  ASSUME TypeOK, SerialLanes, startGen' = startGen,
         \A l \in Lanes \ Configured : maxConcurrent'[l] = maxConcurrent[l],
         \A e \in Entries : status'[e] = "running" => status[e] = "running"
  PROVE  SerialLanes'
BY DEF SerialLanes

LEMMA SerialStep ==
  TypeOK /\ QueuedExactlyOnce /\ SlotsMatchRuns /\ SerialLanes /\ [Next]_vars => SerialLanes'
<1> SUFFICES ASSUME TypeOK, QueuedExactlyOnce, SlotsMatchRuns, SerialLanes, [Next]_vars
             PROVE  SerialLanes'
  OBVIOUS
<1> USE CommandQueueAssumption
<1>1. CASE PumpStart
  <2> DEFINE h == Here
             e == Head(queue[h])
  <2>1. /\ h \in Lanes /\ queue[h] # <<>> /\ HasRoom(h) /\ e \in Entries
        /\ startGen' = [startGen EXCEPT ![e] = generation]
        /\ status' = [status EXCEPT ![e] = "running"]
        /\ UNCHANGED <<maxConcurrent, generation>>
    BY <1>1, TopType, QueueHeadType DEF PumpStart, Running, HasRoom
  <2>2. e \in Range(queue[h])
    BY <2>1, RangeTail DEF TypeOK
  <2> HIDE DEF h, e
  <2>3. LaneOf[e] = h
    BY <2>1, <2>2 DEF QueuedExactlyOnce
  <2>4. \A f \in Entries \ {e} : status'[f] = status[f] /\ startGen'[f] = startGen[f]
    BY <2>1 DEF TypeOK
  <2>5. startGen'[e] = generation
    BY <2>1 DEF TypeOK
  <2>6. ASSUME h \notin Configured
        PROVE  \A f \in Entries : ~(LaneOf[f] = h /\ status[f] = "running" /\ startGen[f] = generation)
    <3>1. IsFiniteSet(active[h]) /\ maxConcurrent[h] = 1 /\ Cardinality(active[h]) < 1
      BY <2>1, <2>6, FS_Subset DEF TypeOK, SerialLanes, HasRoom
    <3>2. Cardinality(active[h]) = 0
      BY <3>1, FS_CardinalityType
    <3>3. active[h] = {}
      BY <3>1, <3>2, FS_EmptySet
    <3>4. QED
      BY <2>1, <3>3 DEF SlotsMatchRuns, RunsOf
  <2>7. ASSUME NEW l \in Lanes \ Configured PROVE maxConcurrent'[l] = 1
    BY <2>1 DEF SerialLanes
  <2>8. ASSUME NEW l \in Lanes \ Configured, NEW f \in Entries, NEW g \in Entries,
               LaneOf[f] = l, status'[f] = "running", LaneOf[g] = l, status'[g] = "running",
               startGen'[f] = startGen'[g]
        PROVE  f = g
    <3>1. CASE f = e /\ g # e
      BY <2>3, <2>4, <2>5, <2>6, <2>8, <3>1
    <3>2. CASE g = e /\ f # e
      BY <2>3, <2>4, <2>5, <2>6, <2>8, <3>2
    <3>3. CASE f # e /\ g # e
      BY <2>4, <2>8, <3>3 DEF SerialLanes
    <3>4. QED
      BY <3>1, <3>2, <3>3
  <2>9. QED
    BY <2>7, <2>8 DEF SerialLanes
<1>2. CASE UNCHANGED <<status, startGen>> /\ ~PumpStart
  <2>1. \A l \in Lanes \ Configured : maxConcurrent'[l] = maxConcurrent[l]
    <3>1. CASE maxConcurrent' = maxConcurrent
      BY <3>1
    <3>2. ASSUME NEW l \in Configured, NEW n \in Caps, SetCommandLaneConcurrency(l, n)
          PROVE  \A k \in Lanes \ Configured : maxConcurrent'[k] = maxConcurrent[k]
      BY <3>2 DEF SetCommandLaneConcurrency, TypeOK
    <3>3. QED
      BY <1>2, <3>1, <3>2
         DEF Next, QueueStep, DrainLaneBusy, DrainLaneEnter, PumpExit, InnerRefused,
             InnerAccepted, Refuse, Accept, DrainNext, EnqueueRefused, EnqueueAccepted,
             TaskEnds, TaskEndsCurrent, TaskEndsStale, ClearCommandLane,
             MarkGatewayDraining, ResetAllLanes, vars, laneVars
  <2>2. QED
    BY <1>2, <2>1, SerialUntouched
<1>3. ASSUME NEW e, NEW o \in Status \ {"running"}, status' = [status EXCEPT ![e] = o],
             UNCHANGED <<startGen, maxConcurrent>>
      PROVE  SerialLanes'
  <2>1. \A f \in Entries : status'[f] = "running" => status[f] = "running"
    BY <1>3 DEF TypeOK
  <2>2. QED
    BY <1>3, <2>1, SerialUntouched
<1>4. CASE InnerRefused \/ InnerAccepted
  BY <1>3, <1>4 DEF InnerRefused, InnerAccepted, Refuse, Accept, Status, Settled
<1>5. ASSUME NEW e \in Entries, EnqueueRefused(e) \/ EnqueueAccepted(e) PROVE SerialLanes'
  BY <1>3, <1>5 DEF EnqueueRefused, EnqueueAccepted, Refuse, Accept, Status, Settled
<1>6. ASSUME NEW e \in Entries, TaskEnds(e) PROVE SerialLanes'
  BY <1>3, <1>6 DEF TaskEnds, TaskEndsCurrent, TaskEndsStale, laneVars, Status, Settled
<1>7. ASSUME NEW l \in Lanes, ClearCommandLane(l) PROVE SerialLanes'
  BY <1>7, SerialUntouched DEF ClearCommandLane
<1>8. QED
  BY <1>1, <1>2, <1>4, <1>5, <1>6, <1>7
     DEF Next, QueueStep, DrainLaneBusy, DrainLaneEnter, PumpExit, DrainNext,
         SetCommandLaneConcurrency, MarkGatewayDraining, ResetAllLanes, vars, laneVars, runVars

\* While the gateway drains, nothing is accepted, and only queued work starts.
LEMMA ClosedQueue ==
  ASSUME TypeOK, QueuedExactlyOnce, gatewayDraining, [Next]_vars, NEW e \in Entries
  PROVE  /\ status'[e] \in {"queued", "running"} => status[e] \in {"queued", "running"}
         /\ startGen'[e] # startGen[e] => status[e] = "queued"
<1>1. CASE PumpStart
  <2> DEFINE f == Head(queue[Here])
  <2>1. /\ Here \in Lanes /\ queue[Here] # <<>> /\ f \in Entries
        /\ startGen' = [startGen EXCEPT ![f] = generation]
        /\ status' = [status EXCEPT ![f] = "running"]
    BY <1>1, TopType, QueueHeadType DEF PumpStart, Running, HasRoom
  <2>2. f \in Range(queue[Here])
    BY <2>1, RangeTail DEF TypeOK
  <2>3. status[f] = "queued"
    BY <2>1, <2>2 DEF QueuedExactlyOnce
  <2> HIDE DEF f
  <2>4. QED
    BY <2>1, <2>3 DEF TypeOK
<1>2. CASE UNCHANGED <<status, startGen>>
  BY <1>2
<1>3. ASSUME NEW f, NEW o \in Status \ {"queued", "running"},
             status' = [status EXCEPT ![f] = o], startGen' = startGen
      PROVE  /\ status'[e] \in {"queued", "running"} => status[e] \in {"queued", "running"}
             /\ startGen'[e] # startGen[e] => status[e] = "queued"
  BY <1>3 DEF TypeOK
<1>4. ASSUME NEW f \in Entries, EnqueueRefused(f) \/ TaskEnds(f)
      PROVE  /\ status'[e] \in {"queued", "running"} => status[e] \in {"queued", "running"}
             /\ startGen'[e] # startGen[e] => status[e] = "queued"
  BY <1>3, <1>4 DEF EnqueueRefused, Refuse, TaskEnds, TaskEndsCurrent, TaskEndsStale,
                    Status, Settled
<1>5. CASE InnerRefused
  BY <1>3, <1>5 DEF InnerRefused, Refuse, Status, Settled
<1>6. ASSUME NEW l \in Lanes, ClearCommandLane(l)
      PROVE  /\ status'[e] \in {"queued", "running"} => status[e] \in {"queued", "running"}
             /\ startGen'[e] # startGen[e] => status[e] = "queued"
  BY <1>6 DEF ClearCommandLane
<1>7. QED
  BY <1>1, <1>2, <1>4, <1>5, <1>6
     DEF Next, QueueStep, DrainLaneBusy, DrainLaneEnter, PumpExit, InnerAccepted,
         EnqueueAccepted, Accept, DrainNext, SetCommandLaneConcurrency,
         MarkGatewayDraining, ResetAllLanes, vars, laneVars, runVars

---------------------------------------------------------------------------
(* The invariant and what follows from it.                                 *)

LEMMA InvInit == Init => Inv
<1> SUFFICES ASSUME Init PROVE Inv
  OBVIOUS
<1>1. TypeOK
  BY TypeInit
<1>2. Nesting
  BY CommandQueueAssumption DEF Init, Nesting, InnerUntouched, BodyOnTop, BodyFresh, Running
<1>3. QueuedExactlyOnce
  BY DEF Init, QueuedExactlyOnce, IsInjective, Range
<1>4. GenerationBound /\ SlotsMatchRuns
  BY DEF Init, GenerationBound, SlotsMatchRuns, RunsOf
<1>5. PumpPending /\ DrainingPumped
  BY DEF Init, PumpPending, DrainingPumped, HasRoom
<1>6. InnerAwaited
  BY CommandQueueAssumption DEF Init, InnerAwaited
<1>7. SerialLanes
  BY DEF Init, SerialLanes
<1>8. QED
  BY <1>1, <1>2, <1>3, <1>4, <1>5, <1>6, <1>7 DEF Inv

LEMMA InvStep == Inv /\ [Next]_vars => Inv'
BY TypeStep, NestingStep, QueuedStep, SlotsStep, PumpStep, AwaitedStep, SerialStep DEF Inv

\* The inductive invariant of the command queue.
THEOREM Invariance == Spec => []Inv
BY InvInit, InvStep, PTL DEF Spec

\* No order of enqueues, starts, clears and restarts loses a queued entry,
\* queues it twice, or leaves it queued once it has been started.
THEOREM QueuedExactlyOnceHolds == Spec => []QueuedExactlyOnce
<1>1. Inv => QueuedExactlyOnce
  BY DEF Inv
<1>2. QED
  BY <1>1, Invariance, PTL

\* The slots a lane counts are the running tasks of the current generation.
THEOREM SlotsMatchRunsHolds == Spec => []SlotsMatchRuns
<1>1. Inv => SlotsMatchRuns
  BY DEF Inv
<1>2. QED
  BY <1>1, Invariance, PTL

\* No wake-up is lost: between callbacks no lane has both work and room.
THEOREM NoStrandedWorkHolds == Spec => []NoStrandedWork
<1>1. Inv => NoStrandedWork
  BY DEF Inv, NoStrandedWork, PumpPending, Quiet, Range
<1>2. QED
  BY <1>1, Invariance, PTL

\* The draining flag is never left set between callbacks.
THEOREM DrainFlagReleasedHolds == Spec => []DrainFlagReleased
<1>1. Inv => DrainFlagReleased
  BY DEF Inv, DrainFlagReleased, DrainingPumped, Quiet, Range
<1>2. QED
  BY <1>1, Invariance, PTL

\* A lane with the default cap, such as a session lane, runs the tasks of one
\* lifecycle one by one, whatever is enqueued, cleared and restarted.
THEOREM SerialLanesHold == Spec => []SerialLanes
<1>1. Inv => SerialLanes
  BY DEF Inv
<1>2. QED
  BY <1>1, Invariance, PTL

\* Every start respects the cap in force when it happens.
THEOREM StartsWithinCapHolds == Spec => StartsWithinCap
<1> DEFINE WithinCap ==
      \A l \in Lanes : ~(active'[l] \subseteq active[l])
                         => Cardinality(active'[l]) <= maxConcurrent'[l]
<1>1. Inv /\ [Next]_vars => [WithinCap]_vars
  <2> SUFFICES ASSUME Inv, Next PROVE WithinCap
    OBVIOUS
  <2>1. TypeOK
    BY DEF Inv
  <2>2. CASE PumpStart
    <3> DEFINE h == Here
               e == Head(queue[h])
    <3>1. /\ h \in Lanes /\ e \in Entries /\ HasRoom(h)
          /\ active' = [active EXCEPT ![h] = @ \cup {e}]
          /\ maxConcurrent' = maxConcurrent
      BY <2>1, <2>2, TopType, QueueHeadType DEF PumpStart, Running, HasRoom
    <3> HIDE DEF h, e
    <3>2. /\ active'[h] = active[h] \cup {e}
          /\ \A m \in Lanes \ {h} : active'[m] = active[m]
      BY <2>1, <3>1 DEF TypeOK
    <3>3. IsFiniteSet(active[h])
      BY <2>1, <3>1, CommandQueueAssumption, FS_Subset DEF TypeOK
    <3>4. Cardinality(active[h]) \in Nat /\ Cardinality(active'[h]) <= Cardinality(active[h]) + 1
      <4>1. Cardinality(active[h]) \in Nat
        BY <3>3, FS_CardinalityType
      <4>2. \/ Cardinality(active[h] \cup {e}) = Cardinality(active[h])
            \/ Cardinality(active[h] \cup {e}) = Cardinality(active[h]) + 1
        BY <3>3, FS_AddElement
      <4>3. QED
        BY <3>2, <4>1, <4>2
    <3>5. maxConcurrent[h] \in Nat /\ Cardinality(active[h]) < maxConcurrent[h]
      BY <2>1, <3>1 DEF TypeOK, HasRoom
    <3>6. Cardinality(active'[h]) <= maxConcurrent[h]
      <4>1. Cardinality(active'[h]) \in Nat
        BY <3>2, <3>3, FS_AddElement, FS_CardinalityType
      <4>2. QED
        BY <3>4, <3>5, <4>1
    <3>7. QED
      BY <3>1, <3>2, <3>6
  <2>3. CASE ~PumpStart
    <3>1. \A l \in Lanes : active'[l] \subseteq active[l]
      <4>1. CASE active' = active
        BY <4>1
      <4>2. ASSUME NEW f \in Entries, TaskEndsCurrent(f)
            PROVE  \A l \in Lanes : active'[l] \subseteq active[l]
        BY <2>1, <4>2 DEF TaskEndsCurrent, TypeOK
      <4>3. CASE ResetAllLanes
        BY <4>3 DEF ResetAllLanes
      <4>4. QED
        BY <2>3, <4>1, <4>2, <4>3
           DEF Next, QueueStep, TaskEnds, DrainLaneBusy, DrainLaneEnter, PumpExit,
               InnerRefused, InnerAccepted, Refuse, Accept, DrainNext, EnqueueRefused,
               EnqueueAccepted, TaskEndsStale, ClearCommandLane,
               SetCommandLaneConcurrency, MarkGatewayDraining, laneVars
    <3>2. QED
      BY <3>1
  <2>4. QED
    BY <2>2, <2>3
<1>2. SlotsMatchRuns /\ SlotsMatchRuns' /\ [WithinCap]_vars
        => [\A l \in Lanes : ~(RunsOf(l)' \subseteq RunsOf(l))
                               => Cardinality(RunsOf(l)') <= maxConcurrent'[l]]_vars
  BY DEF SlotsMatchRuns
<1>3. Inv => SlotsMatchRuns
  BY DEF Inv
<1>4. QED
  BY <1>1, <1>2, <1>3, Invariance, PTL DEF Spec, StartsWithinCap

---------------------------------------------------------------------------
(* The command queue implements the ledger its callers rely on: a call or  *)
(* a loop turn that accepts, refuses, starts, settles or clears entries is *)
(* a step of the ledger, and every other step leaves the ledger unchanged. *)

LEMMA Fates ==
  /\ FateOf("idle") = "idle" /\ FateOf("queued") = "waiting"
  /\ FateOf("running") = "running" /\ FateOf("done") = "done"
  /\ FateOf("cleared") = "dropped" /\ FateOf("refused") = "dropped"
  /\ \A s \in Status : FateOf(s) = "waiting" <=> s = "queued"
BY DEF FateOf, Status, Settled

\* A step that changes only the status of e changes only the fate of e.
LEMMA FateUpdate ==
  ASSUME TypeOK, NEW e \in Entries, NEW o, status' = [status EXCEPT ![e] = o]
  PROVE  [f \in Entries |-> FateOf(status'[f])]
           = [[f \in Entries |-> FateOf(status[f])] EXCEPT ![e] = FateOf(o)]
BY DEF TypeOK

LEMMA LedgerInit == Init => Ledger!Init
BY Fates DEF Init, Ledger!Init

LEMMA RefuseIsTurnAway ==
  ASSUME TypeOK, NEW e \in Entries, status[e] = "idle", Refuse(e)
  PROVE  Ledger!TurnAway(e)
<1>1. [f \in Entries |-> FateOf(status[f])][e] = "idle"
  BY Fates
<1>2. [f \in Entries |-> FateOf(status'[f])]
        = [[f \in Entries |-> FateOf(status[f])] EXCEPT ![e] = "dropped"]
  <2>1. status' = [status EXCEPT ![e] = "refused"]
    BY DEF Refuse
  <2>2. QED
    <3>1. [f \in Entries |-> FateOf(status'[f])]
            = [[f \in Entries |-> FateOf(status[f])] EXCEPT ![e] = FateOf("refused")]
      BY <2>1, FateUpdate
    <3>2. QED
      BY <3>1, Fates
<1>3. QED
  BY <1>1, <1>2 DEF Refuse, Ledger!TurnAway

LEMMA AcceptIsAdmit ==
  ASSUME TypeOK, NEW e \in Entries, status[e] = "idle", Accept(e)
  PROVE  Ledger!Admit(e)
<1>1. [f \in Entries |-> FateOf(status[f])][e] = "idle"
  BY Fates
<1>2. [f \in Entries |-> FateOf(status'[f])]
        = [[f \in Entries |-> FateOf(status[f])] EXCEPT ![e] = "waiting"]
  <2>1. status' = [status EXCEPT ![e] = "queued"]
    BY DEF Accept
  <2>2. QED
    <3>1. [f \in Entries |-> FateOf(status'[f])]
            = [[f \in Entries |-> FateOf(status[f])] EXCEPT ![e] = FateOf("queued")]
      BY <2>1, FateUpdate
    <3>2. QED
      BY <3>1, Fates
<1>3. QED
  BY <1>1, <1>2 DEF Accept, Ledger!Admit

LEMMA LedgerStep == Inv /\ [Next]_vars => [Ledger!Next]_(Ledger!vars)
<1> SUFFICES ASSUME Inv, [Next]_vars PROVE [Ledger!Next]_(Ledger!vars)
  OBVIOUS
<1>a. TypeOK /\ Nesting /\ QueuedExactlyOnce
  BY DEF Inv
<1>1. CASE UNCHANGED <<queue, status, gatewayDraining>>
  BY <1>1 DEF Ledger!vars
<1>2. CASE PumpStart
  <2> DEFINE l == Here
             e == Head(queue[l])
  <2>1. /\ l \in Lanes /\ queue[l] # <<>> /\ e \in Entries
        /\ queue' = [queue EXCEPT ![l] = Tail(@)]
        /\ status' = [status EXCEPT ![e] = "running"]
        /\ gatewayDraining' = gatewayDraining
    BY <1>a, <1>2, TopType, QueueHeadType DEF PumpStart, Running, HasRoom
  <2>2. status[e] = "queued"
    <3>1. e \in Range(queue[l])
      BY <1>a, <2>1, RangeTail DEF TypeOK
    <3>2. QED
      BY <1>a, <2>1, <3>1 DEF QueuedExactlyOnce
  <2> HIDE DEF l
  <2>3. [f \in Entries |-> FateOf(status[f])][e] = "waiting"
    BY <2>1, <2>2, Fates
  <2>4. [f \in Entries |-> FateOf(status'[f])]
          = [[f \in Entries |-> FateOf(status[f])] EXCEPT ![e] = "running"]
    <3> HIDE DEF e
    <3>1. [f \in Entries |-> FateOf(status'[f])]
            = [[f \in Entries |-> FateOf(status[f])] EXCEPT ![e] = FateOf("running")]
      BY <1>a, <2>1, FateUpdate
    <3>2. QED
      BY <3>1, Fates
  <2>5. Ledger!StartOldest(l)
    BY <2>1, <2>3, <2>4 DEF Ledger!StartOldest
  <2>6. QED
    BY <2>1, <2>5 DEF Ledger!Next
<1>3. CASE InnerRefused
  <2>1. Head(stack).entry \in Entries /\ status[Head(stack).entry] = "idle"
    BY <1>a, <1>3, TopType, FrameType, OfferedByRunning DEF InnerRefused, Running, Nesting
  <2>2. QED
    BY <1>a, <1>3, <2>1, RefuseIsTurnAway DEF InnerRefused, Ledger!Next
<1>4. CASE InnerAccepted
  <2>1. Head(stack).entry \in Entries /\ status[Head(stack).entry] = "idle"
    BY <1>a, <1>4, TopType, FrameType, OfferedByRunning DEF InnerAccepted, Running, Nesting
  <2>2. QED
    BY <1>a, <1>4, <2>1, AcceptIsAdmit DEF InnerAccepted, Ledger!Next
<1>5. ASSUME NEW e \in Entries, EnqueueRefused(e) PROVE Ledger!Next
  BY <1>a, <1>5, RefuseIsTurnAway DEF EnqueueRefused, MayBeEnqueued, Ledger!Next
<1>6. ASSUME NEW e \in Entries, EnqueueAccepted(e) PROVE Ledger!Next
  BY <1>a, <1>6, AcceptIsAdmit DEF EnqueueAccepted, MayBeEnqueued, Ledger!Next
<1>7. ASSUME NEW e \in Entries, TaskEnds(e) PROVE Ledger!Next
  <2>1. /\ status[e] = "running" /\ status' = [status EXCEPT ![e] = "done"]
        /\ UNCHANGED <<queue, gatewayDraining>>
    BY <1>7 DEF TaskEnds, TaskEndsCurrent, TaskEndsStale, MayEnd, laneVars
  <2>2. [f \in Entries |-> FateOf(status[f])][e] = "running"
    BY <2>1, Fates
  <2>3. [f \in Entries |-> FateOf(status'[f])]
          = [[f \in Entries |-> FateOf(status[f])] EXCEPT ![e] = "done"]
    <3>1. [f \in Entries |-> FateOf(status'[f])]
            = [[f \in Entries |-> FateOf(status[f])] EXCEPT ![e] = FateOf("done")]
      BY <1>a, <2>1, FateUpdate
    <3>2. QED
      BY <3>1, Fates
  <2>4. Ledger!Settle(e)
    BY <2>1, <2>2, <2>3 DEF Ledger!Settle
  <2>5. QED
    BY <2>4 DEF Ledger!Next
<1>8. ASSUME NEW l \in Lanes, ClearCommandLane(l) PROVE Ledger!Next
  <2>1. /\ queue' = [queue EXCEPT ![l] = <<>>] /\ UNCHANGED gatewayDraining
        /\ status' = [e \in Entries |->
                  IF status[e] = "queued" /\ LaneOf[e] = l THEN "cleared" ELSE status[e]]
    BY <1>8 DEF ClearCommandLane
  <2>2. \A e \in Entries : status[e] \in Status
    BY <1>a DEF TypeOK
  <2>3. ASSUME NEW e \in Entries
        PROVE  FateOf(status'[e]) = IF FateOf(status[e]) = "waiting" /\ LaneOf[e] = l
                                    THEN "dropped" ELSE FateOf(status[e])
    BY <2>1, <2>2, Fates
  <2>4. Ledger!DropLane(l)
    BY <2>1, <2>3 DEF Ledger!DropLane
  <2>5. QED
    BY <2>4 DEF Ledger!Next
<1>9. CASE MarkGatewayDraining \/ ResetAllLanes
  <2>1. /\ UNCHANGED <<queue, status>>
        /\ gatewayDraining' = ~gatewayDraining \/ UNCHANGED gatewayDraining
    BY <1>a, <1>9 DEF MarkGatewayDraining, ResetAllLanes, runVars, TypeOK
  <2>2. CASE gatewayDraining' = ~gatewayDraining
    BY <2>1, <2>2 DEF Ledger!OpenOrClose, Ledger!Next
  <2>3. CASE UNCHANGED gatewayDraining
    BY <2>1, <2>3 DEF Ledger!vars
  <2>4. QED
    BY <2>1, <2>2, <2>3
<1>10. QED
  BY <1>1, <1>2, <1>3, <1>4, <1>5, <1>6, <1>7, <1>8, <1>9
     DEF Next, QueueStep, DrainLaneBusy, DrainLaneEnter, PumpExit, DrainNext,
         SetCommandLaneConcurrency, vars, laneVars, runVars

\* The queue, pumped re-entrantly and reset by restarts, keeps the promise of
\* the ledger to its callers.
THEOREM ImplementsLedger == Spec => LedgerSpec
BY LedgerInit, LedgerStep, Invariance, PTL DEF Spec, LedgerSpec, Ledger!Spec
=============================================================================
