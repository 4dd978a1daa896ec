-------------------------- MODULE DeliveryQueueProofs --------------------------
(***************************************************************************)
(* For any number of deliveries, recoveries, retries and faults: no        *)
(* delivery that was written ahead is lost, and while no recovery overlaps *)
(* what is in flight, one that has left the queue never comes back and     *)
(* none is taken up more often than the retry limit and the faults allow.  *)
(***************************************************************************)
EXTENDS DeliveryQueue, TLAPS

\* What a caller acknowledges has reached its recipient or was given up.
AckEarned ==
  \A c \in Callers, m \in Messages :
    call[c][m] = "ackRename" => sends[m] > 0 \/ m \in aborted \cup swallowed

\* A delivery that was never written to the queue is not met there.
NeverQueued ==
  \A m \in Messages :
    sender[m] \notin {"sending", "done"} =>
      /\ m \notin pending
      /\ \A c \in Callers : call[c][m] = "none"
      /\ \A s \in Scanners : m \notin unread[s] /\ m \notin todo[s]

\* A recovery lists before it visits, and an idle one has nothing left over.
ScanShape ==
  \A s \in Scanners :
    /\ scan[s] # "reading" => unread[s] = {}
    /\ scan[s] = "off" => todo[s] = {} /\ \A m \in Messages : call[s][m] = "none"

\* While no recovery has begun in the middle of something, whatever is done
\* about an entry is done by one party: its sender, one file operation, or the
\* one recovery that has it on its list; and the entry is still in the queue.
OneParty ==
  /\ \A s, t \in Scanners : scan[s] # "off" /\ scan[t] # "off" => s = t
  /\ \A m \in Messages : sender[m] = "sending" =>
       /\ m \in pending
       /\ \A c \in Callers : call[c][m] = "none"
       /\ \A s \in Scanners : m \notin unread[s] /\ m \notin todo[s]
  /\ \A c, d \in Callers, m \in Messages :
       call[c][m] # "none" /\ call[d][m] # "none" => c = d
  /\ \A c \in Callers, m \in Messages :
       call[c][m] \in Operations \ {"ackUnlink"} => m \in pending
  /\ \A s \in Scanners, m \in Messages :
       m \in unread[s] \cup todo[s] => m \in pending /\ \A c \in Callers : call[c][m] = "none"

IInv ==
  /\ TypeOK
  /\ AckEarned /\ KeptUntilSettled
  /\ NeverQueued /\ ScanShape /\ (clean => OneParty)

---------------------------------------------------------------------------
\* Beginning an operation changes the call of one caller for one entry.
LEMMA CallUpdate ==
  ASSUME TypeOK, NEW c \in Callers, NEW m \in Messages,
         NEW o \in {"none"} \cup Operations, Begin(c, m, o)
  PROVE  /\ call' \in [Callers -> [Messages -> {"none"} \cup Operations]]
         /\ call'[c][m] = o
         /\ \A d \in Callers, n \in Messages :
              call'[d][n] = IF d = c /\ n = m THEN o ELSE call[d][n]
BY DEF TypeOK, Begin

\* The count an operation has read changes for one caller and one entry.
LEMMA CountUpdate ==
  ASSUME TypeOK, NEW c \in Callers, NEW m \in Messages, NEW n \in 0..CountBound,
         readCount' = [readCount EXCEPT ![c][m] = n]
  PROVE  readCount' \in [Callers -> [Messages -> 0..CountBound]]
BY DEF TypeOK

\* A delivery reaches its recipient once more.
LEMMA ReachedUpdate ==
  ASSUME TypeOK, NEW m \in Messages, Reached(m)
  PROVE  /\ sends' \in [Messages -> 0..2]
         /\ sends'[m] > 0
         /\ \A n \in Messages : sends'[n] >= sends[n] /\ (n # m => sends'[n] = sends[n])
<1> DEFINE next == IF sends[m] = 2 THEN 2 ELSE sends[m] + 1
<1>1. sends \in [Messages -> 0..2] /\ sends' = [sends EXCEPT ![m] = next]
  BY DEF TypeOK, Reached
<1>2. next \in 0..2 /\ next > 0 /\ next >= sends[m]
  BY <1>1
<1> HIDE DEF next
<1> QED BY <1>1, <1>2

\* A delivery is taken up for sending once more.
LEMMA TakenUpdate ==
  ASSUME TypeOK, NEW m \in Messages, TakenUp(m)
  PROVE  /\ attempts' \in [Messages -> 0..AttemptBound]
         /\ attempts'[m] \in attempts[m]..(attempts[m] + 1)
         /\ \A n \in Messages \ {m} : attempts'[n] = attempts[n]
<1> DEFINE next == IF clean /\ attempts[m] < AttemptBound THEN attempts[m] + 1 ELSE attempts[m]
<1>1. attempts \in [Messages -> 0..AttemptBound] /\ attempts' = [attempts EXCEPT ![m] = next]
  BY DEF TypeOK, TakenUp
<1>2. next \in 0..AttemptBound /\ next \in attempts[m]..(attempts[m] + 1)
  BY <1>1, DeliveryQueueAssumption DEF AttemptBound
<1> HIDE DEF next
<1> QED BY <1>1, <1>2

\* The end of a sending, with the file operation that settles it.
LEMMA SettleUpdate ==
  ASSUME TypeOK, NEW m \in Messages, Sending(m), NEW o \in Operations, Settle(m, o)
  PROVE  /\ sender' \in [Messages -> {"idle", "sending", "sendingBare", "done", "doneBare"}]
         /\ sender'[m] = Ended(m)
         /\ \A n \in Messages \ {m} : sender'[n] = sender[n]
         /\ call' \in [Callers -> [Messages -> {"none"} \cup Operations]]
         /\ \A d \in Callers, n \in Messages :
              call'[d][n] = IF d = "live" /\ n = m /\ sender[m] = "sending" THEN o ELSE call[d][n]
<1>1. "live" \in Callers
  BY DEF Callers
<1>2. sender' = [sender EXCEPT ![m] = Ended(m)]
  BY DEF Settle
<1>3. CASE sender[m] = "sending"
  <2>1. Begin("live", m, o)
    BY <1>3 DEF Settle
  <2> QED BY <1>1, <1>2, <1>3, <2>1, CallUpdate DEF TypeOK, Ended, Operations
<1>4. CASE sender[m] # "sending"
  BY <1>2, <1>4 DEF Settle, TypeOK, Ended, Operations
<1> QED BY <1>3, <1>4

\* The invariant holds at first.
LEMMA InitIInv == Init => IInv
<1> SUFFICES ASSUME Init PROVE IInv
  OBVIOUS
<1> USE DeliveryQueueAssumption DEF Init
<1>1. TypeOK
  BY DEF TypeOK, AttemptBound
<1>2. \A c \in Callers, m \in Messages : call[c][m] = "none"
  OBVIOUS
<1>3. AckEarned /\ KeptUntilSettled /\ NeverQueued /\ OneParty
  BY <1>2 DEF AckEarned, KeptUntilSettled, NeverQueued, OneParty, Operations
<1>4. ScanShape
  BY <1>2 DEF ScanShape, Callers
<1> QED BY <1>1, <1>3, <1>4 DEF IInv

---------------------------------------------------------------------------
(* Types.                                                                  *)

\* A recovery has visited an entry.
LEMMA VisitedUpdate ==
  ASSUME TypeOK, NEW s \in Scanners, NEW m \in Messages, Visited(s, m)
  PROVE  /\ scan' = [scan EXCEPT ![s] = "visiting"]
         /\ scan' \in [Scanners -> {"off", "reading", "visiting", "checking", "sending"}]
         /\ todo' \in [Scanners -> SUBSET Messages]
         /\ loaded' \in [Scanners -> [Messages -> 0..CountBound]]
         /\ \A t \in Scanners : t # s => scan'[t] = scan[t]
         /\ \A t \in Scanners : todo'[t] = IF t = s THEN todo[s] \ {m} ELSE todo[t]
BY DeliveryQueueAssumption DEF TypeOK, Visited

\* Every step of a delivery, a file operation, a recovery or a crash keeps the
\* types.
LEMMA TypeStep == TypeOK /\ [Next]_vars => TypeOK'
<1> SUFFICES ASSUME TypeOK, [Next]_vars PROVE TypeOK'
  OBVIOUS
<1> USE DeliveryQueueAssumption
<1>1. CASE UNCHANGED vars
  BY <1>1 DEF vars, files, calls, scans, ghosts, TypeOK
<1>2. ASSUME NEW m \in Messages, EnqueueDelivery(m) \/ EnqueueFails(m) \/ LiveStep(m)
      PROVE TypeOK'
  <2>1. CASE EnqueueDelivery(m)
    BY <2>1, TakenUpdate DEF EnqueueDelivery, TypeOK, calls, scans, ghosts
  <2>2. CASE EnqueueFails(m)
    BY <2>2 DEF EnqueueFails, TypeOK, files, calls, scans, ghosts
  <2>3. CASE LiveSends(m)
    BY <2>3, ReachedUpdate, SettleUpdate DEF LiveSends, TypeOK, files, scans, Operations
  <2>4. CASE LiveThrows(m)
    BY <2>4, SettleUpdate DEF LiveThrows, TypeOK, files, scans, ghosts, Operations
  <2>5. CASE LiveSwallowsError(m)
    BY <2>5, SettleUpdate DEF LiveSwallowsError, TypeOK, files, scans, Operations
  <2>6. CASE LiveAborts(m)
    BY <2>6, SettleUpdate DEF LiveAborts, TypeOK, files, scans, Operations
  <2> QED BY <1>2, <2>1, <2>2, <2>3, <2>4, <2>5, <2>6 DEF LiveStep
<1>3. ASSUME NEW c \in Callers, NEW m \in Messages, CallStep(c, m) \/ CallError(c, m)
      PROVE TypeOK'
  <2>1. CASE CallStep(c, m)
    <3>1. UNCHANGED <<sender, scans, ghosts, attempts, faults, clean>>
      BY <2>1 DEF CallStep
    <3>2. CASE AckRename(c, m)
      BY <3>1, <3>2, CallUpdate DEF AckRename, TypeOK, scans, ghosts, Operations
    <3>3. CASE AckUnlink(c, m)
      BY <3>1, <3>3, CallUpdate DEF AckUnlink, TypeOK, scans, ghosts, Operations
    <3>4. CASE FailRead(c, m)
      <4>1. readCount' \in [Callers -> [Messages -> 0..CountBound]]
        BY <3>4 DEF FailRead, TypeOK
      <4> QED BY <3>1, <3>4, <4>1, CallUpdate DEF FailRead, TypeOK, scans, ghosts, files, Operations
    <3>5. CASE FailWrite(c, m)
      <4>1. retryCount' \in [Messages -> 0..CountBound]
        BY <3>5 DEF FailWrite, OneMore, TypeOK
      <4> QED BY <3>1, <3>5, <4>1, CallUpdate, CountUpdate DEF FailWrite, TypeOK, scans, ghosts, Operations
    <3>6. CASE MoveToFailed(c, m)
      BY <3>1, <3>6, CallUpdate DEF MoveToFailed, TypeOK, scans, ghosts, Operations
    <3> QED BY <2>1, <3>2, <3>3, <3>4, <3>5, <3>6 DEF CallStep
  <2>2. CASE CallError(c, m)
    <3>1. /\ UNCHANGED <<files, sender, scans, ghosts, attempts, clean>>
          /\ faults < MaxFaults /\ faults' = faults + 1
          /\ readCount' = [readCount EXCEPT ![c][m] = 0]
      BY <2>2 DEF CallError, CallFails
    <3>2. call' \in [Callers -> [Messages -> {"none"} \cup Operations]]
      BY <2>2, CallUpdate DEF CallError, CallFails, Operations
    <3>3. readCount' \in [Callers -> [Messages -> 0..CountBound]]
      BY <3>1 DEF TypeOK
    <3>4. faults' \in 0..MaxFaults
      BY <3>1 DEF TypeOK
    <3> QED BY <3>1, <3>2, <3>3, <3>4 DEF TypeOK, scans, ghosts, files
  <2> QED BY <1>3, <2>1, <2>2
<1>4. ASSUME NEW s \in Scanners, StartRecovery(s) \/ ScanStep(s)
      PROVE TypeOK'
  <2>1. s \in Callers
    BY DEF Callers
  <2>2. CASE StartRecovery(s)
    <3>1. attempts' \in [Messages -> 0..AttemptBound]
      BY <2>2 DEF StartRecovery, TypeOK, AttemptBound
    <3> QED BY <2>2, <3>1 DEF StartRecovery, TypeOK, calls, ghosts
  <2>3. ASSUME NEW m \in Messages, ReadEntry(s, m) PROVE TypeOK'
    <3>1. /\ loaded' \in [Scanners -> [Messages -> 0..CountBound]]
          /\ unread' \in [Scanners -> SUBSET Messages]
          /\ todo' \in [Scanners -> SUBSET Messages]
      BY <2>3 DEF ReadEntry, TypeOK
    <3> QED BY <2>3, <3>1 DEF ReadEntry, TypeOK, files, calls, ghosts
  <2>4. ASSUME NEW m \in Messages, GiveUp(s, m) PROVE TypeOK'
    BY <2>1, <2>4, CallUpdate, VisitedUpdate DEF GiveUp, TypeOK, files, ghosts, Operations
  <2>5. ASSUME NEW m \in Messages, BackOff(s, m) PROVE TypeOK'
    BY <2>5, VisitedUpdate DEF BackOff, TypeOK, files, calls, ghosts
  <2>6. ASSUME NEW m \in Messages, Attempt(s, m) PROVE TypeOK'
    BY <2>6, TakenUpdate DEF Attempt, TypeOK, files, calls, ghosts
  <2>7. CASE AllRead(s)
    BY <2>7 DEF AllRead, TypeOK, files, calls, ghosts
  <2>8. CASE DeferRemaining(s)
    <3>1. call' \in [Callers -> [Messages -> {"none"} \cup Operations]]
      BY <2>1, <2>8 DEF DeferRemaining, TypeOK, Operations
    <3> QED BY <2>8, <3>1 DEF DeferRemaining, TypeOK, files, ghosts
  <2>9. CASE WithinBudget(s)
    BY <2>9 DEF WithinBudget, TypeOK, files, calls, ghosts
  <2>10. CASE FinishRecovery(s)
    BY <2>10 DEF FinishRecovery, TypeOK, files, calls, ghosts
  <2>11. ASSUME NEW m \in Messages, RecoverySends(s, m) PROVE TypeOK'
    BY <2>1, <2>11, CallUpdate, VisitedUpdate, ReachedUpdate DEF RecoverySends, TypeOK, files, Operations
  <2>12. ASSUME NEW m \in Messages, RecoverySwallowsError(s, m) PROVE TypeOK'
    BY <2>1, <2>12, CallUpdate, VisitedUpdate DEF RecoverySwallowsError, TypeOK, files, Operations
  <2>13. ASSUME NEW m \in Messages, RecoveryThrows(s, m) PROVE TypeOK'
    BY <2>1, <2>13, CallUpdate, VisitedUpdate DEF RecoveryThrows, TypeOK, files, ghosts, Operations
  <2> QED BY <1>4, <2>2, <2>3, <2>4, <2>5, <2>6, <2>7, <2>8, <2>9, <2>10, <2>11, <2>12, <2>13
          DEF ScanStep, SendStep
<1>5. CASE Crash
  BY <1>5 DEF Crash, TypeOK, files, ghosts, Ended
<1> QED BY <1>1, <1>2, <1>3, <1>4, <1>5 DEF Next

\* The files, the counts and every caller's place have their types.
THEOREM Typing == Spec => []TypeOK
<1>1. Init => TypeOK
  BY InitIInv DEF IInv
<1> QED BY <1>1, TypeStep, PTL DEF Spec

---------------------------------------------------------------------------
(* Nothing is lost.                                                        *)

\* What may become of the earlier reasons to let go of an entry: they stay.
LEMMA ReasonsStay ==
  ASSUME TypeOK, [Next]_vars
  PROVE  /\ aborted \subseteq aborted' /\ swallowed \subseteq swallowed'
         /\ failed \subseteq failed'
         /\ \A m \in Messages : sends'[m] >= sends[m]
<1> USE DEF files, calls, scans, ghosts
<1>1. CASE \E m \in Messages : LiveSends(m) \/ \E s \in Scanners : RecoverySends(s, m)
  BY <1>1, ReachedUpdate DEF LiveSends, RecoverySends
<1>2. CASE UNCHANGED sends
  <2>1. \A m \in Messages : sends'[m] >= sends[m]
    BY <1>2 DEF TypeOK
  <2>2. aborted \subseteq aborted' /\ swallowed \subseteq swallowed' /\ failed \subseteq failed'
    BY DEF vars, Next, EnqueueDelivery, EnqueueFails, LiveStep, LiveSends, LiveThrows,
           LiveSwallowsError, LiveAborts, CallStep, AckRename, AckUnlink, FailRead, FailWrite,
           MoveToFailed, CallError, CallFails, StartRecovery, ScanStep, ReadEntry, GiveUp,
           BackOff, Attempt, AllRead, DeferRemaining, WithinBudget, FinishRecovery, SendStep,
           RecoverySends, RecoverySwallowsError, RecoveryThrows, Crash
  <2> QED BY <2>1, <2>2
<1>3. UNCHANGED sends \/ \E m \in Messages : LiveSends(m) \/ \E s \in Scanners : RecoverySends(s, m)
  BY DEF vars, Next, EnqueueDelivery, EnqueueFails, LiveStep, LiveThrows,
           LiveSwallowsError, LiveAborts, CallStep, CallError, StartRecovery, ScanStep, ReadEntry,
           GiveUp, BackOff, Attempt, AllRead, DeferRemaining, WithinBudget, FinishRecovery,
           SendStep, RecoverySwallowsError, RecoveryThrows, Crash
<1> QED BY <1>1, <1>2, <1>3

\* An acknowledgement begins only once the delivery has reached its recipient,
\* was aborted or had its error swallowed.
LEMMA AckEarnedStep == IInv /\ [Next]_vars => AckEarned'
<1> SUFFICES ASSUME IInv, [Next]_vars PROVE AckEarned'
  OBVIOUS
<1>1. TypeOK /\ AckEarned
  BY DEF IInv
<1>2. TypeOK' /\ sends \in [Messages -> 0..2] /\ sends' \in [Messages -> 0..2]
  BY <1>1, TypeStep DEF TypeOK
<1>3. SUFFICES ASSUME NEW c \in Callers, NEW m \in Messages,
                      call'[c][m] = "ackRename", call[c][m] # "ackRename"
               PROVE  sends'[m] > 0 \/ m \in aborted' \cup swallowed'
  BY <1>1, <1>2, ReasonsStay DEF AckEarned
<1> USE DEF files, calls, scans, ghosts
<1>4. ASSUME NEW n \in Messages, LiveStep(n) PROVE sends'[m] > 0 \/ m \in aborted' \cup swallowed'
  <2>1. CASE LiveSends(n)
    BY <1>1, <1>3, <2>1, SettleUpdate, ReachedUpdate DEF LiveSends, Operations
  <2>2. CASE LiveThrows(n)
    BY <1>1, <1>3, <2>2, SettleUpdate DEF LiveThrows, Operations
  <2>3. CASE LiveSwallowsError(n)
    BY <1>1, <1>3, <2>3, SettleUpdate DEF LiveSwallowsError, Operations
  <2>4. CASE LiveAborts(n)
    BY <1>1, <1>3, <2>4, SettleUpdate DEF LiveAborts, Operations
  <2> QED BY <1>4, <2>1, <2>2, <2>3, <2>4 DEF LiveStep
<1>5. ASSUME NEW d \in Callers, NEW n \in Messages, CallStep(d, n) \/ CallError(d, n)
      PROVE FALSE
  BY <1>1, <1>3, <1>5, CallUpdate
  DEF CallStep, AckRename, AckUnlink, FailRead, FailWrite, MoveToFailed, CallError, CallFails, Operations
<1>6. ASSUME NEW s \in Scanners, StartRecovery(s) \/ ScanStep(s)
      PROVE  sends'[m] > 0 \/ m \in aborted' \cup swallowed'
  <2>1. s \in Callers
    BY DEF Callers
  <2>2. ASSUME NEW n \in Messages, RecoverySends(s, n)
        PROVE  sends'[m] > 0 \/ m \in aborted' \cup swallowed'
    BY <1>1, <1>3, <2>1, <2>2, CallUpdate, ReachedUpdate DEF RecoverySends, Operations
  <2>3. ASSUME NEW n \in Messages, RecoverySwallowsError(s, n) PROVE m \in swallowed'
    BY <1>1, <1>3, <2>1, <2>3, CallUpdate DEF RecoverySwallowsError, Operations
  <2>4. ASSUME NEW n \in Messages, RecoveryThrows(s, n) \/ GiveUp(s, n) PROVE FALSE
    BY <1>1, <1>3, <2>1, <2>4, CallUpdate DEF RecoveryThrows, GiveUp, Operations
  <2>5. ASSUME DeferRemaining(s) PROVE FALSE
    BY <1>1, <1>3, <2>1, <2>5 DEF DeferRemaining, TypeOK
  <2> QED BY <1>3, <1>6, <2>2, <2>3, <2>4, <2>5
          DEF ScanStep, SendStep, StartRecovery, ReadEntry, BackOff, Attempt, AllRead,
              WithinBudget, FinishRecovery
<1> QED BY <1>3, <1>4, <1>5, <1>6
        DEF Next, vars, EnqueueDelivery, EnqueueFails, Crash

\* A file is removed only by an acknowledgement that was earned, or on its move
\* to failed/.
LEMMA KeptStep == IInv /\ [Next]_vars => KeptUntilSettled'
<1> SUFFICES ASSUME IInv, [Next]_vars, NEW m \in Messages, sender'[m] \in {"sending", "done"}
             PROVE  m \in pending' \cup failed' \cup aborted' \cup swallowed' \/ sends'[m] > 0
  BY DEF KeptUntilSettled
<1>1. TypeOK /\ AckEarned /\ KeptUntilSettled
  BY DEF IInv
<1>2. sends[m] \in 0..2 /\ sends'[m] \in 0..2
  BY <1>1, TypeStep DEF TypeOK
<1> USE DEF files, calls, scans, ghosts
<1>3. sender[m] \in {"sending", "done"} \/ m \in pending'
  <2>1. ASSUME NEW n \in Messages, EnqueueDelivery(n) \/ EnqueueFails(n)
        PROVE  sender[m] \in {"sending", "done"} \/ m \in pending'
    BY <1>1, <2>1 DEF EnqueueDelivery, EnqueueFails, TypeOK
  <2>2. ASSUME NEW n \in Messages, LiveStep(n) PROVE sender[m] \in {"sending", "done"}
    <3>1. Sending(n) /\ \E o \in Operations : Settle(n, o)
      BY <2>2 DEF LiveStep, LiveSends, LiveThrows, LiveSwallowsError, LiveAborts, Operations
    <3> QED BY <1>1, <3>1, SettleUpdate DEF Ended
  <2>3. ASSUME Crash PROVE sender[m] \in {"sending", "done"}
    BY <1>1, <2>3 DEF Crash, Ended, Sending, TypeOK
  <2> QED BY <2>1, <2>2, <2>3
          DEF Next, vars, CallStep, CallError, StartRecovery, ScanStep, ReadEntry, GiveUp, BackOff,
              Attempt, AllRead, DeferRemaining, WithinBudget, FinishRecovery, SendStep,
              RecoverySends, RecoverySwallowsError, RecoveryThrows
<1>4. m \notin pending \/ m \in pending' \/ m \in failed' \cup aborted \cup swallowed \/ sends[m] > 0
  <2>1. ASSUME NEW c \in Callers, NEW n \in Messages, CallStep(c, n)
        PROVE  m \notin pending \/ m \in pending' \/ m \in failed' \cup aborted \cup swallowed \/ sends[m] > 0
    BY <1>1, <2>1 DEF CallStep, AckRename, AckUnlink, FailRead, FailWrite, MoveToFailed, AckEarned
  <2> QED BY <2>1
          DEF Next, vars, EnqueueDelivery, EnqueueFails, LiveStep, LiveSends, LiveThrows,
              LiveSwallowsError, LiveAborts, CallError, CallFails, StartRecovery, ScanStep, ReadEntry,
              GiveUp, BackOff, Attempt, AllRead, DeferRemaining, WithinBudget, FinishRecovery,
              SendStep, RecoverySends, RecoverySwallowsError, RecoveryThrows, Crash
<1> QED BY <1>1, <1>2, <1>3, <1>4, ReasonsStay DEF KeptUntilSettled

---------------------------------------------------------------------------
(* Who is at work on an entry.                                             *)

Shape == TypeOK /\ NeverQueued /\ ScanShape /\ (clean => OneParty)

\* A delivery's own steps.
LEMMA LiveKeepsShape ==
  ASSUME Shape, NEW m \in Messages, EnqueueDelivery(m) \/ EnqueueFails(m) \/ LiveStep(m)
  PROVE  NeverQueued' /\ ScanShape' /\ (clean' => OneParty')
<1> USE DEF files, calls, scans, ghosts, Shape
<1>1. "live" \in Callers /\ Scanners \subseteq Callers \ {"live"}
  BY DeliveryQueueAssumption DEF Callers
<1>2. CASE EnqueueDelivery(m) \/ EnqueueFails(m)
  <2>1. /\ sender[m] = "idle"
        /\ \A n \in Messages \ {m} : sender'[n] = sender[n]
        /\ UNCHANGED <<call, scan, unread, todo, clean>>
        /\ \/ sender'[m] = "sending" /\ pending' = pending \cup {m}
           \/ sender'[m] = "sendingBare" /\ pending' = pending
    BY <1>2 DEF EnqueueDelivery, EnqueueFails, TypeOK
  <2>2. NeverQueued'
    BY <2>1 DEF NeverQueued
  <2>3. ScanShape'
    BY <2>1 DEF ScanShape
  <2>4. ASSUME clean' PROVE OneParty'
    BY <2>1, <2>4 DEF OneParty, NeverQueued
  <2> QED BY <2>2, <2>3, <2>4
<1>3. CASE LiveStep(m)
  <2>1. PICK o \in Operations : Settle(m, o)
    BY <1>3 DEF LiveStep, LiveSends, LiveThrows, LiveSwallowsError, LiveAborts, Operations
  <2>2. Sending(m) /\ UNCHANGED <<pending, scan, unread, todo, clean>> /\ o \in Operations \ {"none"}
    BY <1>3, <2>1 DEF LiveStep, LiveSends, LiveThrows, LiveSwallowsError, LiveAborts, Operations
  <2>3. /\ sender'[m] = Ended(m) /\ \A n \in Messages \ {m} : sender'[n] = sender[n]
        /\ \A d \in Callers, n \in Messages :
             call'[d][n] = IF d = "live" /\ n = m /\ sender[m] = "sending" THEN o ELSE call[d][n]
    BY <2>1, <2>2, SettleUpdate
  <2>4. NeverQueued'
    BY <1>1, <2>2, <2>3 DEF NeverQueued, Ended, Sending
  <2>5. ScanShape'
    BY <1>1, <2>2, <2>3 DEF ScanShape
  <2>6. ASSUME clean' PROVE OneParty'
    BY <1>1, <2>2, <2>3, <2>6 DEF OneParty, Ended, Sending
  <2> QED BY <2>4, <2>5, <2>6
<1> QED BY <1>2, <1>3

\* A step of a file operation.
LEMMA CallKeepsShape ==
  ASSUME Shape, NEW c \in Callers, NEW m \in Messages, CallStep(c, m) \/ CallError(c, m)
  PROVE  NeverQueued' /\ ScanShape' /\ (clean' => OneParty')
<1> USE DEF files, calls, scans, ghosts, Shape
<1>1. /\ call[c][m] # "none" /\ UNCHANGED <<sender, scan, unread, todo, clean>>
  BY DEF CallStep, CallError, CallFails, AckRename, AckUnlink, FailRead, FailWrite, MoveToFailed
<1>2. PICK o \in {"none"} \cup Operations : Begin(c, m, o)
  BY DEF CallStep, CallError, CallFails, AckRename, AckUnlink, FailRead, FailWrite, MoveToFailed, Operations
<1>3. \A d \in Callers, n \in Messages : call'[d][n] = IF d = c /\ n = m THEN o ELSE call[d][n]
  BY <1>2, CallUpdate
<1>4. /\ \A n \in Messages \ {m} : n \in pending' <=> n \in pending
      /\ m \in pending' => m \in pending \/ call[c][m] = "failWrite"
      /\ o \in Operations \ {"ackUnlink"} =>
           pending' = pending /\ (m \in pending \/ call[c][m] = "ackRename")
  <2>1. call'[c][m] = o
    BY <1>3
  <2>2. CASE AckRename(c, m)
    BY <1>3, <2>1, <2>2, CallUpdate DEF AckRename, Operations
  <2>3. CASE AckUnlink(c, m)
    BY <1>3, <2>1, <2>3, CallUpdate DEF AckUnlink, Operations
  <2>4. CASE FailRead(c, m)
    BY <1>3, <2>1, <2>4, CallUpdate DEF FailRead, Operations
  <2>5. CASE FailWrite(c, m)
    BY <1>3, <2>1, <2>5, CallUpdate DEF FailWrite, Operations
  <2>6. CASE MoveToFailed(c, m)
    BY <1>3, <2>1, <2>6, CallUpdate DEF MoveToFailed, Operations
  <2>7. CASE CallFails(c, m)
    BY <1>3, <2>1, <2>7, CallUpdate DEF CallFails, Operations
  <2> QED BY <2>2, <2>3, <2>4, <2>5, <2>6, <2>7 DEF CallStep, CallError
<1>5. sender[m] \in {"sending", "done"}
  BY <1>1 DEF NeverQueued
<1>6. NeverQueued'
  BY <1>1, <1>3, <1>4, <1>5 DEF NeverQueued
<1>7. ScanShape'
  <2>1. Scanners \subseteq Callers
    BY DEF Callers
  <2>2. c \in Scanners => scan[c] # "off"
    BY <1>1 DEF ScanShape
  <2> QED BY <1>1, <1>3, <2>1, <2>2 DEF ScanShape
<1>8. ASSUME clean' PROVE OneParty'
  <2>1. OneParty
    BY <1>1, <1>8
  <2>2. sender[m] = "done"
    BY <1>1, <1>5, <2>1 DEF OneParty
  <2>3. \A d \in Callers : d # c => call[d][m] = "none"
    BY <1>1, <2>1 DEF OneParty
  <2>4. \A s \in Scanners : m \notin unread[s] \cup todo[s]
    BY <1>1, <2>1 DEF OneParty
  <2>5. call[c][m] \in Operations
    BY <1>1 DEF TypeOK
  <2>6. \A n \in Messages : sender[n] = "sending" =>
          /\ n \in pending'
          /\ \A d \in Callers : call'[d][n] = "none"
          /\ \A s \in Scanners : n \notin unread[s] /\ n \notin todo[s]
    BY <1>3, <1>4, <2>1, <2>2 DEF OneParty
  <2>7. \A d, e \in Callers, n \in Messages :
          call'[d][n] # "none" /\ call'[e][n] # "none" => d = e
    BY <1>1, <1>3, <2>1, <2>3 DEF OneParty
  <2>8. \A d \in Callers, n \in Messages :
          call'[d][n] \in Operations \ {"ackUnlink"} => n \in pending'
    <3> SUFFICES ASSUME NEW d \in Callers, NEW n \in Messages,
                        call'[d][n] \in Operations \ {"ackUnlink"}
                 PROVE  n \in pending'
      OBVIOUS
    <3>1. CASE n # m
      BY <1>3, <1>4, <2>1, <3>1 DEF OneParty
    <3>2. CASE n = m
      <4>1. d = c
        BY <1>3, <2>3, <3>2 DEF Operations
      <4> QED BY <1>3, <1>4, <2>1, <2>5, <3>2, <4>1 DEF OneParty, Operations
    <3> QED BY <3>1, <3>2
  <2>9. \A s \in Scanners, n \in Messages :
          n \in unread[s] \cup todo[s] => n \in pending' /\ \A d \in Callers : call'[d][n] = "none"
    BY <1>3, <1>4, <2>1, <2>4 DEF OneParty
  <2> QED BY <1>1, <2>1, <2>6, <2>7, <2>8, <2>9 DEF OneParty
<1> QED BY <1>6, <1>7, <1>8

\* A recovery that begins while nothing is in flight is alone.
LEMMA RecoveryStartKeepsShape ==
  ASSUME Shape, NEW s \in Scanners, StartRecovery(s)
  PROVE  NeverQueued' /\ ScanShape' /\ (clean' => OneParty')
<1> USE DEF Shape, calls
<1>1. /\ scan[s] = "off" /\ scan' = [scan EXCEPT ![s] = "reading"]
      /\ unread' = [unread EXCEPT ![s] = pending]
      /\ UNCHANGED <<pending, sender, call, todo>>
      /\ clean' = (clean /\ ~InFlight)
  BY DEF StartRecovery
<1>2. /\ scan'[s] = "reading" /\ unread'[s] = pending
      /\ \A t \in Scanners \ {s} : scan'[t] = scan[t] /\ unread'[t] = unread[t]
  BY <1>1 DEF TypeOK
<1>3. NeverQueued'
  BY <1>1, <1>2 DEF NeverQueued
<1>4. ScanShape'
  BY <1>1, <1>2 DEF ScanShape
<1>5. ASSUME clean' PROVE OneParty'
  <2>1. OneParty /\ ~InFlight
    BY <1>1, <1>5
  <2>2. /\ \A m \in Messages : sender[m] \notin {"sending", "sendingBare"}
        /\ \A c \in Callers, m \in Messages : call[c][m] = "none"
        /\ \A t \in Scanners : scan[t] = "off"
    BY <2>1 DEF InFlight, Sending
  <2> QED BY <1>1, <1>2, <2>1, <2>2 DEF OneParty, Operations
<1> QED BY <1>3, <1>4, <1>5

\* An entry is visited: from then on only the operation that the visit began, if
\* any, is at work on it.
LEMMA VisitKeepsShape ==
  ASSUME Shape, NEW s \in Scanners, NEW m \in Messages, NEW o \in {"none"} \cup Operations,
         m \in todo[s], scan[s] \in {"checking", "sending"}, Visited(s, m),
         UNCHANGED call \/ Begin(s, m, o),
         UNCHANGED <<pending, sender, unread, clean>>
  PROVE  NeverQueued' /\ ScanShape' /\ (clean' => OneParty')
<1> USE DEF Shape
<1>1. Scanners \subseteq Callers
  BY DEF Callers
<1>2. /\ \A d \in Callers, n \in Messages : d # s \/ n # m => call'[d][n] = call[d][n]
      /\ call'[s][m] \in {"none"} \cup Operations
  <2>1. s \in Callers /\ call[s][m] \in {"none"} \cup Operations
    BY <1>1 DEF TypeOK
  <2>2. CASE UNCHANGED call
    BY <2>1, <2>2
  <2>3. CASE Begin(s, m, o)
    BY <2>1, <2>3, CallUpdate
  <2> QED BY <2>2, <2>3
<1>3. /\ scan'[s] = "visiting"
      /\ \A t \in Scanners : t # s => scan'[t] = scan[t]
      /\ \A t \in Scanners : todo'[t] = IF t = s THEN todo[s] \ {m} ELSE todo[t]
  BY VisitedUpdate DEF TypeOK
<1>4. sender[m] \in {"sending", "done"}
  BY DEF NeverQueued
<1>5. NeverQueued'
  BY <1>2, <1>3, <1>4 DEF NeverQueued
<1>6. ScanShape'
  BY <1>1, <1>2, <1>3 DEF ScanShape
<1>7. ASSUME clean' PROVE OneParty'
  <2>1. OneParty
    BY <1>7
  <2>2. /\ m \in pending /\ sender[m] = "done" /\ \A c \in Callers : call[c][m] = "none"
        /\ \A t \in Scanners : t # s => scan[t] = "off"
    BY <1>4, <2>1 DEF OneParty
  <2>3. \A t \in Scanners : m \notin unread[t] /\ m \notin todo'[t]
    BY <1>3, <2>2 DEF ScanShape
  <2>4. \A c, d \in Callers, n \in Messages :
          call'[c][n] # "none" /\ call'[d][n] # "none" => c = d
    BY <1>2, <2>1, <2>2 DEF OneParty
  <2>5. \A c \in Callers, n \in Messages :
          call'[c][n] \in Operations \ {"ackUnlink"} => n \in pending
    BY <1>2, <2>1, <2>2 DEF OneParty
  <2>6. \A t \in Scanners, n \in Messages :
          n \in unread[t] \cup todo'[t] => n \in pending /\ \A c \in Callers : call'[c][n] = "none"
    BY <1>2, <1>3, <2>1, <2>3 DEF OneParty
  <2>7. \A n \in Messages : sender[n] = "sending" =>
          /\ n \in pending
          /\ \A c \in Callers : call'[c][n] = "none"
          /\ \A t \in Scanners : n \notin unread[t] /\ n \notin todo'[t]
    BY <1>2, <1>3, <2>1, <2>2 DEF OneParty
  <2>8. \A t, u \in Scanners : scan'[t] # "off" /\ scan'[u] # "off" => t = u
    BY <1>3, <2>1 DEF OneParty
  <2> QED BY <2>4, <2>5, <2>6, <2>7, <2>8 DEF OneParty
<1> QED BY <1>5, <1>6, <1>7

\* The steps of a recovery.
LEMMA ScanKeepsShape ==
  ASSUME Shape, NEW s \in Scanners, ScanStep(s)
  PROVE  NeverQueued' /\ ScanShape' /\ (clean' => OneParty')
<1> USE DEF files, calls, scans, ghosts
<1>1. s \in Callers
  BY DEF Callers
<1>2. ASSUME NEW m \in Messages, ReadEntry(s, m)
      PROVE  NeverQueued' /\ ScanShape' /\ (clean' => OneParty')
  <2>1. /\ UNCHANGED <<pending, sender, call, scan, clean>> /\ m \in unread[s]
        /\ scan[s] = "reading"
        /\ \A t \in Scanners : unread'[t] = IF t = s THEN unread[s] \ {m} ELSE unread[t]
        /\ \A t \in Scanners :
             todo'[t] = IF t = s /\ m \in pending THEN todo[s] \cup {m} ELSE todo[t]
    BY <1>2 DEF ReadEntry, Shape, TypeOK
  <2>2. NeverQueued'
    BY <2>1 DEF Shape, NeverQueued
  <2>3. ScanShape'
    BY <2>1 DEF Shape, ScanShape
  <2>4. ASSUME clean' PROVE OneParty'
    BY <2>1, <2>4 DEF Shape, OneParty
  <2> QED BY <2>2, <2>3, <2>4
<1>3. ASSUME NEW m \in Messages, GiveUp(s, m) \/ BackOff(s, m)
      PROVE  NeverQueued' /\ ScanShape' /\ (clean' => OneParty')
  <2>1. /\ m \in todo[s] /\ scan[s] = "checking" /\ Visited(s, m)
        /\ UNCHANGED call \/ Begin(s, m, "move")
        /\ UNCHANGED <<pending, sender, unread, clean>>
    BY <1>3 DEF GiveUp, BackOff, IsOldest
  <2>2. "move" \in {"none"} \cup Operations
    BY DEF Operations
  <2> QED BY <2>1, <2>2, VisitKeepsShape
<1>4. ASSUME NEW m \in Messages,
             RecoverySends(s, m) \/ RecoverySwallowsError(s, m) \/ RecoveryThrows(s, m)
      PROVE  NeverQueued' /\ ScanShape' /\ (clean' => OneParty')
  <2>1. PICK o \in Operations : Begin(s, m, o)
    BY <1>4 DEF RecoverySends, RecoverySwallowsError, RecoveryThrows, Operations
  <2>2. /\ m \in todo[s] /\ scan[s] = "sending" /\ Visited(s, m)
        /\ UNCHANGED <<pending, sender, unread, clean>>
    BY <1>4 DEF RecoverySends, RecoverySwallowsError, RecoveryThrows, IsOldest
  <2> QED BY <2>1, <2>2, VisitKeepsShape
<1>5. ASSUME UNCHANGED <<pending, sender, call, unread, todo, clean>>, scan[s] # "off",
             scan[s] # "reading" \/ unread[s] = {},
             \E to \in {"visiting", "checking", "sending"} : scan' = [scan EXCEPT ![s] = to]
      PROVE  NeverQueued' /\ ScanShape' /\ (clean' => OneParty')
  <2>1. /\ scan'[s] \notin {"off", "reading"} /\ \A t \in Scanners \ {s} : scan'[t] = scan[t]
        /\ unread[s] = {}
    BY <1>5 DEF Shape, TypeOK, ScanShape
  <2>2. NeverQueued'
    BY <1>5 DEF Shape, NeverQueued
  <2>3. ScanShape'
    BY <1>5, <2>1 DEF Shape, ScanShape
  <2>4. ASSUME clean' PROVE OneParty'
    BY <1>5, <2>1, <2>4 DEF Shape, OneParty
  <2> QED BY <2>2, <2>3, <2>4
<1>6. ASSUME AllRead(s) \/ WithinBudget(s) \/ \E m \in Messages : Attempt(s, m)
      PROVE  NeverQueued' /\ ScanShape' /\ (clean' => OneParty')
  BY <1>5, <1>6 DEF AllRead, WithinBudget, Attempt, Ready
<1>7. CASE DeferRemaining(s)
  <2>1. /\ UNCHANGED <<pending, sender, scan, unread, clean>>
        /\ scan[s] = "visiting" /\ unread[s] = {} /\ \A m \in Messages : call[s][m] = "none"
        /\ todo'[s] = {} /\ \A t \in Scanners \ {s} : todo'[t] = todo[t]
    BY <1>7 DEF DeferRemaining, Ready, Shape, TypeOK, ScanShape
  <2>2. /\ \A m \in Messages : call'[s][m] = IF m \in todo[s] THEN "failRead" ELSE "none"
        /\ \A c \in Callers : c # s => call'[c] = call[c]
    BY <1>1, <1>7, <2>1 DEF DeferRemaining, Shape, TypeOK
  <2>3. NeverQueued'
    BY <2>1, <2>2 DEF Shape, NeverQueued
  <2>4. ScanShape'
    <3>1. Scanners \subseteq Callers
      BY DEF Callers
    <3>2. \A t \in Scanners \ {s} : UNCHANGED <<scan[t], unread[t], todo[t], call[t]>>
      BY <2>1, <2>2, <3>1
    <3>3. scan'[s] = "visiting" /\ unread'[s] = {}
      BY <2>1
    <3> QED BY <3>2, <3>3 DEF Shape, ScanShape
  <2>5. ASSUME clean' PROVE OneParty'
    <3>1. OneParty
      BY <2>1, <2>5 DEF Shape
    <3>2. \A t \in Scanners : t # s => scan[t] = "off" /\ unread[t] = {} /\ todo[t] = {}
      BY <2>1, <3>1 DEF Shape, OneParty, ScanShape
    <3>3. \A m \in todo[s] : m \in pending /\ sender[m] = "done" /\ \A c \in Callers : call[c][m] = "none"
      BY <3>1 DEF Shape, TypeOK, OneParty, NeverQueued
    <3>4. \A t \in Scanners : unread[t] = {} /\ todo'[t] = {}
      BY <2>1, <3>2
    <3>5. \A c, d \in Callers, n \in Messages :
            call'[c][n] # "none" /\ call'[d][n] # "none" => c = d
      BY <2>2, <3>1, <3>3 DEF OneParty
    <3>6. \A c \in Callers, n \in Messages :
            call'[c][n] \in Operations \ {"ackUnlink"} => n \in pending
      BY <2>2, <3>1, <3>3 DEF OneParty, Operations
    <3>7. \A n \in Messages : sender[n] = "sending" =>
            n \in pending /\ \A c \in Callers : call'[c][n] = "none"
      BY <2>2, <3>1, <3>3 DEF OneParty
    <3> QED BY <2>1, <3>1, <3>4, <3>5, <3>6, <3>7 DEF OneParty
  <2> QED BY <2>3, <2>4, <2>5
<1>8. CASE FinishRecovery(s)
  <2>1. /\ UNCHANGED <<pending, sender, call, unread, todo, clean>> /\ todo[s] = {} /\ unread[s] = {}
        /\ \A m \in Messages : call[s][m] = "none"
        /\ scan'[s] = "off" /\ \A t \in Scanners \ {s} : scan'[t] = scan[t]
    <3>1. scan[s] = "visiting" /\ todo[s] = {} /\ \A m \in Messages : call[s][m] = "none"
      BY <1>8 DEF FinishRecovery, Ready
    <3>2. unread[s] = {}
      BY <3>1 DEF Shape, ScanShape
    <3>3. scan'[s] = "off" /\ \A t \in Scanners \ {s} : scan'[t] = scan[t]
      BY <1>8 DEF FinishRecovery, Shape, TypeOK
    <3> QED BY <1>8, <3>1, <3>2, <3>3 DEF FinishRecovery
  <2>2. NeverQueued'
    BY <2>1 DEF Shape, NeverQueued
  <2>3. ScanShape'
    BY <2>1 DEF Shape, ScanShape
  <2>4. ASSUME clean' PROVE OneParty'
    BY <2>1, <2>4 DEF Shape, OneParty
  <2> QED BY <2>2, <2>3, <2>4
<1> QED BY <1>2, <1>3, <1>4, <1>6, <1>7, <1>8 DEF ScanStep, SendStep

\* A crash leaves nobody at work, and the files as they were.
LEMMA CrashKeepsShape ==
  ASSUME Shape, Crash
  PROVE  NeverQueued' /\ ScanShape' /\ (clean' => OneParty')
<1> USE DEF files, ghosts
<1>1. /\ UNCHANGED <<pending, clean>>
      /\ \A m \in Messages : sender'[m] = IF Sending(m) THEN Ended(m) ELSE sender[m]
      /\ \A c \in Callers, m \in Messages : call'[c][m] = "none"
      /\ \A s \in Scanners : scan'[s] = "off" /\ unread'[s] = {} /\ todo'[s] = {}
  BY DEF Crash
<1>2. NeverQueued'
  BY <1>1 DEF Shape, NeverQueued, Sending, Ended
<1>3. ScanShape'
  BY <1>1 DEF ScanShape, Callers
<1>4. OneParty'
  BY <1>1 DEF OneParty, Sending, Ended, Operations
<1> QED BY <1>2, <1>3, <1>4

\* Every step keeps the inductive invariant.
LEMMA StepIInv == IInv /\ [Next]_vars => IInv'
<1> SUFFICES ASSUME IInv, [Next]_vars PROVE IInv'
  OBVIOUS
<1>1. TypeOK'
  BY TypeStep DEF IInv
<1>2. AckEarned' /\ KeptUntilSettled'
  BY AckEarnedStep, KeptStep
<1>3. Shape
  BY DEF IInv, Shape
<1>4. ASSUME UNCHANGED vars PROVE NeverQueued' /\ ScanShape' /\ (clean' => OneParty')
  <2>1. UNCHANGED <<pending, sender, call, scan, unread, todo, clean>>
    BY <1>4 DEF vars, files, calls, scans
  <2>2. NeverQueued'
    BY <1>3, <2>1 DEF Shape, NeverQueued
  <2>3. ScanShape'
    BY <1>3, <2>1 DEF Shape, ScanShape
  <2>4. clean' => OneParty'
    BY <1>3, <2>1 DEF Shape, OneParty
  <2> QED BY <2>2, <2>3, <2>4
<1>5. ASSUME Next PROVE NeverQueued' /\ ScanShape' /\ (clean' => OneParty')
  <2>1. ASSUME NEW m \in Messages, EnqueueDelivery(m) \/ EnqueueFails(m) \/ LiveStep(m)
        PROVE  NeverQueued' /\ ScanShape' /\ (clean' => OneParty')
    BY <1>3, <2>1, LiveKeepsShape
  <2>2. ASSUME NEW c \in Callers, NEW m \in Messages, CallStep(c, m) \/ CallError(c, m)
        PROVE  NeverQueued' /\ ScanShape' /\ (clean' => OneParty')
    BY <1>3, <2>2, CallKeepsShape
  <2>3. ASSUME NEW s \in Scanners, StartRecovery(s) \/ ScanStep(s)
        PROVE  NeverQueued' /\ ScanShape' /\ (clean' => OneParty')
    BY <1>3, <2>3, RecoveryStartKeepsShape, ScanKeepsShape
  <2> QED BY <1>3, <1>5, <2>1, <2>2, <2>3, CrashKeepsShape DEF Next
<1>6. NeverQueued' /\ ScanShape' /\ (clean' => OneParty')
  BY <1>4, <1>5
<1> QED BY <1>1, <1>2, <1>6 DEF IInv

\* The inductive invariant of the delivery queue.
THEOREM Invariance == Spec => []IInv
  BY InitIInv, StepIInv, PTL DEF Spec

\* A delivery that was written ahead is in the queue or in failed/ until it
\* has reached its recipient, was aborted or had its error swallowed, whatever
\* crashes, refused operations and recoveries overlap it.
THEOREM KeptUntilSettledHolds == Spec => []KeptUntilSettled
<1>1. IInv => KeptUntilSettled
  BY DEF IInv
<1> QED BY <1>1, Invariance, PTL

---------------------------------------------------------------------------
(* What is settled stays settled.                                          *)

StaysSettled ==
  \A m \in Messages :
    clean' /\ sender[m] = "done" /\ m \notin pending => sends'[m] = sends[m] /\ m \notin pending'

\* Without overlaps nobody has an entry to send or to write back that is not in
\* the queue.
LEMMA SettledStep == IInv /\ [Next]_vars => StaysSettled
<1> SUFFICES ASSUME IInv, [Next]_vars, NEW m \in Messages, clean', sender[m] = "done", m \notin pending
             PROVE  sends'[m] = sends[m] /\ m \notin pending'
  BY DEF StaysSettled
<1> USE DEF files, calls, scans, ghosts
<1>1. clean
  <2>1. ASSUME NEW n \in Messages, EnqueueDelivery(n) \/ EnqueueFails(n) \/ LiveStep(n)
        PROVE  clean' = clean
    BY <2>1 DEF EnqueueDelivery, EnqueueFails, LiveStep, LiveSends, LiveThrows,
                LiveSwallowsError, LiveAborts
  <2>2. ASSUME NEW c \in Callers, NEW n \in Messages, CallStep(c, n) \/ CallError(c, n)
        PROVE  clean' = clean
    BY <2>2 DEF CallStep, CallError
  <2>3. ASSUME NEW s \in Scanners, ScanStep(s) PROVE clean' = clean
    BY <2>3 DEF ScanStep, ReadEntry, GiveUp, BackOff, Attempt, AllRead, DeferRemaining,
                WithinBudget, FinishRecovery, SendStep, RecoverySends, RecoverySwallowsError,
                RecoveryThrows
  <2>4. ASSUME NEW s \in Scanners, StartRecovery(s) PROVE clean
    BY <2>4 DEF StartRecovery
  <2>5. Crash \/ UNCHANGED vars => clean' = clean
    BY DEF Crash, vars
  <2> QED BY <2>1, <2>2, <2>3, <2>4, <2>5 DEF Next
<1>2. TypeOK /\ OneParty
  BY <1>1 DEF IInv
<1>3. /\ \A s \in Scanners : m \notin todo[s]
      /\ \A c \in Callers : call[c][m] # "failWrite"
  BY <1>2 DEF OneParty, Operations
<1>4. sends'[m] = sends[m]
  <2>1. ASSUME NEW n \in Messages, LiveSends(n) PROVE sends'[m] = sends[m]
    BY <1>2, <2>1, ReachedUpdate DEF LiveSends, Sending
  <2>2. ASSUME NEW s \in Scanners, NEW n \in Messages, RecoverySends(s, n)
        PROVE  sends'[m] = sends[m]
    BY <1>2, <1>3, <2>2, ReachedUpdate DEF RecoverySends, IsOldest
  <2>3. ASSUME NEW n \in Messages, EnqueueDelivery(n) \/ EnqueueFails(n) \/ LiveStep(n)
        PROVE  sends'[m] = sends[m]
    BY <2>1, <2>3 DEF EnqueueDelivery, EnqueueFails, LiveStep, LiveThrows, LiveSwallowsError,
                      LiveAborts
  <2>4. ASSUME NEW c \in Callers, NEW n \in Messages, CallStep(c, n) \/ CallError(c, n)
        PROVE  sends'[m] = sends[m]
    BY <2>4 DEF CallStep, CallError
  <2>5. ASSUME NEW s \in Scanners, StartRecovery(s) \/ ScanStep(s) PROVE sends'[m] = sends[m]
    BY <2>2, <2>5 DEF StartRecovery, ScanStep, ReadEntry, GiveUp, BackOff, Attempt, AllRead,
                      DeferRemaining, WithinBudget, FinishRecovery, SendStep,
                      RecoverySwallowsError, RecoveryThrows
  <2>6. Crash \/ UNCHANGED vars => sends' = sends
    BY DEF Crash, vars
  <2> QED BY <2>3, <2>4, <2>5, <2>6 DEF Next
<1>5. m \notin pending'
  <2>1. ASSUME NEW c \in Callers, NEW n \in Messages, CallStep(c, n) \/ CallError(c, n)
        PROVE  m \notin pending'
    <3>1. CASE CallStep(c, n)
      BY <1>3, <3>1 DEF CallStep, AckRename, AckUnlink, FailRead, FailWrite, MoveToFailed
    <3>2. CASE CallError(c, n)
      BY <3>2 DEF CallError, CallFails
    <3> QED BY <2>1, <3>1, <3>2
  <2>2. ASSUME NEW n \in Messages, EnqueueDelivery(n) \/ EnqueueFails(n) \/ LiveStep(n)
        PROVE  m \notin pending'
    BY <2>2 DEF EnqueueDelivery, EnqueueFails, LiveStep, LiveSends, LiveThrows,
                LiveSwallowsError, LiveAborts
  <2>3. ASSUME NEW s \in Scanners, StartRecovery(s) \/ ScanStep(s) PROVE m \notin pending'
    BY <2>3 DEF StartRecovery, ScanStep, ReadEntry, GiveUp, BackOff, Attempt, AllRead,
                DeferRemaining, WithinBudget, FinishRecovery, SendStep, RecoverySends,
                RecoverySwallowsError, RecoveryThrows
  <2>4. Crash \/ UNCHANGED vars => pending' = pending
    BY DEF Crash, vars
  <2> QED BY <2>1, <2>2, <2>3, <2>4 DEF Next
<1> QED BY <1>4, <1>5

\* While no recovery has begun in the middle of something, an entry that has
\* left the queue after its sending is neither sent nor queued again.
THEOREM SettledIsFinalHolds == Spec => SettledIsFinal
<1>1. IInv /\ [Next]_vars => [StaysSettled]_vars
  BY SettledStep
<1>2. Spec => [][StaysSettled]_vars
  BY <1>1, Invariance, PTL DEF Spec
<1> QED BY <1>2 DEF StaysSettled, SettledIsFinal

---------------------------------------------------------------------------
(* The retry limit.                                                        *)

\* Somebody is sending the entry or settling what came of it.
Handled(m) ==
  \/ sender[m] = "sending"
  \/ \E c \in Callers : call[c][m] \in Operations \ {"ackUnlink"}
  \/ \E s \in Scanners : scan[s] = "sending" /\ IsOldest(s, m)

\* What has been read of the file of an entry is what the file says.
ReadsFresh ==
  /\ \A s \in Scanners : \A m \in todo[s] : loaded[s][m] = retryCount[m]
  /\ \A c \in Callers, m \in Messages :
       call[c][m] = "failWrite" => readCount[c][m] = retryCount[m]

\* Every attempt but the one in hand is counted in the file, or its count was
\* lost to a fault.
Counted ==
  /\ \A m \in Messages : sender[m] = "idle" => attempts[m] = 0
  /\ \A m \in pending :
       attempts[m] <= retryCount[m] + faults + (IF Handled(m) THEN 1 ELSE 0)
  /\ \A m \in Messages : attempts[m] <= MaxRetries + faults

Budget == clean => OneParty /\ ReadsFresh /\ Counted

\* A step takes up nothing and leaves the counts in the files alone.
LEMMA NothingTakenUp ==
  ASSUME TypeOK, TypeOK', Counted, UNCHANGED attempts, faults' >= faults,
         \A m \in Messages : sender'[m] = "idle" => sender[m] = "idle",
         \A m \in pending' :
           /\ m \in pending /\ retryCount'[m] = retryCount[m]
           /\ faults' = faults + 1 \/ (Handled(m) => Handled(m)')
  PROVE  Counted'
<1>1. /\ attempts \in [Messages -> Nat] /\ retryCount \in [Messages -> Nat]
      /\ faults \in Nat /\ faults' \in Nat /\ MaxRetries \in Nat
      /\ pending' \subseteq Messages
  BY DeliveryQueueAssumption DEF TypeOK
<1>2. ASSUME NEW m \in pending'
      PROVE  attempts'[m] <= retryCount'[m] + faults' + (IF Handled(m)' THEN 1 ELSE 0)
  <2>1. attempts[m] <= retryCount[m] + faults + (IF Handled(m) THEN 1 ELSE 0)
    BY DEF Counted
  <2> QED BY <1>1, <2>1
<1> QED BY <1>1, <1>2 DEF Counted

\* A delivery's own steps.
LEMMA LiveKeepsBudget ==
  ASSUME IInv, TypeOK', Budget, clean', NEW m \in Messages,
         EnqueueDelivery(m) \/ EnqueueFails(m) \/ LiveStep(m)
  PROVE  ReadsFresh' /\ Counted'
<1> USE DEF files, calls, scans, ghosts
<1>1. clean /\ TypeOK /\ NeverQueued /\ OneParty /\ ReadsFresh /\ Counted
  <2>1. clean
    BY DEF EnqueueDelivery, EnqueueFails, LiveStep, LiveSends, LiveThrows, LiveSwallowsError, LiveAborts
  <2> QED BY <2>1 DEF IInv, Budget
<1>2. "live" \in Callers
  BY DEF Callers
<1>3. CASE EnqueueDelivery(m)
  <2>1. /\ sender[m] = "idle" /\ UNCHANGED <<calls, scans, faults>> /\ TakenUp(m)
        /\ pending' = pending \cup {m} /\ sender'[m] = "sending"
        /\ \A n \in Messages \ {m} : sender'[n] = sender[n] /\ retryCount'[n] = retryCount[n]
    BY <1>1, <1>3 DEF EnqueueDelivery, TypeOK
  <2>2. /\ \A c \in Callers : call[c][m] = "none"
        /\ \A s \in Scanners : m \notin todo[s]
    BY <1>1, <2>1 DEF NeverQueued
  <2>3. ReadsFresh'
    BY <1>1, <2>1, <2>2 DEF ReadsFresh, TypeOK
  <2>4. /\ \A n \in Messages : Handled(n) => Handled(n)'
        /\ Handled(m)'
    BY <2>1 DEF Handled, IsOldest
  <2>5. /\ \A n \in Messages \ {m} : attempts'[n] = attempts[n]
        /\ attempts'[m] \in 0..1
    <3>1. attempts[m] = 0
      BY <1>1, <2>1 DEF Counted
    <3> QED BY <1>1, <2>1, <3>1, TakenUpdate
  <2>6. Counted'
    <3>1. /\ attempts \in [Messages -> Nat] /\ retryCount \in [Messages -> Nat]
          /\ retryCount' \in [Messages -> Nat] /\ faults \in Nat /\ MaxRetries \in Nat \ {0}
          /\ pending \subseteq Messages
      BY <1>1, DeliveryQueueAssumption DEF TypeOK
    <3>2. ASSUME NEW n \in pending', n # m
          PROVE  attempts'[n] <= retryCount'[n] + faults' + (IF Handled(n)' THEN 1 ELSE 0)
      <4>1. n \in pending
        BY <2>1, <3>2
      <4>2. attempts[n] <= retryCount[n] + faults + (IF Handled(n) THEN 1 ELSE 0)
        BY <1>1, <4>1 DEF Counted
      <4> QED BY <2>1, <2>4, <2>5, <3>1, <3>2, <4>1, <4>2
    <3>3. attempts'[m] <= retryCount'[m] + faults' + (IF Handled(m)' THEN 1 ELSE 0)
      BY <2>1, <2>4, <2>5, <3>1
    <3>4. \A n \in Messages : attempts'[n] <= MaxRetries + faults'
      BY <1>1, <2>1, <2>5, <3>1 DEF Counted
    <3>5. \A n \in Messages : sender'[n] = "idle" => attempts'[n] = 0
      BY <1>1, <2>1, <2>5 DEF Counted
    <3> QED BY <3>2, <3>3, <3>4, <3>5 DEF Counted
  <2> QED BY <2>3, <2>6
<1>4. CASE EnqueueFails(m)
  <2>1. /\ UNCHANGED <<files, calls, scans, attempts>> /\ faults' = faults + 1
        /\ \A n \in Messages : sender'[n] = "idle" => sender[n] = "idle"
    BY <1>1, <1>4 DEF EnqueueFails, TypeOK
  <2>2. ReadsFresh'
    BY <1>1, <2>1 DEF ReadsFresh
  <2>3. faults' >= faults
    BY <1>1, <2>1, DeliveryQueueAssumption DEF TypeOK
  <2>4. Counted'
    BY <1>1, <2>1, <2>3, NothingTakenUp DEF TypeOK
  <2> QED BY <2>2, <2>4
<1>5. CASE LiveStep(m)
  <2>1. PICK o \in Operations \ {"ackUnlink", "failWrite"} : Settle(m, o)
    BY <1>5 DEF LiveStep, LiveSends, LiveThrows, LiveSwallowsError, LiveAborts, Operations
  <2>2. Sending(m) /\ UNCHANGED <<files, readCount, scans, attempts, faults>>
    BY <1>5 DEF LiveStep, LiveSends, LiveThrows, LiveSwallowsError, LiveAborts
  <2>3. /\ sender'[m] = Ended(m) /\ \A n \in Messages \ {m} : sender'[n] = sender[n]
        /\ \A d \in Callers, n \in Messages :
             call'[d][n] = IF d = "live" /\ n = m /\ sender[m] = "sending" THEN o ELSE call[d][n]
    BY <1>1, <2>1, <2>2, SettleUpdate
  <2>4. ReadsFresh'
    BY <1>1, <2>1, <2>2, <2>3 DEF ReadsFresh
  <2>5. ASSUME NEW n \in pending, Handled(n) PROVE Handled(n)'
    <3>1. n \in Messages
      BY <1>1 DEF TypeOK
    <3>2. CASE n = m
      <4>1. sender[m] = "sending"
        BY <1>1, <2>2, <2>5, <3>2 DEF NeverQueued, Sending
      <4> QED BY <1>2, <2>1, <2>3, <3>2, <4>1 DEF Handled
    <3>3. CASE n # m
      BY <2>2, <2>3, <2>5, <3>1, <3>3 DEF Handled, IsOldest
    <3> QED BY <3>2, <3>3
  <2>6. /\ \A n \in Messages : sender'[n] = "idle" => sender[n] = "idle"
        /\ faults' >= faults
    BY <1>1, <2>2, <2>3 DEF Ended, TypeOK
  <2>7. Counted'
    BY <1>1, <2>2, <2>5, <2>6, NothingTakenUp
  <2> QED BY <2>4, <2>7
<1> QED BY <1>3, <1>4, <1>5

\* A step of a file operation.
LEMMA CallKeepsBudget ==
  ASSUME IInv, TypeOK', Budget, clean', NEW c \in Callers, NEW m \in Messages,
         CallStep(c, m) \/ CallError(c, m)
  PROVE  ReadsFresh' /\ Counted'
<1> USE DEF files, calls, scans, ghosts
<1>1. clean /\ TypeOK /\ NeverQueued /\ OneParty /\ ReadsFresh /\ Counted
  <2>1. clean
    BY DEF CallStep, CallError
  <2> QED BY <2>1 DEF IInv, Budget
<1>2. call[c][m] # "none" /\ UNCHANGED <<sender, scans, attempts>>
  BY DEF CallStep, CallError, CallFails, AckRename, AckUnlink, FailRead, FailWrite, MoveToFailed
<1>3. /\ \A d \in Callers : d # c => call[d][m] = "none"
      /\ \A s \in Scanners : m \notin todo[s]
      /\ sender[m] # "sending"
  BY <1>1, <1>2 DEF OneParty
<1>4. PICK o \in {"none"} \cup Operations : Begin(c, m, o)
  BY DEF CallStep, CallError, CallFails, AckRename, AckUnlink, FailRead, FailWrite, MoveToFailed, Operations
<1>5. \A d \in Callers, n \in Messages : call'[d][n] = IF d = c /\ n = m THEN o ELSE call[d][n]
  BY <1>1, <1>4, CallUpdate
<1>5a. \A p \in {"none"} \cup Operations : Begin(c, m, p) => o = p
  BY <1>1, <1>4, <1>5, CallUpdate
<1>6. \A n \in Messages \ {m} : Handled(n) => Handled(n)'
  BY <1>2, <1>5 DEF Handled, IsOldest
<1>7. ~Handled(m) \/ call[c][m] \in Operations \ {"ackUnlink"}
  BY <1>1, <1>3 DEF Handled, IsOldest, Operations
<1>8. \A n \in Messages : sender'[n] = "idle" => sender[n] = "idle"
  BY <1>2
<1>9. CASE CallStep(c, m) /\ (AckRename(c, m) \/ MoveToFailed(c, m))
  <2>1. /\ pending' = pending \ {m} /\ UNCHANGED <<readCount, faults>> /\ o # "failWrite"
        /\ \A n \in Messages \ {m} : retryCount'[n] = retryCount[n]
    <3>1. /\ pending' = pending \ {m} /\ UNCHANGED <<readCount, faults>>
          /\ retryCount' = [retryCount EXCEPT ![m] = 0]
          /\ Begin(c, m, "none") \/ Begin(c, m, "ackUnlink")
      BY <1>9 DEF AckRename, MoveToFailed, CallStep
    <3>2. o # "failWrite"
      BY <1>5a, <3>1 DEF Operations
    <3> QED BY <1>1, <3>1, <3>2 DEF TypeOK
  <2>2. ReadsFresh'
    <3>1. \A t \in Scanners : todo[t] \subseteq Messages \ {m}
      BY <1>1, <1>3 DEF TypeOK
    <3>2. \A t \in Scanners : \A n \in todo[t] : loaded[t][n] = retryCount'[n]
      BY <1>1, <2>1, <3>1 DEF ReadsFresh
    <3>3. \A d \in Callers, n \in Messages :
            call'[d][n] = "failWrite" => readCount[d][n] = retryCount'[n]
      BY <1>1, <1>3, <1>5, <2>1 DEF ReadsFresh
    <3> QED BY <1>2, <2>1, <3>2, <3>3 DEF ReadsFresh
  <2>3. faults' >= faults
    BY <1>1, <2>1 DEF TypeOK
  <2>4. Counted'
    BY <1>1, <1>2, <1>6, <1>8, <2>1, <2>3, NothingTakenUp DEF TypeOK
  <2> QED BY <2>2, <2>4
<1>10. CASE CallStep(c, m) /\ AckUnlink(c, m)
  <2>1. /\ UNCHANGED <<pending, retryCount, readCount, faults>> /\ call[c][m] = "ackUnlink"
        /\ o # "failWrite"
    <3>1. Begin(c, m, "none") /\ UNCHANGED <<pending, retryCount, readCount, faults>>
          /\ call[c][m] = "ackUnlink"
      BY <1>10 DEF AckUnlink, CallStep
    <3> QED BY <1>5a, <3>1 DEF Operations
  <2>2. ReadsFresh'
    BY <1>1, <1>2, <1>5, <2>1 DEF ReadsFresh
  <2>3. faults' >= faults
    BY <1>1, <2>1 DEF TypeOK
  <2>5. ~Handled(m)
    BY <1>7, <2>1
  <2>4. Counted'
    BY <1>1, <1>2, <1>6, <1>8, <2>1, <2>3, <2>5, NothingTakenUp DEF TypeOK
  <2> QED BY <2>2, <2>4
<1>11. CASE CallStep(c, m) /\ FailRead(c, m)
  <2>1. call[c][m] = "failRead" /\ m \in pending
    BY <1>1, <1>11 DEF FailRead, OneParty, Operations
  <2>2. /\ readCount' = [readCount EXCEPT ![c][m] = retryCount[m]] /\ UNCHANGED <<files, faults>>
        /\ Begin(c, m, "failWrite")
    BY <1>11, <2>1 DEF FailRead, CallStep
  <2>3. o = "failWrite"
    BY <1>5a, <2>2 DEF Operations
  <2>4. /\ readCount'[c][m] = retryCount[m]
        /\ \A d \in Callers, n \in Messages : d # c \/ n # m => readCount'[d][n] = readCount[d][n]
    BY <1>1, <2>2 DEF TypeOK
  <2>5. ReadsFresh'
    BY <1>1, <1>2, <1>5, <2>2, <2>4 DEF ReadsFresh
  <2>6. Handled(m)'
    BY <1>5, <2>3 DEF Handled, Operations
  <2>7. faults' >= faults
    BY <1>1, <2>2 DEF TypeOK
  <2>8. Counted'
    BY <1>1, <1>2, <1>6, <1>8, <2>2, <2>6, <2>7, NothingTakenUp DEF TypeOK
  <2> QED BY <2>5, <2>8
<1>12. CASE CallStep(c, m) /\ FailWrite(c, m)
  <2>1. call[c][m] = "failWrite" /\ m \in pending /\ readCount[c][m] = retryCount[m]
    BY <1>1, <1>12 DEF FailWrite, OneParty, Operations, ReadsFresh
  <2>2. /\ pending' = pending /\ UNCHANGED faults /\ o # "failWrite"
        /\ retryCount' = [retryCount EXCEPT ![m] = OneMore(retryCount[m])]
        /\ readCount' = [readCount EXCEPT ![c][m] = 0]
    <3>1. /\ pending' = pending /\ UNCHANGED faults /\ Begin(c, m, "none")
          /\ retryCount' = [retryCount EXCEPT ![m] = OneMore(retryCount[m])]
          /\ readCount' = [readCount EXCEPT ![c][m] = 0]
      BY <1>12, <2>1 DEF FailWrite, CallStep
    <3> QED BY <1>5a, <3>1 DEF Operations
  <2>3. /\ \A n \in Messages \ {m} : retryCount'[n] = retryCount[n]
        /\ retryCount'[m] = OneMore(retryCount[m])
        /\ \A d \in Callers, n \in Messages : d # c \/ n # m => readCount'[d][n] = readCount[d][n]
    BY <1>1, <2>2 DEF TypeOK
  <2>4. ReadsFresh'
    BY <1>1, <1>2, <1>3, <1>5, <2>2, <2>3 DEF ReadsFresh, TypeOK
  <2>5. /\ attempts \in [Messages -> Nat] /\ retryCount \in [Messages -> 0..CountBound]
        /\ faults \in Nat /\ MaxRetries \in Nat /\ CountBound \in Nat /\ CountBound >= MaxRetries
        /\ pending \subseteq Messages
    BY <1>1, DeliveryQueueAssumption DEF TypeOK
  <2>6. attempts[m] <= OneMore(retryCount[m]) + faults
    <3>1. /\ attempts[m] <= retryCount[m] + faults + (IF Handled(m) THEN 1 ELSE 0)
          /\ attempts[m] <= MaxRetries + faults
      BY <1>1, <2>1 DEF Counted
    <3> QED BY <2>5, <3>1 DEF OneMore
  <2>7. ASSUME NEW n \in pending
        PROVE  attempts[n] <= retryCount'[n] + faults + (IF Handled(n)' THEN 1 ELSE 0)
    <3>1. CASE n = m
      <4>1. OneMore(retryCount[m]) \in Nat
        BY <2>5 DEF OneMore
      <4> QED BY <2>3, <2>5, <2>6, <3>1, <4>1
    <3>2. CASE n # m
      <4>1. attempts[n] <= retryCount[n] + faults + (IF Handled(n) THEN 1 ELSE 0)
        BY <1>1 DEF Counted
      <4> QED BY <1>6, <2>3, <2>5, <3>2, <4>1
    <3> QED BY <3>1, <3>2
  <2>8. Counted'
    BY <1>1, <1>2, <2>2, <2>7 DEF Counted
  <2> QED BY <2>4, <2>8
<1>13. CASE CallError(c, m)
  <2>1. /\ UNCHANGED files /\ faults' = faults + 1
        /\ readCount' = [readCount EXCEPT ![c][m] = 0] /\ o # "failWrite"
    <3>1. /\ UNCHANGED files /\ faults' = faults + 1
          /\ readCount' = [readCount EXCEPT ![c][m] = 0]
          /\ Begin(c, m, "failRead") \/ Begin(c, m, "none")
      BY <1>13 DEF CallError, CallFails
    <3> QED BY <1>5a, <3>1 DEF Operations
  <2>2. \A d \in Callers, n \in Messages : d # c \/ n # m => readCount'[d][n] = readCount[d][n]
    BY <1>1, <2>1 DEF TypeOK
  <2>3. ReadsFresh'
    BY <1>1, <1>2, <1>5, <2>1, <2>2 DEF ReadsFresh
  <2>4. faults' >= faults
    BY <1>1, <2>1, DeliveryQueueAssumption DEF TypeOK
  <2>5. Counted'
    BY <1>1, <1>2, <1>8, <2>1, <2>4, NothingTakenUp DEF TypeOK
  <2> QED BY <2>3, <2>5
<1> QED BY <1>9, <1>10, <1>11, <1>12, <1>13 DEF CallStep

\* The steps of a recovery.
LEMMA ScanKeepsBudget ==
  ASSUME IInv, TypeOK', Budget, clean', NEW s \in Scanners, ScanStep(s)
  PROVE  ReadsFresh' /\ Counted'
<1> USE DEF files, calls, scans, ghosts
<1>1. clean /\ TypeOK /\ NeverQueued /\ ScanShape /\ OneParty /\ ReadsFresh /\ Counted
  <2>1. clean
    BY DEF ScanStep, ReadEntry, GiveUp, BackOff, Attempt, AllRead, DeferRemaining, WithinBudget,
           FinishRecovery, SendStep, RecoverySends, RecoverySwallowsError, RecoveryThrows
  <2> QED BY <2>1 DEF IInv, Budget
<1>2. s \in Callers
  BY DEF Callers
<1>3. UNCHANGED <<files, readCount, sender, faults>> /\ faults' >= faults
  <2>1. UNCHANGED <<files, readCount, sender, faults>>
    BY DEF ScanStep, ReadEntry, GiveUp, BackOff, Attempt, AllRead, DeferRemaining, WithinBudget,
           FinishRecovery, SendStep, RecoverySends, RecoverySwallowsError, RecoveryThrows
  <2> QED BY <1>1, <2>1 DEF TypeOK
<1>4. ASSUME UNCHANGED <<call, attempts>>, scan[s] # "sending", scan'[s] # "sending",
             \A t \in Scanners \ {s} :
               scan'[t] = scan[t] /\ todo'[t] = todo[t] /\ loaded'[t] = loaded[t],
             \A m \in todo'[s] : loaded'[s][m] = retryCount[m]
      PROVE  ReadsFresh' /\ Counted'
  <2>1. ReadsFresh'
    BY <1>1, <1>3, <1>4 DEF ReadsFresh
  <2>2. \A m \in Messages : Handled(m) => Handled(m)'
    BY <1>3, <1>4 DEF Handled, IsOldest
  <2>3. Counted'
    BY <1>1, <1>3, <1>4, <2>2, NothingTakenUp DEF TypeOK
  <2> QED BY <2>1, <2>3
<1>5. ASSUME NEW m \in Messages, ReadEntry(s, m) PROVE ReadsFresh' /\ Counted'
  <2>1. /\ UNCHANGED <<call, attempts, scan>> /\ scan[s] = "reading"
        /\ \A t \in Scanners \ {s} : todo'[t] = todo[t] /\ loaded'[t] = loaded[t]
    BY <1>1, <1>5 DEF ReadEntry, TypeOK
  <2>2. \A n \in todo'[s] : loaded'[s][n] = retryCount[n]
    <3>1. /\ todo'[s] = IF m \in pending THEN todo[s] \cup {m} ELSE todo[s]
          /\ loaded'[s] = [loaded[s] EXCEPT ![m] = IF m \in pending THEN retryCount[m] ELSE @]
          /\ loaded[s] \in [Messages -> 0..CountBound] /\ todo[s] \subseteq Messages
      BY <1>1, <1>5 DEF ReadEntry, TypeOK
    <3> QED BY <1>1, <3>1 DEF ReadsFresh
  <2> QED BY <1>4, <2>1, <2>2
<1>6. ASSUME UNCHANGED <<call, attempts, todo, loaded>>, scan[s] # "sending",
             \E to \in {"off", "visiting", "checking"} : scan' = [scan EXCEPT ![s] = to]
      PROVE  ReadsFresh' /\ Counted'
  <2>1. scan'[s] # "sending" /\ \A t \in Scanners \ {s} : scan'[t] = scan[t]
    BY <1>1, <1>6 DEF TypeOK
  <2>2. \A m \in todo'[s] : loaded'[s][m] = retryCount[m]
    BY <1>1, <1>6 DEF ReadsFresh
  <2> QED BY <1>4, <1>6, <2>1, <2>2
<1>7. CASE AllRead(s) \/ WithinBudget(s) \/ FinishRecovery(s)
  BY <1>6, <1>7 DEF AllRead, WithinBudget, FinishRecovery, Ready
<1>8. ASSUME NEW m \in Messages, BackOff(s, m) PROVE ReadsFresh' /\ Counted'
  <2>1. /\ UNCHANGED <<call, attempts>> /\ scan[s] = "checking" /\ Visited(s, m)
    BY <1>8 DEF BackOff
  <2>2. /\ scan'[s] = "visiting" /\ todo'[s] = todo[s] \ {m}
        /\ \A n \in Messages \ {m} : loaded'[s][n] = loaded[s][n]
        /\ \A t \in Scanners \ {s} :
             scan'[t] = scan[t] /\ todo'[t] = todo[t] /\ loaded'[t] = loaded[t]
    BY <1>1, <2>1 DEF Visited, TypeOK
  <2>3. \A n \in todo'[s] : loaded'[s][n] = retryCount[n]
    BY <1>1, <2>2 DEF ReadsFresh, TypeOK
  <2> QED BY <1>4, <2>1, <2>2, <2>3
<1>9. ASSUME NEW m \in Messages, NEW o \in Operations \ {"ackUnlink", "failWrite"},
             IsOldest(s, m), Visited(s, m), Begin(s, m, o), UNCHANGED attempts
      PROVE  ReadsFresh' /\ Counted'
  <2>1. /\ scan'[s] = "visiting" /\ todo'[s] = todo[s] \ {m}
        /\ \A n \in Messages \ {m} : loaded'[s][n] = loaded[s][n]
        /\ \A t \in Scanners \ {s} :
             scan'[t] = scan[t] /\ todo'[t] = todo[t] /\ loaded'[t] = loaded[t]
    BY <1>1, <1>9 DEF Visited, TypeOK
  <2>2. \A d \in Callers, n \in Messages : call'[d][n] = IF d = s /\ n = m THEN o ELSE call[d][n]
    BY <1>1, <1>2, <1>9, CallUpdate
  <2>3. ReadsFresh'
    <3>1. \A t \in Scanners : todo[t] \subseteq Messages
      BY <1>1 DEF TypeOK
    <3>2. \A t \in Scanners : \A n \in todo'[t] : loaded'[t][n] = retryCount[n]
      BY <1>1, <2>1, <3>1 DEF ReadsFresh
    <3>3. \A c \in Callers, n \in Messages :
            call'[c][n] = "failWrite" => readCount[c][n] = retryCount[n]
      BY <1>1, <2>2 DEF ReadsFresh
    <3> QED BY <1>3, <3>2, <3>3 DEF ReadsFresh
  <2>4. m \in todo[s] /\ \A c \in Callers : call[c][m] = "none"
    BY <1>1, <1>9 DEF IsOldest, OneParty
  <2>5. ASSUME NEW n \in Messages, Handled(n) PROVE Handled(n)'
    <3>1. CASE n = m
      BY <1>2, <2>2, <3>1 DEF Handled
    <3>2. CASE n # m
      <4>1. ~IsOldest(s, n)
        BY <1>9, <3>2 DEF IsOldest, Messages
      <4>2. CASE sender[n] = "sending"
        BY <1>3, <4>2 DEF Handled
      <4>3. CASE \E c \in Callers : call[c][n] \in Operations \ {"ackUnlink"}
        BY <2>2, <3>2, <4>3 DEF Handled
      <4>4. CASE \E t \in Scanners \ {s} : scan[t] = "sending" /\ IsOldest(t, n)
        BY <2>1, <4>4 DEF Handled, IsOldest
      <4> QED BY <2>5, <4>1, <4>2, <4>3, <4>4 DEF Handled
    <3> QED BY <3>1, <3>2
  <2>6. Counted'
    BY <1>1, <1>3, <1>9, <2>5, NothingTakenUp DEF TypeOK
  <2> QED BY <2>3, <2>6
<1>10. ASSUME NEW m \in Messages, GiveUp(s, m) \/ RecoverySends(s, m) \/ RecoverySwallowsError(s, m)
                                   \/ RecoveryThrows(s, m)
       PROVE  ReadsFresh' /\ Counted'
  <2>1. IsOldest(s, m) /\ Visited(s, m) /\ UNCHANGED attempts
    BY <1>10 DEF GiveUp, RecoverySends, RecoverySwallowsError, RecoveryThrows
  <2>2. PICK o \in Operations \ {"ackUnlink", "failWrite"} : Begin(s, m, o)
    BY <1>10 DEF GiveUp, RecoverySends, RecoverySwallowsError, RecoveryThrows, Operations
  <2> QED BY <1>9, <2>1, <2>2
<1>11. ASSUME NEW m \in Messages, Attempt(s, m) PROVE ReadsFresh' /\ Counted'
  <2>1. /\ scan[s] = "checking" /\ IsOldest(s, m) /\ loaded[s][m] < MaxRetries /\ TakenUp(m)
        /\ UNCHANGED <<call, todo, loaded>>
        /\ scan'[s] = "sending" /\ \A t \in Scanners \ {s} : scan'[t] = scan[t]
    BY <1>1, <1>11 DEF Attempt, TypeOK
  <2>2. m \in todo[s] /\ m \in pending /\ sender[m] # "sending"
        /\ \A c \in Callers : call[c][m] = "none"
    BY <1>1, <2>1 DEF IsOldest, OneParty
  <2>3. ~Handled(m)
    <3>1. \A t \in Scanners : scan[t] # "sending"
      BY <1>1, <2>1 DEF OneParty
    <3> QED BY <2>2, <3>1 DEF Handled, Operations
  <2>4. Handled(m)' /\ \A n \in Messages : Handled(n) => Handled(n)'
    BY <1>3, <2>1, <2>2 DEF Handled, IsOldest
  <2>5. ReadsFresh'
    BY <1>1, <1>3, <2>1 DEF ReadsFresh
  <2>6. /\ attempts \in [Messages -> Nat] /\ attempts' \in [Messages -> Nat]
        /\ retryCount \in [Messages -> Nat]
        /\ faults \in Nat /\ MaxRetries \in Nat /\ pending \subseteq Messages
    <3>1. attempts \in [Messages -> 0..AttemptBound] /\ attempts' \in [Messages -> 0..AttemptBound]
      BY <1>1 DEF TypeOK
    <3> QED BY <1>1, <3>1, DeliveryQueueAssumption DEF TypeOK
  <2>7. /\ attempts'[m] <= attempts[m] + 1
        /\ \A n \in Messages \ {m} : attempts'[n] = attempts[n]
    BY <1>1, <2>1, <2>6, TakenUpdate
  <2>8. attempts[m] <= retryCount[m] + faults /\ retryCount[m] < MaxRetries
    <3>1. retryCount[m] = loaded[s][m]
      BY <1>1, <2>2 DEF ReadsFresh
    <3>2. attempts[m] <= retryCount[m] + faults + 0
      BY <1>1, <2>2, <2>3 DEF Counted
    <3> QED BY <2>1, <2>6, <3>1, <3>2
  <2>9. ASSUME NEW n \in pending
        PROVE  attempts'[n] <= retryCount[n] + faults + (IF Handled(n)' THEN 1 ELSE 0)
    <3>1. CASE n = m
      BY <2>4, <2>6, <2>7, <2>8, <3>1
    <3>2. CASE n # m
      <4>1. attempts[n] <= retryCount[n] + faults + (IF Handled(n) THEN 1 ELSE 0)
        BY <1>1 DEF Counted
      <4> QED BY <2>4, <2>6, <2>7, <3>2, <4>1
    <3> QED BY <3>1, <3>2
  <2>10. \A n \in Messages : attempts'[n] <= MaxRetries + faults
    BY <1>1, <2>6, <2>7, <2>8 DEF Counted
  <2>11. \A n \in Messages : sender[n] = "idle" => attempts'[n] = 0
    <3>1. sender[m] # "idle"
      BY <1>1, <2>2 DEF NeverQueued
    <3> QED BY <1>1, <2>7, <3>1 DEF Counted
  <2>12. Counted'
    BY <1>3, <2>9, <2>10, <2>11 DEF Counted
  <2> QED BY <2>5, <2>12
<1>12. CASE DeferRemaining(s)
  <2>1. /\ UNCHANGED <<scan, loaded, attempts>> /\ scan[s] = "visiting"
        /\ \A m \in Messages : call[s][m] = "none"
        /\ todo'[s] = {} /\ \A t \in Scanners \ {s} : todo'[t] = todo[t]
    BY <1>1, <1>12 DEF DeferRemaining, Ready, TypeOK
  <2>2. /\ \A m \in Messages : call'[s][m] \in {"none", "failRead"}
        /\ \A c \in Callers \ {s} : call'[c] = call[c]
    BY <1>1, <1>2, <1>12, <2>1 DEF DeferRemaining, TypeOK
  <2>3. ReadsFresh'
    BY <1>1, <1>3, <2>1, <2>2 DEF ReadsFresh
  <2>4. ASSUME NEW m \in Messages, Handled(m) PROVE Handled(m)'
    <3>1. CASE sender[m] = "sending"
      BY <1>3, <3>1 DEF Handled
    <3>2. CASE \E c \in Callers : call[c][m] \in Operations \ {"ackUnlink"}
      <4>1. PICK c \in Callers : call[c][m] \in Operations \ {"ackUnlink"}
        BY <3>2
      <4>2. c # s
        BY <2>1, <4>1 DEF Operations
      <4> QED BY <2>2, <4>1, <4>2 DEF Handled
    <3>3. CASE \E t \in Scanners : scan[t] = "sending" /\ IsOldest(t, m)
      BY <2>1, <3>3 DEF Handled, IsOldest
    <3> QED BY <2>4, <3>1, <3>2, <3>3 DEF Handled
  <2>5. Counted'
    BY <1>1, <1>3, <2>1, <2>4, NothingTakenUp DEF TypeOK
  <2> QED BY <2>3, <2>5
<1> QED BY <1>5, <1>7, <1>8, <1>10, <1>11, <1>12 DEF ScanStep, SendStep

\* Every step keeps the account of the attempts.
LEMMA BudgetStep == IInv /\ IInv' /\ Budget /\ [Next]_vars => Budget'
<1> SUFFICES ASSUME IInv, IInv', Budget, [Next]_vars, clean' PROVE ReadsFresh' /\ Counted'
  BY DEF Budget, IInv
<1> USE DEF files, calls, scans, ghosts
<1>1. TypeOK /\ TypeOK'
  BY DEF IInv
<1>2. ASSUME NEW m \in Messages, EnqueueDelivery(m) \/ EnqueueFails(m) \/ LiveStep(m)
      PROVE  ReadsFresh' /\ Counted'
  BY <1>1, <1>2, LiveKeepsBudget
<1>3. ASSUME NEW c \in Callers, NEW m \in Messages, CallStep(c, m) \/ CallError(c, m)
      PROVE  ReadsFresh' /\ Counted'
  BY <1>1, <1>3, CallKeepsBudget
<1>4. ASSUME NEW s \in Scanners, ScanStep(s) PROVE ReadsFresh' /\ Counted'
  BY <1>1, <1>4, ScanKeepsBudget
<1>5. ASSUME NEW s \in Scanners, StartRecovery(s) PROVE ReadsFresh' /\ Counted'
  <2>1. /\ clean /\ ~InFlight /\ attempts' = attempts
        /\ UNCHANGED <<pending, retryCount, sender, calls, todo, loaded, faults>>
    BY <1>5 DEF StartRecovery
  <2>2. ReadsFresh /\ Counted
    BY <2>1 DEF Budget
  <2>3. ReadsFresh'
    BY <2>1, <2>2 DEF ReadsFresh
  <2>4. \A m \in Messages : ~Handled(m)
    BY <2>1 DEF InFlight, Sending, Handled, Operations
  <2>5. faults' >= faults /\ pending' \subseteq Messages
    BY <1>1, <2>1 DEF TypeOK
  <2>6. Counted'
    BY <1>1, <2>1, <2>2, <2>4, <2>5, NothingTakenUp
  <2> QED BY <2>3, <2>6
<1>6. CASE Crash
  <2>1. /\ clean /\ UNCHANGED <<files, attempts>> /\ faults' = faults + 1
        /\ \A m \in Messages : sender'[m] = IF Sending(m) THEN Ended(m) ELSE sender[m]
        /\ \A c \in Callers, m \in Messages : call'[c][m] = "none"
        /\ \A s \in Scanners : todo'[s] = {}
    BY <1>6 DEF Crash
  <2>2. Counted
    BY <2>1 DEF Budget
  <2>3. ReadsFresh'
    BY <2>1 DEF ReadsFresh
  <2>4. faults' >= faults
    BY <1>1, <2>1, DeliveryQueueAssumption DEF TypeOK
  <2>6. \A m \in Messages : sender'[m] = "idle" => sender[m] = "idle"
    BY <2>1 DEF Ended
  <2>7. pending' \subseteq Messages
    BY <1>1 DEF TypeOK
  <2>5. Counted'
    BY <1>1, <2>1, <2>2, <2>4, <2>6, <2>7, NothingTakenUp
  <2> QED BY <2>3, <2>5
<1>7. CASE UNCHANGED vars
  <2>1. UNCHANGED <<files, sender, calls, scans, attempts, faults, clean>>
    BY <1>7 DEF vars
  <2>2. ReadsFresh /\ Counted
    BY <2>1 DEF Budget
  <2> QED BY <2>1, <2>2 DEF ReadsFresh, Counted, Handled, IsOldest
<1> QED BY <1>2, <1>3, <1>4, <1>5, <1>6, <1>7 DEF Next

LEMMA InitBudget == Init => Budget
<1> SUFFICES ASSUME Init PROVE OneParty /\ ReadsFresh /\ Counted
  BY DEF Budget
<1>1. OneParty
  BY InitIInv DEF IInv, Init
<1>2. ReadsFresh /\ Counted
  BY DeliveryQueueAssumption DEF Init, ReadsFresh, Counted
<1> QED BY <1>1, <1>2

\* While no recovery has begun in the middle of something, a delivery is taken
\* up for sending at most as often as the retry limit and once more for every
\* fault, for any messages, recoveries, limits and faults.
THEOREM AttemptsWithinBudgetHolds == Spec => []AttemptsWithinBudget
<1>1. Budget => AttemptsWithinBudget
  BY DEF Budget, Counted, AttemptsWithinBudget
<1> QED BY <1>1, InitBudget, BudgetStep, Invariance, PTL DEF Spec
=============================================================================
