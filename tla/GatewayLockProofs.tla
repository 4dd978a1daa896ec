--------------------------- MODULE GatewayLockProofs ---------------------------
(***************************************************************************)
(* What the lock files of the gateway guarantee, for any number of         *)
(* processes, configurations, ports and addresses: proofs about            *)
(* GatewayLock.                                                            *)
(***************************************************************************)
EXTENDS GatewayLock, TLAPS

\* The processes that ended before stay gone, so every process that is alive
\* has a port.
EndedStaysGone == \A p \in Ended : pc[p] = "gone"

IInv == TypeOK /\ EndedStaysGone

\* The files the model speaks of have the type of a file.
LEMMA Files ==
  ASSUME NEW p \in Procs
  PROVE  /\ Created(p) \in File /\ Written(p) \in File
         /\ Created(p) # NoFile /\ Written(p) # NoFile
         /\ Payload(Written(p)) = p
  BY GatewayLockAssumption DEF File, NoFile, Created, Written, Payload

\* What is read from a file is a process or nobody.
LEMMA PayloadType ==
  ASSUME NEW f \in File \cup {NoFile}
  PROVE  Payload(f) \in Procs \cup {Nobody}
  BY DEF File, NoFile, Payload

\* A process's configuration is one of the configurations.
LEMMA ConfigOfType == ASSUME NEW p \in Procs PROVE ConfigOf[p] \in Configs
  BY GatewayLockAssumption

\* The invariant holds at first.
LEMMA InitIInv == Init => IInv
<1> SUFFICES ASSUME Init PROVE IInv
  OBVIOUS
<1>1. LeftBehind(Ended) \subseteq File \cup {NoFile}
  BY Files, GatewayLockAssumption DEF LeftBehind
<1>2. TypeOK
  BY <1>1 DEF Init, TypeOK, PCs
<1>3. EndedStaysGone
  BY GatewayLockAssumption DEF Init, EndedStaysGone
<1> QED BY <1>2, <1>3 DEF IInv

\* Each action of a process keeps the types and leaves the ended ones alone.
LEMMA StepIInv == IInv /\ [Next]_vars => IInv'
<1> SUFFICES ASSUME IInv, [Next]_vars PROVE IInv'
  OBVIOUS
<1> USE DEF IInv, TypeOK, EndedStaysGone
<1>1. CASE UNCHANGED vars
  BY <1>1 DEF vars
<1>2. CASE Next
  <2> PICK p \in Procs : \/ Start(p) \/ AcquireStep(p) \/ TimeoutStep(p) \/ ProbeTimesOut(p)
                      \/ ServerStep(p) \/ Crash(p)
    BY <1>2 DEF Next
  <2> USE GatewayLockAssumption, Files, ConfigOfType
  <2>1. CASE Start(p)
    BY <2>1 DEF Start, Goto, PCs
  <2>2. CASE AcquireStep(p)
    <3>1. CASE OpenGlobal(p)
      BY <3>1 DEF OpenGlobal, Goto, PCs
    <3>2. CASE ReadGlobal(p)
      BY <3>2, PayloadType DEF ReadGlobal, Goto, PCs
    <3>3. CASE ProbeGlobal(p)
      BY <3>3 DEF ProbeGlobal, Goto, PCs
    <3>4. CASE RemoveGlobal(p)
      BY <3>4 DEF RemoveGlobal, Goto, PCs
    <3>5. CASE OpenConfig(p)
      BY <3>5 DEF OpenConfig, Goto, PCs
    <3>6. CASE ReadConfig(p)
      BY <3>6, PayloadType DEF ReadConfig, Goto, PCs
    <3>7. CASE ProbeConfig(p)
      BY <3>7 DEF ProbeConfig, Goto, PCs
    <3>8. CASE RemoveConfig(p)
      BY <3>8 DEF RemoveConfig, Goto, PCs
    <3>9. CASE WriteConfig(p)
      BY <3>9 DEF WriteConfig, WriteThrough, Goto, PCs
    <3>10. CASE WriteGlobal(p)
      BY <3>10 DEF WriteGlobal, WriteThrough, Goto, PCs
    <3>11. CASE CleanUp(p)
      BY <3>11 DEF CleanUp, Goto, PCs
    <3> QED BY <2>2, <3>1, <3>2, <3>3, <3>4, <3>5, <3>6, <3>7, <3>8, <3>9, <3>10, <3>11
            DEF AcquireStep
  <2>3. CASE TimeoutStep(p)
    BY <2>3 DEF TimeoutStep, GlobalTimeout, ConfigTimeout, Goto, PCs
  <2>4. CASE ServerStep(p)
    <3>1. CASE Listen(p)
      BY <3>1 DEF Listen, Goto, PCs
    <3>2. CASE StartFails(p)
      BY <3>2 DEF StartFails, Goto, PCs
    <3>3. CASE CloseServer(p)
      BY <3>3 DEF CloseServer, Goto, PCs
    <3>4. CASE CloseBareServer(p)
      BY <3>4 DEF CloseBareServer, Goto, PCs
    <3>5. CASE ReleaseConfig(p)
      BY <3>5 DEF ReleaseConfig, Goto, PCs
    <3>6. CASE ReleaseGlobal(p)
      BY <3>6 DEF ReleaseGlobal, Goto, PCs
    <3> QED BY <2>4, <3>1, <3>2, <3>3, <3>4, <3>5, <3>6 DEF ServerStep
  <2>5. CASE Crash(p)
    BY <2>5 DEF Crash, Goto, PCs, Alive
  <2>6. CASE ProbeTimesOut(p)
    BY <2>6 DEF ProbeTimesOut, Goto, PCs
  <2> QED BY <2>1, <2>2, <2>3, <2>4, <2>5, <2>6
<1> QED BY <1>1, <1>2 DEF Next

\* The inductive invariant of the lock files.
THEOREM Invariance == Spec => []IInv
  BY InitIInv, StepIInv, PTL DEF Spec

\* Every state of the lock files and of the processes has its type.
THEOREM Typing == Spec => []TypeOK
<1>1. IInv => TypeOK
  BY DEF IInv
<1> QED BY <1>1, Invariance, PTL

---------------------------------------------------------------------------
(* A settled gateway is not disturbed.                                     *)

\* What the lock looks like to a process that is not the settled one.
LEMMA SettledFacts ==
  ASSUME IInv, NEW p \in Procs, Settled(p), NEW q \in Procs \ {p}, Alive(q)
  PROVE  /\ pc[q] \in {"openGlobal", "readGlobal", "probeGlobal"}
         /\ ~PortFree(q)
         /\ Alive(p)
<1>1. Waiting(q, p) /\ port[q] = port[p] /\ pc[p] = "serving" /\ Answers(p)
  BY DEF Settled
<1>2. ~PortFree(q)
  BY <1>1 DEF PortFree
<1> QED BY <1>1, <1>2 DEF Waiting, Alive

\* A step of another process leaves it waiting, unless it starts on another
\* port.
LEMMA OthersWait ==
  ASSUME IInv, NEW p \in Procs, Settled(p), NEW q \in Procs \ {p},
         AcquireStep(q) \/ TimeoutStep(q) \/ Crash(q)
  PROVE  /\ Waiting(q, p)'
         /\ UNCHANGED <<port, globalLock, configLock>> /\ host'[p] = host[p]
         /\ Alive(q)
         /\ \A r \in Procs \ {q} : pc'[r] = pc[r] /\ seen'[r] = seen[r]
<1> USE DEF IInv, TypeOK
<1>1. Waiting(q, p) /\ globalLock = Written(p) /\ pc[p] = "serving"
  BY DEF Settled
<1>2. Alive(q)
  BY DEF AcquireStep, OpenGlobal, ReadGlobal, ProbeGlobal, RemoveGlobal, OpenConfig, ReadConfig,
         ProbeConfig, RemoveConfig, WriteConfig, WriteGlobal, CleanUp, TimeoutStep,
         GlobalTimeout, ConfigTimeout, Crash, Alive
<1>3. pc[q] \in {"openGlobal", "readGlobal", "probeGlobal"} /\ ~PortFree(q) /\ Alive(p)
  BY <1>2, SettledFacts
<1>4. CASE OpenGlobal(q)
  BY <1>1, <1>2, <1>3, <1>4, Files DEF OpenGlobal, Goto, Waiting
<1>5. CASE ReadGlobal(q)
  BY <1>1, <1>2, <1>3, <1>5, Files DEF ReadGlobal, Goto, Waiting
<1>6. CASE ProbeGlobal(q)
  <2>1. pc[q] = "probeGlobal" /\ seen[q] = p /\ p # Nobody
    BY <1>1, <1>6, GatewayLockAssumption DEF ProbeGlobal, Waiting
  <2>2. OwnerAlive(q)
    BY <1>3, <2>1 DEF OwnerAlive
  <2> QED BY <1>2, <1>6, <2>1, <2>2 DEF ProbeGlobal, Goto, Waiting
<1>7. CASE TimeoutStep(q)
  BY <1>2, <1>3, <1>7 DEF TimeoutStep, GlobalTimeout, ConfigTimeout, Goto, Waiting
<1>8. CASE Crash(q)
  BY <1>2, <1>8 DEF Crash, Goto, Waiting
<1> QED
  BY <1>3, <1>4, <1>5, <1>6, <1>7, <1>8
  DEF AcquireStep, RemoveGlobal, OpenConfig, ReadConfig, ProbeConfig, RemoveConfig, WriteConfig,
      WriteGlobal, CleanUp

SettledStep ==
  \A p \in Procs :
    Settled(p) =>
      \/ Settled(p)'
      \/ pc'[p] # "serving"
      \/ \E q \in Procs : pc[q] = "idle" /\ pc'[q] # "idle" /\ port[q] # port[p]
      \/ \E q \in Procs : ProbeTimesOut(q)

\* No step disturbs a settled gateway but its own, a start on another port or
\* a probe that times out.
LEMMA SettledIsKept == IInv /\ IInv' /\ [Next]_vars => SettledStep
<1> SUFFICES ASSUME IInv, [Next]_vars, NEW p \in Procs, Settled(p), pc'[p] = "serving",
                    \A q \in Procs : ~(pc[q] = "idle" /\ pc'[q] # "idle" /\ port[q] # port[p]),
                    \A q \in Procs : ~ProbeTimesOut(q)
             PROVE  Settled(p)'
  BY DEF SettledStep
<1> USE DEF IInv, TypeOK
<1>1. CASE UNCHANGED vars
  BY <1>1 DEF vars, Settled, Waiting, Alive, Answers
<1>2. CASE Next
  <2> PICK q \in Procs : \/ Start(q) \/ AcquireStep(q) \/ TimeoutStep(q) \/ ServerStep(q)
                      \/ Crash(q)
    BY <1>2 DEF Next
  <2>1. q # p
    <3> SUFFICES ASSUME q = p PROVE FALSE
      OBVIOUS
    <3>1. pc[p] = "serving"
      BY DEF Settled
    <3> QED BY <3>1 DEF Start, AcquireStep, OpenGlobal, ReadGlobal, ProbeGlobal, RemoveGlobal,
              OpenConfig, ReadConfig, ProbeConfig, RemoveConfig, WriteConfig, WriteGlobal, CleanUp,
              TimeoutStep, GlobalTimeout, ConfigTimeout, ServerStep, Listen, StartFails, CloseServer,
              CloseBareServer, ReleaseConfig, ReleaseGlobal, Crash, Goto
  <2>2. CASE Start(q)
    <3>1. pc' = [pc EXCEPT ![q] = "openGlobal"] /\ pc[q] = "idle" /\ port[q] = port[p]
      BY <2>2 DEF Start, Goto
    <3>2. UNCHANGED <<port, host, globalLock, configLock, seen>>
      BY <2>2 DEF Start
    <3> QED BY <2>1, <3>1, <3>2 DEF Settled, Waiting, Alive, Answers, Written
  <2>3. CASE AcquireStep(q) \/ TimeoutStep(q) \/ Crash(q)
    <3>1. /\ Waiting(q, p)' /\ UNCHANGED <<port, globalLock, configLock>> /\ Alive(q)
          /\ host'[p] = host[p]
          /\ \A r \in Procs \ {q} : pc'[r] = pc[r] /\ seen'[r] = seen[r]
      BY <2>1, <2>3, OthersWait
    <3>2. \A r \in Procs \ {p} : Waiting(r, p)'
      BY <3>1 DEF Settled, Waiting
    <3>3. \A r \in Procs \ {p} : Alive(r)' => port'[r] = port'[p]
      BY <2>1, <3>1 DEF Settled, Alive
    <3> QED BY <2>1, <3>1, <3>2, <3>3 DEF Settled, Answers, Written
  <2>4. CASE ServerStep(q)
    <3>1. Waiting(q, p)
      BY <2>1 DEF Settled
    <3> QED BY <2>4, <3>1 DEF Waiting, ServerStep, Listen, StartFails, CloseServer,
               CloseBareServer, ReleaseConfig, ReleaseGlobal
  <2> QED BY <2>2, <2>3, <2>4
<1> QED BY <1>1, <1>2

\* Once a gateway listens where the loopback address reaches it, with its
\* files in place and nobody half-way through judging or removing one, no
\* other process gets past it: whatever they do it stays settled, until it
\* closes its server or dies, a process starts on another port, or a probe of
\* the port times out.
THEOREM SettledStaysHolds == Spec => SettledStays
<1>1. IInv /\ IInv' /\ [Next]_vars => [SettledStep]_vars
  BY SettledIsKept
<1>2. Spec => [][SettledStep]_vars
  BY <1>1, Invariance, PTL DEF Spec
<1> QED BY <1>2 DEF SettledStep, SettledStays
===============================================================================
