-------------------------- MODULE ServerChannelsProofs -------------------------
(***************************************************************************)
(* For any numbers of runs, restarts and requests: the entries of the      *)
(* channel manager's store are those of runs that exist, and an account    *)
(* has one run at most unless a start overtook a stop.                     *)
(***************************************************************************)
EXTENDS ServerChannels, FiniteSetTheorems, TLAPS

Exists(n) == run[n].st # "free"
HandedOver(n) == run[n].st \in {"live", "sleeping"}

RunType == [st : {"free", "starting", "live", "sleeping"}, keep : BOOLEAN, aborted : BOOLEAN]
StopperType == [at : {"idle", "hook", "waits"}, task : Runs \cup {None}]

Types ==
  /\ hook \in BOOLEAN
  /\ task \in Runs \cup {None} /\ abort \in Runs \cup {None} /\ gate \in Runs \cup {None}
  /\ manual \in BOOLEAN /\ shown \in BOOLEAN /\ wanted \in BOOLEAN
  /\ attempts \in 0..(MaxAttempts + 1)
  /\ run \in [Runs -> RunType]
  /\ stopper \in [Stoppers -> StopperType]
  /\ monitor \in {"idle", "stops", "start"}

\* Of what the store and the stops refer to: the gate's is the start under way,
\* tasks were handed over, a stop told the run it waits for to end if it could.
RefsOK ==
  /\ gate # None => run[gate].st = "starting"
  /\ \A n \in Runs : run[n].st = "starting" => gate = n
  /\ task # None => HandedOver(task)
  /\ abort # None => Exists(abort)
  /\ \A n \in Runs : run[n].st = "sleeping" => ~run[n].aborted
  /\ \A s \in Stoppers :
       stopper[s].task # None =>
         /\ HandedOver(stopper[s].task)
         /\ run[stopper[s].task].aborted \/ abort # stopper[s].task

\* As long as no start overtook a stop, the store knows the one run there is.
OneRun ==
  /\ \A n, m \in Runs : Exists(n) /\ Exists(m) => n = m
  /\ \A n \in Runs : HandedOver(n) => task = n
  /\ \A n \in Runs : Exists(n) /\ ~run[n].aborted => abort = n

\* ... and a stop under way has marked the account and told that run to end.
StopsOK ==
  \A s \in Stoppers :
    /\ stopper[s].task # None => manual
    /\ stopper[s].at = "waits" => stopper[s].task # None
    /\ stopper[s].at = "hook" /\ stopper[s].task = None =>
         \A n \in Runs : Exists(n) => run[n].st = "starting" /\ run[n].aborted

IInv == Types /\ RefsOK /\ ("overtaken" \notin slips => OneRun /\ StopsOK)

\* The mark for no run is not a run.
LEMMA NoneIsNoRun == None \notin Runs
  BY DEF None, Runs

\* A free slot has the type of a run.
LEMMA FreeRun == Free \in RunType /\ Free.st = "free"
  BY DEF Free, RunType

\* No stop has the type of a stop.
LEMMA NoStopIdle == NoStop \in StopperType /\ NoStop.task = None /\ NoStop.at = "idle"
  BY DEF NoStop, StopperType

\* The invariant holds at first.
LEMMA InitIInv == Init => IInv
<1> SUFFICES ASSUME Init PROVE IInv
  OBVIOUS
<1> USE ServerChannelsAssumption, NoneIsNoRun, FreeRun, NoStopIdle DEF Init
<1>1. Types
  <2>1. attempts \in 0..(MaxAttempts + 1)
    OBVIOUS
  <2>2. run \in [Runs -> RunType] /\ stopper \in [Stoppers -> StopperType]
    BY Zenon
  <2>3. hook \in BOOLEAN /\ manual \in BOOLEAN /\ shown \in BOOLEAN /\ wanted \in BOOLEAN
    BY Zenon
  <2>4. monitor \in {"idle", "stops", "start"}
    OBVIOUS
  <2> QED BY <2>1, <2>2, <2>3, <2>4 DEF Types
<1>2. RefsOK
  BY DEF RefsOK
<1>3. OneRun /\ StopsOK
  BY DEF OneRun, StopsOK, Exists, HandedOver
<1> QED BY <1>1, <1>2, <1>3 DEF IInv

---------------------------------------------------------------------------
(* Starts and stops.                                                       *)

\* A start that is let in.
LEMMA ReserveKeeps ==
  ASSUME IInv, MayStart, NEW n \in Runs, NEW keep \in BOOLEAN, Reserve(n, keep),
         UNCHANGED <<hook, task, manual, shown, stopper>>,
         attempts' \in {0, attempts}, wanted' \in BOOLEAN, monitor' \in {"idle", monitor},
         slips' = slips \cup Slip("overtaken", Overtakes) \/
           (\E X : slips' = slips \cup Slip("overtaken", MayStart /\ Overtakes) \cup X)
  PROVE  IInv'
<1> DEFINE new == [st |-> "starting", keep |-> keep, aborted |-> FALSE]
<1>1. /\ run[n].st = "free" /\ run' = [run EXCEPT ![n] = new] /\ abort' = n /\ gate' = n
      /\ task = None /\ gate = None
  BY DEF Reserve, In, MayStart
<1>2. new \in RunType /\ new.st = "starting" /\ ~new.aborted
  BY DEF RunType
<1>3. "overtaken" \notin slips' => "overtaken" \notin slips /\ ~Overtakes
  BY DEF Slip
<1> HIDE DEF new
<1>4. run'[n] = new /\ \A m \in Runs \ {n} : run'[m] = run[m]
  BY <1>1 DEF IInv, Types
<1> USE NoneIsNoRun DEF IInv
<1>5. Types'
  BY <1>1, <1>2, ServerChannelsAssumption DEF Types
<1>6. RefsOK'
  BY <1>1, <1>2, <1>4 DEF Types, RefsOK, HandedOver, Exists, StopperType
<1>7. ASSUME "overtaken" \notin slips' PROVE OneRun' /\ StopsOK'
  <2>1. \A m \in Runs : run[m].st = "free"
    BY <1>1, <1>3, <1>7 DEF Types, RefsOK, OneRun, HandedOver, RunType
  <2>2. \A m \in Runs \ {n} : run'[m].st = "free"
    BY <1>4, <2>1
  <2>3. OneRun'
    BY <1>1, <1>2, <1>4, <2>2 DEF OneRun, HandedOver, Exists
  <2>4. \A s \in Stoppers : stopper[s].at # "hook"
    BY <1>3, <1>7 DEF Overtakes
  <2>5. StopsOK'
    BY <1>3, <1>7, <2>4 DEF StopsOK
  <2> QED BY <2>3, <2>5
<1> QED BY <1>5, <1>6, <1>7

\* A start that is given up.
LEMMA GiveUpKeeps ==
  ASSUME IInv, NEW n \in Runs, run[n].st = "starting", GiveUp(n),
         UNCHANGED <<hook, task, stopper, monitor, wanted>>,
         attempts' = attempts, shown' \in BOOLEAN, manual' \in {FALSE, manual},
         slips \subseteq slips'
  PROVE  IInv'
<1> USE NoneIsNoRun DEF IInv
<1>1. run' = [run EXCEPT ![n] = Free] /\ gate' = Drop(gate, n) /\ abort' = Drop(abort, n)
  BY DEF GiveUp
<1>2. run'[n] = Free /\ \A m \in Runs \ {n} : run'[m] = run[m]
  BY <1>1 DEF Types
<1>3. Types'
  BY <1>1, FreeRun DEF Types, Drop
<1>4. task # n /\ \A s \in Stoppers : stopper[s].task # n
  BY DEF RefsOK, HandedOver
<1>5. RefsOK'
  BY <1>1, <1>2, <1>4, FreeRun DEF Types, RefsOK, HandedOver, Exists, Drop, StopperType
<1>6. ASSUME "overtaken" \notin slips' PROVE OneRun' /\ StopsOK'
  <2>1. OneRun /\ StopsOK
    BY <1>6
  <2>2. \A m \in Runs : run'[m].st = "free"
    BY <1>2, <2>1, FreeRun DEF OneRun, Exists
  <2>3. \A s \in Stoppers : stopper[s].task = None
    BY <1>4, <2>1 DEF Types, RefsOK, OneRun, HandedOver, Exists, StopperType
  <2>4. OneRun'
    BY <2>2 DEF OneRun, HandedOver, Exists
  <2>5. StopsOK'
    BY <2>1, <2>2, <2>3 DEF StopsOK, Exists
  <2> QED BY <2>4, <2>5
<1> QED BY <1>3, <1>5, <1>6

\* The beginning of a stop.
LEMMA BeginStopKeeps ==
  ASSUME IInv, NEW s \in Stoppers, BeginStop(s),
         UNCHANGED <<hook, gate, attempts>>, wanted' \in BOOLEAN,
         monitor' \in {"stops", "start", monitor}, slips \subseteq slips'
  PROVE  IInv'
<1> DEFINE awaited == IF Woken(task) THEN None ELSE task
           halts == [at |-> IF hook THEN "hook" ELSE "waits", task |-> awaited]
           waits == hook \/ awaited # None
<1> USE NoneIsNoRun DEF IInv
<1>1. /\ manual' = TRUE /\ run' = Told
      /\ waits => /\ stopper' = [stopper EXCEPT ![s] = halts] /\ task' = awaited
                  /\ abort' = (IF Woken(abort) THEN None ELSE abort) /\ shown' = shown
      /\ ~waits => task' = None /\ abort' = None /\ shown' = FALSE /\ stopper' = stopper
  BY DEF BeginStop
<1>2. \A n \in Runs : run'[n] = IF Woken(n) THEN Free ELSE [run[n] EXCEPT !.aborted = @ \/ n = abort]
  BY <1>1 DEF Told
<1>3. \A n \in Runs : Woken(n) => n = abort /\ run[n].st = "sleeping" /\ ~run[n].aborted
  BY DEF Woken, RefsOK
<1>4. ASSUME NEW n \in Runs, ~Woken(n)
      PROVE  /\ run'[n] \in RunType /\ run'[n].st = run[n].st
             /\ run'[n].aborted <=> run[n].aborted \/ n = abort
  <2>1. run[n] \in RunType
    BY DEF Types
  <2>2. run'[n] = [run[n] EXCEPT !.aborted = @ \/ n = abort]
    BY <1>2, <1>4
  <2> QED BY <2>1, <2>2 DEF RunType
<1>5. awaited \in Runs \cup {None} /\ (awaited # None => awaited = task /\ ~Woken(task))
  BY DEF Types
<1>6. halts \in StopperType /\ halts.task = awaited /\ halts.at = IF hook THEN "hook" ELSE "waits"
  BY <1>5 DEF StopperType
<1> HIDE DEF awaited, halts
<1>7. Types'
  <2>1. run' \in [Runs -> RunType]
    BY <1>1, <1>2, <1>4, FreeRun DEF Told
  <2> QED BY <1>1, <1>5, <1>6, <2>1 DEF Types
<1>8. RefsOK'
  <2>1. gate' # None => run'[gate'].st = "starting"
    BY <1>3, <1>4 DEF RefsOK, Types
  <2>2. task' # None => HandedOver(task)'
    BY <1>1, <1>4, <1>5 DEF RefsOK, Types, HandedOver
  <2>3. abort' # None => Exists(abort)'
    BY <1>1, <1>4 DEF RefsOK, Types, Exists
  <2>4. \A n \in Runs : run'[n].st = "sleeping" => ~run'[n].aborted
    BY <1>2, <1>4, FreeRun DEF RefsOK, Woken
  <2>5. ASSUME NEW r \in Stoppers, stopper'[r].task # None
        PROVE  /\ HandedOver(stopper[r].task)'
               /\ run'[stopper'[r].task].aborted \/ abort' # stopper'[r].task
    <3>1. CASE waits /\ r = s
      <4>1. stopper'[r].task = awaited
        BY <1>1, <1>6, <3>1 DEF Types
      <4> QED BY <1>1, <1>4, <1>5, <2>5, <4>1 DEF RefsOK, Types, HandedOver
    <3>2. CASE ~waits \/ r # s
      <4>1. stopper'[r] = stopper[r] /\ stopper[r].task \in Runs
        BY <1>1, <2>5, <3>2 DEF Types, StopperType
      <4>2. ~Woken(stopper[r].task)
        BY <1>3, <2>5, <4>1 DEF RefsOK
      <4> QED BY <1>1, <1>4, <2>5, <4>1, <4>2 DEF RefsOK, Types, HandedOver
    <3> QED BY <3>1, <3>2
  <2>6. ASSUME NEW n \in Runs, run'[n].st = "starting" PROVE gate' = n
    <3>1. ~Woken(n)
      BY <1>2, <2>6, FreeRun
    <3>2. run[n].st = "starting"
      BY <1>4, <2>6, <3>1
    <3> QED BY <3>2 DEF RefsOK
  <2> QED BY <2>1, <2>2, <2>3, <2>4, <2>5, <2>6 DEF RefsOK
<1>9. ASSUME "overtaken" \notin slips' PROVE OneRun' /\ StopsOK'
  <2>1. OneRun /\ StopsOK
    BY <1>9
  <2>2. \A n \in Runs : Exists(n)' => Exists(n) /\ ~Woken(n)
    BY <1>2, <1>4, FreeRun DEF Exists
  <2>3. \A n \in Runs : HandedOver(n)' => HandedOver(n) /\ task = n /\ ~Woken(n) /\ awaited = n
    BY <1>2, <1>4, <2>1, <2>2, FreeRun DEF HandedOver, OneRun, awaited
  <2>4. \A n \in Runs : Exists(n)' => run'[n].aborted
    BY <1>4, <2>1, <2>2 DEF OneRun
  <2>5. OneRun'
    <3>1. \A n, m \in Runs : Exists(n)' /\ Exists(m)' => n = m
      BY <2>1, <2>2 DEF OneRun
    <3>2. \A n \in Runs : HandedOver(n)' => task' = n
      BY <1>1, <2>3
    <3> QED BY <2>4, <3>1, <3>2 DEF OneRun
  <2>6. ASSUME awaited = None, NEW n \in Runs, Exists(n)'
        PROVE  run'[n].st = "starting" /\ run'[n].aborted
    <3>1. ~HandedOver(n)' /\ run'[n] \in RunType
      BY <1>4, <2>2, <2>3, <2>6
    <3> QED BY <2>4, <2>6, <3>1 DEF Exists, HandedOver, RunType
  <2>7. ASSUME NEW r \in Stoppers
        PROVE  /\ stopper'[r].at = "waits" => stopper'[r].task # None
               /\ stopper'[r].at = "hook" /\ stopper'[r].task = None =>
                    \A n \in Runs : Exists(n)' => run'[n].st = "starting" /\ run'[n].aborted
    <3>1. CASE waits /\ r = s
      BY <1>1, <1>6, <2>6, <3>1 DEF Types
    <3>2. CASE ~waits \/ r # s
      <4>1. stopper'[r] = stopper[r]
        BY <1>1, <3>2 DEF Types
      <4> QED BY <1>4, <2>1, <2>2, <4>1 DEF StopsOK
    <3> QED BY <3>1, <3>2
  <2> QED BY <1>1, <2>5, <2>7 DEF StopsOK
<1> QED BY <1>7, <1>8, <1>9

\* The end of a run for good.
LEMMA SettlesKeeps ==
  ASSUME IInv, NEW n \in Runs, HandedOver(n), Settles(n),
         UNCHANGED <<hook, gate, manual, wanted, slips>>, attempts' \in 0..(MaxAttempts + 1)
  PROVE  IInv'
<1> DEFINE done == {s \in Stoppers : Waiting(s) /\ stopper[s].task = n}
           left(s) == [stopper[s] EXCEPT !.task = Drop(@, n)]
<1> USE NoneIsNoRun DEF IInv
<1>1. /\ run' = [run EXCEPT ![n] = Free]
      /\ task' = (IF done # {} THEN None ELSE Drop(task, n))
      /\ abort' = (IF done # {} THEN None ELSE Drop(abort, n))
      /\ stopper' = [s \in Stoppers |-> IF s \in done THEN NoStop ELSE left(s)]
      /\ shown' = (shown /\ run[n].st # "live" /\ done = {})
      /\ monitor' = MonitorAfter(done)
  BY DEF Settles
<1>2. run'[n] = Free /\ \A m \in Runs \ {n} : run'[m] = run[m]
  BY <1>1 DEF Types
<1>3. ASSUME NEW s \in Stoppers
      PROVE  /\ left(s) \in StopperType /\ left(s).at = stopper[s].at
             /\ left(s).task = Drop(stopper[s].task, n)
  BY DEF Types, StopperType, Drop
<1>4. \A s \in Stoppers :
        /\ stopper'[s] \in StopperType
        /\ stopper'[s].task # n
        /\ stopper'[s].task # None => stopper'[s].task = stopper[s].task
        /\ stopper'[s].at # "idle" => stopper'[s].at = stopper[s].at
        /\ stopper'[s].at = "waits" => stopper[s].task # n
        /\ stopper[s].task # n => stopper'[s].task = stopper[s].task
  BY <1>1, <1>3, NoStopIdle DEF Drop, Waiting
<1> HIDE DEF done, left
<1>5. Types'
  <2>1. stopper' \in [Stoppers -> StopperType]
    BY <1>1, <1>4
  <2> QED BY <1>1, <2>1, FreeRun DEF Types, Drop, MonitorAfter
<1>6. RefsOK'
  BY <1>1, <1>2, <1>4, FreeRun DEF Types, RefsOK, HandedOver, Exists, Drop, StopperType
<1>7. ASSUME "overtaken" \notin slips' PROVE OneRun' /\ StopsOK'
  <2>1. OneRun /\ StopsOK
    BY <1>7
  <2>2. \A m \in Runs : run'[m].st = "free"
    BY <1>2, <2>1, FreeRun DEF OneRun, HandedOver, Exists
  <2>3. OneRun'
    BY <2>2 DEF OneRun, HandedOver, Exists
  <2>4. StopsOK'
    BY <1>4, <2>1, <2>2 DEF StopsOK, Exists
  <2> QED BY <2>3, <2>4
<1> QED BY <1>5, <1>6, <1>7

---------------------------------------------------------------------------
(* Every step.                                                             *)

\* Every step keeps the invariant.
LEMMA StepIInv == IInv /\ [Next]_vars => IInv'
<1> SUFFICES ASSUME IInv, [Next]_vars PROVE IInv'
  OBVIOUS
<1> USE ServerChannelsAssumption, NoneIsNoRun DEF IInv
<1>1. CASE UNCHANGED vars
  BY <1>1 DEF vars, store, flags, Types, RefsOK, OneRun, StopsOK, Exists, HandedOver
<1>2. CASE StartRequest
  <2>1. CASE MayStart
    BY <1>2, <2>1, ReserveKeeps DEF StartRequest, flags
  <2>2. CASE ~MayStart
    BY <1>2, <2>2 DEF StartRequest, flags, Types, RefsOK, OneRun, StopsOK, Exists, HandedOver
  <2> QED BY <2>1, <2>2
<1>3. CASE StopRequest
  <2>1. CASE Nothing
    <3>1. /\ UNCHANGED <<task, abort, manual, shown, run, stopper, hook, gate, attempts, monitor>>
          /\ wanted' = FALSE /\ slips \subseteq slips'
      BY <1>3, <2>1 DEF StopRequest
    <3>2. Types' /\ RefsOK'
      BY <3>1 DEF Types, RefsOK, Exists, HandedOver
    <3>3. ASSUME "overtaken" \notin slips' PROVE OneRun' /\ StopsOK'
      BY <3>1, <3>3 DEF OneRun, StopsOK, Exists, HandedOver
    <3> QED BY <3>2, <3>3
  <2>2. CASE ~Nothing
    BY <1>3, <2>2, BeginStopKeeps DEF StopRequest, Stoppers
  <2> QED BY <2>1, <2>2
<1>4. ASSUME NEW n \in Runs, Refused(n) PROVE IInv'
  BY <1>4, GiveUpKeeps DEF Refused, In, Types
<1>5. ASSUME NEW n \in Runs, Abandoned(n) PROVE IInv'
  BY <1>5, GiveUpKeeps DEF Abandoned, In, Types
<1>6. ASSUME NEW n \in Runs, HandOver(n) PROVE IInv'
  <2>1. Types'
    BY <1>6 DEF HandOver, Types, RunType, Drop
  <2>2. RefsOK'
    BY <1>6 DEF HandOver, Types, RefsOK, RunType, StopperType, Drop, HandedOver, Exists, In
  <2>3. ASSUME "overtaken" \notin slips' PROVE OneRun'
    BY <1>6, <2>3 DEF HandOver, Types, OneRun, RunType, Drop, HandedOver, Exists, In
  <2>4. ASSUME "overtaken" \notin slips' PROVE StopsOK'
    BY <1>6, <2>4 DEF HandOver, Types, RefsOK, OneRun, StopsOK, RunType, StopperType, HandedOver,
                      Exists, In
  <2> QED BY <2>1, <2>2, <2>3, <2>4
<1>7. ASSUME NEW n \in Runs, RunEnds(n) PROVE IInv'
  <2>1. run[n].st = "live" /\ attempts' \in 0..(MaxAttempts + 1)
    BY <1>7 DEF RunEnds, In, Types
  <2>2. CASE EndsForGood(n)
    BY <1>7, <2>1, <2>2, SettlesKeeps DEF RunEnds, HandedOver
  <2>3. CASE ~EndsForGood(n)
    <3>1. /\ run' = [run EXCEPT ![n].st = "sleeping"] /\ shown' = FALSE /\ ~run[n].aborted
          /\ UNCHANGED <<hook, task, abort, stopper, monitor, gate, manual, wanted, slips>>
      BY <1>7, <2>3 DEF RunEnds, EndsForGood
    <3>2. /\ run'[n] \in RunType /\ run'[n].st = "sleeping" /\ ~run'[n].aborted
          /\ \A m \in Runs \ {n} : run'[m] = run[m]
      BY <3>1 DEF Types, RunType
    <3>3. Types'
      BY <2>1, <3>1, <3>2 DEF Types
    <3>4. RefsOK'
      BY <2>1, <3>1, <3>2 DEF Types, RefsOK, HandedOver, Exists, StopperType
    <3>5. ASSUME "overtaken" \notin slips' PROVE OneRun' /\ StopsOK'
      BY <2>1, <3>1, <3>2, <3>5 DEF OneRun, StopsOK, HandedOver, Exists
    <3> QED BY <3>3, <3>4, <3>5
  <2> QED BY <2>2, <2>3
<1>8. ASSUME NEW n \in Runs, Wake(n) PROVE IInv'
  <2>1. run[n].st = "sleeping"
    BY <1>8 DEF Wake, In
  <2>2. CASE manual
    BY <1>8, <2>1, <2>2, SettlesKeeps DEF Wake, HandedOver, Types
  <2>3. CASE ~manual
    <3> DEFINE left(s) == [stopper[s] EXCEPT !.task = Drop(@, n)]
               new == [st |-> "starting", keep |-> TRUE, aborted |-> FALSE]
    <3>1. /\ task' = Drop(task, n) /\ stopper' = [s \in Stoppers |-> left(s)]
          /\ UNCHANGED <<hook, manual, attempts, shown, monitor, wanted, slips>>
      BY <1>8, <2>3 DEF Wake
    <3>2. ASSUME NEW s \in Stoppers
          PROVE  /\ stopper'[s] \in StopperType /\ stopper'[s].at = stopper[s].at
                 /\ stopper'[s].task = Drop(stopper[s].task, n)
      BY <3>1 DEF Types, StopperType, Drop
    <3>3. new \in RunType /\ new.st = "starting" /\ ~new.aborted
      BY DEF RunType
    <3> HIDE DEF left, new
    <3>4. stopper' \in [Stoppers -> StopperType]
      BY <3>1, <3>2
    <3>5. CASE task' = None /\ gate = None
      <4>1. PICK m \in In("free") \cup {n} :
              run' = [run EXCEPT ![n] = Free, ![m] = new] /\ abort' = m /\ gate' = m
        BY <1>8, <2>3, <3>5 DEF Wake, new
      <4>2. /\ m \in Runs /\ run'[m] = new /\ (m # n => run'[n] = Free /\ run[m].st = "free")
            /\ \A l \in Runs \ {n, m} : run'[l] = run[l]
        BY <4>1 DEF Types, In
      <4>3. Types'
        BY <3>1, <3>3, <3>4, <4>1, <4>2, FreeRun DEF Types, Drop
      <4>4. RefsOK'
        BY <2>1, <3>1, <3>2, <3>3, <3>5, <4>1, <4>2, FreeRun
        DEF Types, RefsOK, HandedOver, Exists, Drop, StopperType
      <4>5. ASSUME "overtaken" \notin slips' PROVE OneRun' /\ StopsOK'
        <5>1. \A l \in Runs \ {m} : run'[l].st = "free"
          BY <2>1, <3>1, <4>2, <4>5, FreeRun DEF OneRun, Exists
        <5>2. OneRun'
          BY <3>3, <4>1, <4>2, <5>1 DEF OneRun, HandedOver, Exists
        <5>3. \A s \in Stoppers : stopper[s].task = None /\ stopper[s].at \notin {"hook", "waits"}
          BY <2>1, <2>3, <3>1, <4>5 DEF StopsOK, Exists
        <5>4. StopsOK'
          BY <3>2, <5>3 DEF StopsOK, Drop
        <5> QED BY <5>2, <5>4
      <4> QED BY <4>3, <4>4, <4>5
    <3>6. CASE ~(task' = None /\ gate = None)
      <4>1. run' = [run EXCEPT ![n] = Free] /\ abort' = Drop(abort, n) /\ gate' = gate
        BY <1>8, <2>3, <3>6 DEF Wake
      <4>2. run'[n] = Free /\ \A l \in Runs \ {n} : run'[l] = run[l]
        BY <4>1 DEF Types
      <4>3. Types'
        BY <3>1, <3>4, <4>1, FreeRun DEF Types, Drop
      <4>4. RefsOK'
        BY <2>1, <3>1, <3>2, <4>1, <4>2, FreeRun
        DEF Types, RefsOK, HandedOver, Exists, Drop, StopperType
      <4>5. "overtaken" \in slips'
        BY <2>1, <3>1, <3>6 DEF OneRun, Exists, HandedOver, Drop, RefsOK, Types
      <4> QED BY <4>3, <4>4, <4>5
    <3> QED BY <3>5, <3>6
  <2> QED BY <2>2, <2>3
<1>9. ASSUME NEW s \in Stoppers, HookReturns(s) PROVE IInv'
  <2>1. CASE stopper[s].task # None
    <3>1. /\ stopper' = [stopper EXCEPT ![s].at = "waits"] /\ shown' = shown
          /\ UNCHANGED <<task, abort, monitor, hook, gate, manual, attempts, run, wanted, slips>>
      BY <1>9, <2>1 DEF HookReturns
    <3>2. /\ stopper'[s] \in StopperType /\ stopper'[s].at = "waits"
          /\ stopper'[s].task = stopper[s].task
          /\ \A r \in Stoppers \ {s} : stopper'[r] = stopper[r]
      BY <3>1 DEF Types, StopperType
    <3>3. Types'
      BY <3>1, <3>2 DEF Types
    <3>4. RefsOK'
      BY <3>1, <3>2 DEF RefsOK, HandedOver, Exists
    <3>5. ASSUME "overtaken" \notin slips' PROVE OneRun' /\ StopsOK'
      BY <2>1, <3>1, <3>2, <3>5 DEF OneRun, StopsOK, HandedOver, Exists
    <3> QED BY <3>3, <3>4, <3>5
  <2>2. CASE stopper[s].task = None
    <3>1. /\ stopper' = [stopper EXCEPT ![s] = NoStop] /\ shown' = FALSE
          /\ task' = None /\ abort' = None /\ monitor' = MonitorAfter({s})
          /\ UNCHANGED <<hook, gate, manual, attempts, run, wanted, slips>>
          /\ stopper[s].at = "hook"
      BY <1>9, <2>2 DEF HookReturns
    <3>2. stopper'[s] = NoStop /\ \A r \in Stoppers \ {s} : stopper'[r] = stopper[r]
      BY <3>1 DEF Types
    <3>3. Types'
      BY <3>1, NoStopIdle DEF Types, MonitorAfter
    <3>4. RefsOK'
      BY <3>1, <3>2, NoStopIdle DEF RefsOK, HandedOver, Exists, Types, StopperType
    <3>5. ASSUME "overtaken" \notin slips' PROVE OneRun' /\ StopsOK'
      BY <2>2, <3>1, <3>2, <3>5, NoStopIdle DEF OneRun, StopsOK, HandedOver, Exists
    <3> QED BY <3>3, <3>4, <3>5
  <2> QED BY <2>1, <2>2
<1>10. ASSUME NEW s \in Stoppers, HookThrows(s) PROVE IInv'
  <2>1. /\ stopper' = [stopper EXCEPT ![s] = NoStop] /\ monitor' \in {"idle", monitor}
        /\ slips \subseteq slips' /\ UNCHANGED <<hook, store, flags, run, wanted>>
    BY <1>10 DEF HookThrows
  <2>2. stopper'[s] = NoStop /\ \A r \in Stoppers \ {s} : stopper'[r] = stopper[r]
    BY <2>1 DEF Types
  <2>3. Types'
    BY <2>1, NoStopIdle DEF Types, store, flags
  <2>4. RefsOK'
    BY <2>1, <2>2, NoStopIdle DEF RefsOK, HandedOver, Exists, store, Types, StopperType
  <2>5. ASSUME "overtaken" \notin slips' PROVE OneRun' /\ StopsOK'
    BY <2>1, <2>2, <2>5, NoStopIdle DEF OneRun, StopsOK, HandedOver, Exists, store, flags
  <2> QED BY <2>3, <2>4, <2>5
<1>11. ASSUME NEW s \in Stoppers, StopFinishes(s) PROVE IInv'
  <2>1. /\ stopper[s] = [at |-> "waits", task |-> None]
        /\ stopper' = [stopper EXCEPT ![s] = NoStop] /\ shown' = FALSE
        /\ task' = None /\ abort' = None /\ monitor' = MonitorAfter({s})
        /\ UNCHANGED <<hook, gate, manual, attempts, run, wanted, slips>>
    BY <1>11 DEF StopFinishes
  <2>2. stopper'[s] = NoStop /\ \A r \in Stoppers \ {s} : stopper'[r] = stopper[r]
    BY <2>1 DEF Types
  <2>3. Types'
    BY <2>1, NoStopIdle DEF Types, MonitorAfter
  <2>4. RefsOK'
    BY <2>1, <2>2, NoStopIdle DEF RefsOK, HandedOver, Exists, Types, StopperType
  <2>5. "overtaken" \in slips'
    BY <2>1 DEF StopsOK
  <2> QED BY <2>3, <2>4, <2>5
<1>12. CASE CheckUnhealthy
  BY <1>12, BeginStopKeeps DEF CheckUnhealthy, Types, Stoppers
<1>13. CASE CheckNotRunning
  BY <1>13 DEF CheckNotRunning, store, flags, Types, RefsOK, OneRun, StopsOK, Exists, HandedOver
<1>14. CASE MonitorStarts
  <2>1. CASE MayStart
    BY <1>14, <2>1, ReserveKeeps DEF MonitorStarts, Types
  <2>2. CASE ~MayStart
    BY <1>14, <2>2 DEF MonitorStarts, Types, RefsOK, OneRun, StopsOK, Exists, HandedOver
  <2> QED BY <2>1, <2>2
<1> QED
  BY <1>1, <1>2, <1>3, <1>4, <1>5, <1>6, <1>7, <1>8, <1>9, <1>10, <1>11, <1>12, <1>13, <1>14
  DEF Next

\* The inductive invariant of the channel manager.
THEOREM Invariance == Spec => []IInv
  BY InitIInv, StepIInv, PTL DEF Spec

\* Every state of the channel manager has its type, and what the store and the
\* stops refer to are runs that exist.
THEOREM Typing == Spec => []TypeOK
<1>1. IInv => TypeOK
  BY DEF IInv, Types, RefsOK, TypeOK, RunType, StopperType, HandedOver, Exists
<1> QED BY <1>1, Invariance, PTL

\* Overlapping starts, stops, crashes and restarts never boot the provider
\* twice for an account, unless a start overtook a stop.
THEOREM OneRunPerAccountHolds == Spec => []OneRunPerAccount
<1>1. ASSUME IInv, "overtaken" \notin slips PROVE Cardinality(Runs \ In("free")) <= 1
  <2> DEFINE R == Runs \ In("free")
  <2>1. \A n, m \in R : n = m
    BY <1>1 DEF IInv, OneRun, Exists, In
  <2>2. CASE R = {}
    <3>1. Cardinality(R) = 0
      BY <2>2, FS_EmptySet
    <3> QED BY <3>1
  <2>3. CASE R # {}
    <3>1. PICK n \in R : R = {n}
      BY <2>1, <2>3
    <3>2. Cardinality(R) = 1
      BY <3>1, FS_Singleton
    <3> QED BY <3>2
  <2> QED BY <2>2, <2>3
<1>2. IInv => OneRunPerAccount
  BY <1>1 DEF OneRunPerAccount
<1> QED BY <1>2, Invariance, PTL

---------------------------------------------------------------------------
(* The mark of a stop by hand.                                             *)

\* After a stop that was not one of the known slips the account is marked, the
\* monitor is at rest, and every run was told to end.
Stopped ==
  ~wanted /\ slips \cap {"overtaken", "overruled", "forgotten"} = {} =>
    /\ manual /\ monitor = "idle"
    /\ \A n \in Runs : Exists(n) => run[n].aborted

\* An account that is wanted is marked only for a restart by the monitor, or
\* until the start under way removes the mark.
Marked ==
  manual /\ wanted /\ "unsettled" \notin slips =>
    monitor # "idle" \/ (gate # None /\ ~run[gate].keep)

\* The monitor waits for its own stop.
MonitorStops == stopper["monitor"].at # "idle" => monitor = "stops"

MarkInv == Stopped /\ Marked /\ MonitorStops

\* A stop that begins tells every run to end.
LEMMA BeginStopMarks ==
  ASSUME IInv, NEW s \in Stoppers, BeginStop(s), UNCHANGED gate
  PROVE  /\ manual' = TRUE
         /\ "overtaken" \notin slips => \A n \in Runs : Exists(n)' => run'[n].aborted
<1>1. /\ manual' = TRUE
      /\ \A n \in Runs : run'[n] = IF Woken(n) THEN Free ELSE [run[n] EXCEPT !.aborted = @ \/ n = abort]
  BY DEF BeginStop, Told
<1>2. ASSUME "overtaken" \notin slips, NEW n \in Runs, Exists(n)' PROVE run'[n].aborted
  <2>1. ~Woken(n) /\ run'[n] = [run[n] EXCEPT !.aborted = @ \/ n = abort]
    BY <1>1, <1>2, FreeRun DEF Exists
  <2>2. run[n] \in RunType
    BY DEF IInv, Types
  <2>3. run'[n].st = run[n].st /\ (run'[n].aborted <=> run[n].aborted \/ n = abort)
    BY <2>1, <2>2 DEF RunType
  <2> QED BY <1>2, <2>3 DEF IInv, OneRun, Exists
<1> QED BY <1>1, <1>2

\* No mark is set at first.
LEMMA InitMark == Init => MarkInv
  BY NoStopIdle DEF Init, MarkInv, Stopped, Marked, MonitorStops, Stoppers

\* Every step keeps what the mark says of runs and stops.
LEMMA StepMark == IInv /\ MarkInv /\ [Next]_vars => MarkInv'
<1> SUFFICES ASSUME IInv, MarkInv, [Next]_vars PROVE MarkInv'
  OBVIOUS
<1> USE NoneIsNoRun, FreeRun, NoStopIdle DEF MarkInv, Stopped, Marked, MonitorStops
<1>1. CASE UNCHANGED vars
  BY <1>1 DEF vars, store, flags, Exists
<1>2. CASE StartRequest
  <2>1. Stopped' /\ MonitorStops'
    BY <1>2 DEF StartRequest
  <2>2. CASE MayStart
    <3>1. PICK n \in Runs : Reserve(n, FALSE)
      BY <1>2, <2>2 DEF StartRequest
    <3>2. gate' = n /\ ~run'[n].keep
      BY <3>1 DEF Reserve, IInv, Types
    <3> QED BY <2>1, <3>2
  <2>3. CASE ~MayStart
    BY <1>2, <2>1, <2>3 DEF StartRequest, flags, Slip
  <2> QED BY <2>2, <2>3
<1>3. CASE StopRequest
  <2>1. /\ wanted' = FALSE /\ monitor' = monitor /\ gate' = gate
        /\ slips' = slips \cup Slip("overruled", monitor # "idle") \cup Slip("forgotten", Nothing)
    BY <1>3 DEF StopRequest
  <2>2. CASE Nothing
    BY <1>3, <2>1, <2>2 DEF StopRequest, Slip
  <2>3. CASE ~Nothing
    <3>1. BeginStop("operator")
      BY <1>3, <2>3 DEF StopRequest
    <3>2. stopper'["monitor"] = stopper["monitor"]
      BY <3>1 DEF BeginStop, IInv, Types, Stoppers
    <3> QED BY <2>1, <3>1, <3>2, BeginStopMarks DEF Slip, Stoppers
  <2> QED BY <2>2, <2>3
<1>4. ASSUME NEW n \in Runs, Refused(n) PROVE MarkInv'
  <2>1. /\ run' = [run EXCEPT ![n] = Free] /\ slips' = slips \cup Slip("unsettled", manual)
        /\ UNCHANGED <<manual, monitor, wanted, stopper>>
    BY <1>4 DEF Refused, GiveUp
  <2> QED BY <2>1 DEF IInv, Types, Exists, Slip
<1>5. ASSUME NEW n \in Runs, Abandoned(n) PROVE MarkInv'
  <2>1. /\ run[n].st = "starting" /\ manual' = (manual /\ ~ForgetsManualStop(n))
        /\ run' = [run EXCEPT ![n] = Free] /\ gate' = Drop(gate, n)
        /\ slips' = slips \cup Slip("forgotten", manual /\ ~manual' /\ ~wanted)
        /\ UNCHANGED <<monitor, wanted, stopper>>
    BY <1>5 DEF Abandoned, GiveUp, In
  <2>2. Stopped' /\ MonitorStops'
    BY <2>1 DEF IInv, Types, Exists, Slip
  <2>3. gate = n
    BY <2>1 DEF IInv, RefsOK
  <2>4. Marked'
    BY <2>1, <2>3 DEF ForgetsManualStop, Slip
  <2> QED BY <2>2, <2>4
<1>6. ASSUME NEW n \in Runs, HandOver(n) PROVE MarkInv'
  <2>1. /\ run[n].st = "starting" /\ ~run[n].aborted /\ ~manual'
        /\ run' = [run EXCEPT ![n].st = "live"] /\ UNCHANGED <<monitor, wanted, slips, stopper>>
    BY <1>6 DEF HandOver, In
  <2> QED BY <2>1 DEF Exists
<1>7. ASSUME NEW n \in Runs, HandedOver(n), Settles(n), UNCHANGED <<gate, manual, wanted, slips>>
      PROVE  MarkInv'
  <2> DEFINE done == {s \in Stoppers : Waiting(s) /\ stopper[s].task = n}
             left(s) == [stopper[s] EXCEPT !.task = Drop(@, n)]
  <2>1. /\ run' = [run EXCEPT ![n] = Free] /\ monitor' = MonitorAfter(done)
        /\ stopper' = [s \in Stoppers |-> IF s \in done THEN NoStop ELSE left(s)]
    BY <1>7 DEF Settles
  <2>2. "monitor" \in done => monitor = "stops"
    BY DEF Waiting
  <2>3. "monitor" \in Stoppers /\ left("monitor").at = stopper["monitor"].at
    BY DEF IInv, Types, StopperType, Stoppers
  <2> HIDE DEF done, left
  <2>4. MonitorStops'
    BY <2>1, <2>2, <2>3 DEF MonitorAfter
  <2>5. /\ \A m \in Runs : Exists(m)' => Exists(m) /\ run'[m] = run[m]
        /\ \A m \in Runs \ {n} : run'[m] = run[m]
    BY <2>1 DEF IInv, Types, Exists
  <2>6. Stopped'
    BY <1>7, <2>1, <2>2, <2>5 DEF MonitorAfter
  <2>7. gate # n /\ (gate # None => gate \in Runs)
    BY <1>7 DEF IInv, Types, RefsOK, HandedOver
  <2>8. Marked'
    BY <1>7, <2>1, <2>2, <2>5, <2>7 DEF MonitorAfter
  <2> QED BY <2>4, <2>6, <2>8
<1>8. ASSUME NEW n \in Runs, RunEnds(n) PROVE MarkInv'
  <2>1. CASE EndsForGood(n)
    BY <1>7, <1>8, <2>1 DEF RunEnds, In, HandedOver
  <2>2. CASE ~EndsForGood(n)
    BY <1>8, <2>2 DEF RunEnds, EndsForGood
  <2> QED BY <2>1, <2>2
<1>9. ASSUME NEW n \in Runs, Wake(n) PROVE MarkInv'
  <2>1. CASE manual
    BY <1>7, <1>9, <2>1 DEF Wake, In, HandedOver
  <2>2. CASE ~manual
    <3>1. /\ stopper' = [s \in Stoppers |-> [stopper[s] EXCEPT !.task = Drop(@, n)]]
          /\ UNCHANGED <<manual, monitor, wanted, slips>>
      BY <1>9, <2>2 DEF Wake
    <3>2. stopper'["monitor"].at = stopper["monitor"].at
      BY <3>1 DEF IInv, Types, StopperType, Stoppers
    <3> QED BY <2>2, <3>1, <3>2
  <2> QED BY <2>1, <2>2
<1>10. ASSUME NEW s \in Stoppers, HookReturns(s) \/ StopFinishes(s) PROVE MarkInv'
  <2>1. /\ UNCHANGED <<gate, manual, run, wanted, slips>>
        /\ stopper[s].at # "idle"
        /\ \/ monitor' = monitor /\ stopper' = [stopper EXCEPT ![s].at = "waits"]
           \/ monitor' = MonitorAfter({s}) /\ stopper' = [stopper EXCEPT ![s] = NoStop]
    BY <1>10 DEF HookReturns, StopFinishes
  <2>2. s = "monitor" => monitor = "stops"
    BY <2>1
  <2>3. MonitorStops'
    BY <2>1, <2>2 DEF MonitorAfter, IInv, Types, Stoppers
  <2>4. Stopped' /\ Marked'
    BY <2>1, <2>2 DEF MonitorAfter, Exists
  <2> QED BY <2>3, <2>4
<1>11. ASSUME NEW s \in Stoppers, HookThrows(s) PROVE MarkInv'
  <2>1. /\ stopper' = [stopper EXCEPT ![s] = NoStop] /\ UNCHANGED <<run, wanted, manual>>
        /\ monitor' = (IF s = "monitor" THEN "idle" ELSE monitor)
        /\ slips' = slips \cup Slip("unsettled", TRUE)
    BY <1>11 DEF HookThrows, flags
  <2> QED BY <2>1 DEF IInv, Types, Stoppers, Slip, Exists
<1>12. CASE CheckUnhealthy
  <2>1. /\ BeginStop("monitor") /\ ~manual /\ monitor = "idle" /\ UNCHANGED <<gate, wanted, slips>>
        /\ monitor' = IF stopper'["monitor"] = NoStop THEN "start" ELSE "stops"
    BY <1>12 DEF CheckUnhealthy
  <2> QED BY <2>1
<1>13. CASE CheckNotRunning
  BY <1>13 DEF CheckNotRunning, LeavesAlone, store, flags
<1>14. CASE MonitorStarts
  <2>1. Stopped' /\ MonitorStops'
    BY <1>14 DEF MonitorStarts
  <2>2. CASE MayStart
    <3>1. PICK n \in Runs : Reserve(n, FALSE)
      BY <1>14, <2>2 DEF MonitorStarts
    <3>2. gate' = n /\ ~run'[n].keep
      BY <3>1 DEF Reserve, IInv, Types
    <3> QED BY <2>1, <3>2
  <2>3. CASE ~MayStart
    BY <1>14, <2>1, <2>3 DEF MonitorStarts, Slip
  <2> QED BY <2>2, <2>3
<1> QED
  BY <1>1, <1>2, <1>3, <1>4, <1>5, <1>6, <1>8, <1>9, <1>10, <1>11, <1>12, <1>13, <1>14 DEF Next

\* What the mark says of runs and stops always holds.
LEMMA MarkInvariance == Spec => []MarkInv
  BY InitMark, StepMark, Invariance, PTL DEF Spec

\* Once a stop was asked for, every run was told to end and none comes back,
\* unless one of the three known slips happened.
THEOREM StoppedStaysStoppedHolds == Spec => []StoppedStaysStopped
<1>1. MarkInv => StoppedStaysStopped
  BY DEF MarkInv, Stopped, StoppedStaysStopped, Exists, In
<1> QED BY <1>1, MarkInvariance, PTL

\* An account that is wanted is not left marked as stopped by hand, unless a
\* start was ignored while it was marked or a restart failed half-way.
THEOREM MarkedOnlyIfStoppedHolds == Spec => []MarkedOnlyIfStopped
<1>1. IInv /\ MarkInv => MarkedOnlyIfStopped
  BY NoneIsNoRun DEF IInv, Types, RefsOK, MarkInv, Marked, MarkedOnlyIfStopped, In
<1> QED BY <1>1, Invariance, MarkInvariance, PTL
===============================================================================
