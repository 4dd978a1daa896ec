----------------------------- MODULE CronService -----------------------------
(***************************************************************************)
(* The cron service (cron/service/ops.ts, timer.ts, jobs.ts): jobs kept in *)
(* a file, read into memory once and again at every tick of the timer.     *)
(*                                                                         *)
(* Every operation is one or more sections under a lock that all services  *)
(* of the store share (locked.ts); a section is one step here.  Jobs run   *)
(* between sections: a tick marks the due jobs, runs them, reads the file  *)
(* again and applies the results; a start does the same for missed jobs,   *)
(* on the copy in memory; a manual run marks and finishes one job.  The    *)
(* operations of the user come between.  A configuration reload stops the  *)
(* timer of the service and starts another one; the former one goes on     *)
(* with what it is doing, and the requests of the user go on reaching the  *)
(* first service of the gateway, which sets its timer again.  A crash      *)
(* leaves only the file.                                                   *)
(*                                                                         *)
(* Time is a few ticks.  A recurring job is due at each tick, an error's   *)
(* back-off and the stagger of deferred jobs last one tick, a one-shot     *)
(* that succeeds is deleted, and one that ends otherwise is retried or     *)
(* disabled.  Nothing but the job ends an execution: the timeout of        *)
(* executeJobCoreWithTimeout is cleared as soon as it is set.  Edits of    *)
(* other fields than the schedule and refused file operations are left out.*)
(***************************************************************************)
EXTENDS Integers, FiniteSets

CONSTANTS
  Jobs,
  KindOf,       \* "every", "cron" or "at"
  AtTime,       \* when a one-shot is due
  Concurrency,  \* maxConcurrentRuns
  MaxMissed,    \* maxMissedJobsPerRestart
  StuckAfter,   \* STUCK_RUN_MS in ticks
  MaxTime,      \* bound on the clock
  MaxServices,  \* bound on services in one life of the gateway
  MaxOps,       \* bound on operations of the user
  MaxFaults     \* bound on reloads and crashes

Services == 1..MaxServices
Slots == 1..Concurrency    \* of the cron lane
Front == 1   \* the service that requests reach: their context keeps the first
None == -1
Nobody == "nobody"

ASSUME CronServiceAssumption ==
  /\ IsFiniteSet(Jobs) /\ Nobody \notin Jobs
  /\ KindOf \in [Jobs -> {"every", "cron", "at"}]
  /\ AtTime \in [Jobs -> 0..MaxTime]
  /\ Concurrency \in Nat \ {0} /\ MaxServices \in Nat \ {0}
  /\ MaxMissed \in Nat /\ StuckAfter \in Nat /\ MaxTime \in Nat
  /\ MaxOps \in Nat /\ MaxFaults \in Nat

VARIABLES
  now,
  disk,     \* the file
  mem,      \* the store in the memory of each service
  phase,    \* how far each service has started
  skip,     \* the jobs a start found marked
  batch,    \* the jobs a service is running, at its start and in a tick
  held,     \* the tick's jobs are still those in memory
  timer,    \* the timer of each service is set
  tick,     \* how far the tick of each service is
  manual,   \* the manual run in each slot of the cron lane
  current,  \* the service started last, or 0
  ops,
  faults,
  slips     \* why a job under way may have lost its mark

stores == <<disk, mem>>
counts == <<ops, faults>>
vars == <<now, disk, mem, phase, skip, batch, held, timer, tick, manual, current, counts, slips>>

Gone == [gone |-> TRUE]
BatchOf(first, later) == [todo |-> first, going |-> {}, done |-> {}, later |-> later]
NoBatch == BatchOf({}, {})
NoManual == [at |-> "idle", job |-> Nobody, started |-> None, ended |-> None, outcome |-> "none"]
Batches == {"start", "tick"}

Fresh(j) == [on |-> TRUE, next |-> IF KindOf[j] = "at" THEN AtTime[j] ELSE now + 1,
             mark |-> None, last |-> None]

\* The file of a former life: some jobs are due, some a crash left marked.
FileOf(there, due, marked) ==
  [j \in Jobs |-> IF j \notin there THEN Gone
                  ELSE [Fresh(j) EXCEPT !.next = IF j \in due THEN 0 ELSE @,
                                        !.mark = IF j \in marked THEN 0 ELSE @]]

Init ==
  /\ now = 0
  /\ \E there, due, marked \in SUBSET Jobs :
       /\ marked \subseteq due /\ due \subseteq there
       /\ \A j \in due : KindOf[j] # "at"
       /\ disk = FileOf(there, due, marked)
  /\ mem = [s \in Services |-> [j \in Jobs |-> Gone]]
  /\ phase = [s \in Services |-> "off"]
  /\ skip = [s \in Services |-> {}]
  /\ batch = [s \in Services |-> [k \in Batches |-> NoBatch]]
  /\ held = [s \in Services |-> FALSE]
  /\ timer = [s \in Services |-> FALSE]
  /\ tick = [s \in Services |-> "idle"]
  /\ manual = [w \in Slots |-> NoManual]
  /\ current = 0
  /\ ops = 0 /\ faults = 0
  /\ slips = {}

Going(j) == {p \in Services \X Batches : \E x \in batch[p[1]][p[2]].going : x.job = j}
            \cup {<<w, "manual">> : w \in {v \in Slots : manual[v].at = "going" /\ manual[v].job = j}}
JobsOf(b) == b.todo \cup {x.job : x \in b.going} \cup {x.job : x \in b.done}
Reserved == {w \in Slots : manual[w].at \in {"going", "ended"}}
InManual == {manual[w].job : w \in Reserved}
UnderWay == (UNION {JobsOf(batch[s][k]) : s \in Services, k \in Batches})
            \cup InManual
Running(s) == tick[s] # "idle"

---------------------------------------------------------------------------
(* Jobs and schedules (jobs.ts).                                           *)

Has(job) == job # Gone
Scheduled(job) == Has(job) /\ job.on /\ job.next # None
IsDue(job) == Scheduled(job) /\ job.next <= now

\* Mutant: the next run of a recurring job is one tick too late.
ComputeNextLate(j, job) ==
  IF ~job.on THEN None ELSE IF KindOf[j] = "at" THEN AtTime[j] ELSE now + 2

ComputeNext(j, job) ==
  IF ~job.on THEN None ELSE IF KindOf[j] = "at" THEN AtTime[j] ELSE now + 1

\* normalizeJobTickState: a mark that is too old is taken for a crash's.
Normalized(job) ==
  IF ~job.on THEN [job EXCEPT !.next = None, !.mark = None]
  ELSE IF job.mark # None /\ now - job.mark > StuckAfter THEN [job EXCEPT !.mark = None]
  ELSE job

Rescheduled(j, job) == [job EXCEPT !.next = ComputeNext(j, job)]

\* recomputeNextRuns.
Recomputed(S) ==
  [j \in Jobs |->
    IF ~Has(S[j]) THEN Gone
    ELSE LET n == Normalized(S[j]) IN
         IF n.on /\ (n.next = None \/ n.next <= now) THEN Rescheduled(j, n) ELSE n]

\* Mutant: every slot that has passed is recomputed.
AdvanceAll(n) == n.next <= now /\ n.mark = None

\* A slot that has passed is recomputed only when it was executed.
Executed(n) == n.next <= now /\ n.mark = None /\ n.last >= n.next

\* recomputeNextRunsForMaintenance.
Maintained(S, expired) ==
  [j \in Jobs |->
    IF ~Has(S[j]) THEN Gone
    ELSE LET n == Normalized(S[j]) IN
         IF n.on /\ (n.next = None \/ (expired /\ Executed(n))) THEN Rescheduled(j, n) ELSE n]

\* applyJobResult: deleted, retried, disabled or due again.
Applied(j, job, r) ==
  LET ran == [job EXCEPT !.mark = None, !.last = r.started] IN
  CASE r.outcome = "ok" /\ KindOf[j] = "at" -> Gone
    [] r.outcome = "retry" -> [ran EXCEPT !.next = r.ended + 1]
    [] r.outcome = "stop" -> [ran EXCEPT !.on = FALSE, !.next = None]
    [] OTHER -> [ran EXCEPT !.next = IF job.on THEN r.ended + 1 ELSE None]

Outcomes(j) == IF KindOf[j] = "at" THEN {"ok", "retry", "stop"} ELSE {"ok"}

\* applyOutcomeToStoredJob for a batch: the result of a job that is gone is
\* dropped.
AppliedAll(S, results) ==
  [j \in Jobs |->
    IF Has(S[j]) /\ \E r \in results : r.job = j
    THEN Applied(j, S[j], CHOOSE r \in results : r.job = j)
    ELSE S[j]]

Marked(S, J) == [j \in Jobs |-> IF j \in J THEN [S[j] EXCEPT !.mark = now] ELSE S[j]]

Runnable(job) == IsDue(job) /\ job.mark = None

\* isRunnableJob at a start: a one-shot that ran counts only as a retry, and
\* a cron slot since the last run as missed.
Missed(j, job) ==
  /\ Has(job) /\ job.on /\ job.mark = None
  /\ IF KindOf[j] = "at" /\ job.last # None
     THEN job.next > job.last /\ IsDue(job)
     ELSE IsDue(job) \/ (KindOf[j] = "cron" /\ job.last # None /\ now > job.last)

\* Mutant: no timer for a run that is due already.
ArmForFuture(s) ==
  timer' = [timer EXCEPT ![s] = \E j \in Jobs : Scheduled(mem'[s][j]) /\ mem'[s][j].next > now]

\* armTimer: it fires at the next run, or within a minute.
ArmTimer(s) == timer' = [timer EXCEPT ![s] = \E j \in Jobs : Scheduled(mem'[s][j])]

\* What a section leaves in memory, and in the file if it is saved.
Store(s, S) == mem' = [mem EXCEPT ![s] = S]
Persist(s, S) == Store(s, S) /\ disk' = S

---------------------------------------------------------------------------
(* The clock, and the lives of services.                                   *)

Aged(j) == Has(disk[j]) /\ disk[j].mark # None /\ now' - disk[j].mark > StuckAfter

\* Between the two sections of a manual run only the lock is waited for.
ClockTick ==
  /\ now < MaxTime /\ \A w \in Slots : manual[w].at # "inspected"
  /\ now' = now + 1
  /\ slips' = slips \cup {why \in {"aged"} : \E j \in UnderWay : Aged(j)}
  /\ UNCHANGED <<stores, phase, skip, batch, held, timer, tick, manual, current, counts>>

\* The start of the gateway, at first and after a crash.
Launch ==
  /\ current = 0
  /\ current' = 1
  /\ phase' = [phase EXCEPT ![1] = "new"]
  /\ UNCHANGED <<now, stores, skip, batch, held, timer, tick, manual, counts, slips>>

\* applyHotReload: the service loses its timer and another one takes over; it
\* goes on with what it is doing, and sets its timer again where that ends so.
Reload ==
  /\ current # 0 /\ current < MaxServices /\ faults < MaxFaults
  /\ faults' = faults + 1
  /\ current' = current + 1
  /\ phase' = [phase EXCEPT ![current + 1] = "new"]
  /\ timer' = [timer EXCEPT ![current] = FALSE]
  /\ UNCHANGED <<now, stores, skip, batch, held, tick, manual, ops, slips>>

Crash ==
  /\ current # 0 /\ faults < MaxFaults
  /\ faults' = faults + 1
  /\ current' = 0
  /\ phase' = [s \in Services |-> "off"]
  /\ mem' = [s \in Services |-> [j \in Jobs |-> Gone]]
  /\ skip' = [s \in Services |-> {}]
  /\ batch' = [s \in Services |-> [k \in Batches |-> NoBatch]]
  /\ held' = [s \in Services |-> FALSE]
  /\ timer' = [s \in Services |-> FALSE]
  /\ tick' = [s \in Services |-> "idle"]
  /\ manual' = [w \in Slots |-> NoManual]
  /\ slips' = {}
  /\ UNCHANGED <<now, disk, ops>>

---------------------------------------------------------------------------
(* start: marks of a crash are cleared, missed jobs run, and then the      *)
(* timer is set.                                                           *)

StartClears(s) ==
  /\ phase[s] = "new"
  /\ phase' = [phase EXCEPT ![s] = "plan"]
  /\ skip' = [skip EXCEPT ![s] = {j \in Jobs : Has(disk[j]) /\ disk[j].mark # None}]
  /\ Persist(s, [j \in Jobs |-> IF Has(disk[j]) THEN [disk[j] EXCEPT !.mark = None] ELSE Gone])
  /\ UNCHANGED <<now, batch, held, timer, tick, manual, current, counts, slips>>

\* planStartupCatchup: the earliest of the missed jobs run now.
StartPlans(s) ==
  LET missed == {j \in Jobs \ skip[s] : Missed(j, mem[s][j])} IN
  /\ phase[s] = "plan"
  /\ IF missed = {}
     THEN phase' = [phase EXCEPT ![s] = "final"] /\ UNCHANGED <<stores, batch>>
     ELSE \E first \in SUBSET missed :
            /\ Cardinality(first) = IF Cardinality(missed) < MaxMissed
                                    THEN Cardinality(missed) ELSE MaxMissed
            /\ \A i \in first, j \in missed \ first : mem[s][i].next <= mem[s][j].next
            /\ phase' = [phase EXCEPT ![s] = "catchup"]
            /\ batch' = [batch EXCEPT ![s]["start"] = BatchOf(first, missed \ first)]
            /\ Persist(s, Marked(mem[s], first))
  /\ skip' = [skip EXCEPT ![s] = {}]
  /\ UNCHANGED <<now, held, timer, tick, manual, current, counts, slips>>

Workers(k) == IF k = "start" THEN 1 ELSE Concurrency

\* runDueJob and runStartupCatchupCandidate: a tick's job notes in memory, if
\* it is still there, when it really started.
JobStarts(s, k, j) ==
  /\ j \in batch[s][k].todo
  /\ Cardinality(batch[s][k].going) < Workers(k)
  /\ batch' = [batch EXCEPT ![s][k].todo = @ \ {j},
                            ![s][k].going = @ \cup {[job |-> j, started |-> now]}]
  /\ mem' = IF k = "tick" /\ held[s] /\ Has(mem[s][j])
            THEN [mem EXCEPT ![s][j].mark = now] ELSE mem
  /\ UNCHANGED <<now, disk, phase, skip, held, timer, tick, manual, current, counts, slips>>

JobEnds(s, k, j) ==
  \E x \in batch[s][k].going, o \in Outcomes(j) :
    /\ x.job = j
    /\ batch' = [batch EXCEPT ![s][k].going = @ \ {x},
                  ![s][k].done = @ \cup {[job |-> j, started |-> x.started,
                                          ended |-> now, outcome |-> o]}]
    /\ UNCHANGED <<now, stores, phase, skip, held, timer, tick, manual, current, counts, slips>>

AllDone(b) == b # NoBatch /\ b.todo = {} /\ b.going = {}

\* applyStartupCatchupOutcomes: on the copy in memory; deferred jobs are due a
\* little later.
StartApplies(s) ==
  LET b == batch[s]["start"]
      applied == AppliedAll(mem[s], b.done)
      staggered == [j \in Jobs |-> IF j \in b.later /\ Has(applied[j]) /\ applied[j].on
                                   THEN [applied[j] EXCEPT !.next = now + 1] ELSE applied[j]] IN
  /\ phase[s] = "catchup" /\ AllDone(b)
  /\ phase' = [phase EXCEPT ![s] = "final"]
  /\ batch' = [batch EXCEPT ![s]["start"] = NoBatch]
  /\ Persist(s, Maintained(staggered, FALSE))
  /\ UNCHANGED <<now, skip, held, timer, tick, manual, current, counts, slips>>

\* Every run that is due by now is moved on.
StartFinishes(s) ==
  /\ phase[s] = "final"
  /\ phase' = [phase EXCEPT ![s] = "up"]
  /\ LET S == Recomputed(mem[s]) IN
     /\ Store(s, S)
     /\ disk' = IF S # mem[s] THEN S ELSE disk
  /\ ArmTimer(s)
  /\ UNCHANGED <<now, skip, batch, held, tick, manual, current, counts, slips>>

---------------------------------------------------------------------------
(* onTimer: the tick claims the due jobs, runs them, applies the results   *)
(* and then, after the sweep of sessions, sets the timer.  Meanwhile a     *)
(* timer that fires only sets itself again.                                *)

TimerFires(s) ==
  /\ timer[s] /\ ~Running(s)
  /\ tick' = [tick EXCEPT ![s] = "fired"]
  /\ UNCHANGED <<now, stores, phase, skip, batch, held, timer, manual, current, counts, slips>>

DueOnDisk == {j \in Jobs : Runnable(disk[j])}

TickFindsNothing(s) ==
  /\ tick[s] = "fired"
  /\ DueOnDisk = {}
  /\ LET S == Maintained(disk, TRUE) IN Persist(s, S)
  /\ tick' = [tick EXCEPT ![s] = "swept"]
  /\ UNCHANGED <<now, phase, skip, batch, held, timer, manual, current, counts, slips>>

TickClaims(s) ==
  /\ tick[s] = "fired"
  /\ DueOnDisk # {}
  /\ Persist(s, Marked(disk, DueOnDisk))
  /\ batch' = [batch EXCEPT ![s]["tick"] = BatchOf(DueOnDisk, {})]
  /\ held' = [held EXCEPT ![s] = TRUE]
  /\ tick' = [tick EXCEPT ![s] = "claimed"]
  /\ UNCHANGED <<now, phase, skip, timer, manual, current, counts, slips>>

TickApplies(s) ==
  /\ tick[s] = "claimed" /\ AllDone(batch[s]["tick"])
  /\ Persist(s, Maintained(AppliedAll(disk, batch[s]["tick"].done), FALSE))
  /\ batch' = [batch EXCEPT ![s]["tick"] = NoBatch]
  /\ held' = [held EXCEPT ![s] = FALSE]
  /\ tick' = [tick EXCEPT ![s] = "swept"]
  /\ UNCHANGED <<now, phase, skip, timer, manual, current, counts, slips>>

\* The end of the finally block, of a service that was stopped meanwhile too.
TickEnds(s) ==
  /\ tick[s] = "swept"
  /\ tick' = [tick EXCEPT ![s] = "idle"]
  /\ UNCHANGED <<now, stores, phase, skip, batch, held, manual, current, counts, slips>>
  /\ ArmTimer(s)

---------------------------------------------------------------------------
(* Operations of the user, on the copy in memory of the first service.     *)

Operates(s) == s = Front /\ phase[s] \notin {"off", "new"} /\ ops < MaxOps
Counted == ops' = ops + 1 /\ UNCHANGED faults

\* list, listPage and status.
List(s) ==
  LET S == Maintained(mem[s], FALSE) IN
  /\ Operates(s) /\ Counted
  /\ S # mem[s]
  /\ Persist(s, S)
  /\ UNCHANGED <<now, phase, skip, batch, held, timer, tick, manual, current, slips>>

\* The new job is another one: nothing of an old one is under way.
Add(s, j) ==
  /\ Operates(s) /\ Counted
  /\ ~Has(disk[j]) /\ \A r \in Services : ~Has(mem[r][j])
  /\ j \notin UnderWay
  /\ \A w \in Slots : manual[w].job # j
  /\ KindOf[j] = "at" => AtTime[j] > now
  /\ Persist(s, Recomputed([mem[s] EXCEPT ![j] = Fresh(j)]))
  /\ ArmTimer(s)
  /\ UNCHANGED <<now, phase, skip, batch, held, tick, manual, current, slips>>

\* update with a new schedule, or with the job switched on or off.
Update(s, j, on) ==
  LET patched == [mem[s][j] EXCEPT !.on = on] IN
  /\ Operates(s) /\ Counted
  /\ Has(mem[s][j])
  /\ Persist(s, [mem[s] EXCEPT ![j] =
       IF on THEN Rescheduled(j, patched) ELSE [patched EXCEPT !.next = None, !.mark = None]])
  /\ ArmTimer(s)
  /\ slips' = slips \cup {why \in {"off"} : ~on /\ j \in UnderWay}
  /\ UNCHANGED <<now, phase, skip, batch, held, tick, manual, current>>

Remove(s, j) ==
  /\ Operates(s) /\ Counted
  /\ Has(mem[s][j])
  /\ Persist(s, [mem[s] EXCEPT ![j] = Gone])
  /\ ArmTimer(s)
  /\ UNCHANGED <<now, phase, skip, batch, held, tick, manual, current, slips>>

\* enqueueRun inspects the job, and prepareManualRun again when the cron lane
\* lets the run begin: at once, or when a slot of the lane gets free.
ManualRun(s, j) ==
  LET S == Maintained(mem[s], FALSE) IN
  /\ Operates(s) /\ Counted
  /\ Has(S[j]) /\ S[j].mark = None
  /\ Store(s, S)
  /\ \E w \in Slots :
       /\ manual[w] = NoManual
       /\ manual' = [manual EXCEPT ![w] =
            [NoManual EXCEPT !.at = "inspected", !.job = j, !.started = now]]
  /\ UNCHANGED <<now, disk, phase, skip, batch, held, timer, tick, current, slips>>

\* Mutant: the second section does not look at the mark again.
UnmarkedBefore(job) == Has(job)

Unmarked(job) == Has(job) /\ job.mark = None

\* The second section of prepareManualRun.
ManualReserves(w) ==
  LET s == Front
      j == manual[w].job IN
  /\ manual[w].at = "inspected"
  /\ IF Unmarked(mem[s][j])
     THEN /\ Persist(s, [mem[s] EXCEPT ![j].mark = manual[w].started])
          /\ manual' = [manual EXCEPT ![w].at = "going"]
          /\ slips' = slips \cup {why \in {"off"} : ~mem[s][j].on}
     ELSE UNCHANGED <<stores, slips>> /\ manual' = [manual EXCEPT ![w] = NoManual]
  /\ UNCHANGED <<now, phase, skip, batch, held, timer, tick, current, counts>>

ManualEnds(w) ==
  /\ manual[w].at = "going"
  /\ \E o \in Outcomes(manual[w].job) :
       manual' = [manual EXCEPT ![w].at = "ended", ![w].ended = now, ![w].outcome = o]
  /\ UNCHANGED <<now, stores, phase, skip, batch, held, timer, tick, current, counts, slips>>

\* finishPreparedManualRun: the job as it is in memory gets the result and
\* replaces the one in the file.
ManualFinishes(w) ==
  LET s == Front
      j == manual[w].job
      merged == [disk EXCEPT ![j] = IF Has(@) THEN Applied(j, mem[s][j], manual[w]) ELSE @] IN
  /\ manual[w].at = "ended"
  /\ manual' = [manual EXCEPT ![w] = NoManual]
  /\ IF Has(mem[s][j])
     THEN /\ Persist(s, Maintained(merged, TRUE))
          /\ ArmTimer(s)
          /\ held' = [held EXCEPT ![s] = FALSE]
     ELSE UNCHANGED <<stores, timer, held>>
  /\ UNCHANGED <<now, phase, skip, batch, tick, current, counts, slips>>

---------------------------------------------------------------------------
StartStep(s) == StartClears(s) \/ StartPlans(s) \/ StartApplies(s) \/ StartFinishes(s)
TimerStep(s) ==
  TimerFires(s) \/ TickFindsNothing(s) \/ TickClaims(s) \/ TickApplies(s) \/ TickEnds(s)
ManualStep(w) == ManualReserves(w) \/ ManualFinishes(w)

Next ==
  \/ ClockTick \/ Launch \/ Reload \/ Crash
  \/ \E s \in Services :
       \/ StartStep(s) \/ TimerStep(s) \/ List(s)
       \/ \E j \in Jobs :
            \/ \E k \in Batches : JobStarts(s, k, j) \/ JobEnds(s, k, j)
            \/ Add(s, j) \/ Remove(s, j) \/ ManualRun(s, j)
            \/ \E on \in BOOLEAN : Update(s, j, on)
  \/ \E w \in Slots : ManualStep(w) \/ ManualEnds(w)

Spec == Init /\ [][Next]_vars

\* Sections get the lock, timers fire and a batch's jobs are taken up, but a job
\* may take for ever.
Starts(s) == \E k \in Batches, j \in Jobs : JobStarts(s, k, j)
Fairness ==
  /\ \A s \in Services : WF_vars(StartStep(s)) /\ WF_vars(TimerStep(s)) /\ WF_vars(Starts(s))
  /\ \A w \in Slots : WF_vars(ManualStep(w))
  /\ WF_vars(Launch)

FairSpec == Spec /\ Fairness

---------------------------------------------------------------------------
(* Properties.                                                             *)

Times == {None} \cup 0..(MaxTime + 1)
JobType == [on : BOOLEAN, next : Times, mark : Times, last : Times] \cup {Gone}
Result == [job : Jobs, started : Times, ended : 0..MaxTime, outcome : {"ok", "retry", "stop"}]
BatchType == [todo : SUBSET Jobs, later : SUBSET Jobs,
              going : SUBSET [job : Jobs, started : Times], done : SUBSET Result]
ManualType == {NoManual}
  \cup [at : {"inspected", "going"}, job : Jobs, started : 0..MaxTime,
        ended : {None}, outcome : {"none"}]
  \cup [at : {"ended"}, job : Jobs, started : 0..MaxTime, ended : 0..MaxTime,
        outcome : {"ok", "retry", "stop"}]

TypeOK ==
  /\ now \in 0..MaxTime /\ ops \in 0..MaxOps /\ faults \in 0..MaxFaults
  /\ current \in {0} \cup Services
  /\ disk \in [Jobs -> JobType]
  /\ mem \in [Services -> [Jobs -> JobType]]
  /\ phase \in [Services -> {"off", "new", "plan", "catchup", "final", "up"}]
  /\ skip \in [Services -> SUBSET Jobs]
  /\ batch \in [Services -> [Batches -> BatchType]]
  /\ \A s \in Services, k \in Batches : Cardinality(batch[s][k].going) <= Concurrency
  /\ held \in [Services -> BOOLEAN] /\ timer \in [Services -> BOOLEAN]
  /\ tick \in [Services -> {"idle", "fired", "claimed", "swept"}]
  /\ manual \in [Slots -> ManualType]
  /\ slips \subseteq {"aged", "off"}

\* ops.ts:539-540 and timer.ts: until a reload starts another service, the mark
\* keeps a job from being started a second time while it runs, whether by a
\* tick, by the catch-up of a start or by hand - unless the mark may have been
\* lost because the job was off or switched off, or ran for longer than the
\* age at which marks are cleared.
OneService == current <= 1
OneRunPerJob == OneService /\ slips = {} => \A j \in Jobs : Cardinality(Going(j)) <= 1

\* Until a reload, a run that is due is not passed over: its time in the file
\* moves on only when the job ran at or after it, or was running as it came, when the user
\* changes that job, or when a start defers it by the stagger.  The two
\* recomputations that do pass it over are the last step of a start and the
\* addition of another job.
DueNeverSkipped ==
  [][\A j \in Jobs :
       OneService /\ IsDue(disk[j]) /\ Scheduled(disk'[j]) =>
         \/ disk'[j].next = disk[j].next
         \/ disk'[j].last >= disk[j].next \/ j \in UnderWay
         \/ \E s \in Services :
              \/ StartApplies(s) /\ j \in batch[s]["start"].later
              \/ StartFinishes(s) \/ \E i \in Jobs : Add(s, i)
              \/ \E on \in BOOLEAN : Update(s, j, on)]_vars

\* The scheduler never falls asleep over a job: one that is due and not marked
\* always has a service that will come to it - a timer, a tick at work, which
\* sets its timer at its end, or a start, which does so too - however many
\* services reloads have started.  Where a manual run writes the jobs of the
\* first service, which has been stopped, back into the file, it is the end of
\* this run that sets a timer.
Awake(s) == timer[s] \/ Running(s) \/ phase[s] \notin {"off", "up"}
NeverAsleep ==
  current # 0 /\ DueOnDisk # {} =>
    (\E s \in Services : Awake(s)) \/ (Reserved # {} /\ ~OneService)

\* timeout-policy.ts:4-6: the time limit of an execution is there "to prevent
\* one stuck job from wedging the entire cron lane": once the service is up, a
\* job that is due runs though another one never ends.
OthersGoOn ==
  \A j \in Jobs :
    IsDue(disk[j]) /\ j \notin UnderWay /\ (\E s \in Services : phase[s] = "up") ~>
      ~IsDue(disk[j]) \/ j \in UnderWay

---------------------------------------------------------------------------
(* What the properties rest on.                                            *)

\* Services are numbered in the order of their start; one that is off or has
\* not loaded its jobs does nothing else.
Loaded(s) == phase[s] \notin {"off", "new"}
Lives ==
  /\ \A s \in Services : s > current => phase[s] = "off"
  /\ \A s \in Services : ~Loaded(s) =>
       ~timer[s] /\ tick[s] = "idle" /\ batch[s]["start"] = NoBatch
  /\ \A s \in Services : phase[s] # "catchup" => batch[s]["start"] = NoBatch
  /\ \A s \in Services : tick[s] # "claimed" => batch[s]["tick"] = NoBatch
  /\ ~Loaded(Front) => \A w \in Slots : manual[w] = NoManual

\* No batch runs more jobs than it has workers.
Bounded ==
  \A s \in Services, k \in Batches :
    IsFiniteSet(batch[s][k].going) /\ Cardinality(batch[s][k].going) <= Concurrency

\* A job that is on has a next run, and marks are not of the future.
Timely(job) == Has(job) => (job.on => job.next # None) /\ job.mark <= now
Timed ==
  /\ \A j \in Jobs : Timely(disk[j]) /\ \A s \in Services : Timely(mem[s][j])
  /\ \A w \in Slots : manual[w].at = "inspected" => manual[w].started = now

\* With one service, its memory and the file tell the same of the jobs.
SameJob(a, b) ==
  /\ Has(a) <=> Has(b)
  /\ Has(a) => a.on = b.on /\ (a.on => a.next = b.next)
InStep == OneService /\ Loaded(1) => \A j \in Jobs : SameJob(mem[1][j], disk[j])

\* A job under way is on, and marked for no longer than marks last.
KeptMark(j) ==
  /\ disk[j].on /\ disk[j].mark # None /\ now - disk[j].mark <= StuckAfter
  /\ mem[1][j].mark >= disk[j].mark
Calm == OneService /\ slips = {}
MarkedUnderWay == Calm => \A j \in UnderWay : Has(disk[j]) => KeptMark(j)

\* It is under way in one place.
OnePlace ==
  Calm =>
    LET start == JobsOf(batch[1]["start"])
        ticking == JobsOf(batch[1]["tick"]) IN
    /\ start \cap ticking = {} /\ start \cap InManual = {} /\ ticking \cap InManual = {}
    /\ \A v, w \in Reserved : manual[v].job = manual[w].job => v = w

\* Who will come to the jobs in the file, and to those in memory.
Plans(s) == \E j \in Jobs : Scheduled(mem[s][j])
WillCome(s) ==
  \/ phase[s] = "new" \/ tick[s] \in {"fired", "claimed"}
  \/ phase[s] = "up" /\ tick[s] = "idle" /\ timer[s]
  \/ (phase[s] \notin {"off", "up"} \/ tick[s] = "swept") /\ Plans(s)
StaleManual == ~OneService /\ \E w \in Reserved : Has(mem[Front][manual[w].job])
Watched ==
  current # 0 =>
    /\ (\E j \in Jobs : Scheduled(disk[j])) => StaleManual \/ \E s \in Services : WillCome(s)
    /\ phase[current] = "up" => timer[current] \/ Running(current) \/ ~Plans(current)

\* Every section leaves jobs that are off without a next run.
Tidy(job) == Has(job) /\ ~job.on => job.next = None
Tidied == \A j \in Jobs : Tidy(disk[j]) /\ \A s \in Services : Tidy(mem[s][j])

\* With one service only jobs under way are marked; when the first service has
\* been stopped and has no timer, only those of manual runs are in its memory.
MarksIn(S) == {j \in Jobs : Has(S[j]) /\ S[j].mark # None}
Unwatched(s) == phase[s] = "up" /\ ~timer[s] /\ ~Running(s) /\ Plans(s)
OwnMarks ==
  IF OneService
  THEN phase[1] \notin {"off", "new"} =>
         MarksIn(mem[1]) \subseteq UnderWay /\ MarksIn(disk) \subseteq UnderWay
  ELSE Unwatched(Front) => MarksIn(mem[Front]) \subseteq InManual

IInv ==
  TypeOK /\ Bounded /\ Lives /\ Timed /\ InStep /\ MarkedUnderWay /\ OnePlace /\ Watched /\ Tidied
  /\ OwnMarks
=============================================================================
