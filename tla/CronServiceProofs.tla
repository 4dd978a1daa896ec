--------------------------- MODULE CronServiceProofs ---------------------------
(***************************************************************************)
(* Proofs about CronService for every set of jobs and kinds, every limit   *)
(* of the service, and every number of services in a life of the gateway.  *)
(***************************************************************************)
EXTENDS CronService, FiniteSetTheorems, TLAPS

---------------------------------------------------------------------------
(* What the operations on one job give.                                    *)

JobRecord == [on : BOOLEAN, next : Times, mark : Times, last : Times]

\* A job that exists is a record of its state.
LEMMA RecordIsJob == \A job \in JobRecord : Has(job) /\ job \in JobType
<1> SUFFICES ASSUME NEW job \in JobRecord PROVE Has(job) /\ job \in JobType
  OBVIOUS
<1>1. "on" \in DOMAIN job /\ "on" \notin DOMAIN Gone
  BY DEF JobRecord, Gone
<1>2. QED
  BY <1>1 DEF Has, JobType, JobRecord

LEMMA JobIsRecord == \A job \in JobType : Has(job) => job \in JobRecord
BY DEF JobType, JobRecord, Has

LEMMA GoneIs == ~Has(Gone) /\ Gone \in JobType /\ Timely(Gone)
BY DEF Has, JobType, Timely

LEMMA FirstIsService == 1 \in Services
BY CronServiceAssumption DEF Services

\* Times of the clock are times of jobs.
LEMMA TimesAre ==
  ASSUME TypeOK
  PROVE  /\ now \in Times /\ now + 1 \in Times /\ now \in Int /\ now # None /\ now + 1 # None
         /\ None \in Times /\ Times \subseteq Int
         /\ \A t \in 0..MaxTime : t \in Times /\ t + 1 \in Times /\ t # None /\ t + 1 # None
         /\ \A j \in Jobs : AtTime[j] \in Times /\ AtTime[j] # None
BY CronServiceAssumption DEF TypeOK, Times, None

\* b is a job as a, but for its next run and its mark, which a mark that is
\* young and belongs to a job that is on does not lose.
Tended(a, b) ==
  /\ b \in JobRecord
  /\ b.on = a.on /\ b.last = a.last
  /\ b.mark = a.mark \/ b.mark = None
  /\ a.on /\ (a.mark = None \/ now - a.mark <= StuckAfter) => b.mark = a.mark
  /\ IF a.on THEN b.next # None ELSE b.next = None

LEMMA NormalizedIs ==
  ASSUME TypeOK, NEW job \in JobRecord
  PROVE  /\ Normalized(job) \in JobRecord
         /\ Normalized(job).on = job.on /\ Normalized(job).last = job.last
         /\ Normalized(job).mark = job.mark \/ Normalized(job).mark = None
         /\ Normalized(job).next = IF job.on THEN job.next ELSE None
         /\ job.on /\ (job.mark = None \/ now - job.mark <= StuckAfter)
              => Normalized(job).mark = job.mark
<1>1. /\ job.mark \in Int /\ now \in Int /\ StuckAfter \in Int
      /\ job.on \in BOOLEAN /\ None \in Times
  BY TimesAre, CronServiceAssumption DEF JobRecord
<1>2. [job EXCEPT !.mark = None] \in JobRecord /\ [job EXCEPT !.next = None, !.mark = None] \in JobRecord
  BY <1>1 DEF JobRecord
<1>3. CASE ~job.on
  <2>1. Normalized(job) = [job EXCEPT !.next = None, !.mark = None]
    BY <1>3 DEF Normalized
  <2>2. /\ Normalized(job).on = job.on /\ Normalized(job).last = job.last
        /\ Normalized(job).next = None /\ Normalized(job).mark = None
    BY <2>1 DEF JobRecord
  <2>3. QED
    BY <1>2, <1>3, <2>1, <2>2
<1>4. CASE job.on /\ job.mark # None /\ now - job.mark > StuckAfter
  <2>1. Normalized(job) = [job EXCEPT !.mark = None]
    BY <1>4 DEF Normalized
  <2>2. /\ Normalized(job).on = job.on /\ Normalized(job).last = job.last
        /\ Normalized(job).next = job.next /\ Normalized(job).mark = None
    BY <2>1 DEF JobRecord
  <2>3. ~(job.mark = None \/ now - job.mark <= StuckAfter)
    BY <1>1, <1>4
  <2>4. QED
    BY <1>2, <1>4, <2>1, <2>2, <2>3
<1>5. CASE job.on /\ ~(job.mark # None /\ now - job.mark > StuckAfter)
  BY <1>5 DEF Normalized
<1>6. QED
  BY <1>3, <1>4, <1>5

LEMMA RescheduledIs ==
  ASSUME TypeOK, NEW j \in Jobs, NEW job \in JobRecord
  PROVE  /\ Rescheduled(j, job) \in JobRecord
         /\ Rescheduled(j, job).on = job.on /\ Rescheduled(j, job).last = job.last
         /\ Rescheduled(j, job).mark = job.mark
         /\ IF job.on THEN Rescheduled(j, job).next # None ELSE Rescheduled(j, job).next = None
<1>1. /\ ComputeNext(j, job) \in Times
      /\ IF job.on THEN ComputeNext(j, job) # None ELSE ComputeNext(j, job) = None
  BY TimesAre DEF ComputeNext
<1>2. QED
  BY <1>1 DEF Rescheduled, JobRecord

LEMMA AppliedIs ==
  ASSUME TypeOK, NEW j \in Jobs, NEW job \in JobRecord, NEW r,
         r.started \in Times, r.ended \in 0..MaxTime
  PROVE  /\ Applied(j, job, r) \in JobType /\ Timely(Applied(j, job, r))
         /\ Has(Applied(j, job, r)) =>
              /\ Applied(j, job, r).mark = None
              /\ Applied(j, job, r).on => Applied(j, job, r).next = r.ended + 1
<1> DEFINE ran == [job EXCEPT !.mark = None, !.last = r.started]
           a == [ran EXCEPT !.next = r.ended + 1]
           b == [ran EXCEPT !.on = FALSE, !.next = None]
           c == [ran EXCEPT !.next = IF job.on THEN r.ended + 1 ELSE None]
<1>1. /\ r.ended + 1 \in Times /\ r.ended + 1 # None /\ None \in Times
      /\ None <= now /\ job.on \in BOOLEAN
  BY TimesAre, CronServiceAssumption DEF TypeOK, None, JobRecord
<1>2. ran \in JobRecord /\ ran.mark = None /\ ran.on = job.on
  BY <1>1 DEF JobRecord
<1>3. /\ a \in JobRecord /\ a.mark = None /\ a.next = r.ended + 1
      /\ b \in JobRecord /\ b.mark = None /\ ~b.on
      /\ c \in JobRecord /\ c.mark = None /\ (c.on => c.next = r.ended + 1)
  BY <1>1, <1>2 DEF JobRecord
<1>4. Applied(j, job, r) \in {Gone, a, b, c}
  BY DEF Applied
<1> HIDE DEF ran, a, b, c
<1>5. ASSUME NEW x \in {a, b, c}
      PROVE  /\ x \in JobRecord /\ Timely(x) /\ x.mark = None
             /\ x.on => x.next = r.ended + 1
  BY <1>1, <1>3, <1>5 DEF Timely
<1>6. QED
  BY <1>4, <1>5, GoneIs, RecordIsJob

---------------------------------------------------------------------------
(* What the operations on all jobs of a store give.                        *)

Good(S) == S \in [Jobs -> JobType] /\ \A j \in Jobs : Timely(S[j])

\* A record that is as good as another one with the same next run and mark.
LEMMA TendedIsTimely ==
  ASSUME TypeOK, NEW a \in JobRecord, NEW b, Timely(a), Tended(a, b)
  PROVE  b \in JobType /\ Has(b) /\ Timely(b)
BY RecordIsJob, TimesAre DEF Tended, Timely, None, TypeOK

LEMMA RecomputedIs ==
  ASSUME TypeOK, NEW S, Good(S)
  PROVE  /\ Good(Recomputed(S))
         /\ \A j \in Jobs : /\ Has(Recomputed(S)[j]) <=> Has(S[j])
                            /\ Has(S[j]) => Tended(S[j], Recomputed(S)[j])
<1> SUFFICES ASSUME NEW j \in Jobs
             PROVE  /\ Recomputed(S)[j] \in JobType /\ Timely(Recomputed(S)[j])
                    /\ Has(Recomputed(S)[j]) <=> Has(S[j])
                    /\ Has(S[j]) => Tended(S[j], Recomputed(S)[j])
  BY DEF Good, Recomputed
<1>1. CASE ~Has(S[j])
  BY <1>1, GoneIs DEF Recomputed
<1>2. CASE Has(S[j])
  <2> DEFINE n == Normalized(S[j])
  <2>1. S[j] \in JobRecord /\ Timely(S[j])
    BY <1>2, JobIsRecord DEF Good
  <2>2. /\ n \in JobRecord /\ n.on = S[j].on /\ n.last = S[j].last
        /\ n.mark = S[j].mark \/ n.mark = None
        /\ n.next = IF S[j].on THEN S[j].next ELSE None
        /\ S[j].on /\ (S[j].mark = None \/ now - S[j].mark <= StuckAfter) => n.mark = S[j].mark
    BY <2>1, NormalizedIs
  <2>3. Recomputed(S)[j] \in {n, Rescheduled(j, n)}
    BY <1>2 DEF Recomputed
  <2> HIDE DEF n
  <2>4. Tended(S[j], n)
    BY <1>2, <2>1, <2>2 DEF Tended, Timely
  <2>5. Tended(S[j], Rescheduled(j, n))
    BY <2>2, RescheduledIs DEF Tended
  <2>6. QED
    BY <1>2, <2>1, <2>3, <2>4, <2>5, TendedIsTimely
<1>3. QED
  BY <1>1, <1>2

\* Maintenance moves a run on only if it was executed.
LEMMA MaintainedIs ==
  ASSUME TypeOK, NEW S, Good(S), NEW expired \in BOOLEAN
  PROVE  /\ Good(Maintained(S, expired))
         /\ \A j \in Jobs :
              /\ Has(Maintained(S, expired)[j]) <=> Has(S[j])
              /\ Has(S[j]) => Tended(S[j], Maintained(S, expired)[j])
              /\ Has(S[j]) /\ S[j].on => \/ Maintained(S, expired)[j].next = S[j].next
                                         \/ expired /\ S[j].last >= S[j].next
<1> SUFFICES ASSUME NEW j \in Jobs
             PROVE  /\ Maintained(S, expired)[j] \in JobType /\ Timely(Maintained(S, expired)[j])
                    /\ Has(Maintained(S, expired)[j]) <=> Has(S[j])
                    /\ Has(S[j]) => Tended(S[j], Maintained(S, expired)[j])
                    /\ Has(S[j]) /\ S[j].on => \/ Maintained(S, expired)[j].next = S[j].next
                                               \/ expired /\ S[j].last >= S[j].next
  BY DEF Good, Maintained
<1>1. CASE ~Has(S[j])
  BY <1>1, GoneIs DEF Maintained
<1>2. CASE Has(S[j])
  <2> DEFINE n == Normalized(S[j])
  <2>1. S[j] \in JobRecord /\ Timely(S[j])
    BY <1>2, JobIsRecord DEF Good
  <2>2. /\ n \in JobRecord /\ n.on = S[j].on /\ n.last = S[j].last
        /\ n.mark = S[j].mark \/ n.mark = None
        /\ n.next = IF S[j].on THEN S[j].next ELSE None
        /\ S[j].on /\ (S[j].mark = None \/ now - S[j].mark <= StuckAfter) => n.mark = S[j].mark
    BY <2>1, NormalizedIs
  <2>3. /\ Maintained(S, expired)[j] \in {n, Rescheduled(j, n)}
        /\ \/ Maintained(S, expired)[j] = n
           \/ n.on /\ (n.next = None \/ (expired /\ Executed(n)))
    BY <1>2 DEF Maintained
  <2> HIDE DEF n
  <2>4. Tended(S[j], n)
    BY <1>2, <2>1, <2>2 DEF Tended, Timely
  <2>5. Tended(S[j], Rescheduled(j, n))
    BY <2>2, RescheduledIs DEF Tended
  <2>6. S[j].on => \/ Maintained(S, expired)[j].next = S[j].next
                   \/ expired /\ S[j].last >= S[j].next
    BY <1>2, <2>1, <2>2, <2>3 DEF Timely, Executed
  <2>7. QED
    BY <1>2, <2>1, <2>3, <2>4, <2>5, <2>6, TendedIsTimely
<1>3. QED
  BY <1>1, <1>2

LEMMA MarkedIs ==
  ASSUME TypeOK, NEW S, Good(S), NEW J \in SUBSET Jobs, \A j \in J : Has(S[j])
  PROVE  /\ Good(Marked(S, J))
         /\ \A j \in Jobs :
              /\ Has(Marked(S, J)[j]) <=> Has(S[j])
              /\ Has(S[j]) => /\ Marked(S, J)[j].on = S[j].on /\ Marked(S, J)[j].next = S[j].next
                              /\ Marked(S, J)[j].last = S[j].last
              /\ j \in J => Marked(S, J)[j].mark = now
              /\ j \notin J => Marked(S, J)[j] = S[j]
<1> SUFFICES ASSUME NEW j \in Jobs
             PROVE  /\ Marked(S, J)[j] \in JobType /\ Timely(Marked(S, J)[j])
                    /\ Has(Marked(S, J)[j]) <=> Has(S[j])
                    /\ Has(S[j]) => /\ Marked(S, J)[j].on = S[j].on
                                    /\ Marked(S, J)[j].next = S[j].next
                                    /\ Marked(S, J)[j].last = S[j].last
                    /\ j \in J => Marked(S, J)[j].mark = now
                    /\ j \notin J => Marked(S, J)[j] = S[j]
  BY DEF Good, Marked
<1>1. CASE j \notin J
  BY <1>1 DEF Marked, Good
<1>2. CASE j \in J
  <2> DEFINE m == [S[j] EXCEPT !.mark = now]
  <2>1. Has(S[j]) /\ S[j] \in JobRecord /\ Timely(S[j]) /\ now \in Times /\ now \in Int
    BY <1>2, JobIsRecord, TimesAre DEF Good
  <2>2. /\ m \in JobRecord /\ m.on = S[j].on /\ m.next = S[j].next /\ m.last = S[j].last
        /\ m.mark = now
    BY <2>1 DEF JobRecord
  <2>3. Marked(S, J)[j] = m
    BY <1>2 DEF Marked
  <2> HIDE DEF m
  <2>4. Timely(m)
    BY <2>1, <2>2 DEF Timely
  <2>5. QED
    BY <1>2, <2>1, <2>2, <2>3, <2>4, RecordIsJob
<1>3. QED
  BY <1>1, <1>2

LEMMA AppliedAllIs ==
  ASSUME TypeOK, NEW S, Good(S), NEW results \in SUBSET Result
  PROVE  /\ Good(AppliedAll(S, results))
         /\ \A j \in Jobs :
              /\ Has(AppliedAll(S, results)[j]) => Has(S[j])
              /\ j \notin {r.job : r \in results} => AppliedAll(S, results)[j] = S[j]
              /\ j \in {r.job : r \in results} /\ Has(AppliedAll(S, results)[j])
                   => AppliedAll(S, results)[j].mark = None
<1> SUFFICES ASSUME NEW j \in Jobs
             PROVE  /\ AppliedAll(S, results)[j] \in JobType /\ Timely(AppliedAll(S, results)[j])
                    /\ Has(AppliedAll(S, results)[j]) => Has(S[j])
                    /\ j \notin {r.job : r \in results} => AppliedAll(S, results)[j] = S[j]
                    /\ j \in {r.job : r \in results} /\ Has(AppliedAll(S, results)[j])
                         => AppliedAll(S, results)[j].mark = None
  BY DEF Good, AppliedAll
<1>1. CASE Has(S[j]) /\ \E r \in results : r.job = j
  <2> DEFINE r == CHOOSE x \in results : x.job = j
  <2>1. r \in Result
    BY <1>1
  <2>2. S[j] \in JobRecord
    BY <1>1, JobIsRecord DEF Good
  <2>3. AppliedAll(S, results)[j] = Applied(j, S[j], r)
    BY <1>1 DEF AppliedAll
  <2> HIDE DEF r
  <2>4. r.started \in Times /\ r.ended \in 0..MaxTime
    BY <2>1 DEF Result
  <2>5. QED
    BY <1>1, <2>2, <2>3, <2>4, AppliedIs
<1>2. CASE ~(Has(S[j]) /\ \E r \in results : r.job = j)
  <2>1. AppliedAll(S, results)[j] = S[j]
    BY <1>2 DEF AppliedAll
  <2>2. QED
    BY <1>2, <2>1 DEF Good
<1>3. QED
  BY <1>1, <1>2

---------------------------------------------------------------------------
(* What a section leaves in memory and in the file.                        *)

\* A section works on the store of one service, and saves all of it or none.
Section(s) ==
  /\ now' = now
  /\ mem' = [mem EXCEPT ![s] = mem'[s]]
  /\ Good(mem'[s])
  /\ disk' = disk \/ disk' = mem'[s]

\* The state of the stores that sections start from.
LEMMA StoresAreGood == TypeOK /\ Timed => Good(disk) /\ \A s \in Services : Good(mem[s])
BY DEF TypeOK, Timed, Good

LEMMA StoreIs ==
  ASSUME TypeOK, NEW s \in Services, NEW S, Good(S), Store(s, S), UNCHANGED now,
         disk' = disk \/ disk' = S
  PROVE  mem'[s] = S /\ Section(s)
BY DEF TypeOK, Store, Section

\* b exists if a does, is on if a is, and has not lost the mark of a job that
\* is on, unless that was too old.
AsBefore(a, b) ==
  /\ Has(b) <=> Has(a)
  /\ Has(a) => /\ b.on = a.on
               /\ a.on /\ (a.mark = None \/ now - a.mark <= StuckAfter) => b.mark = a.mark

LEMMA AsBeforeIsScheduled ==
  ASSUME NEW a, NEW b, Timely(a), Timely(b), AsBefore(a, b)
  PROVE  Scheduled(b) <=> Scheduled(a)
BY DEF Timely, AsBefore, Scheduled

LEMMA ClearsIs ==
  ASSUME TypeOK, Timed, NEW s \in Services, StartClears(s)
  PROVE  /\ Section(s) /\ disk' = mem'[s]
         /\ \A j \in Jobs : /\ Has(disk'[j]) <=> Has(disk[j])
                            /\ Has(disk[j]) => /\ disk'[j].on = disk[j].on
                                               /\ disk'[j].next = disk[j].next
                                               /\ disk'[j].mark = None
<1> DEFINE S == [j \in Jobs |-> IF Has(disk[j]) THEN [disk[j] EXCEPT !.mark = None] ELSE Gone]
<1>1. ASSUME NEW j \in Jobs
      PROVE  /\ S[j] \in JobType /\ Timely(S[j])
             /\ Has(S[j]) <=> Has(disk[j])
             /\ Has(disk[j]) => S[j].on = disk[j].on /\ S[j].next = disk[j].next /\ S[j].mark = None
  <2>1. CASE ~Has(disk[j])
    BY <2>1, GoneIs
  <2>2. CASE Has(disk[j])
    <3> DEFINE m == [disk[j] EXCEPT !.mark = None]
    <3>1. disk[j] \in JobRecord /\ Timely(disk[j]) /\ None \in Times /\ None <= now
      BY <2>2, JobIsRecord, StoresAreGood, TimesAre DEF Good, TypeOK, None
    <3>2. /\ m \in JobRecord /\ m.on = disk[j].on /\ m.next = disk[j].next /\ m.mark = None
      BY <3>1 DEF JobRecord
    <3>3. S[j] = m
      BY <2>2
    <3> HIDE DEF m, S
    <3>4. QED
      BY <2>2, <3>1, <3>2, <3>3, RecordIsJob DEF Timely
  <2>3. QED
    BY <2>1, <2>2
<1>2. Good(S)
  BY <1>1 DEF Good
<1>3. Store(s, S) /\ disk' = S /\ now' = now
  BY DEF StartClears, Persist
<1> HIDE DEF S
<1>4. QED
  BY <1>1, <1>2, <1>3, StoreIs

LEMMA PlansIs ==
  ASSUME TypeOK, Timed, NEW s \in Services, StartPlans(s)
  PROVE  /\ Section(s)
         /\ \/ UNCHANGED <<stores, batch>> /\ phase' = [phase EXCEPT ![s] = "final"]
            \/ \E first, later \in SUBSET Jobs :
                 /\ \A j \in first : Has(mem[s][j]) /\ mem[s][j].on /\ mem[s][j].mark = None
                 /\ phase' = [phase EXCEPT ![s] = "catchup"]
                 /\ batch' = [batch EXCEPT ![s]["start"] = BatchOf(first, later)]
                 /\ mem'[s] = Marked(mem[s], first) /\ disk' = mem'[s]
<1> DEFINE missed == {j \in Jobs \ skip[s] : Missed(j, mem[s][j])}
<1>0. Good(mem[s]) /\ now' = now
  BY StoresAreGood DEF StartPlans
<1>1. CASE missed = {}
  <2>1. UNCHANGED <<stores, batch>> /\ phase' = [phase EXCEPT ![s] = "final"]
    BY <1>1 DEF StartPlans
  <2>2. QED
    BY <1>0, <2>1 DEF Section, stores, TypeOK
<1>2. CASE missed # {}
  <2>1. PICK first \in SUBSET missed :
          /\ phase' = [phase EXCEPT ![s] = "catchup"]
          /\ batch' = [batch EXCEPT ![s]["start"] = BatchOf(first, missed \ first)]
          /\ Persist(s, Marked(mem[s], first))
    BY <1>2 DEF StartPlans
  <2>3. \A j \in missed : Has(mem[s][j]) /\ mem[s][j].on /\ mem[s][j].mark = None
    BY DEF Missed
  <2>4. first \in SUBSET Jobs /\ missed \ first \in SUBSET Jobs
    OBVIOUS
  <2> HIDE DEF missed
  <2>5. Good(Marked(mem[s], first))
    BY <1>0, <2>1, <2>3, <2>4, MarkedIs
  <2>6. Section(s) /\ mem'[s] = Marked(mem[s], first) /\ disk' = mem'[s]
    BY <1>0, <2>1, <2>5, StoreIs DEF Persist
  <2>7. QED
    BY <2>1, <2>3, <2>4, <2>6
<1>3. QED
  BY <1>1, <1>2

LEMMA StartAppliesIs ==
  ASSUME TypeOK, Timed, NEW s \in Services, StartApplies(s)
  PROVE  /\ Section(s) /\ disk' = mem'[s]
         /\ batch' = [batch EXCEPT ![s]["start"] = NoBatch] /\ \A j \in Jobs : Tidy(mem'[s][j])
         /\ \A j \in Jobs :
              /\ Has(disk'[j]) => Has(mem[s][j])
              /\ j \notin JobsOf(batch[s]["start"]) =>
                   /\ AsBefore(mem[s][j], disk'[j])
                   /\ Has(disk'[j]) /\ disk'[j].on /\ j \notin batch[s]["start"].later =>
                        mem[s][j].on /\ disk'[j].next = mem[s][j].next
              /\ Has(disk'[j]) /\ disk'[j].mark # None =>
                   mem[s][j].mark # None /\ j \notin JobsOf(batch[s]["start"])
<1> DEFINE b == batch[s]["start"]
           applied == AppliedAll(mem[s], b.done)
           S == [j \in Jobs |-> IF j \in b.later /\ Has(applied[j]) /\ applied[j].on
                                THEN [applied[j] EXCEPT !.next = now + 1] ELSE applied[j]]
           T == Maintained(S, FALSE)
<1>1. /\ Good(mem[s]) /\ now' = now /\ b \in BatchType
      /\ b.done \in SUBSET Result
  BY StoresAreGood DEF StartApplies, TypeOK, Batches, BatchType
<1>2. /\ Good(applied)
      /\ \A j \in Jobs : /\ Has(applied[j]) => Has(mem[s][j])
                         /\ j \notin {r.job : r \in b.done} => applied[j] = mem[s][j]
                         /\ j \in {r.job : r \in b.done} /\ Has(applied[j]) => applied[j].mark = None
  BY <1>1, AppliedAllIs
<1>3. Store(s, T) /\ disk' = T /\ batch' = [batch EXCEPT ![s]["start"] = NoBatch]
  BY DEF StartApplies, Persist
<1>4. JobsOf(b) = {r.job : r \in b.done}
  BY DEF JobsOf, StartApplies, AllDone
<1> HIDE DEF applied, b
<1>5. ASSUME NEW j \in Jobs
      PROVE  /\ S[j] \in JobType /\ Timely(S[j])
             /\ Has(S[j]) <=> Has(applied[j])
             /\ Has(applied[j]) => S[j].on = applied[j].on /\ S[j].mark = applied[j].mark
             /\ j \notin b.later => S[j] = applied[j]
  <2>1. CASE j \in b.later /\ Has(applied[j]) /\ applied[j].on
    <3> DEFINE m == [applied[j] EXCEPT !.next = now + 1]
    <3>1. applied[j] \in JobRecord /\ Timely(applied[j]) /\ now + 1 \in Times /\ now + 1 # None
      BY <1>2, <2>1, JobIsRecord, TimesAre DEF Good
    <3>2. /\ m \in JobRecord /\ m.on = applied[j].on /\ m.mark = applied[j].mark
          /\ m.next = now + 1
      BY <3>1 DEF JobRecord
    <3>3. S[j] = m
      BY <2>1
    <3> HIDE DEF m, S
    <3>4. QED
      BY <2>1, <3>1, <3>2, <3>3, RecordIsJob DEF Timely
  <2>2. CASE ~(j \in b.later /\ Has(applied[j]) /\ applied[j].on)
    <3>1. S[j] = applied[j]
      BY <2>2
    <3> HIDE DEF S
    <3>2. QED
      BY <1>2, <3>1 DEF Good
  <2>3. QED
    BY <2>1, <2>2
<1>6. Good(S)
  BY <1>5 DEF Good
<1> HIDE DEF S
<1>7. /\ Good(T)
      /\ \A j \in Jobs : /\ Has(T[j]) <=> Has(S[j])
                         /\ Has(S[j]) => Tended(S[j], T[j])
                         /\ Has(S[j]) /\ S[j].on => T[j].next = S[j].next
  BY <1>6, MaintainedIs
<1> HIDE DEF T
<1>8. Section(s) /\ mem'[s] = T
  BY <1>1, <1>3, <1>7, StoreIs
<1>9. ASSUME NEW j \in Jobs
      PROVE  /\ Has(disk'[j]) => Has(mem[s][j])
             /\ j \notin JobsOf(b) =>
                   /\ AsBefore(mem[s][j], disk'[j])
                   /\ Has(disk'[j]) /\ disk'[j].on /\ j \notin b.later =>
                        mem[s][j].on /\ disk'[j].next = mem[s][j].next
             /\ Has(disk'[j]) /\ disk'[j].mark # None => mem[s][j].mark # None /\ j \notin JobsOf(b)
  <2>1. Has(disk'[j]) => S[j] \in JobRecord
    BY <1>3, <1>6, <1>7, JobIsRecord DEF Good
  <2>2. Has(disk'[j]) => disk'[j].on = S[j].on /\ disk'[j].mark \in {S[j].mark, None}
    BY <1>3, <1>7 DEF Tended
  <2>3. QED
    BY <1>2, <1>3, <1>4, <1>5, <1>7, <2>1, <2>2 DEF AsBefore, Tended
<1>10. \A j \in Jobs : Tidy(T[j])
  BY <1>7 DEF Tended, Tidy
<1>11. QED
  BY <1>3, <1>8, <1>9, <1>10 DEF b

LEMMA FinishesIs ==
  ASSUME TypeOK, Timed, NEW s \in Services, StartFinishes(s)
  PROVE  /\ Section(s) /\ \A j \in Jobs : Tidy(mem'[s][j])
         /\ disk' = mem'[s] \/ (disk' = disk /\ mem'[s] = mem[s])
         /\ \A j \in Jobs : /\ AsBefore(mem[s][j], mem'[s][j])
                            /\ Has(mem[s][j]) => mem'[s][j].mark \in {mem[s][j].mark, None}
<1>1. Good(mem[s]) /\ now' = now
  BY StoresAreGood DEF StartFinishes
<1>2. Store(s, Recomputed(mem[s]))
      /\ disk' = (IF Recomputed(mem[s]) # mem[s] THEN Recomputed(mem[s]) ELSE disk)
  BY DEF StartFinishes
<1>3. Section(s) /\ mem'[s] = Recomputed(mem[s])
  BY <1>1, <1>2, RecomputedIs, StoreIs
<1>4. QED
  BY <1>1, <1>2, <1>3, RecomputedIs DEF AsBefore, Tended, Tidy

LEMMA FindsNothingIs ==
  ASSUME TypeOK, Timed, NEW s \in Services, TickFindsNothing(s)
  PROVE  /\ Section(s) /\ disk' = mem'[s] /\ \A j \in Jobs : Tidy(mem'[s][j])
         /\ \A j \in Jobs :
              /\ AsBefore(disk[j], disk'[j])
              /\ Has(disk[j]) /\ disk[j].on =>
                   disk'[j].next = disk[j].next \/ disk[j].last >= disk[j].next
              /\ Has(disk[j]) => disk'[j].last = disk[j].last /\ disk'[j].mark \in {disk[j].mark, None}
<1>1. Good(disk) /\ now' = now /\ Store(s, Maintained(disk, TRUE)) /\ disk' = Maintained(disk, TRUE)
  BY StoresAreGood DEF TickFindsNothing, Persist
<1> DEFINE T == Maintained(disk, TRUE)
<1>2. /\ Good(T)
      /\ \A j \in Jobs :
           /\ Has(T[j]) <=> Has(disk[j])
           /\ Has(disk[j]) => Tended(disk[j], T[j])
           /\ Has(disk[j]) /\ disk[j].on => \/ T[j].next = disk[j].next
                                           \/ disk[j].last >= disk[j].next
  BY <1>1, MaintainedIs
<1>3. \A j \in Jobs : /\ AsBefore(disk[j], T[j]) /\ Tidy(T[j])
                      /\ Has(disk[j]) => T[j].last = disk[j].last /\ T[j].mark \in {disk[j].mark, None}
  BY <1>2 DEF AsBefore, Tended, Tidy
<1>4. Store(s, T) /\ disk' = T /\ now' = now
  BY <1>1
<1> HIDE DEF T
<1>5. Section(s) /\ mem'[s] = T
  BY <1>2, <1>4, StoreIs
<1>6. QED
  BY <1>2, <1>3, <1>4, <1>5

LEMMA ClaimsIs ==
  ASSUME TypeOK, Timed, NEW s \in Services, TickClaims(s)
  PROVE  /\ Section(s) /\ disk' = mem'[s] /\ disk' = Marked(disk, DueOnDisk)
         /\ DueOnDisk \subseteq Jobs
         /\ \A j \in DueOnDisk : Has(disk[j]) /\ disk[j].on /\ disk[j].mark = None
<1>1. Good(disk) /\ now' = now /\ Store(s, Marked(disk, DueOnDisk)) /\ disk' = Marked(disk, DueOnDisk)
  BY StoresAreGood DEF TickClaims, Persist
<1>2. /\ DueOnDisk \in SUBSET Jobs
      /\ \A j \in DueOnDisk : Has(disk[j]) /\ disk[j].on /\ disk[j].mark = None
  BY DEF DueOnDisk, Runnable, IsDue, Scheduled
<1>3. QED
  BY <1>1, <1>2, MarkedIs, StoreIs

LEMMA TickAppliesIs ==
  ASSUME TypeOK, Timed, NEW s \in Services, TickApplies(s)
  PROVE  /\ Section(s) /\ disk' = mem'[s] /\ \A j \in Jobs : Tidy(mem'[s][j])
         /\ \A j \in Jobs :
              /\ Has(disk'[j]) => Has(disk[j])
              /\ j \notin JobsOf(batch[s]["tick"]) =>
                   /\ AsBefore(disk[j], disk'[j])
                   /\ Has(disk[j]) /\ disk[j].on => disk'[j].next = disk[j].next
              /\ Has(disk'[j]) /\ disk'[j].mark # None =>
                   disk[j].mark # None /\ j \notin JobsOf(batch[s]["tick"])
<1> DEFINE b == batch[s]["tick"]
           S == AppliedAll(disk, b.done)
           T == Maintained(S, FALSE)
<1>1. Good(disk) /\ now' = now /\ b.done \in SUBSET Result
  BY StoresAreGood DEF TickApplies, TypeOK, Batches, BatchType
<1>2. /\ Good(S)
      /\ \A j \in Jobs : /\ Has(S[j]) => Has(disk[j])
                         /\ j \notin {r.job : r \in b.done} => S[j] = disk[j]
                         /\ j \in {r.job : r \in b.done} /\ Has(S[j]) => S[j].mark = None
  BY <1>1, AppliedAllIs
<1>3. Store(s, T) /\ disk' = T
  BY DEF TickApplies, Persist
<1>4. JobsOf(b) = {r.job : r \in b.done}
  BY DEF JobsOf, TickApplies, AllDone
<1> HIDE DEF S, b
<1>5. /\ Good(T)
      /\ \A j \in Jobs : /\ Has(T[j]) <=> Has(S[j])
                         /\ Has(S[j]) => Tended(S[j], T[j])
                         /\ Has(S[j]) /\ S[j].on => T[j].next = S[j].next
  BY <1>2, MaintainedIs
<1> HIDE DEF T
<1>6. Section(s) /\ mem'[s] = T
  BY <1>1, <1>3, <1>5, StoreIs
<1>7. \A j \in Jobs :
        /\ Has(disk'[j]) => Has(disk[j])
        /\ j \notin JobsOf(b) =>
             /\ AsBefore(disk[j], disk'[j])
             /\ Has(disk[j]) /\ disk[j].on => disk'[j].next = disk[j].next
        /\ Has(disk'[j]) /\ disk'[j].mark # None => disk[j].mark # None /\ j \notin JobsOf(b)
  BY <1>2, <1>3, <1>4, <1>5 DEF AsBefore, Tended
<1>8. \A j \in Jobs : Tidy(T[j])
  BY <1>5 DEF Tended, Tidy
<1>9. QED
  BY <1>3, <1>6, <1>7, <1>8 DEF b

\* Maintenance on the copy in memory, as list and the inspection before a manual
\* run do it.
LEMMA MaintainsMemory ==
  ASSUME TypeOK, Timed, NEW s \in Services, UNCHANGED now,
         Store(s, Maintained(mem[s], FALSE)),
         disk' = disk \/ disk' = Maintained(mem[s], FALSE)
  PROVE  /\ Section(s) /\ \A j \in Jobs : Tidy(mem'[s][j])
         /\ \A j \in Jobs :
              /\ AsBefore(mem[s][j], mem'[s][j])
              /\ Has(mem[s][j]) => mem'[s][j].mark \in {mem[s][j].mark, None}
              /\ Has(mem[s][j]) /\ mem[s][j].on => mem'[s][j].next = mem[s][j].next
<1>1. Good(mem[s])
  BY StoresAreGood
<1> DEFINE T == Maintained(mem[s], FALSE)
<1>2. /\ Good(T)
      /\ \A j \in Jobs :
           /\ Has(T[j]) <=> Has(mem[s][j])
           /\ Has(mem[s][j]) => Tended(mem[s][j], T[j])
           /\ Has(mem[s][j]) /\ mem[s][j].on => T[j].next = mem[s][j].next
  BY <1>1, MaintainedIs
<1>3. \A j \in Jobs : /\ AsBefore(mem[s][j], T[j]) /\ Tidy(T[j])
                      /\ Has(mem[s][j]) => T[j].mark \in {mem[s][j].mark, None}
  BY <1>2 DEF AsBefore, Tended, Tidy
<1>4. Store(s, T) /\ (disk' = disk \/ disk' = T) /\ now' = now
  OBVIOUS
<1> HIDE DEF T
<1>5. Section(s) /\ mem'[s] = T
  BY <1>2, <1>4, StoreIs
<1>6. QED
  BY <1>2, <1>3, <1>4, <1>5

LEMMA ListIs ==
  ASSUME TypeOK, Timed, NEW s \in Services, List(s)
  PROVE  /\ Section(s) /\ disk' = mem'[s] /\ \A j \in Jobs : Tidy(mem'[s][j])
         /\ \A j \in Jobs :
              /\ AsBefore(mem[s][j], mem'[s][j])
              /\ Has(mem[s][j]) => mem'[s][j].mark \in {mem[s][j].mark, None}
              /\ Has(mem[s][j]) /\ mem[s][j].on => mem'[s][j].next = mem[s][j].next
<1>1. UNCHANGED now /\ Persist(s, Maintained(mem[s], FALSE))
  BY DEF List
<1>2. mem'[s] = Maintained(mem[s], FALSE)
  BY <1>1 DEF Persist, Store, TypeOK
<1>3. QED
  BY <1>1, <1>2, MaintainsMemory DEF Persist

LEMMA ManualRunIs ==
  ASSUME TypeOK, Timed, NEW s \in Services, NEW j \in Jobs, ManualRun(s, j)
  PROVE  /\ Section(s) /\ disk' = disk /\ \A i \in Jobs : Tidy(mem'[s][i])
         /\ \A i \in Jobs :
              /\ AsBefore(mem[s][i], mem'[s][i])
              /\ Has(mem[s][i]) => mem'[s][i].mark \in {mem[s][i].mark, None}
              /\ Has(mem[s][i]) /\ mem[s][i].on => mem'[s][i].next = mem[s][i].next
BY MaintainsMemory DEF ManualRun

LEMMA AddIs ==
  ASSUME TypeOK, Timed, NEW s \in Services, NEW j \in Jobs, Add(s, j)
  PROVE  /\ Section(s) /\ disk' = mem'[s] /\ \A i \in Jobs : Tidy(mem'[s][i])
         /\ \A i \in Jobs \ {j} :
              /\ AsBefore(mem[s][i], mem'[s][i])
              /\ Has(mem[s][i]) => mem'[s][i].mark \in {mem[s][i].mark, None}
         /\ mem'[s][j].mark = None
<1> DEFINE S == [mem[s] EXCEPT ![j] = Fresh(j)]
<1>1. Good(mem[s]) /\ now' = now /\ Store(s, Recomputed(S)) /\ disk' = Recomputed(S)
  BY StoresAreGood DEF Add, Persist
<1>2. Fresh(j) \in JobRecord /\ Timely(Fresh(j)) /\ Fresh(j).mark = None
  BY TimesAre DEF Fresh, JobRecord, Timely, TypeOK, None
<1>3. Good(S)
  BY <1>1, <1>2, RecordIsJob DEF Good
<1>4. (\A i \in Jobs \ {j} : S[i] = mem[s][i]) /\ Has(S[j]) /\ S[j].mark = None
  BY <1>1, <1>2, RecordIsJob DEF Good
<1> HIDE DEF S
<1>5. Section(s) /\ mem'[s] = Recomputed(S)
  BY <1>1, <1>3, RecomputedIs, StoreIs
<1>6. QED
  BY <1>1, <1>3, <1>4, <1>5, RecomputedIs DEF AsBefore, Tended, Tidy

LEMMA UpdateIs ==
  ASSUME TypeOK, Timed, NEW s \in Services, NEW j \in Jobs, NEW on \in BOOLEAN, Update(s, j, on)
  PROVE  /\ Section(s) /\ disk' = mem'[s]
         /\ \A i \in Jobs \ {j} : mem'[s][i] = mem[s][i]
         /\ Has(mem'[s][j]) /\ mem'[s][j].on = on /\ Tidy(mem'[s][j])
         /\ mem'[s][j].mark = IF on THEN mem[s][j].mark ELSE None
<1> DEFINE patched == [mem[s][j] EXCEPT !.on = on]
           edited == IF on THEN Rescheduled(j, patched)
                           ELSE [patched EXCEPT !.next = None, !.mark = None]
           S == [mem[s] EXCEPT ![j] = edited]
<1>1. Good(mem[s]) /\ now' = now /\ Store(s, S) /\ disk' = S /\ Has(mem[s][j])
  BY StoresAreGood DEF Update, Persist
<1>2. mem[s][j] \in JobRecord /\ Timely(mem[s][j])
  BY <1>1, JobIsRecord DEF Good
<1>3. patched \in JobRecord /\ patched.on = on /\ patched.mark = mem[s][j].mark
  BY <1>2 DEF JobRecord
<1>4. /\ None \in Times /\ None <= now
  BY TimesAre DEF TypeOK, None
<1> HIDE DEF patched
<1>5. /\ edited \in JobRecord /\ Timely(edited) /\ edited.on = on /\ Tidy(edited)
      /\ edited.mark = IF on THEN mem[s][j].mark ELSE None
  <2>1. CASE on
    BY <1>2, <1>3, <2>1, RescheduledIs, RecordIsJob DEF Timely, Tidy
  <2>2. CASE ~on
    <3> DEFINE off == [patched EXCEPT !.next = None, !.mark = None]
    <3>1. off \in JobRecord /\ off.on = on /\ off.mark = None /\ off.next = None
      BY <1>3, <1>4 DEF JobRecord
    <3>2. edited = off
      BY <2>2
    <3> HIDE DEF off, edited
    <3>3. QED
      BY <1>4, <2>2, <3>1, <3>2 DEF Timely, Tidy
  <2>3. QED
    BY <2>1, <2>2
<1> HIDE DEF edited
<1>6. Good(S) /\ S[j] = edited /\ \A i \in Jobs \ {j} : S[i] = mem[s][i]
  BY <1>1, <1>5, RecordIsJob DEF Good
<1> HIDE DEF S
<1>7. QED
  BY <1>1, <1>5, <1>6, RecordIsJob, StoreIs

LEMMA RemoveIs ==
  ASSUME TypeOK, Timed, NEW s \in Services, NEW j \in Jobs, Remove(s, j)
  PROVE  /\ Section(s) /\ disk' = mem'[s]
         /\ \A i \in Jobs \ {j} : mem'[s][i] = mem[s][i]
         /\ ~Has(mem'[s][j])
<1> DEFINE S == [mem[s] EXCEPT ![j] = Gone]
<1>1. Good(mem[s]) /\ now' = now /\ Store(s, S) /\ disk' = S
  BY StoresAreGood DEF Remove, Persist
<1>2. Good(S) /\ S[j] = Gone /\ \A i \in Jobs \ {j} : S[i] = mem[s][i]
  BY <1>1, GoneIs DEF Good
<1> HIDE DEF S
<1>3. QED
  BY <1>1, <1>2, GoneIs, StoreIs

LEMMA JobStartsIs ==
  ASSUME TypeOK, Timed, NEW s \in Services, NEW k \in Batches, NEW j \in Jobs, JobStarts(s, k, j)
  PROVE  /\ Section(s) /\ disk' = disk
         /\ \A i \in Jobs :
              /\ Has(mem'[s][i]) <=> Has(mem[s][i])
              /\ Has(mem[s][i]) =>
                   /\ mem'[s][i].on = mem[s][i].on /\ mem'[s][i].next = mem[s][i].next
                   /\ mem'[s][i].mark = mem[s][i].mark \/ (i = j /\ mem'[s][i].mark = now)
<1>1. Good(mem[s]) /\ now' = now /\ disk' = disk
  BY StoresAreGood DEF JobStarts
<1>2. CASE k = "tick" /\ held[s] /\ Has(mem[s][j])
  <2> DEFINE m == [mem[s][j] EXCEPT !.mark = now]
             S == [mem[s] EXCEPT ![j] = m]
  <2>1. mem[s][j] \in JobRecord /\ Timely(mem[s][j]) /\ now \in Times /\ now \in Int
    BY <1>1, <1>2, JobIsRecord, TimesAre DEF Good
  <2>2. /\ m \in JobRecord /\ m.on = mem[s][j].on /\ m.next = mem[s][j].next /\ m.mark = now
    BY <2>1 DEF JobRecord
  <2>3. mem' = [mem EXCEPT ![s][j].mark = now]
    BY <1>2 DEF JobStarts
  <2>4. Store(s, S)
    BY <2>3 DEF Store, TypeOK
  <2> HIDE DEF m
  <2>5. Timely(m) /\ Has(m) /\ m \in JobType
    BY <2>1, <2>2, RecordIsJob DEF Timely
  <2>6. Good(S) /\ S[j] = m /\ \A i \in Jobs \ {j} : S[i] = mem[s][i]
    BY <1>1, <2>5 DEF Good
  <2> HIDE DEF S
  <2>7. Section(s) /\ mem'[s] = S
    BY <1>1, <2>4, <2>6, StoreIs
  <2>8. QED
    BY <1>1, <1>2, <2>2, <2>5, <2>6, <2>7
<1>3. CASE ~(k = "tick" /\ held[s] /\ Has(mem[s][j]))
  <2>1. mem' = mem
    BY <1>3 DEF JobStarts
  <2>2. QED
    BY <1>1, <2>1 DEF Section, TypeOK
<1>4. QED
  BY <1>2, <1>3

\* A manual run that is under way has a job.
LEMMA ManualIs ==
  ASSUME TypeOK, NEW w \in Slots
  PROVE  /\ manual[w].at # "idle" => manual[w].job \in Jobs /\ manual[w].started \in 0..MaxTime
         /\ manual[w].at = "idle" => manual[w] = NoManual
         /\ manual[w].at = "ended" => manual[w].ended \in 0..MaxTime
         /\ manual[w].at \in {"idle", "inspected", "going", "ended"}
<1>1. NoManual.at = "idle"
  BY DEF NoManual
<1>2. manual[w] \in ManualType
  BY DEF TypeOK
<1>3. QED
  BY <1>1, <1>2 DEF ManualType

LEMMA ReservesIs ==
  ASSUME TypeOK, Timed, NEW w \in Slots, ManualReserves(w)
  PROVE  /\ manual[w].at = "inspected" /\ manual[w].job \in Jobs
         /\ \/ manual' = [manual EXCEPT ![w] = NoManual] /\ UNCHANGED <<stores, slips>>
            \/ /\ Section(1) /\ disk' = mem'[1]
               /\ Unmarked(mem[1][manual[w].job])
               /\ disk' = Marked(mem[1], {manual[w].job})
               /\ manual' = [manual EXCEPT ![w].at = "going"]
               /\ slips' = slips \cup {why \in {"off"} : ~mem[1][manual[w].job].on}
<1> DEFINE j == manual[w].job
<1>1. /\ manual[w].at = "inspected" /\ j \in Jobs /\ manual[w].started = now /\ now' = now
  BY ManualIs DEF ManualReserves, Timed
<1>2. CASE Unmarked(mem[1][j])
  <2> DEFINE S == [mem[1] EXCEPT ![j].mark = manual[w].started]
  <2>1. /\ Store(1, S) /\ disk' = S /\ manual' = [manual EXCEPT ![w].at = "going"]
        /\ slips' = slips \cup {why \in {"off"} : ~mem[1][j].on}
    BY <1>2 DEF ManualReserves, Persist, Front
  <2>2. Has(mem[1][j]) /\ Good(mem[1])
    BY <1>1, <1>2, StoresAreGood, FirstIsService DEF Unmarked
  <2>3. S = Marked(mem[1], {j})
    BY <1>1, <2>2 DEF Marked, Good
  <2> HIDE DEF S, j
  <2>4. Good(S)
    BY <1>1, <2>2, <2>3, MarkedIs
  <2>5. Section(1) /\ mem'[1] = S
    BY <1>1, <2>1, <2>4, StoreIs, FirstIsService
  <2>6. QED
    BY <1>1, <1>2, <2>1, <2>3, <2>5 DEF j
<1>3. CASE ~Unmarked(mem[1][j])
  BY <1>1, <1>3 DEF ManualReserves, Front
<1>4. QED
  BY <1>2, <1>3

LEMMA ManualFinishesIs ==
  ASSUME TypeOK, Timed, NEW w \in Slots, ManualFinishes(w)
  PROVE  /\ manual[w].at = "ended" /\ manual[w].job \in Jobs
         /\ manual' = [manual EXCEPT ![w] = NoManual]
         /\ \/ ~Has(mem[1][manual[w].job]) /\ UNCHANGED <<stores, timer, held>>
            \/ /\ Section(1) /\ disk' = mem'[1] /\ \A i \in Jobs : Tidy(mem'[1][i])
               /\ timer' = [timer EXCEPT ![1] = \E j \in Jobs : Scheduled(mem'[1][j])]
               /\ held' = [held EXCEPT ![1] = FALSE]
               /\ ~(Has(disk'[manual[w].job]) /\ disk'[manual[w].job].mark # None)
               /\ \A i \in Jobs :
                    /\ Has(disk'[i]) => Has(disk[i])
                    /\ i # manual[w].job =>
                         /\ AsBefore(disk[i], disk'[i])
                         /\ Has(disk[i]) => disk'[i].mark \in {disk[i].mark, None}
                         /\ Has(disk[i]) /\ disk[i].on =>
                              disk'[i].next = disk[i].next \/ disk[i].last >= disk[i].next
                         /\ Has(disk[i]) => disk'[i].last = disk[i].last
<1> DEFINE j == manual[w].job
           merged == [disk EXCEPT ![j] = IF Has(@) THEN Applied(j, mem[1][j], manual[w]) ELSE @]
           T == Maintained(merged, TRUE)
<1>1. /\ manual[w].at = "ended" /\ j \in Jobs /\ now' = now
      /\ manual[w].started \in Times /\ manual[w].ended \in 0..MaxTime
      /\ manual' = [manual EXCEPT ![w] = NoManual]
  BY ManualIs, TimesAre DEF ManualFinishes
<1>2. CASE ~Has(mem[1][j])
  BY <1>1, <1>2 DEF ManualFinishes, Front
<1>3. CASE Has(mem[1][j])
  <2>1. /\ Store(1, T) /\ disk' = T /\ ArmTimer(1) /\ held' = [held EXCEPT ![1] = FALSE]
    BY <1>3 DEF ManualFinishes, Persist, Front
  <2>2. mem[1][j] \in JobRecord /\ Good(disk)
    BY <1>1, <1>3, StoresAreGood, FirstIsService, JobIsRecord DEF Good
  <2>3. /\ Applied(j, mem[1][j], manual[w]) \in JobType /\ Timely(Applied(j, mem[1][j], manual[w]))
        /\ Has(Applied(j, mem[1][j], manual[w])) => Applied(j, mem[1][j], manual[w]).mark = None
    BY <1>1, <2>2, AppliedIs
  <2>4. /\ Good(merged)
        /\ Has(merged[j]) => merged[j].mark = None
        /\ \A i \in Jobs : i # j => merged[i] = disk[i]
        /\ \A i \in Jobs : Has(merged[i]) => Has(disk[i])
    BY <1>1, <2>2, <2>3 DEF Good
  <2> HIDE DEF merged, j
  <2>5. /\ Good(T)
        /\ \A i \in Jobs :
             /\ Has(T[i]) <=> Has(merged[i])
             /\ Has(merged[i]) => Tended(merged[i], T[i])
             /\ Has(merged[i]) /\ merged[i].on =>
                  T[i].next = merged[i].next \/ merged[i].last >= merged[i].next
    BY <2>4, MaintainedIs
  <2> HIDE DEF T
  <2>6. Section(1) /\ mem'[1] = T
    BY <1>1, <2>1, <2>5, StoreIs, FirstIsService
  <2>7. \A i \in Jobs :
          /\ Has(T[i]) => Has(disk[i])
          /\ i # j => /\ AsBefore(disk[i], T[i])
                      /\ Has(disk[i]) => T[i].mark \in {disk[i].mark, None}
                      /\ Has(disk[i]) /\ disk[i].on =>
                           T[i].next = disk[i].next \/ disk[i].last >= disk[i].next
                      /\ Has(disk[i]) => T[i].last = disk[i].last
    BY <2>4, <2>5 DEF AsBefore, Tended
  <2>8. ~(Has(T[j]) /\ T[j].mark # None)
    BY <1>1, <2>4, <2>5 DEF Tended
  <2>9. \A i \in Jobs : Tidy(T[i])
    BY <2>5 DEF Tended, Tidy
  <2>10. QED
    BY <1>1, <2>1, <2>6, <2>7, <2>8, <2>9 DEF j, ArmTimer
<1>4. QED
  BY <1>2, <1>3

---------------------------------------------------------------------------
(* Types.                                                                  *)

Stores ==
  /\ Good(disk) /\ mem \in [Services -> [Jobs -> JobType]]
  /\ \A s \in Services : Good(mem[s])

LEMMA SectionStores ==
  ASSUME TypeOK, Timed, NEW s \in Services, Section(s)
  PROVE  Stores'
<1>1. Good(disk) /\ \A r \in Services : Good(mem[r])
  BY StoresAreGood
<1>3. now' = now /\ Good(mem'[s])
  BY DEF Section
<1>4. \A r \in Services : mem'[r] = (IF r = s THEN mem'[s] ELSE mem[r])
  BY DEF Section, TypeOK
<1>6. mem' \in [Services -> [Jobs -> JobType]]
  BY <1>3 DEF Section, TypeOK, Good
<1>7. QED
  BY <1>1, <1>3, <1>4, <1>6 DEF Stores, Good, Timely, Section

\* The batches stay what they are but for the one of service s and kind k.
BatchOnly(s, k) ==
  /\ batch' \in [Services -> [Batches -> BatchType]]
  /\ \A r \in Services, l \in Batches : (r = s /\ l = k) \/ batch'[r][l] = batch[r][l]

LEMMA BatchSet ==
  ASSUME TypeOK, NEW s \in Services, NEW k \in Batches, NEW b \in BatchType,
         batch' = [batch EXCEPT ![s][k] = b]
  PROVE  BatchOnly(s, k) /\ batch'[s][k] = b
BY DEF TypeOK, BatchOnly

LEMMA JobStartsBatch ==
  ASSUME TypeOK, NEW s \in Services, NEW k \in Batches, NEW j \in Jobs, JobStarts(s, k, j)
  PROVE  /\ BatchOnly(s, k)
         /\ batch'[s][k].todo = batch[s][k].todo \ {j}
         /\ batch'[s][k].going = batch[s][k].going \cup {[job |-> j, started |-> now]}
         /\ batch'[s][k].done = batch[s][k].done /\ batch'[s][k].later = batch[s][k].later
         /\ j \in batch[s][k].todo /\ Cardinality(batch[s][k].going) < Workers(k)
         /\ JobsOf(batch'[s][k]) = JobsOf(batch[s][k])
<1> DEFINE x == [job |-> j, started |-> now]
           b == [batch[s][k] EXCEPT !.todo = @ \ {j}, !.going = @ \cup {x}]
<1>1. batch[s][k] \in BatchType /\ x \in [job : Jobs, started : Times]
  BY TimesAre DEF TypeOK
<1>2. /\ b \in BatchType /\ b.todo = batch[s][k].todo \ {j} /\ b.going = batch[s][k].going \cup {x}
      /\ b.done = batch[s][k].done /\ b.later = batch[s][k].later
  <2> HIDE DEF x
  <2>1. QED
    BY <1>1 DEF BatchType
<1>3. batch' = [batch EXCEPT ![s][k] = b]
  BY DEF JobStarts, TypeOK, Batches
<1> HIDE DEF b
<1>4. BatchOnly(s, k) /\ batch'[s][k] = b
  BY <1>2, <1>3, BatchSet
<1>5. x.job = j
  OBVIOUS
<1>6. JobsOf(b) = JobsOf(batch[s][k])
  <2> HIDE DEF x
  <2>1. j \in batch[s][k].todo
    BY DEF JobStarts
  <2>2. {y.job : y \in batch[s][k].going \cup {x}} = {y.job : y \in batch[s][k].going} \cup {j}
    BY <1>5
  <2>3. QED
    BY <1>2, <2>1, <2>2 DEF JobsOf
<1>7. QED
  BY <1>2, <1>4, <1>6 DEF JobStarts

LEMMA JobEndsBatch ==
  ASSUME TypeOK, NEW s \in Services, NEW k \in Batches, NEW j \in Jobs, JobEnds(s, k, j)
  PROVE  /\ BatchOnly(s, k) /\ UNCHANGED <<stores, now, phase, timer, tick, manual, current, slips>>
         /\ batch'[s][k].todo = batch[s][k].todo /\ batch'[s][k].later = batch[s][k].later
         /\ batch'[s][k].going \subseteq batch[s][k].going
         /\ batch'[s][k].done # {}
         /\ JobsOf(batch'[s][k]) = JobsOf(batch[s][k])
<1>1. PICK x \in batch[s][k].going, o \in Outcomes(j) :
        /\ x.job = j
        /\ batch' = [batch EXCEPT ![s][k].going = @ \ {x},
                  ![s][k].done = @ \cup {[job |-> j, started |-> x.started,
                                          ended |-> now, outcome |-> o]}]
        /\ UNCHANGED <<now, stores, phase, skip, held, timer, tick, manual, current, counts, slips>>
  BY DEF JobEnds
<1> DEFINE r == [job |-> j, started |-> x.started, ended |-> now, outcome |-> o]
           b == [batch[s][k] EXCEPT !.going = @ \ {x}, !.done = @ \cup {r}]
<1>2. batch[s][k] \in BatchType
  BY DEF TypeOK
<1>3. r \in Result /\ r.job = j
  BY <1>1, <1>2 DEF Result, BatchType, Outcomes, TypeOK
<1>4. /\ b \in BatchType /\ b.todo = batch[s][k].todo /\ b.later = batch[s][k].later
      /\ b.going = batch[s][k].going \ {x} /\ b.done = batch[s][k].done \cup {r}
  <2> HIDE DEF r
  <2>1. QED
    BY <1>2, <1>3 DEF BatchType
<1>5. batch' = [batch EXCEPT ![s][k] = b]
  BY <1>1 DEF TypeOK, Batches
<1> HIDE DEF b, r
<1>6. BatchOnly(s, k) /\ batch'[s][k] = b
  BY <1>4, <1>5, BatchSet
<1>7. JobsOf(b) = JobsOf(batch[s][k])
  BY <1>1, <1>3, <1>4 DEF JobsOf
<1>8. QED
  BY <1>1, <1>4, <1>6, <1>7

LEMMA NoBatchIs == NoBatch \in BatchType /\ NoBatch.going = {} /\ NoBatch.done = {} /\ NoBatch.todo = {}
BY DEF NoBatch, BatchOf, BatchType

\* A batch is replaced, or it is one of its jobs that starts or ends.
LEMMA BoundedBatch ==
  ASSUME TypeOK, Bounded, NEW s \in Services, NEW k \in Batches, BatchOnly(s, k),
         \/ batch'[s][k].going \subseteq batch[s][k].going
         \/ \E x : /\ batch'[s][k].going = batch[s][k].going \cup {x}
                   /\ Cardinality(batch[s][k].going) < Workers(k)
  PROVE  Bounded'
<1> DEFINE g == batch[s][k].going
           h == batch'[s][k].going
<1>1. IsFiniteSet(g) /\ Cardinality(g) \in Nat /\ Cardinality(g) <= Concurrency
  BY FS_CardinalityType DEF Bounded
<1>2. Workers(k) <= Concurrency /\ Concurrency \in Nat
  BY CronServiceAssumption DEF Workers
<1>3. IsFiniteSet(h) /\ Cardinality(h) <= Concurrency
  <2> HIDE DEF g, h
  <2>1. CASE h \subseteq g
    BY <1>1, <1>2, <2>1, FS_Subset, FS_CardinalityType
  <2>2. ASSUME NEW x, h = g \cup {x}, Cardinality(g) < Workers(k)
        PROVE  IsFiniteSet(h) /\ Cardinality(h) <= Concurrency
    <3>1. Workers(k) \in Nat
      BY CronServiceAssumption DEF Workers
    <3>2. /\ IsFiniteSet(g \cup {x})
          /\ Cardinality(g \cup {x}) = IF x \in g THEN Cardinality(g) ELSE Cardinality(g) + 1
      BY <1>1, FS_AddElement
    <3>3. QED
      BY <1>1, <1>2, <2>2, <3>1, <3>2
  <2>3. QED
    BY <2>1, <2>2 DEF g, h
<1>4. QED
  BY <1>3 DEF Bounded, BatchOnly

LEMMA TypeInit == Init => TypeOK /\ Timed /\ Bounded
<1> SUFFICES ASSUME Init PROVE TypeOK /\ Timed /\ Bounded
  OBVIOUS
<1>1. now = 0 /\ 0 \in 0..MaxTime /\ 0 \in 0..MaxOps /\ 0 \in 0..MaxFaults
  BY CronServiceAssumption DEF Init
<1>2. /\ 0 \in Times /\ 1 \in Times /\ None \in Times
      /\ \A j \in Jobs : AtTime[j] \in Times /\ AtTime[j] # None
  BY CronServiceAssumption DEF Times, None
<1>3. disk \in [Jobs -> JobType] /\ \A j \in Jobs : Timely(disk[j])
  <2>1. PICK there \in SUBSET Jobs, due \in SUBSET Jobs, marked \in SUBSET Jobs :
          disk = FileOf(there, due, marked)
    BY DEF Init
  <2> DEFINE next(j) == IF j \in due THEN 0 ELSE Fresh(j).next
             mark(j) == IF j \in marked THEN 0 ELSE Fresh(j).mark
             m(j) == [on |-> Fresh(j).on, next |-> next(j), mark |-> mark(j), last |-> Fresh(j).last]
  <2>2. ASSUME NEW j \in Jobs PROVE disk[j] \in {Gone, m(j)}
    BY <2>1 DEF FileOf, Fresh
  <2>3. ASSUME NEW j \in Jobs PROVE m(j) \in JobRecord /\ Timely(m(j))
    <3>1. Fresh(j) \in JobRecord /\ Fresh(j).next # None /\ Fresh(j).mark = None
      BY <1>1, <1>2 DEF Fresh, JobRecord, None
    <3>2. /\ next(j) \in Times /\ next(j) # None
          /\ mark(j) \in Times /\ mark(j) <= now
      BY <1>1, <1>2, <3>1 DEF JobRecord, None
    <3> HIDE DEF next, mark
    <3>3. QED
      BY <3>1, <3>2 DEF JobRecord, Timely
  <2>4. disk = [j \in Jobs |-> disk[j]]
    BY <2>1 DEF FileOf
  <2> HIDE DEF m
  <2>5. \A j \in Jobs : disk[j] \in JobType /\ Timely(disk[j])
    BY <2>2, <2>3, GoneIs, RecordIsJob
  <2>6. QED
    BY <2>4, <2>5
<1>5. mem \in [Services -> [Jobs -> JobType]] /\ \A s \in Services, j \in Jobs : Timely(mem[s][j])
  BY GoneIs DEF Init
<1>6. batch \in [Services -> [Batches -> BatchType]]
  BY NoBatchIs DEF Init
<1>7. Bounded
  <2>1. \A s \in Services, k \in Batches : batch[s][k].going = {}
    BY NoBatchIs DEF Init
  <2>2. IsFiniteSet({}) /\ Cardinality({}) <= Concurrency
    BY FS_EmptySet, CronServiceAssumption
  <2>3. QED
    BY <2>1, <2>2 DEF Bounded
<1>8. manual \in [Slots -> ManualType] /\ \A w \in Slots : manual[w].at = "idle"
  BY DEF Init, ManualType, NoManual
<1>9. Timed
  BY <1>3, <1>5, <1>8 DEF Timed
<1>10. QED
  BY <1>1, <1>3, <1>5, <1>6, <1>7, <1>8, <1>9 DEF Init, TypeOK, Bounded

\* The part of TypeOK that is not about the stores.
Others ==
  /\ now \in 0..MaxTime /\ ops \in 0..MaxOps /\ faults \in 0..MaxFaults
  /\ current \in {0} \cup Services
  /\ phase \in [Services -> {"off", "new", "plan", "catchup", "final", "up"}]
  /\ skip \in [Services -> SUBSET Jobs]
  /\ batch \in [Services -> [Batches -> BatchType]]
  /\ held \in [Services -> BOOLEAN] /\ timer \in [Services -> BOOLEAN]
  /\ tick \in [Services -> {"idle", "fired", "claimed", "swept"}]
  /\ manual \in [Slots -> ManualType]
  /\ slips \subseteq {"aged", "off"}
  /\ \A w \in Slots : manual[w].at = "inspected" => manual[w].started = now

LEMMA TypeParts == TypeOK /\ Timed /\ Bounded <=> Stores /\ Others /\ Bounded
BY DEF TypeOK, Timed, Bounded, Stores, Others, Good

LEMMA TypeStep == TypeOK /\ Timed /\ Bounded /\ [Next]_vars => TypeOK' /\ Timed' /\ Bounded'
<1> SUFFICES ASSUME TypeOK, Timed, Bounded, [Next]_vars
             PROVE  Stores' /\ Others' /\ Bounded'
  BY DEF TypeOK, Timed, Bounded, Stores, Others, Good
<1>a. Stores /\ Others
  BY TypeParts
<1>b. UNCHANGED <<now, disk, mem>> => Stores'
  BY <1>a DEF Stores, Good, Timely
<1>c. UNCHANGED batch => Bounded'
  BY DEF Bounded
<1>d. NoManual \in ManualType /\ NoManual.at # "inspected"
  BY DEF NoManual, ManualType
<1>e. ASSUME NEW w \in Slots, NEW m \in ManualType, manual' = [manual EXCEPT ![w] = m],
             now' = now, m.at = "inspected" => m.started = now
      PROVE  /\ manual' \in [Slots -> ManualType]
             /\ \A v \in Slots : manual'[v].at = "inspected" => manual'[v].started = now'
  BY <1>a, <1>e DEF Others
<1>1. CASE ClockTick
  <2>1. UNCHANGED <<disk, mem>> /\ now' = now + 1 /\ now \in Int
    BY <1>1, <1>a DEF ClockTick, stores, Others
  <2>2. ASSUME NEW job \in JobType, Timely(job) PROVE Timely(job)'
    <3>1. Has(job) => job.mark \in Int /\ job.mark <= now + 1
      BY <2>1, <2>2, JobIsRecord, TimesAre DEF Timely, JobRecord
    <3>2. QED
      BY <2>1, <2>2, <3>1 DEF Timely
  <2>3. \A S : Good(S) => S \in [Jobs -> JobType] /\ \A j \in Jobs : Timely(S[j])'
    BY <2>2 DEF Good
  <2>a. (\A j \in Jobs : Timely(disk[j])') /\ (\A s \in Services, j \in Jobs : Timely(mem[s][j])')
    BY <1>a, <2>1, <2>3 DEF Stores, Timely
  <2>b. Stores'
    BY <1>a, <2>1, <2>a DEF Stores, Good
  <2>4. Others'
    <3>1. slips' \subseteq slips \cup {"aged"}
      BY <1>1 DEF ClockTick
    <3>2. /\ now' \in 0..MaxTime /\ \A w \in Slots : manual[w].at # "inspected"
          /\ UNCHANGED <<phase, skip, batch, held, timer, tick, manual, current, ops, faults>>
      BY <1>1, <1>a, CronServiceAssumption DEF ClockTick, Others, counts
    <3>3. QED
      BY <1>a, <3>1, <3>2 DEF Others
  <2>5. QED
    BY <1>1, <1>c, <2>b, <2>4 DEF ClockTick
<1>2. CASE Launch
  <2>1. 1 \in Services
    BY CronServiceAssumption DEF Services
  <2>2. Others'
    BY <1>2, <1>a, <2>1 DEF Launch, Others, counts
  <2>3. QED
    BY <1>2, <1>b, <1>c, <2>2 DEF Launch, stores
<1>3. CASE Reload
  <2>1. current \in Services /\ current + 1 \in Services
    BY <1>3, <1>a, CronServiceAssumption DEF Reload, Others, Services
  <2>2. Others'
    <3>1. /\ faults' \in 0..MaxFaults /\ current' \in Services
          /\ phase' \in [Services -> {"off", "new", "plan", "catchup", "final", "up"}]
          /\ timer' \in [Services -> BOOLEAN]
          /\ UNCHANGED <<now, skip, batch, held, tick, manual, ops, slips>>
      BY <1>3, <1>a, <2>1, CronServiceAssumption DEF Reload, Others
    <3>2. QED
      BY <1>a, <3>1 DEF Others
  <2>3. QED
    BY <1>3, <1>b, <1>c, <2>2 DEF Reload, stores
<1>4. CASE Crash
  <2>1. Stores'
    BY <1>4, <1>a, GoneIs DEF Crash, Stores, Good, Timely
  <2>2. Others'
    BY <1>4, <1>a, <1>d, NoBatchIs, CronServiceAssumption DEF Crash, Others
  <2>3. \A s \in Services, k \in Batches : batch'[s][k].going = {}
    BY <1>4, NoBatchIs DEF Crash
  <2>4. Bounded'
    <3>1. IsFiniteSet({}) /\ Cardinality({}) <= Concurrency
      BY FS_EmptySet, CronServiceAssumption
    <3>2. QED
      BY <2>3, <3>1 DEF Bounded
  <2>5. QED
    BY <2>1, <2>2, <2>4
<1>5. ASSUME NEW s \in Services, StartStep(s) PROVE Stores' /\ Others' /\ Bounded'
  <2>1. CASE StartClears(s)
    BY <1>a, <1>c, <2>1, ClearsIs, SectionStores DEF StartClears, Others, counts
  <2>2. CASE StartPlans(s)
    <3>1. Section(s)
      BY <2>2, PlansIs
    <3>a. batch' = batch \/ (BatchOnly(s, "start") /\ batch'[s]["start"].going = {})
      <4>1. ASSUME NEW first \in SUBSET Jobs, NEW later \in SUBSET Jobs,
                   batch' = [batch EXCEPT ![s]["start"] = BatchOf(first, later)]
            PROVE  BatchOnly(s, "start") /\ batch'[s]["start"].going = {}
        <5>1. BatchOf(first, later) \in BatchType /\ BatchOf(first, later).going = {}
          BY DEF BatchOf, BatchType
        <5>2. "start" \in Batches
          BY DEF Batches
        <5>3. QED
          BY <4>1, <5>1, <5>2, BatchSet
      <4>2. QED
        BY <2>2, <4>1, PlansIs
    <3>2. Bounded'
      BY <1>c, <3>a, BoundedBatch DEF Batches
    <3>3. phase' \in [Services -> {"off", "new", "plan", "catchup", "final", "up"}]
      BY <1>a, <2>2, PlansIs DEF Others
    <3>4. Others'
      BY <1>a, <2>2, <3>a, <3>3 DEF StartPlans, Others, counts, BatchOnly
    <3>5. QED
      BY <3>1, <3>2, <3>4, SectionStores
  <2>3. CASE StartApplies(s)
    <3>1. BatchOnly(s, "start") /\ batch'[s]["start"].going = {}
      BY <2>3, StartAppliesIs, NoBatchIs, BatchSet DEF Batches
    <3>2. Bounded'
      BY <3>1, BoundedBatch DEF Batches
    <3>3. Others'
      BY <1>a, <2>3, <3>1 DEF StartApplies, Others, counts, BatchOnly
    <3>4. QED
      BY <2>3, <3>2, <3>3, StartAppliesIs, SectionStores
  <2>4. CASE StartFinishes(s)
    BY <1>a, <1>c, <2>4, FinishesIs, SectionStores DEF StartFinishes, Others, counts, ArmTimer
  <2>5. QED
    BY <1>5, <2>1, <2>2, <2>3, <2>4 DEF StartStep
<1>6. ASSUME NEW s \in Services, TimerStep(s) PROVE Stores' /\ Others' /\ Bounded'
  <2>1. CASE TickFindsNothing(s)
    BY <1>a, <1>c, <2>1, FindsNothingIs, SectionStores DEF TickFindsNothing, Others, counts
  <2>2. CASE TickClaims(s)
    <3>1. BatchOf(DueOnDisk, {}) \in BatchType /\ BatchOf(DueOnDisk, {}).going = {}
      BY <2>2, ClaimsIs DEF BatchOf, BatchType
    <3>2. BatchOnly(s, "tick") /\ batch'[s]["tick"].going = {}
      BY <2>2, <3>1, BatchSet DEF TickClaims, Batches
    <3>3. Bounded'
      BY <3>2, BoundedBatch DEF Batches
    <3>4. Others'
      BY <1>a, <2>2, <3>2 DEF TickClaims, Others, counts, BatchOnly
    <3>5. QED
      BY <2>2, <3>3, <3>4, ClaimsIs, SectionStores
  <2>3. CASE TickApplies(s)
    <3>1. BatchOnly(s, "tick") /\ batch'[s]["tick"].going = {}
      BY <2>3, NoBatchIs, BatchSet DEF TickApplies, Batches
    <3>2. Bounded'
      BY <3>1, BoundedBatch DEF Batches
    <3>3. Others'
      BY <1>a, <2>3, <3>1 DEF TickApplies, Others, counts, BatchOnly
    <3>4. QED
      BY <2>3, <3>2, <3>3, TickAppliesIs, SectionStores
  <2>4. CASE TimerFires(s)
    BY <1>a, <1>b, <1>c, <2>4 DEF TimerFires, Others, counts, stores
  <2>5. CASE TickEnds(s)
    BY <1>a, <1>b, <1>c, <2>5 DEF TickEnds, Others, counts, stores, ArmTimer
  <2>6. QED
    BY <1>6, <2>1, <2>2, <2>3, <2>4, <2>5 DEF TimerStep
<1>7. ASSUME NEW s \in Services, List(s) PROVE Stores' /\ Others' /\ Bounded'
  <2>1. Stores'
    BY <1>7, ListIs, SectionStores
  <2>2. Others'
    BY <1>7, <1>a, CronServiceAssumption DEF List, Operates, Counted, Others
  <2>3. QED
    BY <1>7, <1>c, <2>1, <2>2 DEF List
<1>8. ASSUME NEW s \in Services, NEW j \in Jobs, Add(s, j) PROVE Stores' /\ Others' /\ Bounded'
  <2>1. Stores'
    BY <1>8, AddIs, SectionStores
  <2>2. Others'
    BY <1>8, <1>a, CronServiceAssumption DEF Add, Operates, Counted, Others, ArmTimer
  <2>3. QED
    BY <1>8, <1>c, <2>1, <2>2 DEF Add
<1>9. ASSUME NEW s \in Services, NEW j \in Jobs, Remove(s, j) PROVE Stores' /\ Others' /\ Bounded'
  <2>1. Stores'
    BY <1>9, RemoveIs, SectionStores
  <2>2. Others'
    BY <1>9, <1>a, CronServiceAssumption DEF Remove, Operates, Counted, Others, ArmTimer
  <2>3. QED
    BY <1>9, <1>c, <2>1, <2>2 DEF Remove
<1>10. ASSUME NEW s \in Services, NEW j \in Jobs, NEW on \in BOOLEAN, Update(s, j, on)
       PROVE  Stores' /\ Others' /\ Bounded'
  <2>1. Stores'
    BY <1>10, UpdateIs, SectionStores
  <2>2. Others'
    BY <1>10, <1>a, CronServiceAssumption DEF Update, Operates, Counted, Others, ArmTimer
  <2>3. QED
    BY <1>10, <1>c, <2>1, <2>2 DEF Update
<1>11. ASSUME NEW s \in Services, NEW j \in Jobs, ManualRun(s, j)
       PROVE  Stores' /\ Others' /\ Bounded'
  <2>1. Stores'
    BY <1>11, ManualRunIs, SectionStores
  <2>2. PICK w \in Slots : manual' = [manual EXCEPT ![w] =
                             [NoManual EXCEPT !.at = "inspected", !.job = j, !.started = now]]
    BY <1>11 DEF ManualRun
  <2> DEFINE m == [NoManual EXCEPT !.at = "inspected", !.job = j, !.started = now]
  <2>3. m \in ManualType /\ m.started = now
    BY <1>a DEF ManualType, NoManual, Others
  <2> HIDE DEF m
  <2>4. /\ manual' \in [Slots -> ManualType]
        /\ \A v \in Slots : manual'[v].at = "inspected" => manual'[v].started = now'
    <3>1. manual' = [manual EXCEPT ![w] = m] /\ now' = now
      BY <1>11, <2>2 DEF m, ManualRun
    <3>2. QED
      BY <1>e, <2>3, <3>1
  <2>5. Others'
    BY <1>11, <1>a, <2>4, CronServiceAssumption DEF ManualRun, Operates, Counted, Others
  <2>6. QED
    BY <1>11, <1>c, <2>1, <2>5 DEF ManualRun
<1>12. ASSUME NEW w \in Slots, ManualReserves(w) PROVE Stores' /\ Others' /\ Bounded'
  <2>1. /\ manual' \in [Slots -> ManualType]
        /\ \A v \in Slots : manual'[v].at = "inspected" => manual'[v].started = now'
    <3>0. now' = now
      BY <1>12 DEF ManualReserves
    <3>1. CASE manual' = [manual EXCEPT ![w] = NoManual]
      BY <1>d, <1>e, <3>0, <3>1
    <3>2. CASE manual' = [manual EXCEPT ![w].at = "going"]
      <4> DEFINE m == [manual[w] EXCEPT !.at = "going"]
      <4>1. manual[w] \in ManualType /\ manual[w].at = "inspected"
        BY <1>12, <1>a DEF ManualReserves, Others
      <4>2. m \in ManualType /\ m.at # "inspected"
        BY <4>1 DEF ManualType, NoManual
      <4>3. manual' = [manual EXCEPT ![w] = m]
        BY <3>2
      <4> HIDE DEF m
      <4>4. QED
        BY <1>e, <3>0, <4>2, <4>3
    <3>3. QED
      BY <1>12, <3>1, <3>2, ReservesIs
  <2>2. slips' \subseteq {"aged", "off"}
    BY <1>12, <1>a, ReservesIs DEF Others
  <2>3. Others'
    BY <1>12, <1>a, <2>1, <2>2 DEF ManualReserves, Others, counts
  <2>4. Stores'
    BY <1>12, <1>b, ReservesIs, SectionStores, FirstIsService DEF ManualReserves, stores
  <2>5. QED
    BY <1>12, <1>c, <2>3, <2>4 DEF ManualReserves
<1>13. ASSUME NEW w \in Slots, ManualFinishes(w) PROVE Stores' /\ Others' /\ Bounded'
  <2>1. held' \in [Services -> BOOLEAN] /\ timer' \in [Services -> BOOLEAN]
    BY <1>13, <1>a, ManualFinishesIs DEF Others
  <2>2. /\ manual' \in [Slots -> ManualType]
        /\ \A v \in Slots : manual'[v].at = "inspected" => manual'[v].started = now'
    BY <1>13, <1>d, <1>e, ManualFinishesIs DEF ManualFinishes
  <2>3. Others'
    BY <1>13, <1>a, <2>1, <2>2 DEF ManualFinishes, Others, counts
  <2>4. Stores'
    BY <1>13, <1>b, ManualFinishesIs, SectionStores, FirstIsService DEF ManualFinishes, stores
  <2>5. QED
    BY <1>13, <1>c, <2>3, <2>4 DEF ManualFinishes
<1>14. ASSUME NEW w \in Slots, ManualEnds(w) PROVE Stores' /\ Others' /\ Bounded'
  <2>1. PICK o \in Outcomes(manual[w].job) :
          manual' = [manual EXCEPT ![w].at = "ended", ![w].ended = now, ![w].outcome = o]
    BY <1>14 DEF ManualEnds
  <2> DEFINE m == [manual[w] EXCEPT !.at = "ended", !.ended = now, !.outcome = o]
  <2>2. m \in ManualType /\ m.at = "ended" /\ manual' = [manual EXCEPT ![w] = m]
    <3>1. /\ manual[w] \in [at : {"going"}, job : Jobs, started : 0..MaxTime,
                            ended : {None}, outcome : {"none"}]
          /\ now \in 0..MaxTime /\ o \in {"ok", "retry", "stop"}
      <4>1. manual[w] \in ManualType /\ manual[w].at = "going"
        BY <1>14, <1>a DEF ManualEnds, Others
      <4>2. QED
        BY <1>a, <2>1, <4>1 DEF ManualType, Others, NoManual, Outcomes
    <3>2. /\ m \in [at : {"ended"}, job : Jobs, started : 0..MaxTime,
                    ended : 0..MaxTime, outcome : {"ok", "retry", "stop"}]
          /\ m.at = "ended"
      BY <3>1
    <3>3. manual' = [manual EXCEPT ![w] = m]
      BY <1>a, <2>1 DEF Others
    <3>4. QED
      BY <3>2, <3>3 DEF ManualType
  <2> HIDE DEF m
  <2>3. /\ manual' \in [Slots -> ManualType]
        /\ \A v \in Slots : manual'[v].at = "inspected" => manual'[v].started = now'
    BY <1>14, <1>e, <2>2 DEF ManualEnds
  <2>4. Others'
    BY <1>14, <1>a, <2>3 DEF ManualEnds, Others, counts
  <2>5. QED
    BY <1>14, <1>b, <1>c, <2>4 DEF ManualEnds, stores
<1>15. ASSUME NEW s \in Services, NEW k \in Batches, NEW j \in Jobs, JobStarts(s, k, j)
       PROVE  Stores' /\ Others' /\ Bounded'
  <2>1. Bounded'
    BY <1>15, JobStartsBatch, BoundedBatch
  <2>2. Others'
    BY <1>15, <1>a, JobStartsBatch DEF JobStarts, Others, counts, BatchOnly
  <2>3. QED
    BY <1>15, <2>1, <2>2, JobStartsIs, SectionStores
<1>16. ASSUME NEW s \in Services, NEW k \in Batches, NEW j \in Jobs, JobEnds(s, k, j)
       PROVE  Stores' /\ Others' /\ Bounded'
  <2>1. Bounded'
    BY <1>16, JobEndsBatch, BoundedBatch
  <2>2. UNCHANGED <<skip, held, ops, faults>>
    BY <1>16 DEF JobEnds, counts
  <2>3. Others'
    BY <1>16, <1>a, <2>2, JobEndsBatch DEF Others, BatchOnly
  <2>4. QED
    BY <1>16, <1>b, <2>1, <2>3, JobEndsBatch DEF stores
<1>17. CASE UNCHANGED vars
  BY <1>17, <1>a, <1>b, <1>c DEF vars, stores, counts, Others
<1>18. QED
  BY <1>1, <1>2, <1>3, <1>4, <1>5, <1>6, <1>7, <1>8, <1>9, <1>10, <1>11, <1>12, <1>13, <1>14,
     <1>15, <1>16, <1>17 DEF Next, ManualStep

\* Type correctness of the cron service; no batch runs more jobs at once than
\* the limit of concurrent runs.
THEOREM Typing == Spec => []TypeOK
BY TypeInit, TypeStep, PTL DEF Spec

---------------------------------------------------------------------------
(* The lives of services.                                                  *)

\* Only a service that has loaded its jobs does anything but load them.
LEMMA ActsLoaded ==
  ASSUME TypeOK, Lives, NEW s \in Services,
         \/ StartPlans(s) \/ StartApplies(s) \/ StartFinishes(s) \/ TimerStep(s) \/ List(s)
         \/ \E j \in Jobs : \/ Add(s, j) \/ Remove(s, j) \/ ManualRun(s, j)
                            \/ \E on \in BOOLEAN : Update(s, j, on)
                            \/ \E k \in Batches : JobStarts(s, k, j) \/ JobEnds(s, k, j)
         \/ s = 1 /\ \E w \in Slots : manual[w] # NoManual
  PROVE  Loaded(s) /\ s <= current
<1>1. ASSUME Loaded(s) PROVE s <= current
  BY <1>1 DEF Lives, Loaded, TypeOK, Services
<1>2. CASE StartPlans(s) \/ StartApplies(s) \/ StartFinishes(s)
  BY <1>1, <1>2 DEF StartPlans, StartApplies, StartFinishes, Loaded
<1>3. CASE TimerStep(s)
  <2>1. timer[s] \/ tick[s] # "idle"
    BY <1>3 DEF TimerStep, TimerFires, TickFindsNothing, TickClaims, TickApplies, TickEnds
  <2>2. QED
    BY <1>1, <2>1 DEF Lives
<1>4. CASE List(s)
  BY <1>1, <1>4 DEF List, Operates, Loaded
<1>5. ASSUME NEW j \in Jobs, Add(s, j) \/ Remove(s, j) \/ ManualRun(s, j)
      PROVE  Loaded(s) /\ s <= current
  BY <1>1, <1>5 DEF Add, Remove, ManualRun, Operates, Loaded
<1>6. ASSUME NEW j \in Jobs, NEW on \in BOOLEAN, Update(s, j, on)
      PROVE  Loaded(s) /\ s <= current
  BY <1>1, <1>6 DEF Update, Operates, Loaded
<1>7. ASSUME NEW j \in Jobs, NEW k \in Batches, JobStarts(s, k, j) \/ JobEnds(s, k, j)
      PROVE  Loaded(s) /\ s <= current
  <2>1. batch[s][k].todo # {} \/ batch[s][k].going # {}
    BY <1>7 DEF JobStarts, JobEnds
  <2>2. batch[s][k] # NoBatch
    BY <2>1, NoBatchIs
  <2>3. Loaded(s)
    <3>1. CASE k = "start"
      BY <2>2, <3>1 DEF Lives
    <3>2. CASE k = "tick"
      <4>1. tick[s] = "claimed"
        BY <2>2, <3>2 DEF Lives
      <4>2. QED
        BY <4>1 DEF Lives
    <3>3. QED
      BY <3>1, <3>2 DEF Batches
  <2>4. QED
    BY <1>1, <2>3
<1>8. CASE s = 1 /\ \E w \in Slots : manual[w] # NoManual
  BY <1>1, <1>8 DEF Lives, Front
<1>9. QED
  BY <1>2, <1>3, <1>4, <1>5, <1>6, <1>7, <1>8

LEMMA LivesInit == Init => Lives
BY DEF Init, Lives, Loaded, Batches, Front

\* A step within the lives of the services: one that has loaded its jobs moves.
LEMMA LivesWithin ==
  ASSUME TypeOK, Lives, NEW s \in Services, Loaded(s), current' = current,
         \/ phase' = phase \/ phase' = [phase EXCEPT ![s] = "catchup"]
         \/ phase' = [phase EXCEPT ![s] = "final"] \/ phase' = [phase EXCEPT ![s] = "up"],
         \A r \in Services \ {s} : timer'[r] = timer[r] /\ tick'[r] = tick[r] /\ batch'[r] = batch[r],
         manual' = manual \/ s = 1,
         phase'[s] # "catchup" => batch'[s]["start"] = NoBatch,
         tick'[s] # "claimed" => batch'[s]["tick"] = NoBatch
  PROVE  Lives'
<1>1. \A r \in Services \ {s} : phase'[r] = phase[r]
  BY DEF TypeOK
<1>2. phase'[s] \notin {"off", "new"}
  BY DEF Loaded, TypeOK
<1>3. ~(s > current)
  BY DEF Lives, Loaded
<1>4. ~Loaded(Front)' => \A w \in Slots : manual'[w] = NoManual
  <2>1. CASE s = 1
    BY <1>2, <2>1 DEF Loaded, Front
  <2>2. CASE s # 1
    BY <1>1, <2>2, FirstIsService DEF Lives, Loaded, Front
  <2>3. QED
    BY <2>1, <2>2
<1>5. QED
  BY <1>1, <1>2, <1>3, <1>4 DEF Lives, Loaded

LEMMA LivesStep == TypeOK /\ Timed /\ Lives /\ [Next]_vars => Lives'
<1> SUFFICES ASSUME TypeOK, Timed, Lives, [Next]_vars
             PROVE  Lives'
  OBVIOUS
<1>a. \A s \in Services : s \in Int /\ s >= 1
  BY DEF Services
<1>b. \A s \in Services : /\ phase[s] # "catchup" => batch[s]["start"] = NoBatch
                          /\ tick[s] # "claimed" => batch[s]["tick"] = NoBatch
  BY DEF Lives
<1>c. ASSUME UNCHANGED <<phase, batch, timer, tick, manual, current>> PROVE Lives'
  BY <1>c DEF Lives, Loaded
<1>d. "start" # "tick" /\ {"start", "tick"} \subseteq Batches
  BY DEF Batches
<1>1. CASE ClockTick
  BY <1>1, <1>c DEF ClockTick
<1>2. CASE Launch
  <2>1. /\ current = 0 /\ current' = 1 /\ phase' = [phase EXCEPT ![1] = "new"]
        /\ UNCHANGED <<batch, timer, tick, manual>>
    BY <1>2 DEF Launch
  <2>2. \A s \in Services : phase[s] = "off" /\ (s > 1 => phase'[s] = "off")
    BY <1>a, <2>1 DEF Lives, TypeOK
  <2>3. /\ \A s \in Services : ~timer[s] /\ tick[s] = "idle" /\ batch[s]["start"] = NoBatch
        /\ \A w \in Slots : manual[w] = NoManual
    BY <2>2, FirstIsService DEF Lives, Loaded, Front
  <2>4. QED
    BY <1>b, <2>1, <2>2, <2>3 DEF Lives, Loaded
<1>3. CASE Reload
  <2> DEFINE s == current + 1
  <2>1. /\ current \in Services /\ s \in Services /\ current' = s /\ s # 1
        /\ phase' = [phase EXCEPT ![s] = "new"] /\ timer' = [timer EXCEPT ![current] = FALSE]
        /\ UNCHANGED <<batch, tick, manual>>
    BY <1>3, CronServiceAssumption DEF Reload, TypeOK, Services
  <2>2. ~Loaded(s) /\ \A r \in Services : r > s => r > current
    BY <1>a, <2>1 DEF Lives, Loaded
  <2> HIDE DEF s
  <2>3. /\ phase'[s] = "new" /\ \A r \in Services \ {s} : phase'[r] = phase[r]
        /\ \A r \in Services : timer'[r] => timer[r]
    BY <2>1 DEF TypeOK
  <2>4. \A r \in Services : r > s => phase'[r] = "off"
    BY <1>a, <2>1, <2>2, <2>3 DEF Lives
  <2>5. \A r \in Services : ~Loaded(r)' => ~Loaded(r)
    BY <2>2, <2>3 DEF Loaded
  <2>6. \A r \in Services : phase'[r] # "catchup" => batch[r]["start"] = NoBatch
    BY <2>2, <2>3 DEF Lives
  <2>7. \A r \in Services : ~Loaded(r)' => ~timer'[r] /\ tick'[r] = "idle" /\ batch'[r]["start"] = NoBatch
    BY <2>1, <2>3, <2>5 DEF Lives
  <2>8. ~Loaded(Front)' => \A w \in Slots : manual'[w] = NoManual
    BY <2>1, <2>5, FirstIsService DEF Lives, Front
  <2>9. QED
    BY <1>b, <2>1, <2>4, <2>6, <2>7, <2>8 DEF Lives
<1>4. CASE Crash
  BY <1>4 DEF Crash, Lives, Loaded, Batches, Front
<1>5. ASSUME NEW s \in Services, StartClears(s) PROVE Lives'
  <2>1. /\ phase[s] = "new" /\ phase' = [phase EXCEPT ![s] = "plan"]
        /\ UNCHANGED <<batch, timer, tick, manual, current>>
    BY <1>5 DEF StartClears
  <2>2. phase'[s] = "plan" /\ \A r \in Services \ {s} : phase'[r] = phase[r]
    BY <2>1 DEF TypeOK
  <2>3. ~(s > current)
    BY <2>1 DEF Lives
  <2>4. QED
    BY <2>1, <2>2, <2>3, FirstIsService DEF Lives, Loaded, Front
<1>6. ASSUME NEW s \in Services, StartPlans(s) PROVE Lives'
  <2>1. Loaded(s) /\ phase[s] = "plan" /\ UNCHANGED <<timer, tick, manual, current>>
    BY <1>6, ActsLoaded DEF StartPlans
  <2>2. CASE UNCHANGED <<stores, batch>> /\ phase' = [phase EXCEPT ![s] = "final"]
    BY <1>b, <2>1, <2>2, LivesWithin
  <2>3. ASSUME NEW first, NEW later, phase' = [phase EXCEPT ![s] = "catchup"],
               batch' = [batch EXCEPT ![s]["start"] = BatchOf(first, later)]
        PROVE  Lives'
    <3>1. /\ phase'[s] = "catchup" /\ \A r \in Services \ {s} : batch'[r] = batch[r]
          /\ batch'[s]["tick"] = batch[s]["tick"]
      BY <1>d, <2>3 DEF TypeOK
    <3>2. QED
      BY <1>b, <2>1, <2>3, <3>1, LivesWithin
  <2>4. QED
    BY <1>6, <2>2, <2>3, PlansIs
<1>7. ASSUME NEW s \in Services, StartApplies(s) PROVE Lives'
  <2>1. /\ Loaded(s) /\ phase' = [phase EXCEPT ![s] = "final"]
        /\ batch' = [batch EXCEPT ![s]["start"] = NoBatch]
        /\ UNCHANGED <<timer, tick, manual, current>>
    BY <1>7, ActsLoaded DEF StartApplies
  <2>2. /\ batch'[s]["start"] = NoBatch /\ \A r \in Services \ {s} : batch'[r] = batch[r]
        /\ batch'[s]["tick"] = batch[s]["tick"]
    BY <1>d, <2>1 DEF TypeOK
  <2>3. QED
    BY <1>b, <2>1, <2>2, LivesWithin
<1>8. ASSUME NEW s \in Services, StartFinishes(s) PROVE Lives'
  <2>1. /\ Loaded(s) /\ phase[s] = "final" /\ phase' = [phase EXCEPT ![s] = "up"]
        /\ UNCHANGED <<batch, tick, manual, current>>
        /\ \A r \in Services \ {s} : timer'[r] = timer[r]
    BY <1>8, ActsLoaded DEF StartFinishes, ArmTimer, TypeOK
  <2>2. QED
    BY <1>b, <2>1, LivesWithin
<1>9. ASSUME NEW s \in Services, TimerStep(s) PROVE Lives'
  <2>1. Loaded(s) /\ UNCHANGED <<phase, manual, current>>
    BY <1>9, ActsLoaded DEF TimerStep, TimerFires, TickFindsNothing, TickClaims, TickApplies, TickEnds
  <2>2. \A r \in Services \ {s} : timer'[r] = timer[r] /\ tick'[r] = tick[r] /\ batch'[r] = batch[r]
    <3>1. CASE TimerFires(s) \/ TickFindsNothing(s) \/ TickEnds(s)
      BY <3>1 DEF TimerFires, TickFindsNothing, TickEnds, ArmTimer, TypeOK
    <3>2. CASE TickClaims(s)
      BY <3>2 DEF TickClaims, TypeOK
    <3>3. CASE TickApplies(s)
      BY <3>3 DEF TickApplies, TypeOK
    <3>4. QED
      BY <1>9, <3>1, <3>2, <3>3 DEF TimerStep
  <2>3. batch'[s]["start"] = batch[s]["start"]
    <3>1. batch' = batch \/ \E b : batch' = [batch EXCEPT ![s]["tick"] = b]
      BY <1>9 DEF TimerStep, TimerFires, TickFindsNothing, TickClaims, TickApplies, TickEnds
    <3>2. QED
      BY <1>d, <3>1 DEF TypeOK
  <2>4. tick'[s] # "claimed" => batch'[s]["tick"] = NoBatch
    <3>1. CASE TimerFires(s) \/ TickFindsNothing(s) \/ TickEnds(s)
      BY <1>b, <3>1 DEF TimerFires, TickFindsNothing, TickEnds, Running
    <3>2. CASE TickClaims(s)
      BY <3>2 DEF TickClaims, TypeOK
    <3>3. CASE TickApplies(s)
      BY <1>d, <3>3 DEF TickApplies, TypeOK
    <3>4. QED
      BY <1>9, <3>1, <3>2, <3>3 DEF TimerStep
  <2>5. QED
    BY <1>b, <2>1, <2>2, <2>3, <2>4, LivesWithin
<1>10. ASSUME NEW s \in Services,
              \/ List(s)
              \/ \E j \in Jobs : \/ Add(s, j) \/ Remove(s, j) \/ ManualRun(s, j)
                                 \/ \E on \in BOOLEAN : Update(s, j, on)
       PROVE  Lives'
  <2>1. Loaded(s) /\ s = 1 /\ UNCHANGED <<phase, batch, tick, current>>
    BY <1>10, ActsLoaded DEF List, Add, Remove, ManualRun, Update, Operates, Front
  <2>2. \A r \in Services \ {s} : timer'[r] = timer[r]
    BY <1>10 DEF List, Add, Remove, ManualRun, Update, ArmTimer, TypeOK
  <2>3. QED
    BY <1>b, <2>1, <2>2, LivesWithin
<1>11. ASSUME NEW w \in Slots, ManualStep(w) \/ ManualEnds(w) PROVE Lives'
  <2>1. manual[w] # NoManual /\ UNCHANGED <<phase, batch, tick, current>>
    <3>1. manual[w].at \in {"inspected", "going", "ended"} /\ UNCHANGED <<phase, batch, tick, current>>
      BY <1>11 DEF ManualStep, ManualReserves, ManualFinishes, ManualEnds
    <3>2. NoManual.at = "idle"
      BY DEF NoManual
    <3>3. QED
      BY <3>1, <3>2
  <2>2. Loaded(1)
    BY <2>1, ActsLoaded, FirstIsService
  <2>3. \A r \in Services \ {1} : timer'[r] = timer[r]
    BY <1>11, ManualFinishesIs DEF ManualStep, ManualReserves, ManualEnds, TypeOK
  <2>4. QED
    BY <1>b, <2>1, <2>2, <2>3, FirstIsService, LivesWithin
<1>12. ASSUME NEW s \in Services, NEW k \in Batches, NEW j \in Jobs,
              JobStarts(s, k, j) \/ JobEnds(s, k, j)
       PROVE  Lives'
  <2>1. Loaded(s) /\ UNCHANGED <<phase, timer, tick, manual, current>>
    BY <1>12, ActsLoaded DEF JobStarts, JobEnds
  <2>2. BatchOnly(s, k)
    BY <1>12, JobStartsBatch, JobEndsBatch
  <2>3. \A r \in Services \ {s} : batch'[r] = batch[r]
    <3>1. ASSUME NEW r \in Services \ {s} PROVE batch'[r] = batch[r]
      <4>1. \A l \in Batches : batch'[r][l] = batch[r][l]
        BY <2>2 DEF BatchOnly
      <4>2. batch'[r] \in [Batches -> BatchType] /\ batch[r] \in [Batches -> BatchType]
        BY <2>2 DEF BatchOnly, TypeOK
      <4>3. QED
        BY <4>1, <4>2
    <3>2. QED
      BY <3>1
  <2>4. batch[s][k] # NoBatch
    BY <1>12, NoBatchIs DEF JobStarts, JobEnds
  <2>5. /\ phase[s] # "catchup" => batch'[s]["start"] = NoBatch
        /\ tick[s] # "claimed" => batch'[s]["tick"] = NoBatch
    BY <1>b, <1>d, <2>2, <2>4 DEF BatchOnly
  <2>6. QED
    BY <2>1, <2>3, <2>5, LivesWithin
<1>13. CASE UNCHANGED vars
  BY <1>13, <1>c DEF vars
<1>14. QED
  BY <1>1, <1>2, <1>3, <1>4, <1>5, <1>6, <1>7, <1>8, <1>9, <1>10, <1>11, <1>12, <1>13
     DEF Next, StartStep

---------------------------------------------------------------------------
(* One service, and its memory in step with the file.                      *)

\* Where no service but the first was started, it is the one that acts.
LEMMA ActsAlone ==
  ASSUME OneService, TypeOK, NEW s \in Services, s <= current
  PROVE  s = 1 /\ current = 1
BY DEF OneService, TypeOK, Services

LEMMA SavedInStep ==
  ASSUME TypeOK, NEW s \in Services, Section(s), disk' = mem'[s], s = 1
  PROVE  InStep'
BY DEF InStep, SameJob

\* Only the memory moves, or nothing.
LEMMA MovedInStep ==
  ASSUME TypeOK, InStep, disk' = disk, current' = current, Loaded(1)' => Loaded(1),
         \A j \in Jobs : SameJob(mem[1][j], mem'[1][j])
  PROVE  InStep'
<1> SUFFICES ASSUME OneService, Loaded(1)', NEW j \in Jobs PROVE SameJob(mem'[1][j], disk'[j])
  BY DEF InStep, OneService
<1>1. SameJob(mem[1][j], disk[j]) /\ SameJob(mem[1][j], mem'[1][j])
  BY DEF InStep
<1>2. QED
  BY <1>1 DEF SameJob

LEMMA AsBeforeIsSame ==
  ASSUME NEW a, NEW b, AsBefore(a, b), Has(a) /\ a.on => b.next = a.next
  PROVE  SameJob(a, b)
BY DEF AsBefore, SameJob

LEMMA InStepInit == Init => InStep
BY FirstIsService DEF Init, InStep, Loaded

LEMMA InStepStep == TypeOK /\ Timed /\ Lives /\ InStep /\ [Next]_vars => InStep'
<1> SUFFICES ASSUME TypeOK, Timed, Lives, InStep, [Next]_vars
             PROVE  InStep'
  OBVIOUS
<1> USE FirstIsService
<1>a. \A j \in Jobs : SameJob(mem[1][j], mem[1][j])
  BY DEF SameJob
<1>b. ASSUME UNCHANGED <<disk, mem, phase, current>> PROVE InStep'
  BY <1>b DEF InStep, Loaded, OneService
<1>c. ASSUME ~OneService' PROVE InStep'
  BY <1>c DEF InStep
<1>d. ASSUME ~Loaded(1)' PROVE InStep'
  BY <1>d DEF InStep
<1>e. ASSUME current' = current, NEW s \in Services, s <= current, s = 1 => InStep' PROVE InStep'
  BY <1>c, <1>e, ActsAlone DEF OneService
<1>1. CASE ClockTick
  BY <1>1, <1>b DEF ClockTick, stores
<1>2. CASE Launch
  <2>1. phase'[1] = "new"
    BY <1>2 DEF Launch, TypeOK
  <2>2. QED
    BY <1>d, <2>1 DEF Loaded
<1>3. CASE Reload
  BY <1>3, <1>c DEF Reload, OneService, TypeOK, Services
<1>4. CASE Crash
  BY <1>4, <1>d DEF Crash, Loaded
<1>5. ASSUME NEW s \in Services, StartStep(s) PROVE InStep'
  <2>1. current' = current
    BY <1>5 DEF StartStep, StartClears, StartPlans, StartApplies, StartFinishes
  <2>2. CASE StartClears(s)
    <3>1. s <= current
      BY <2>2 DEF StartClears, Lives, TypeOK, Services
    <3>2. QED
      BY <1>e, <2>1, <2>2, <3>1, ClearsIs, SavedInStep
  <2>3. CASE ~StartClears(s)
    <3>1. s <= current /\ Loaded(s)
      BY <1>5, <2>3, ActsLoaded DEF StartStep
    <3>2. ASSUME s = 1 PROVE InStep'
      <4>1. CASE Section(s) /\ disk' = mem'[s]
        BY <3>2, <4>1, SavedInStep
      <4>2. CASE disk' = disk /\ mem'[1] = mem[1]
        BY <1>a, <2>1, <3>1, <3>2, <4>2, MovedInStep
      <4>3. CASE StartPlans(s)
        BY <3>2, <4>1, <4>2, <4>3, PlansIs DEF stores
      <4>4. CASE StartApplies(s)
        BY <4>1, <4>4, StartAppliesIs
      <4>5. CASE StartFinishes(s)
        BY <3>2, <4>1, <4>2, <4>5, FinishesIs
      <4>6. QED
        BY <1>5, <2>3, <4>3, <4>4, <4>5 DEF StartStep
    <3>3. QED
      BY <1>e, <2>1, <3>1, <3>2
  <2>4. QED
    BY <2>2, <2>3
<1>6. ASSUME NEW s \in Services, TimerStep(s) PROVE InStep'
  <2>1. s <= current /\ current' = current /\ phase' = phase
    BY <1>6, ActsLoaded
       DEF TimerStep, TimerFires, TickFindsNothing, TickClaims, TickApplies, TickEnds
  <2>2. CASE TimerFires(s) \/ TickEnds(s)
    BY <1>b, <2>1, <2>2 DEF TimerFires, TickEnds, stores
  <2>3. CASE ~(TimerFires(s) \/ TickEnds(s))
    <3>1. Section(s) /\ disk' = mem'[s]
      BY <1>6, <2>3, FindsNothingIs, ClaimsIs, TickAppliesIs DEF TimerStep
    <3>2. QED
      BY <1>e, <2>1, <3>1, SavedInStep
  <2>4. QED
    BY <2>2, <2>3
<1>7. ASSUME NEW s \in Services, List(s) PROVE InStep'
  <2>1. current' = current /\ s <= current
    BY <1>7, ActsLoaded DEF List
  <2>2. QED
    BY <1>7, <1>e, <2>1, ListIs, SavedInStep
<1>8. ASSUME NEW s \in Services, NEW j \in Jobs,
             Add(s, j) \/ Remove(s, j) \/ \E on \in BOOLEAN : Update(s, j, on)
      PROVE  InStep'
  <2>1. current' = current /\ s <= current
    BY <1>8, ActsLoaded DEF Add, Remove, Update
  <2>2. Section(s) /\ disk' = mem'[s]
    BY <1>8, AddIs, RemoveIs, UpdateIs
  <2>3. QED
    BY <1>e, <2>1, <2>2, SavedInStep
<1>9. ASSUME NEW s \in Services, NEW j \in Jobs, ManualRun(s, j) PROVE InStep'
  <2>1. s = 1 /\ UNCHANGED <<phase, current>>
    BY <1>9 DEF ManualRun, Operates, Front
  <2>2. \A i \in Jobs : SameJob(mem[1][i], mem'[1][i])
    BY <1>9, <2>1, ManualRunIs, AsBeforeIsSame
  <2>3. QED
    BY <1>9, <2>1, <2>2, ManualRunIs, MovedInStep DEF Loaded
<1>10. ASSUME NEW w \in Slots, ManualReserves(w) PROVE InStep'
  <2>1. UNCHANGED <<phase, current>>
    BY <1>10 DEF ManualReserves
  <2>2. QED
    BY <1>10, <1>b, <2>1, ReservesIs, SavedInStep DEF stores
<1>11. ASSUME NEW w \in Slots, ManualFinishes(w) PROVE InStep'
  <2>1. UNCHANGED <<phase, current>>
    BY <1>11 DEF ManualFinishes
  <2>2. QED
    BY <1>11, <1>b, <2>1, ManualFinishesIs, SavedInStep DEF stores
<1>12. ASSUME NEW w \in Slots, ManualEnds(w) PROVE InStep'
  BY <1>12, <1>b DEF ManualEnds, stores
<1>13. ASSUME NEW s \in Services, NEW k \in Batches, NEW j \in Jobs, JobStarts(s, k, j)
       PROVE  InStep'
  <2>1. s <= current /\ UNCHANGED <<phase, current>>
    BY <1>13, ActsLoaded DEF JobStarts
  <2>2. ASSUME s = 1 PROVE InStep'
    <3>1. \A i \in Jobs : SameJob(mem[1][i], mem'[1][i])
      BY <1>13, <2>2, JobStartsIs DEF SameJob
    <3>2. QED
      BY <1>13, <2>1, <3>1, JobStartsIs, MovedInStep DEF Loaded
  <2>3. QED
    BY <1>e, <2>1, <2>2
<1>14. ASSUME NEW s \in Services, NEW k \in Batches, NEW j \in Jobs, JobEnds(s, k, j)
       PROVE  InStep'
  BY <1>14, <1>b, JobEndsBatch DEF stores
<1>15. CASE UNCHANGED vars
  BY <1>15, <1>b DEF vars, stores
<1>16. QED
  BY <1>1, <1>2, <1>3, <1>4, <1>5, <1>6, <1>7, <1>8, <1>9, <1>10, <1>11, <1>12, <1>13, <1>14,
     <1>15 DEF Next, ManualStep

---------------------------------------------------------------------------
(* A job under way keeps its mark, and is under way in one place.          *)

Starting == JobsOf(batch[1]["start"])
Ticking == JobsOf(batch[1]["tick"])

LEMMA NoJobs == JobsOf(NoBatch) = {}
BY NoBatchIs DEF JobsOf

\* Of one service, only its own batches and the manual run are at work.
LEMMA UnderWayIs == TypeOK /\ Lives /\ OneService => UnderWay = Starting \cup Ticking \cup InManual
<1> SUFFICES ASSUME TypeOK, Lives, OneService PROVE UnderWay = Starting \cup Ticking \cup InManual
  OBVIOUS
<1>1. ASSUME NEW s \in Services, s # 1, NEW k \in Batches PROVE JobsOf(batch[s][k]) = {}
  <2>1. s > current
    BY <1>1, FirstIsService DEF OneService, TypeOK, Services
  <2>2. ~Loaded(s)
    BY <2>1 DEF Lives, Loaded
  <2>3. batch[s][k] = NoBatch
    BY <2>2 DEF Lives, Batches
  <2>4. QED
    BY <2>3, NoJobs
<1>2. UNION {JobsOf(batch[s][k]) : s \in Services, k \in Batches} = Starting \cup Ticking
  BY <1>1, FirstIsService DEF Starting, Ticking, Batches
<1> DEFINE U == UNION {JobsOf(batch[s][k]) : s \in Services, k \in Batches}
<1>3. UnderWay = U \cup InManual
  BY DEF UnderWay
<1> HIDE DEF U
<1>4. QED
  BY <1>2, <1>3 DEF U

LEMMA UnderWayIsNext ==
  (TypeOK /\ Lives /\ OneService => UnderWay = Starting \cup Ticking \cup InManual)'
BY UnderWayIs, PTL

\* The manual runs under way keep their jobs.
ManualsKeep == \A w \in Reserved' \cap Reserved : manual'[w].job = manual[w].job

\* Work that only ends leaves the rest in its place.
LEMMA WorkEnds ==
  ASSUME TypeOK, Lives, TypeOK', Lives', Calm, Calm', OnePlace,
         Starting' \subseteq Starting, Ticking' \subseteq Ticking, Reserved' \subseteq Reserved,
         ManualsKeep
  PROVE  OnePlace' /\ UnderWay' \subseteq UnderWay /\ InManual' \subseteq InManual
<1>1. OneService /\ OneService'
  BY DEF Calm
<1>2. /\ Starting \cap Ticking = {} /\ Starting \cap InManual = {} /\ Ticking \cap InManual = {}
      /\ \A v, w \in Reserved : manual[v].job = manual[w].job => v = w
  BY DEF OnePlace, Starting, Ticking
<1>3. InManual' \subseteq InManual
  BY DEF InManual, ManualsKeep
<1>4. \A v, w \in Reserved' : manual'[v].job = manual'[w].job => v = w
  BY <1>2 DEF ManualsKeep
<1>5. OnePlace'
  BY <1>2, <1>3, <1>4 DEF OnePlace, Starting, Ticking
<1>6. QED
  BY <1>1, <1>3, <1>5, UnderWayIs, UnderWayIsNext

\* Work that begins with jobs that are not under way has them for itself.
LEMMA WorkBegins ==
  ASSUME TypeOK, Lives, TypeOK', Lives', Calm, Calm', OnePlace,
         NEW J, J \cap UnderWay = {},
         \/ Starting' \subseteq J /\ Ticking' = Ticking /\ manual' = manual
         \/ Starting' = Starting /\ Ticking' \subseteq J /\ manual' = manual
         \/ /\ Starting' = Starting /\ Ticking' = Ticking /\ ManualsKeep
            /\ \E w : Reserved' = Reserved \cup {w} /\ w \notin Reserved /\ manual'[w].job \in J
  PROVE  OnePlace' /\ UnderWay' \subseteq UnderWay \cup J
<1>1. OneService /\ OneService'
  BY DEF Calm
<1>2. /\ Starting \cap Ticking = {} /\ Starting \cap InManual = {} /\ Ticking \cap InManual = {}
      /\ \A v, w \in Reserved : manual[v].job = manual[w].job => v = w
  BY DEF OnePlace, Starting, Ticking
<1>3. /\ UnderWay = Starting \cup Ticking \cup InManual
      /\ UnderWay' = Starting' \cup Ticking' \cup InManual'
  BY <1>1, UnderWayIs, UnderWayIsNext
<1>4. CASE manual' = manual
  <2>1. InManual' = InManual /\ Reserved' = Reserved
    BY <1>4 DEF InManual, Reserved
  <2>2. Starting' = Starting \/ Starting' \subseteq J
    OBVIOUS
  <2>3. Ticking' = Ticking \/ Ticking' \subseteq J
    OBVIOUS
  <2>4. Starting' = Starting \/ Ticking' = Ticking
    OBVIOUS
  <2>5. Starting' \cap Ticking' = {} /\ Starting' \cap InManual' = {} /\ Ticking' \cap InManual' = {}
    BY <1>2, <1>3, <2>1, <2>2, <2>3, <2>4
  <2>6. OnePlace'
    BY <1>2, <1>4, <2>1, <2>5 DEF OnePlace, Starting, Ticking
  <2>7. QED
    BY <1>3, <2>1, <2>2, <2>3, <2>6
<1>5. ASSUME NEW w, Reserved' = Reserved \cup {w}, w \notin Reserved, manual'[w].job \in J,
             Starting' = Starting, Ticking' = Ticking, ManualsKeep
      PROVE  OnePlace' /\ UnderWay' \subseteq UnderWay \cup J
  <2>1. \A v \in Reserved : manual'[v].job = manual[v].job
    BY <1>5 DEF ManualsKeep
  <2>2. InManual' = InManual \cup {manual'[w].job}
    BY <1>5, <2>1 DEF InManual
  <2>3. \A v \in Reserved : manual[v].job \in UnderWay
    BY <1>3 DEF InManual
  <2>4. \A u, v \in Reserved' : manual'[u].job = manual'[v].job => u = v
    BY <1>2, <1>5, <2>1, <2>3
  <2>5. OnePlace'
    BY <1>2, <1>3, <1>5, <2>2, <2>4 DEF OnePlace, Starting, Ticking
  <2>6. QED
    BY <1>3, <1>5, <2>2, <2>5
<1>6. QED
  BY <1>4, <1>5

Kept == \A j \in UnderWay : Has(disk[j]) => KeptMark(j)

LEMMA UnderWayAreJobs == TypeOK => UnderWay \subseteq Jobs
<1> SUFFICES ASSUME TypeOK, NEW j \in UnderWay PROVE j \in Jobs
  OBVIOUS
<1>1. CASE \E s \in Services, k \in Batches : j \in JobsOf(batch[s][k])
  <2>1. PICK s \in Services, k \in Batches : j \in JobsOf(batch[s][k])
    BY <1>1
  <2>2. batch[s][k] \in BatchType
    BY DEF TypeOK
  <2>3. QED
    BY <2>1, <2>2 DEF JobsOf, BatchType, Result
<1>2. CASE j \in InManual
  BY <1>2, ManualIs DEF InManual, Reserved
<1>3. QED
  BY <1>1, <1>2 DEF UnderWay

\* What the mark of a job under way tells.
LEMMA MarkIs ==
  ASSUME TypeOK, Timed, Kept, NEW j \in UnderWay, Has(disk[j])
  PROVE  /\ disk[j].on /\ disk[j].mark \in 0..now
         /\ now - disk[j].mark <= StuckAfter
         /\ Has(mem[1][j]) => /\ mem[1][j].mark \in 0..now
                              /\ now - mem[1][j].mark <= StuckAfter
                              /\ mem[1][j].mark >= disk[j].mark
<1>1. j \in Jobs /\ disk[j] \in JobRecord /\ KeptMark(j) /\ Timely(disk[j]) /\ Timely(mem[1][j])
  BY UnderWayAreJobs, JobIsRecord, FirstIsService DEF Kept, TypeOK, Timed
<1>2. Has(mem[1][j]) => mem[1][j] \in JobRecord
  BY <1>1, JobIsRecord, FirstIsService DEF TypeOK
<1>3. now \in Nat /\ StuckAfter \in Nat /\ MaxTime \in Nat
  BY CronServiceAssumption DEF TypeOK
<1>4. disk[j].mark \in 0..now
  BY <1>1, <1>3 DEF KeptMark, Timely, JobRecord, Times, None
<1>5. QED
  BY <1>1, <1>2, <1>3, <1>4 DEF KeptMark, Timely, JobRecord, Times, None

\* A section that starts from the file keeps the mark.
LEMMA KeptFromFile ==
  ASSUME TypeOK, Timed, Kept, NEW j \in UnderWay, Has(disk[j]), now' = now,
         disk' = mem'[1], AsBefore(disk[j], disk'[j])
  PROVE  KeptMark(j)'
<1>1. disk[j].on /\ disk[j].mark \in 0..now /\ now - disk[j].mark <= StuckAfter
  BY MarkIs
<1>2. disk'[j].on = disk[j].on /\ disk'[j].mark = disk[j].mark /\ mem'[1][j].mark = disk[j].mark
  BY <1>1 DEF AsBefore
<1>3. now \in Nat /\ StuckAfter \in Nat
  BY CronServiceAssumption DEF TypeOK
<1>4. QED
  BY <1>1, <1>2, <1>3 DEF KeptMark, None

\* So does one that starts from the memory, if this tells the same as the file.
LEMMA KeptFromMemory ==
  ASSUME TypeOK, Timed, Kept, NEW j \in UnderWay, Has(disk[j]), now' = now,
         disk' = disk \/ disk' = mem'[1], SameJob(mem[1][j], disk[j]), AsBefore(mem[1][j], mem'[1][j])
  PROVE  KeptMark(j)'
<1>1. /\ disk[j].on /\ disk[j].mark \in 0..now /\ now - disk[j].mark <= StuckAfter
      /\ mem[1][j].mark \in 0..now /\ now - mem[1][j].mark <= StuckAfter
      /\ mem[1][j].mark >= disk[j].mark /\ mem[1][j].on = disk[j].on /\ Has(mem[1][j])
  BY MarkIs DEF SameJob
<1>2. mem'[1][j].on = disk[j].on /\ mem'[1][j].mark = mem[1][j].mark
  BY <1>1 DEF AsBefore
<1>3. now \in Nat /\ StuckAfter \in Nat
  BY CronServiceAssumption DEF TypeOK
<1>4. CASE disk' = disk
  BY <1>1, <1>2, <1>3, <1>4 DEF KeptMark, None
<1>5. CASE disk' = mem'[1]
  <2>1. disk'[j].on /\ disk'[j].mark = mem[1][j].mark /\ mem'[1][j].mark = mem[1][j].mark
    BY <1>1, <1>2, <1>5
  <2>2. QED
    BY <1>1, <1>3, <2>1 DEF KeptMark, None
<1>6. QED
  BY <1>4, <1>5

\* An unmarked job is not under way.
LEMMA UnmarkedIsIdle ==
  ASSUME TypeOK, Timed, Kept, NEW j \in Jobs,
         \/ Has(disk[j]) /\ disk[j].mark = None
         \/ Has(mem[1][j]) /\ mem[1][j].mark = None /\ SameJob(mem[1][j], disk[j])
  PROVE  j \notin UnderWay
<1> SUFFICES ASSUME j \in UnderWay PROVE FALSE
  OBVIOUS
<1>1. Has(disk[j])
  BY DEF SameJob
<1>2. disk[j].mark \in 0..now /\ (Has(mem[1][j]) => mem[1][j].mark \in 0..now)
  BY <1>1, MarkIs
<1>3. QED
  BY <1>2 DEF None

\* A service that has not loaded its jobs has nothing under way.
LEMMA IdleBefore ==
  ASSUME TypeOK, Lives, OneService, ~Loaded(1)
  PROVE  UnderWay = {}
<1>1. Starting = {} /\ Ticking = {}
  BY FirstIsService, NoJobs DEF Lives, Starting, Ticking
<1>2. InManual = {}
  BY DEF Lives, Front, InManual, Reserved, NoManual
<1>3. QED
  BY <1>1, <1>2, UnderWayIs

\* A section of the first service leaves the mark of a job: it starts from the
\* file, or from the memory.
Remains(j) ==
  Has(disk'[j]) =>
    \/ disk' = mem'[1] /\ AsBefore(disk[j], disk'[j])
    \/ /\ Loaded(1) /\ (disk' = disk \/ disk' = mem'[1])
       /\ AsBefore(mem[1][j], mem'[1][j])

LEMMA KeptThrough ==
  ASSUME TypeOK, Timed, InStep, Calm, Kept, now' = now,
         NEW J, UnderWay' \subseteq UnderWay \cup J,
         \A j \in J : KeptMark(j)',
         \A j \in UnderWay \cap UnderWay' : Remains(j)
  PROVE  Kept'
<1> SUFFICES ASSUME NEW j \in UnderWay', j \in UnderWay, Has(disk'[j]) PROVE KeptMark(j)'
  BY DEF Kept
<1>1. CASE disk' = mem'[1] /\ AsBefore(disk[j], disk'[j])
  <2>1. Has(disk[j])
    BY <1>1 DEF AsBefore
  <2>2. QED
    BY <1>1, <2>1, KeptFromFile
<1>2. CASE /\ Loaded(1) /\ (disk' = disk \/ disk' = mem'[1])
           /\ AsBefore(mem[1][j], mem'[1][j])
  <2>1. SameJob(mem[1][j], disk[j])
    BY <1>2, UnderWayAreJobs DEF InStep, Calm
  <2>2. Has(disk[j])
    BY <1>2, <2>1 DEF AsBefore, SameJob
  <2>3. QED
    BY <1>2, <2>1, <2>2, KeptFromMemory
<1>3. QED
  BY <1>1, <1>2 DEF Remains

\* The same where nothing begins.
LEMMA KeptWithout ==
  ASSUME TypeOK, Timed, InStep, Calm, Kept, now' = now, UnderWay' \subseteq UnderWay,
         \A j \in UnderWay \cap UnderWay' : Remains(j)
  PROVE  Kept'
<1>1. ASSUME NEW J, J = {} PROVE Kept'
  <2>1. UnderWay' \subseteq UnderWay \cup J /\ \A j \in J : KeptMark(j)'
    BY <1>1
  <2>2. QED
    BY <2>1, KeptThrough
<1>2. QED
  BY <1>1

\* Where nothing ends either.
LEMMA KeptMeanwhile ==
  ASSUME TypeOK, Timed, Lives, InStep, Calm, Kept, OnePlace, TypeOK', Lives', Calm',
         now' = now, batch' = batch, Reserved' \subseteq Reserved, ManualsKeep,
         \A j \in UnderWay : Remains(j)
  PROVE  Kept' /\ OnePlace'
<1>1. Starting' = Starting /\ Ticking' = Ticking
  BY DEF Starting, Ticking
<1>2. OnePlace' /\ UnderWay' \subseteq UnderWay
  BY <1>1, WorkEnds
<1>3. QED
  BY <1>2, KeptWithout

\* Nothing is under way.
LEMMA KeptIdle ==
  ASSUME TypeOK', Lives', Calm', Starting' = {}, Ticking' = {}, Reserved' = {}
  PROVE  Kept' /\ OnePlace'
<1>1. InManual' = {}
  BY DEF InManual
<1>2. UnderWay' = {}
  BY <1>1, UnderWayIsNext DEF Calm
<1>3. QED
  BY <1>1, <1>2 DEF Kept, OnePlace, Starting, Ticking

LEMMA AsItself == \A a : AsBefore(a, a)
BY DEF AsBefore

LEMMA KeptInit == Init => MarkedUnderWay /\ OnePlace
<1> SUFFICES ASSUME Init PROVE Kept /\ OnePlace
  BY DEF MarkedUnderWay, Kept
<1>1. batch[1]["start"] = NoBatch /\ batch[1]["tick"] = NoBatch /\ Reserved = {} /\ InManual = {}
  BY FirstIsService DEF Init, Batches, InManual, Reserved, NoManual
<1>2. UnderWay = {}
  <2>1. TypeOK /\ Lives /\ OneService
    BY TypeInit, LivesInit DEF Init, OneService
  <2>2. QED
    BY <1>1, <2>1, UnderWayIs, NoJobs DEF Starting, Ticking
<1>3. QED
  BY <1>1, <1>2, NoJobs DEF Kept, OnePlace

\* The premises of the steps below: one service, and nothing slips.
Undisturbed ==
  /\ TypeOK /\ Timed /\ Lives /\ InStep /\ Kept /\ OnePlace /\ Calm
  /\ TypeOK' /\ Lives' /\ Calm'

LEMMA UndisturbedIs == Undisturbed => OneService /\ OneService' /\ TypeOK /\ Lives
BY DEF Undisturbed, Calm

LEMMA SameManuals == manual' = manual => Reserved' = Reserved /\ InManual' = InManual /\ ManualsKeep
BY DEF InManual, Reserved, ManualsKeep

\* What the steps of a manual run do to those that are under way.
LEMMA ManualRunReserves ==
  ASSUME TypeOK, NEW s \in Services, NEW j \in Jobs, ManualRun(s, j)
  PROVE  Reserved' = Reserved /\ InManual' = InManual /\ ManualsKeep
<1>1. PICK w \in Slots :
        /\ manual[w] = NoManual
        /\ manual' = [manual EXCEPT ![w] =
             [NoManual EXCEPT !.at = "inspected", !.job = j, !.started = now]]
  BY DEF ManualRun
<1>2. manual[w].at = "idle" /\ manual'[w].at = "inspected" /\ w \notin Reserved
  BY <1>1 DEF TypeOK, NoManual, Reserved
<1>3. \A v \in Slots \ {w} : manual'[v] = manual[v]
  BY <1>1 DEF TypeOK
<1>4. Reserved' = Reserved
  BY <1>2, <1>3 DEF Reserved
<1>5. \A v \in Reserved : manual'[v] = manual[v]
  BY <1>2, <1>3 DEF Reserved
<1>6. QED
  BY <1>4, <1>5 DEF InManual, ManualsKeep

LEMMA SlotReserves ==
  ASSUME TypeOK, NEW w \in Slots, manual[w].at = "inspected",
         manual' = [manual EXCEPT ![w].at = "going"]
  PROVE  /\ w \notin Reserved /\ Reserved' = Reserved \cup {w} /\ ManualsKeep
         /\ manual'[w].job = manual[w].job
         /\ InManual' = InManual \cup {manual[w].job}
<1>1. manual[w] \in ManualType /\ w \notin Reserved
  BY DEF TypeOK, Reserved
<1>2. manual'[w].at = "going" /\ manual'[w].job = manual[w].job
  BY <1>1 DEF TypeOK, ManualType, NoManual
<1>3. \A v \in Slots \ {w} : manual'[v] = manual[v]
  BY DEF TypeOK
<1>4. Reserved' = Reserved \cup {w}
  BY <1>1, <1>2, <1>3 DEF Reserved
<1>5. \A v \in Reserved : manual'[v] = manual[v]
  BY <1>1, <1>3 DEF Reserved
<1>6. QED
  BY <1>1, <1>2, <1>4, <1>5 DEF InManual, ManualsKeep

LEMMA SlotEmpties ==
  ASSUME TypeOK, NEW w \in Slots, manual' = [manual EXCEPT ![w] = NoManual]
  PROVE  /\ Reserved' = Reserved \ {w} /\ ManualsKeep
         /\ \A v \in Reserved' : manual'[v] = manual[v]
<1>1. manual'[w].at = "idle"
  BY DEF TypeOK, NoManual
<1>2. \A v \in Slots \ {w} : manual'[v] = manual[v]
  BY DEF TypeOK
<1>3. Reserved' = Reserved \ {w}
  BY <1>1, <1>2 DEF Reserved
<1>4. \A v \in Reserved' : manual'[v] = manual[v]
  BY <1>2, <1>3 DEF Reserved
<1>5. QED
  BY <1>3, <1>4 DEF ManualsKeep

LEMMA EndsReserved ==
  ASSUME TypeOK, NEW w \in Slots, ManualEnds(w)
  PROVE  Reserved' = Reserved /\ InManual' = InManual /\ \A v \in Slots : manual'[v].job = manual[v].job
<1>1. PICK o \in Outcomes(manual[w].job) :
        manual' = [manual EXCEPT ![w].at = "ended", ![w].ended = now, ![w].outcome = o]
  BY DEF ManualEnds
<1>2. manual[w] \in ManualType /\ manual[w].at = "going"
  BY DEF ManualEnds, TypeOK
<1>3. manual'[w].at = "ended" /\ manual'[w].job = manual[w].job
  BY <1>1, <1>2 DEF TypeOK, ManualType, NoManual
<1>4. \A v \in Slots \ {w} : manual'[v] = manual[v]
  BY <1>1 DEF TypeOK
<1>5. Reserved' = Reserved
  BY <1>2, <1>3, <1>4 DEF Reserved
<1>6. \A v \in Slots : manual'[v].job = manual[v].job
  BY <1>3, <1>4
<1>7. QED
  BY <1>5, <1>6 DEF InManual, Reserved

LEMMA KeptStarts ==
  ASSUME Undisturbed, NEW s \in Services, StartStep(s)
  PROVE  Kept' /\ OnePlace'
<1> USE UndisturbedIs
<1>a. TypeOK /\ Timed /\ Lives /\ InStep /\ Calm /\ Kept /\ OnePlace
  BY DEF Undisturbed
<1>b. TypeOK' /\ Lives' /\ Calm'
  BY DEF Undisturbed
<1>1. s = 1
  <2>1. s <= current
    <3>1. CASE StartClears(s)
      BY <3>1 DEF StartClears, Lives, TypeOK, Services
    <3>2. CASE ~StartClears(s)
      BY <3>2, ActsLoaded DEF StartStep
    <3>3. QED
      BY <3>1, <3>2
  <2>2. QED
    BY <2>1, ActsAlone
<1>2. CASE StartClears(1)
  <2>1. UnderWay = {}
    BY <1>2, IdleBefore DEF StartClears, Loaded
  <2>2. UNCHANGED <<batch, manual>> /\ now' = now
    BY <1>2 DEF StartClears
  <2>3. QED
    BY <1>a, <1>b, <2>1, <2>2, SameManuals, KeptMeanwhile
<1>3. CASE StartPlans(1)
  <2>1. Loaded(1) /\ phase[1] = "plan" /\ now' = now /\ manual' = manual
    BY <1>3 DEF StartPlans, Loaded
  <2>2. Reserved' = Reserved /\ ManualsKeep
    BY <2>1, SameManuals
  <2>3. CASE UNCHANGED <<stores, batch>>
    <3>1. \A j \in UnderWay : Remains(j)
      BY <2>1, <2>3, AsItself DEF Remains, stores
    <3>2. QED
      BY <1>a, <1>b, <2>1, <2>2, <2>3, <3>1, KeptMeanwhile
  <2>4. ASSUME NEW first \in SUBSET Jobs, NEW later \in SUBSET Jobs,
               \A j \in first : Has(mem[1][j]) /\ mem[1][j].on /\ mem[1][j].mark = None,
               batch' = [batch EXCEPT ![1]["start"] = BatchOf(first, later)],
               mem'[1] = Marked(mem[1], first), disk' = mem'[1]
        PROVE  Kept' /\ OnePlace'
    <3>1. first \cap UnderWay = {}
      <4>1. ASSUME NEW j \in first PROVE j \notin UnderWay
        <5>1. SameJob(mem[1][j], disk[j])
          BY <1>a, <2>1, UndisturbedIs DEF InStep
        <5>2. QED
          BY <1>a, <2>4, <5>1, UnmarkedIsIdle
      <4>2. QED
        BY <4>1
    <3>2. Starting' = first /\ Ticking' = Ticking
      <4>1. batch'[1]["start"] = BatchOf(first, later) /\ batch'[1]["tick"] = batch[1]["tick"]
        BY <1>a, <2>4, FirstIsService DEF TypeOK, Batches
      <4>2. JobsOf(BatchOf(first, later)) = first
        BY DEF JobsOf, BatchOf
      <4>3. QED
        BY <4>1, <4>2 DEF Starting, Ticking
    <3>3. OnePlace' /\ UnderWay' \subseteq UnderWay \cup first
      BY <1>a, <1>b, <2>1, <3>1, <3>2, WorkBegins
    <3>4. Good(mem[1])
      BY <1>a, StoresAreGood, FirstIsService
    <3>5. ASSUME NEW j \in first PROVE KeptMark(j)'
      <4>1. disk'[j] = Marked(mem[1], first)[j] /\ mem'[1][j] = Marked(mem[1], first)[j]
        BY <2>4
      <4>2. disk'[j].on /\ disk'[j].mark = now /\ mem'[1][j].mark = now
        BY <1>a, <2>4, <3>4, <4>1, MarkedIs
      <4>3. now \in Nat /\ StuckAfter \in Nat
        BY <1>a, CronServiceAssumption DEF TypeOK
      <4>4. QED
        BY <2>1, <4>2, <4>3 DEF KeptMark, None
    <3>6. ASSUME NEW j \in UnderWay PROVE Remains(j)
      <4>1. j \in Jobs /\ j \notin first
        BY <1>a, <3>1, UnderWayAreJobs
      <4>2. mem'[1][j] = mem[1][j]
        BY <1>a, <2>4, <3>4, <4>1, MarkedIs
      <4>3. QED
        BY <2>1, <2>4, <4>2, AsItself DEF Remains
    <3>7. QED
      BY <1>a, <2>1, <3>3, <3>5, <3>6, KeptThrough
  <2>5. QED
    BY <1>3, <1>a, <2>3, <2>4, PlansIs, FirstIsService
<1>4. CASE StartApplies(1)
  <2>1. /\ phase[1] = "catchup" /\ Loaded(1) /\ now' = now /\ manual' = manual
        /\ batch' = [batch EXCEPT ![1]["start"] = NoBatch]
    BY <1>4 DEF StartApplies, Loaded
  <2>2. Starting' = {} /\ Ticking' = Ticking /\ Reserved' = Reserved /\ ManualsKeep
    <3>1. batch'[1]["start"] = NoBatch /\ batch'[1]["tick"] = batch[1]["tick"]
      BY <1>a, <2>1, FirstIsService DEF TypeOK, Batches
    <3>2. QED
      BY <2>1, <3>1, NoJobs, SameManuals DEF Starting, Ticking
  <2>3. OnePlace' /\ UnderWay' \subseteq UnderWay /\ InManual' \subseteq InManual
    BY <1>a, <1>b, <2>2, WorkEnds
  <2>4. ASSUME NEW j \in UnderWay \cap UnderWay' PROVE Remains(j)
    <3>1. j \in Ticking \cup InManual
      BY <1>b, <2>2, <2>3, UnderWayIsNext DEF Calm
    <3>2. j \notin JobsOf(batch[1]["start"]) /\ j \in Jobs
      BY <1>a, <3>1, UnderWayAreJobs DEF OnePlace, Ticking
    <3>3. AsBefore(mem[1][j], disk'[j]) /\ disk' = mem'[1]
      BY <1>a, <1>4, <3>2, StartAppliesIs, FirstIsService
    <3>4. QED
      BY <2>1, <3>3 DEF Remains
  <2>5. QED
    BY <1>a, <2>1, <2>3, <2>4, KeptWithout
<1>5. CASE StartFinishes(1)
  <2>1. Loaded(1) /\ now' = now /\ UNCHANGED <<batch, manual>>
    BY <1>5 DEF StartFinishes, Loaded
  <2>2. Reserved' = Reserved /\ ManualsKeep
    BY <2>1, SameManuals
  <2>3. ASSUME NEW j \in UnderWay PROVE Remains(j)
    BY <1>a, <1>5, <2>1, FinishesIs, FirstIsService, UnderWayAreJobs DEF Remains
  <2>4. QED
    BY <1>a, <1>b, <2>1, <2>2, <2>3, KeptMeanwhile
<1>6. QED
  BY <1>1, <1>2, <1>3, <1>4, <1>5 DEF StartStep

LEMMA KeptTimes ==
  ASSUME Undisturbed, NEW s \in Services, TimerStep(s)
  PROVE  Kept' /\ OnePlace'
<1> USE UndisturbedIs
<1>a. TypeOK /\ Timed /\ Lives /\ InStep /\ Calm /\ Kept /\ OnePlace
  BY DEF Undisturbed
<1>b. TypeOK' /\ Lives' /\ Calm'
  BY DEF Undisturbed
<1>1. s = 1 /\ Loaded(1)
  BY ActsLoaded, ActsAlone
<1>2. CASE TickFindsNothing(1)
  <2>1. now' = now /\ UNCHANGED <<batch, manual>>
    BY <1>2 DEF TickFindsNothing
  <2>2. Reserved' = Reserved /\ ManualsKeep
    BY <2>1, SameManuals
  <2>3. ASSUME NEW j \in UnderWay PROVE Remains(j)
    BY <1>a, <1>2, FindsNothingIs, FirstIsService, UnderWayAreJobs DEF Remains
  <2>4. QED
    BY <1>a, <1>b, <2>1, <2>2, <2>3, KeptMeanwhile
<1>3. CASE TickClaims(1)
  <2>1. /\ now' = now /\ manual' = manual /\ batch[1]["tick"] = NoBatch
        /\ batch' = [batch EXCEPT ![1]["tick"] = BatchOf(DueOnDisk, {})]
    BY <1>a, <1>3, FirstIsService DEF TickClaims, Lives
  <2>2. /\ disk' = mem'[1] /\ disk' = Marked(disk, DueOnDisk) /\ DueOnDisk \subseteq Jobs
        /\ \A j \in DueOnDisk : Has(disk[j]) /\ disk[j].on /\ disk[j].mark = None
    BY <1>a, <1>3, ClaimsIs, FirstIsService
  <2>3. DueOnDisk \cap UnderWay = {}
    BY <1>a, <2>2, UnmarkedIsIdle
  <2>4. Starting' = Starting /\ Ticking' = DueOnDisk
    <3>1. batch'[1]["tick"] = BatchOf(DueOnDisk, {}) /\ batch'[1]["start"] = batch[1]["start"]
      BY <1>a, <2>1, FirstIsService DEF TypeOK, Batches
    <3>2. JobsOf(BatchOf(DueOnDisk, {})) = DueOnDisk
      BY DEF JobsOf, BatchOf
    <3>3. QED
      BY <2>1, <3>1, <3>2 DEF Starting, Ticking
  <2>5. OnePlace' /\ UnderWay' \subseteq UnderWay \cup DueOnDisk
    BY <1>a, <1>b, <2>1, <2>3, <2>4, WorkBegins
  <2>6. Good(disk)
    BY <1>a, StoresAreGood
  <2>7. ASSUME NEW j \in DueOnDisk PROVE KeptMark(j)'
    <3>1. disk'[j].on /\ disk'[j].mark = now /\ mem'[1][j].mark = now
      BY <1>a, <2>2, <2>6, MarkedIs
    <3>2. now \in Nat /\ StuckAfter \in Nat
      BY <1>a, CronServiceAssumption DEF TypeOK
    <3>3. QED
      BY <2>1, <3>1, <3>2 DEF KeptMark, None
  <2>8. ASSUME NEW j \in UnderWay PROVE Remains(j)
    <3>1. j \in Jobs /\ j \notin DueOnDisk
      BY <1>a, <2>3, UnderWayAreJobs
    <3>2. disk'[j] = disk[j]
      BY <1>a, <2>2, <2>6, <3>1, MarkedIs
    <3>3. QED
      BY <2>2, <3>2, AsItself DEF Remains
  <2>9. QED
    BY <1>a, <2>1, <2>5, <2>7, <2>8, KeptThrough
<1>4. CASE TickApplies(1)
  <2>1. /\ now' = now /\ manual' = manual
        /\ batch' = [batch EXCEPT ![1]["tick"] = NoBatch]
    BY <1>4 DEF TickApplies
  <2>2. Starting' = Starting /\ Ticking' = {} /\ Reserved' = Reserved /\ ManualsKeep
    <3>1. batch'[1]["tick"] = NoBatch /\ batch'[1]["start"] = batch[1]["start"]
      BY <1>a, <2>1, FirstIsService DEF TypeOK, Batches
    <3>2. QED
      BY <2>1, <3>1, NoJobs, SameManuals DEF Starting, Ticking
  <2>3. OnePlace' /\ UnderWay' \subseteq UnderWay /\ InManual' \subseteq InManual
    BY <1>a, <1>b, <2>2, WorkEnds
  <2>4. ASSUME NEW j \in UnderWay \cap UnderWay' PROVE Remains(j)
    <3>1. j \in Starting \cup InManual
      BY <1>b, <2>2, <2>3, UnderWayIsNext DEF Calm
    <3>2. j \notin JobsOf(batch[1]["tick"]) /\ j \in Jobs
      BY <1>a, <3>1, UnderWayAreJobs DEF OnePlace, Starting
    <3>3. QED
      BY <1>a, <1>4, <3>2, TickAppliesIs, FirstIsService DEF Remains
  <2>5. QED
    BY <1>a, <2>1, <2>3, <2>4, KeptWithout
<1>5. CASE TimerFires(1) \/ TickEnds(1)
  <2>1. now' = now /\ UNCHANGED <<disk, mem, batch, manual>>
    BY <1>5 DEF TimerFires, TickEnds, stores
  <2>2. Reserved' = Reserved /\ ManualsKeep
    BY <2>1, SameManuals
  <2>3. \A j \in UnderWay : Remains(j)
    BY <1>1, <2>1, AsItself DEF Remains
  <2>4. QED
    BY <1>a, <1>b, <2>1, <2>2, <2>3, KeptMeanwhile
<1>6. QED
  BY <1>1, <1>2, <1>3, <1>4, <1>5 DEF TimerStep

LEMMA KeptUsed ==
  ASSUME Undisturbed, NEW s \in Services,
         \/ List(s)
         \/ \E j \in Jobs : \/ Add(s, j) \/ Remove(s, j) \/ ManualRun(s, j)
                            \/ \E on \in BOOLEAN : Update(s, j, on)
  PROVE  Kept' /\ OnePlace'
<1> USE UndisturbedIs
<1>a. TypeOK /\ Timed /\ Lives /\ InStep /\ Calm /\ Kept /\ OnePlace
  BY DEF Undisturbed
<1>b. TypeOK' /\ Lives' /\ Calm'
  BY DEF Undisturbed
<1>1. s = 1 /\ Loaded(1)
  BY ActsLoaded, ActsAlone
<1>2. now' = now /\ batch' = batch /\ Reserved' \subseteq Reserved /\ ManualsKeep
  <2>1. now' = now /\ batch' = batch
    BY DEF List, Add, Remove, ManualRun, Update
  <2>2. ASSUME NEW j \in Jobs, ManualRun(s, j) PROVE Reserved' = Reserved /\ ManualsKeep
    BY <1>a, <2>2, ManualRunReserves
  <2>3. QED
    BY <2>1, <2>2, SameManuals DEF List, Add, Remove, Update
<1>3. SUFFICES ASSUME NEW i \in UnderWay PROVE Remains(i)
  BY <1>a, <1>b, <1>2, KeptMeanwhile
<1>4. i \in Jobs
  BY <1>a, UnderWayAreJobs
<1>5. CASE List(1)
  BY <1>a, <1>1, <1>4, <1>5, ListIs, FirstIsService DEF Remains
<1>6. ASSUME NEW j \in Jobs, ManualRun(1, j) PROVE Remains(i)
  BY <1>a, <1>1, <1>4, <1>6, ManualRunIs, FirstIsService DEF Remains
<1>7. ASSUME NEW j \in Jobs, Add(1, j) PROVE Remains(i)
  <2>1. j # i
    BY <1>7 DEF Add
  <2>2. QED
    BY <1>a, <1>1, <1>4, <1>7, <2>1, AddIs, FirstIsService DEF Remains
<1>8. ASSUME NEW j \in Jobs, Remove(1, j) PROVE Remains(i)
  <2>1. disk' = mem'[1] /\ (i = j => ~Has(disk'[i])) /\ (i # j => mem'[1][i] = mem[1][i])
    BY <1>a, <1>4, <1>8, RemoveIs, FirstIsService
  <2>2. QED
    BY <1>1, <2>1, AsItself DEF Remains
<1>9. ASSUME NEW j \in Jobs, NEW on \in BOOLEAN, Update(1, j, on) PROVE Remains(i)
  <2>1. /\ disk' = mem'[1] /\ (i # j => mem'[1][i] = mem[1][i])
        /\ Has(mem'[1][j]) /\ mem'[1][j].on = on
        /\ mem'[1][j].mark = IF on THEN mem[1][j].mark ELSE None
    BY <1>a, <1>4, <1>9, UpdateIs, FirstIsService
  <2>2. CASE i # j
    BY <1>1, <2>1, <2>2, AsItself DEF Remains
  <2>3. CASE i = j
    <3>1. on
      BY <1>9, <1>b, <2>3 DEF Update, Calm
    <3>2. Has(mem[1][i])
      BY <1>9, <2>3 DEF Update
    <3>3. mem[1][i].on
      <4>1. SameJob(mem[1][i], disk[i])
        BY <1>a, <1>1, <1>4, UndisturbedIs DEF InStep
      <4>2. Has(disk[i])
        BY <3>2, <4>1 DEF SameJob
      <4>3. disk[i].on
        BY <1>a, <4>2, MarkIs
      <4>4. QED
        BY <3>2, <4>1, <4>3 DEF SameJob
    <3>4. AsBefore(mem[1][i], mem'[1][i])
      BY <2>1, <2>3, <3>1, <3>2, <3>3 DEF AsBefore
    <3>5. QED
      BY <1>1, <2>1, <3>4 DEF Remains
  <2>4. QED
    BY <2>2, <2>3
<1>10. QED
  BY <1>1, <1>5, <1>6, <1>7, <1>8, <1>9

LEMMA KeptManual ==
  ASSUME Undisturbed, NEW w \in Slots, ManualStep(w) \/ ManualEnds(w)
  PROVE  Kept' /\ OnePlace'
<1> USE UndisturbedIs
<1>a. TypeOK /\ Timed /\ Lives /\ InStep /\ Calm /\ Kept /\ OnePlace
  BY DEF Undisturbed
<1>b. TypeOK' /\ Lives' /\ Calm'
  BY DEF Undisturbed
<1>c. now' = now /\ batch' = batch /\ Starting' = Starting /\ Ticking' = Ticking
  BY DEF ManualStep, ManualReserves, ManualFinishes, ManualEnds, Starting, Ticking
<1>d. Loaded(1) /\ manual[w].job \in Jobs
  <2>1. manual[w].at # "idle"
    BY DEF ManualStep, ManualReserves, ManualFinishes, ManualEnds
  <2>2. manual[w] # NoManual
    BY <2>1 DEF NoManual
  <2>3. QED
    BY <1>a, <2>1, <2>2, ManualIs, ActsLoaded, FirstIsService
<1>1. CASE manual' = [manual EXCEPT ![w] = NoManual] /\ UNCHANGED stores
  <2>1. Reserved' \subseteq Reserved /\ ManualsKeep
    BY <1>a, <1>1, SlotEmpties
  <2>2. \A j \in UnderWay : Remains(j)
    BY <1>1, <1>d, AsItself DEF Remains, stores
  <2>3. QED
    BY <1>a, <1>b, <1>c, <2>1, <2>2, KeptMeanwhile
<1>2. CASE /\ manual[w].at = "inspected" /\ disk' = mem'[1]
           /\ Unmarked(mem[1][manual[w].job])
           /\ disk' = Marked(mem[1], {manual[w].job})
           /\ manual' = [manual EXCEPT ![w].at = "going"]
           /\ slips' = slips \cup {why \in {"off"} : ~mem[1][manual[w].job].on}
  <2>0. PICK j \in Jobs : j = manual[w].job
    BY <1>d
  <2>1. w \notin Reserved /\ Reserved' = Reserved \cup {w} /\ ManualsKeep /\ manual'[w].job = j
    BY <1>a, <1>2, <2>0, SlotReserves
  <2>2. Has(mem[1][j]) /\ mem[1][j].mark = None /\ mem[1][j].on
    BY <1>2, <1>b, <2>0 DEF Unmarked, Calm
  <2>3. j \notin UnderWay
    <3>1. SameJob(mem[1][j], disk[j])
      BY <1>a, <1>d, UndisturbedIs DEF InStep
    <3>2. QED
      BY <1>a, <1>d, <2>2, <3>1, UnmarkedIsIdle
  <2>4. ASSUME NEW J, J = {j} PROVE OnePlace' /\ UnderWay' \subseteq UnderWay \cup J
    <3>1. J \cap UnderWay = {} /\ manual'[w].job \in J
      BY <2>1, <2>3, <2>4
    <3>2. QED
      BY <1>a, <1>b, <1>c, <2>1, <3>1, WorkBegins
  <2>5. /\ Good(mem[1]) /\ {j} \in SUBSET Jobs /\ \A i \in {j} : Has(mem[1][i])
    BY <1>a, <1>d, <2>2, StoresAreGood, FirstIsService
  <2>6. KeptMark(j)'
    <3>0. disk'[j] = Marked(mem[1], {j})[j] /\ mem'[1][j] = Marked(mem[1], {j})[j]
      BY <1>2, <2>0
    <3>1. disk'[j].on /\ disk'[j].mark = now /\ mem'[1][j].mark = now
      BY <1>a, <2>2, <2>5, <3>0, MarkedIs
    <3>2. now \in Nat /\ StuckAfter \in Nat
      BY <1>a, CronServiceAssumption DEF TypeOK
    <3>3. QED
      BY <1>c, <3>1, <3>2 DEF KeptMark, None
  <2>7. ASSUME NEW i \in UnderWay PROVE Remains(i)
    <3>1. i \in Jobs /\ i \notin {j}
      BY <1>a, <2>3, UnderWayAreJobs
    <3>2. mem'[1][i] = mem[1][i]
      BY <1>a, <1>2, <2>0, <2>5, <3>1, MarkedIs
    <3>3. QED
      BY <1>2, <1>d, <3>2, AsItself DEF Remains
  <2>8. ASSUME NEW J, J = {j} PROVE Kept' /\ OnePlace'
    <3>1. UnderWay' \subseteq UnderWay \cup J /\ OnePlace'
      BY <2>4, <2>8
    <3>2. \A i \in J : KeptMark(i)'
      BY <2>6, <2>8
    <3>3. QED
      BY <1>a, <1>c, <2>7, <3>1, <3>2, KeptThrough
  <2>9. QED
    BY <2>8
<1>3. CASE ManualFinishes(w)
  <2>1. /\ manual[w].at = "ended" /\ manual' = [manual EXCEPT ![w] = NoManual]
    BY <1>a, <1>3, ManualFinishesIs
  <2>2. w \in Reserved /\ Reserved' = Reserved \ {w} /\ ManualsKeep
        /\ \A v \in Reserved' : manual'[v] = manual[v]
    BY <1>a, <2>1, SlotEmpties DEF Reserved
  <2>3. manual[w].job \in InManual /\ manual[w].job \notin InManual'
    BY <1>a, <2>2 DEF OnePlace, InManual
  <2>4. OnePlace' /\ UnderWay' \subseteq UnderWay /\ InManual' \subseteq InManual
    BY <1>a, <1>b, <1>c, <2>2, WorkEnds
  <2>5. ASSUME NEW i \in UnderWay \cap UnderWay' PROVE Remains(i)
    <3>1. i \in Starting \cup Ticking \cup InManual'
      BY <1>b, <1>c, UnderWayIsNext DEF Calm
    <3>2. i # manual[w].job /\ i \in Jobs
      BY <1>a, <2>3, <3>1, UnderWayAreJobs DEF OnePlace, Starting, Ticking
    <3>3. \/ UNCHANGED stores
          \/ disk' = mem'[1] /\ AsBefore(disk[i], disk'[i])
      BY <1>a, <1>d, <1>3, <3>2, ManualFinishesIs
    <3>4. QED
      BY <1>d, <3>3, AsItself DEF Remains, stores
  <2>6. ASSUME NEW J, J = {} PROVE Kept'
    <3>1. UnderWay' \subseteq UnderWay \cup J /\ \A i \in J : KeptMark(i)'
      BY <2>4, <2>6
    <3>2. QED
      BY <1>a, <1>c, <2>5, <3>1, KeptThrough
  <2>7. QED
    BY <2>4, <2>6
<1>4. CASE ManualEnds(w)
  <2>1. Reserved' = Reserved /\ ManualsKeep
    BY <1>a, <1>4, EndsReserved DEF ManualsKeep, Reserved
  <2>2. \A i \in UnderWay : Remains(i)
    BY <1>4, <1>d, AsItself DEF Remains, ManualEnds, stores
  <2>3. QED
    BY <1>a, <1>b, <1>c, <2>1, <2>2, KeptMeanwhile
<1>5. QED
  BY <1>a, <1>1, <1>2, <1>3, <1>4, ReservesIs DEF ManualStep

LEMMA KeptJobs ==
  ASSUME Undisturbed, NEW s \in Services, NEW k \in Batches, NEW j \in Jobs,
         JobStarts(s, k, j) \/ JobEnds(s, k, j)
  PROVE  Kept' /\ OnePlace'
<1> USE UndisturbedIs
<1>a. TypeOK /\ Timed /\ Lives /\ InStep /\ Calm /\ Kept /\ OnePlace
  BY DEF Undisturbed
<1>b. TypeOK' /\ Lives' /\ Calm'
  BY DEF Undisturbed
<1>1. s = 1 /\ Loaded(1)
  BY ActsLoaded, ActsAlone
<1>2. BatchOnly(1, k) /\ JobsOf(batch'[1][k]) \subseteq JobsOf(batch[1][k])
  <2>1. ASSUME JobStarts(1, k, j) PROVE BatchOnly(1, k) /\ JobsOf(batch'[1][k]) \subseteq JobsOf(batch[1][k])
    BY <1>a, <2>1, JobStartsBatch, FirstIsService
  <2>2. ASSUME JobEnds(1, k, j) PROVE BatchOnly(1, k) /\ JobsOf(batch'[1][k]) \subseteq JobsOf(batch[1][k])
    BY <1>a, <2>2, JobEndsBatch, FirstIsService
  <2>3. QED
    BY <1>1, <2>1, <2>2
<1>3. Starting' \subseteq Starting /\ Ticking' \subseteq Ticking
  <2>1. ASSUME NEW l \in Batches PROVE JobsOf(batch'[1][l]) \subseteq JobsOf(batch[1][l])
    <3>1. l = k \/ batch'[1][l] = batch[1][l]
      BY <1>2, FirstIsService DEF BatchOnly
    <3>2. QED
      BY <1>2, <3>1
  <2>2. QED
    BY <2>1 DEF Starting, Ticking, Batches
<1>4. now' = now /\ disk' = disk /\ Reserved' = Reserved /\ ManualsKeep
  BY SameManuals DEF JobStarts, JobEnds, stores
<1>5. OnePlace' /\ UnderWay' \subseteq UnderWay
  BY <1>a, <1>b, <1>3, <1>4, WorkEnds
<1>6. ASSUME NEW i \in UnderWay, Has(disk'[i]) PROVE KeptMark(i)'
  <2>1. i \in Jobs /\ Has(disk[i]) /\ KeptMark(i)
    BY <1>a, <1>4, <1>6, UnderWayAreJobs DEF Kept
  <2>2. mem'[1][i] = mem[1][i] \/ (Has(mem[1][i]) /\ (mem'[1][i].mark = mem[1][i].mark \/ mem'[1][i].mark = now))
    <3>1. CASE JobStarts(s, k, j) /\ Has(mem[1][i])
      BY <1>a, <1>1, <2>1, <3>1, JobStartsIs
    <3>2. CASE JobStarts(s, k, j) /\ ~Has(mem[1][i])
      <4>1. SameJob(mem[1][i], disk[i])
        BY <1>a, <1>1, <2>1, UndisturbedIs DEF InStep
      <4>2. QED
        BY <2>1, <3>2, <4>1 DEF SameJob
    <3>3. CASE JobEnds(s, k, j)
      BY <3>3 DEF JobEnds, stores
    <3>4. QED
      BY <3>1, <3>2, <3>3
  <2>3. disk[i].mark \in 0..now /\ now \in Nat
    BY <1>a, <2>1, MarkIs DEF TypeOK
  <2>4. mem'[1][i].mark >= disk[i].mark
    BY <2>1, <2>2, <2>3 DEF KeptMark
  <2>5. QED
    BY <1>4, <2>1, <2>4 DEF KeptMark
<1>7. QED
  BY <1>5, <1>6 DEF Kept

LEMMA KeptStep ==
  /\ TypeOK /\ Timed /\ Lives /\ InStep /\ MarkedUnderWay /\ OnePlace /\ [Next]_vars
  /\ TypeOK' /\ Lives'
  => MarkedUnderWay' /\ OnePlace'
<1> SUFFICES ASSUME TypeOK, Timed, Lives, InStep, MarkedUnderWay, OnePlace, [Next]_vars,
                    TypeOK', Lives'
             PROVE  MarkedUnderWay' /\ OnePlace'
  OBVIOUS
<1>a. ASSUME Calm' => Kept' /\ OnePlace' PROVE MarkedUnderWay' /\ OnePlace'
  BY <1>a DEF MarkedUnderWay, Kept, OnePlace
<1>b. SUFFICES ASSUME Calm' PROVE Kept' /\ OnePlace'
  BY <1>a
<1>c. ASSUME slips \subseteq slips', current' = current \/ current = 0 PROVE Undisturbed
  BY <1>b, <1>c DEF Undisturbed, MarkedUnderWay, Kept, Calm, OneService
<1>d. ASSUME UNCHANGED <<stores, batch, manual>>, Undisturbed,
             \A j \in UnderWay : Has(disk[j]) => KeptMark(j)'
      PROVE  Kept' /\ OnePlace'
  <2>1. Starting' = Starting /\ Ticking' = Ticking /\ Reserved' = Reserved /\ ManualsKeep
    BY <1>d, SameManuals DEF Starting, Ticking
  <2>2. OnePlace' /\ UnderWay' \subseteq UnderWay
    BY <1>d, <2>1, WorkEnds DEF Undisturbed
  <2>3. QED
    BY <1>d, <2>2 DEF Kept, stores
<1>1. CASE Crash
  <2>1. batch'[1]["start"] = NoBatch /\ batch'[1]["tick"] = NoBatch /\ Reserved' = {}
    BY <1>1, FirstIsService DEF Crash, Batches, Reserved, NoManual
  <2>2. Starting' = {} /\ Ticking' = {}
    BY <2>1, NoJobs DEF Starting, Ticking
  <2>3. QED
    BY <1>b, <2>1, <2>2, KeptIdle
<1>2. CASE ClockTick
  <2>1. UNCHANGED <<stores, batch, manual, current>> /\ now' = now + 1 /\ slips \subseteq slips'
    BY <1>2 DEF ClockTick
  <2>2. ASSUME NEW j \in UnderWay, Has(disk[j]) PROVE KeptMark(j)'
    <3>1. KeptMark(j)
      BY <1>c, <2>1, <2>2 DEF Undisturbed, Kept
    <3>2. ~Aged(j)
      BY <1>2, <1>b DEF ClockTick, Calm
    <3>3. disk[j].mark \in 0..now /\ now \in Nat /\ StuckAfter \in Nat
      BY <1>c, <2>1, <2>2, MarkIs, CronServiceAssumption DEF Undisturbed, TypeOK
    <3>4. QED
      BY <2>1, <2>2, <3>1, <3>2, <3>3 DEF KeptMark, Aged, stores
  <2>3. QED
    BY <1>c, <1>d, <2>1, <2>2
<1>3. CASE Launch \/ UNCHANGED vars
  <2>1. UNCHANGED <<stores, batch, manual, now>> /\ slips' = slips /\ (current' = current \/ current = 0)
    BY <1>3 DEF Launch, vars, stores
  <2>2. \A j \in UnderWay : Has(disk[j]) => KeptMark(j)'
    BY <1>c, <2>1 DEF Undisturbed, Kept, KeptMark, stores
  <2>3. QED
    BY <1>c, <1>d, <2>1, <2>2
<1>4. CASE Reload
  BY <1>4, <1>b DEF Reload, Calm, OneService, TypeOK, Services
<1>5. ASSUME NEW s \in Services, StartStep(s) PROVE Kept' /\ OnePlace'
  <2>1. slips' = slips /\ current' = current
    BY <1>5 DEF StartStep, StartClears, StartPlans, StartApplies, StartFinishes
  <2>2. QED
    BY <1>5, <1>c, <2>1, KeptStarts
<1>6. ASSUME NEW s \in Services, TimerStep(s) PROVE Kept' /\ OnePlace'
  <2>1. slips' = slips /\ current' = current
    BY <1>6 DEF TimerStep, TimerFires, TickFindsNothing, TickClaims, TickApplies, TickEnds
  <2>2. QED
    BY <1>6, <1>c, <2>1, KeptTimes
<1>7. ASSUME NEW s \in Services,
             \/ List(s)
             \/ \E j \in Jobs : \/ Add(s, j) \/ Remove(s, j) \/ ManualRun(s, j)
                                \/ \E on \in BOOLEAN : Update(s, j, on)
      PROVE  Kept' /\ OnePlace'
  <2>1. slips \subseteq slips' /\ current' = current
    BY <1>7 DEF List, Add, Remove, ManualRun, Update
  <2>2. QED
    BY <1>7, <1>c, <2>1, KeptUsed
<1>8. ASSUME NEW w \in Slots, ManualStep(w) \/ ManualEnds(w) PROVE Kept' /\ OnePlace'
  <2>1. slips \subseteq slips' /\ current' = current
    BY <1>8 DEF ManualStep, ManualReserves, ManualFinishes, ManualEnds
  <2>2. QED
    BY <1>8, <1>c, <2>1, KeptManual
<1>9. ASSUME NEW s \in Services, NEW k \in Batches, NEW j \in Jobs,
             JobStarts(s, k, j) \/ JobEnds(s, k, j)
      PROVE  Kept' /\ OnePlace'
  <2>1. slips' = slips /\ current' = current
    BY <1>9 DEF JobStarts, JobEnds
  <2>2. QED
    BY <1>9, <1>c, <2>1, KeptJobs
<1>10. QED
  BY <1>1, <1>2, <1>3, <1>4, <1>5, <1>6, <1>7, <1>8, <1>9 DEF Next

LEMMA OneRun ==
  ASSUME TypeOK, Lives, OnePlace
  PROVE  OneRunPerJob
<1> SUFFICES ASSUME Calm, NEW j \in Jobs PROVE Cardinality(Going(j)) <= 1
  BY DEF OneRunPerJob, Calm
<1>1. ASSUME NEW r \in Going(j)
      PROVE  \/ r = <<1, "start">> /\ j \in Starting
             \/ r = <<1, "tick">> /\ j \in Ticking
             \/ \E w \in Reserved : r = <<w, "manual">> /\ manual[w].job = j
  <2>1. CASE r \in Services \X Batches /\ \E x \in batch[r[1]][r[2]].going : x.job = j
    <3>1. r[1] \in Services /\ r[2] \in Batches /\ r = <<r[1], r[2]>>
      BY <2>1
    <3>2. r[1] = 1
      <4>1. batch[r[1]][r[2]] # NoBatch
        BY <2>1, NoBatchIs
      <4>2. Loaded(r[1])
        BY <3>1, <4>1 DEF Lives, Batches
      <4>3. ~(r[1] > current)
        BY <3>1, <4>2 DEF Lives, Loaded
      <4>4. QED
        BY <3>1, <4>3, ActsAlone DEF Calm, TypeOK, Services
    <3>3. j \in JobsOf(batch[1][r[2]])
      BY <2>1, <3>2 DEF JobsOf
    <3>4. QED
      BY <3>1, <3>2, <3>3 DEF Starting, Ticking, Batches
  <2>2. ASSUME NEW w \in Slots, manual[w].at = "going", manual[w].job = j, r = <<w, "manual">>
        PROVE  \E v \in Reserved : r = <<v, "manual">> /\ manual[v].job = j
    <3>1. w \in Reserved
      BY <2>2 DEF Reserved
    <3>2. QED
      BY <2>2, <3>1
  <2>3. QED
    BY <2>1, <2>2 DEF Going
<1>2. /\ Starting \cap Ticking = {} /\ Starting \cap InManual = {} /\ Ticking \cap InManual = {}
      /\ \A v, w \in Reserved : manual[v].job = manual[w].job => v = w
  BY DEF OnePlace, Starting, Ticking
<1>3. (\E w \in Reserved : manual[w].job = j) => j \in InManual
  BY DEF InManual
<1>4. ASSUME NEW p \in Going(j), NEW q \in Going(j) PROVE p = q
  <2>1. CASE j \in Starting \cup Ticking
    BY <1>1, <1>2, <1>3, <2>1
  <2>2. CASE j \notin Starting \cup Ticking
    <3>1. PICK v \in Reserved : p = <<v, "manual">> /\ manual[v].job = j
      BY <1>1, <2>2
    <3>2. PICK w \in Reserved : q = <<w, "manual">> /\ manual[w].job = j
      BY <1>1, <2>2
    <3>3. QED
      BY <1>2, <3>1, <3>2
  <2>3. QED
    BY <2>1, <2>2
<1>5. CASE Going(j) = {}
  BY <1>5, FS_EmptySet
<1>6. CASE Going(j) # {}
  <2>1. PICK p : Going(j) = {p}
    BY <1>4, <1>6
  <2>2. QED
    BY <2>1, FS_Singleton
<1>7. QED
  BY <1>5, <1>6

---------------------------------------------------------------------------
(* Someone will come to the jobs in the file.                              *)

\* Service s saves its jobs, and will come to them.
LEMMA WatchedBySaving ==
  ASSUME TypeOK, TypeOK', Watched, NEW s \in Services, Section(s), disk' = mem'[s], current' = current,
         phase'[s] \notin {"off", "new"},
         phase'[s] = "up" /\ (\E j \in Jobs : Scheduled(mem'[s][j])) =>
           timer'[s] \/ tick'[s] # "idle",
         \A r \in Services \ {s} : /\ phase'[r] = phase[r] /\ timer'[r] = timer[r]
                                   /\ tick'[r] = tick[r]
  PROVE  Watched'
<1> SUFFICES ASSUME current # 0 PROVE Watched'
  BY DEF Watched
<1>1. current \in Services
  BY DEF TypeOK
<1>2. (\E j \in Jobs : Scheduled(disk'[j])) => WillCome(s)'
  BY DEF WillCome, Plans, TypeOK
<1>3. CASE current = s
  BY <1>2, <1>3 DEF Watched, Running, Plans
<1>4. CASE current # s
  <2>1. mem'[current] = mem[current]
    BY <1>1, <1>4 DEF Section, TypeOK
  <2>2. (phase[current] = "up" => timer[current] \/ Running(current) \/ ~Plans(current))'
    BY <1>1, <1>4, <2>1 DEF Watched, Running, Plans
  <2>3. QED
    BY <1>2, <2>2 DEF Watched
<1>5. QED
  BY <1>3, <1>4

\* Nothing is saved, and service s will come as before.
LEMMA WatchedAlong ==
  ASSUME TypeOK, Watched, NEW s \in Services, disk' = disk, current' = current,
         WillCome(s) => WillCome(s)', StaleManual => StaleManual',
         s = current /\ phase'[s] = "up" =>
           timer'[s] \/ tick'[s] # "idle" \/ ~\E j \in Jobs : Scheduled(mem'[s][j]),
         \A r \in Services \ {s} : /\ phase'[r] = phase[r] /\ timer'[r] = timer[r]
                                   /\ tick'[r] = tick[r] /\ mem'[r] = mem[r]
  PROVE  Watched'
<1> SUFFICES ASSUME current # 0 PROVE Watched'
  BY DEF Watched
<1>1. current \in Services
  BY DEF TypeOK
<1>2. \A r \in Services : WillCome(r) => WillCome(r)'
  <2>1. \A r \in Services \ {s} : WillCome(r) => WillCome(r)'
    BY DEF WillCome, Plans
  <2>2. QED
    BY <2>1
<1>3. (\E j \in Jobs : Scheduled(disk'[j])) => StaleManual' \/ \E r \in Services : WillCome(r)'
  BY <1>2 DEF Watched
<1>4. (phase[current] = "up" => timer[current] \/ Running(current) \/ ~Plans(current))'
  <2>1. CASE current = s
    BY <2>1 DEF Running, Plans
  <2>2. CASE current # s
    BY <1>1, <2>2 DEF Watched, Running, Plans
  <2>3. QED
    BY <2>1, <2>2
<1>5. QED
  BY <1>3, <1>4 DEF Watched

\* A section that leaves the schedule of each job leaves the plans.
LEMMA SamePlans ==
  ASSUME TypeOK, Timed, NEW s \in Services, Section(s), \A j \in Jobs : AsBefore(mem[s][j], mem'[s][j])
  PROVE  Plans(s) <=> \E j \in Jobs : Scheduled(mem'[s][j])
<1>1. \A j \in Jobs : Timely(mem[s][j]) /\ Timely(mem'[s][j])
  BY DEF Timed, Section, Good
<1>2. \A j \in Jobs : Scheduled(mem'[s][j]) <=> Scheduled(mem[s][j])
  BY <1>1, AsBeforeIsScheduled
<1>3. QED
  BY <1>2 DEF Plans

\* So do marks.
LEMMA MarkedPlans ==
  ASSUME TypeOK, NEW S, Good(S), NEW J \in SUBSET Jobs, \A j \in J : Has(S[j])
  PROVE  (\E j \in Jobs : Scheduled(S[j])) <=> \E j \in Jobs : Scheduled(Marked(S, J)[j])
<1>1. \A j \in Jobs : Scheduled(Marked(S, J)[j]) <=> Scheduled(S[j])
  BY MarkedIs DEF Scheduled
<1>2. QED
  BY <1>1

LEMMA WatchedStarts ==
  ASSUME TypeOK, TypeOK', Timed, Lives, Watched, NEW s \in Services, StartStep(s)
  PROVE  Watched'
<1>1. CASE StartClears(s)
  <2>1. /\ phase'[s] = "plan" /\ UNCHANGED <<tick, timer, current>>
        /\ \A r \in Services \ {s} : phase'[r] = phase[r]
    BY <1>1 DEF StartClears, TypeOK
  <2>2. QED
    BY <1>1, <2>1, ClearsIs, WatchedBySaving
<1>2. CASE StartPlans(s)
  <2>1. /\ phase[s] = "plan" /\ UNCHANGED <<timer, tick, manual, current>>
    BY <1>2 DEF StartPlans
  <2>2. CASE UNCHANGED <<stores, batch>> /\ phase' = [phase EXCEPT ![s] = "final"]
    <3>1. /\ phase'[s] = "final" /\ UNCHANGED <<mem, disk>>
          /\ \A r \in Services \ {s} : phase'[r] = phase[r]
      BY <2>2 DEF stores, TypeOK
    <3>2. WillCome(s) => WillCome(s)'
      BY <2>1, <3>1 DEF WillCome, Plans
    <3>3. StaleManual => StaleManual'
      BY <2>1, <3>1 DEF StaleManual, OneService, Reserved
    <3>4. QED
      BY <2>1, <3>1, <3>2, <3>3, WatchedAlong
  <2>3. CASE phase' = [phase EXCEPT ![s] = "catchup"] /\ disk' = mem'[s]
    <3>1. /\ phase'[s] = "catchup"
          /\ \A r \in Services \ {s} : phase'[r] = phase[r]
      BY <2>3 DEF TypeOK
    <3>2. QED
      BY <1>2, <2>1, <2>3, <3>1, PlansIs, WatchedBySaving
  <2>4. QED
    BY <1>2, <2>2, <2>3, PlansIs
<1>3. CASE StartApplies(s)
  <2>1. /\ phase' = [phase EXCEPT ![s] = "final"] /\ UNCHANGED <<timer, tick, current>>
    BY <1>3 DEF StartApplies
  <2>2. /\ phase'[s] = "final"
        /\ \A r \in Services \ {s} : phase'[r] = phase[r]
    BY <2>1 DEF TypeOK
  <2>3. QED
    BY <1>3, <2>1, <2>2, StartAppliesIs, WatchedBySaving
<1>4. CASE StartFinishes(s)
  <2>1. /\ phase[s] = "final" /\ phase' = [phase EXCEPT ![s] = "up"]
        /\ UNCHANGED <<tick, manual, current>>
        /\ timer' = [timer EXCEPT ![s] = \E j \in Jobs : Scheduled(mem'[s][j])]
    BY <1>4 DEF StartFinishes, ArmTimer
  <2>2. /\ phase'[s] = "up" /\ (timer'[s] <=> \E j \in Jobs : Scheduled(mem'[s][j]))
        /\ \A r \in Services \ {s} : phase'[r] = phase[r] /\ timer'[r] = timer[r]
    BY <2>1 DEF TypeOK
  <2>3. CASE disk' = mem'[s]
    BY <1>4, <2>1, <2>2, <2>3, FinishesIs, WatchedBySaving
  <2>4. CASE disk' = disk /\ mem'[s] = mem[s]
    <3>1. \A r \in Services \ {s} : mem'[r] = mem[r]
      BY <1>4, FinishesIs DEF Section, TypeOK
    <3>2. \A r \in Services : mem'[r] = mem[r]
      BY <2>4, <3>1
    <3>3. WillCome(s) => WillCome(s)'
      BY <2>1, <2>2, <3>2 DEF WillCome, Plans, TypeOK
    <3>4. StaleManual => StaleManual'
      BY <2>1, <3>2, FirstIsService DEF StaleManual, OneService, Reserved, Front
    <3>5. QED
      BY <2>1, <2>2, <2>4, <3>1, <3>3, <3>4, WatchedAlong
  <2>5. QED
    BY <1>4, <2>3, <2>4, FinishesIs
<1>5. QED
  BY <1>1, <1>2, <1>3, <1>4 DEF StartStep

LEMMA WatchedTimes ==
  ASSUME TypeOK, TypeOK', Timed, Lives, Watched, NEW s \in Services, TimerStep(s)
  PROVE  Watched'
<1>1. UNCHANGED <<phase, manual, current>> /\ phase[s] \notin {"off", "new"}
  BY ActsLoaded
     DEF TimerStep, TimerFires, TickFindsNothing, TickClaims, TickApplies, TickEnds, Loaded
<1>2. CASE TimerFires(s)
  <2>1. /\ UNCHANGED <<disk, mem, timer>> /\ tick'[s] = "fired"
        /\ \A r \in Services \ {s} : tick'[r] = tick[r]
    BY <1>2 DEF TimerFires, stores, TypeOK
  <2>2. WillCome(s)' /\ (StaleManual => StaleManual')
    BY <1>1, <2>1 DEF WillCome, StaleManual, OneService, Reserved
  <2>3. QED
    BY <1>1, <2>1, <2>2, WatchedAlong
<1>3. CASE TickFindsNothing(s)
  <2>1. timer' = timer /\ tick'[s] = "swept" /\ \A r \in Services \ {s} : tick'[r] = tick[r]
    BY <1>3 DEF TickFindsNothing, TypeOK
  <2>2. QED
    BY <1>1, <1>3, <2>1, FindsNothingIs, WatchedBySaving
<1>4. CASE TickClaims(s)
  <2>1. timer' = timer /\ tick'[s] = "claimed" /\ \A r \in Services \ {s} : tick'[r] = tick[r]
    BY <1>4 DEF TickClaims, TypeOK
  <2>2. QED
    BY <1>1, <1>4, <2>1, ClaimsIs, WatchedBySaving
<1>5. CASE TickApplies(s)
  <2>1. timer' = timer /\ tick'[s] = "swept" /\ \A r \in Services \ {s} : tick'[r] = tick[r]
    BY <1>5 DEF TickApplies, TypeOK
  <2>2. QED
    BY <1>1, <1>5, <2>1, TickAppliesIs, WatchedBySaving
<1>6. CASE TickEnds(s)
  <2>1. /\ UNCHANGED <<disk, mem>> /\ tick[s] = "swept" /\ tick'[s] = "idle"
        /\ (timer'[s] <=> \E j \in Jobs : Scheduled(mem'[s][j]))
        /\ \A r \in Services \ {s} : tick'[r] = tick[r] /\ timer'[r] = timer[r]
    BY <1>6 DEF TickEnds, ArmTimer, stores, TypeOK
  <2>2. WillCome(s) => WillCome(s)'
    BY <1>1, <2>1 DEF WillCome, Plans, TypeOK
  <2>3. StaleManual => StaleManual'
    BY <1>1, <2>1 DEF StaleManual, OneService, Reserved
  <2>4. QED
    BY <1>1, <2>1, <2>2, <2>3, WatchedAlong
<1>7. QED
  BY <1>2, <1>3, <1>4, <1>5, <1>6 DEF TimerStep

\* The list of the jobs changes only marks.
LEMMA ListClears ==
  ASSUME TypeOK, Timed, Tidied, NEW s \in Services, List(s)
  PROVE  MarksIn(mem[s]) # {}
<1> SUFFICES ASSUME MarksIn(mem[s]) = {} PROVE FALSE
  OBVIOUS
<1>1. Maintained(mem[s], FALSE) # mem[s] /\ Good(mem[s])
  BY StoresAreGood DEF List
<1>2. ASSUME NEW j \in Jobs PROVE Maintained(mem[s], FALSE)[j] = mem[s][j]
  <2>1. CASE ~Has(mem[s][j])
    BY <2>1 DEF Maintained, Has
  <2>2. CASE Has(mem[s][j])
    <3>1. mem[s][j] \in JobRecord
      BY <2>2, JobIsRecord DEF TypeOK
    <3>2. mem[s][j].mark = None /\ Timely(mem[s][j]) /\ Tidy(mem[s][j])
      BY <2>2 DEF MarksIn, Timed, Tidied
    <3>3. Normalized(mem[s][j]) = mem[s][j]
      <4>1. CASE mem[s][j].on
        BY <3>2, <4>1 DEF Normalized
      <4>2. CASE ~mem[s][j].on
        BY <2>2, <3>1, <3>2, <4>2 DEF Normalized, Tidy, JobRecord
      <4>3. QED
        BY <4>1, <4>2
    <3>4. mem[s][j].on => mem[s][j].next # None
      BY <2>2, <3>2 DEF Timely
    <3>5. QED
      BY <2>2, <3>3, <3>4 DEF Maintained
  <2>3. QED
    BY <2>1, <2>2
<1>3. Maintained(mem[s], FALSE) = mem[s]
  <2>1. mem[s] \in [Jobs -> JobType] /\ DOMAIN Maintained(mem[s], FALSE) = Jobs
    BY DEF TypeOK, Maintained
  <2>2. Maintained(mem[s], FALSE) = [j \in Jobs |-> Maintained(mem[s], FALSE)[j]]
    BY DEF Maintained
  <2>3. mem[s] = [j \in Jobs |-> mem[s][j]]
    BY <2>1
  <2>4. [j \in Jobs |-> Maintained(mem[s], FALSE)[j]] = [j \in Jobs |-> mem[s][j]]
    BY <1>2
  <2>5. QED
    BY <2>2, <2>3, <2>4
<1>4. QED
  BY <1>1, <1>3

LEMMA WatchedUsed ==
  ASSUME TypeOK, TypeOK', Timed, Lives, Tidied, OwnMarks, Watched, NEW s \in Services,
         \/ List(s)
         \/ \E j \in Jobs : \/ Add(s, j) \/ Remove(s, j) \/ ManualRun(s, j)
                            \/ \E on \in BOOLEAN : Update(s, j, on)
  PROVE  Watched'
<1>1. s = 1 /\ phase[s] \notin {"off", "new"} /\ UNCHANGED <<phase, tick, current>>
  BY DEF List, Add, Remove, ManualRun, Update, Operates, Front
<1>2. s = current => (phase[s] = "up" => timer[s] \/ Running(s) \/ ~Plans(s))
  BY <1>1 DEF Watched
<1>3. CASE List(s)
  <2>1. UNCHANGED <<timer, manual>>
    BY <1>3 DEF List
  <2>2. /\ Section(s) /\ disk' = mem'[s] /\ (Plans(s) <=> \E j \in Jobs : Scheduled(mem'[s][j]))
        /\ \A j \in Jobs : Has(mem'[s][j]) <=> Has(mem[s][j])
    BY <1>3, ListIs, SamePlans DEF AsBefore
  <2>3. CASE Unwatched(s)
    <3>1. s # current /\ ~OneService
      <4>1. s # current
        BY <1>2, <2>3 DEF Unwatched
      <4>2. s <= current
        BY <1>3, ActsLoaded
      <4>3. QED
        BY <1>1, <4>1, <4>2 DEF OneService, TypeOK, Services
    <3>2. PICK j \in Jobs : Has(mem[s][j]) /\ j \in InManual
      BY <1>1, <1>3, <2>3, <3>1, ListClears DEF OwnMarks, MarksIn, Front
    <3>3. PICK w \in Reserved : manual[w].job = j
      BY <3>2 DEF InManual
    <3>4. StaleManual'
      BY <1>1, <2>1, <2>2, <3>1, <3>2, <3>3 DEF StaleManual, OneService, Reserved, Front
    <3>5. current # 0 => current \in Services /\ mem'[current] = mem[current]
      BY <2>2, <3>1 DEF Section, TypeOK
    <3>6. QED
      BY <1>1, <2>1, <3>4, <3>5 DEF Watched, Running, Plans
  <2>4. CASE ~Unwatched(s)
    BY <1>1, <2>1, <2>2, <2>4, WatchedBySaving DEF Unwatched, Running
  <2>5. QED
    BY <2>3, <2>4
<1>4. ASSUME NEW j \in Jobs, Add(s, j) \/ Remove(s, j) \/ \E on \in BOOLEAN : Update(s, j, on)
      PROVE  Watched'
  <2>1. /\ (timer'[s] <=> \E i \in Jobs : Scheduled(mem'[s][i]))
        /\ \A r \in Services \ {s} : timer'[r] = timer[r]
    BY <1>4 DEF Add, Remove, Update, ArmTimer, TypeOK
  <2>2. Section(s) /\ disk' = mem'[s]
    BY <1>4, AddIs, RemoveIs, UpdateIs
  <2>3. QED
    BY <1>1, <2>1, <2>2, WatchedBySaving
<1>5. ASSUME NEW j \in Jobs, ManualRun(s, j) PROVE Watched'
  <2>1. timer' = timer
    BY <1>5 DEF ManualRun
  <2>2. /\ Section(s) /\ disk' = disk /\ (Plans(s) <=> \E i \in Jobs : Scheduled(mem'[s][i]))
        /\ \A i \in Jobs : Has(mem'[s][i]) <=> Has(mem[s][i])
    BY <1>5, ManualRunIs, SamePlans DEF AsBefore
  <2>3. \A r \in Services \ {s} : mem'[r] = mem[r]
    BY <2>2 DEF Section, TypeOK
  <2>4. WillCome(s) => WillCome(s)'
    BY <1>1, <2>1, <2>2 DEF WillCome, Plans
  <2>5. StaleManual => StaleManual'
    <3>1. ASSUME NEW w \in Reserved, Has(mem[1][manual[w].job])
          PROVE  w \in Reserved' /\ Has(mem'[1][manual'[w].job])
      <4>1. manual[w].job \in Jobs
        BY ManualIs DEF Reserved
      <4>2. QED
        BY <1>1, <1>5, <2>2, <3>1, <4>1, ManualRunReserves DEF ManualsKeep
    <3>2. QED
      BY <1>1, <3>1 DEF StaleManual, OneService, Front
  <2>6. QED
    BY <1>1, <1>2, <2>1, <2>2, <2>3, <2>4, <2>5, WatchedAlong DEF Running
<1>6. QED
  BY <1>3, <1>4, <1>5

LEMMA WatchedManual ==
  ASSUME TypeOK, TypeOK', Timed, Lives, Watched, NEW w \in Slots, ManualStep(w) \/ ManualEnds(w)
  PROVE  Watched'
<1> USE FirstIsService
<1>1. UNCHANGED <<phase, tick, current>> /\ manual[w].at # "idle"
  BY DEF ManualStep, ManualReserves, ManualFinishes, ManualEnds
<1>2. phase[1] \notin {"off", "new"} /\ manual[w].job \in Jobs /\ 1 <= current
  <2>1. Loaded(1) /\ 1 <= current
    BY <1>1, ActsLoaded DEF NoManual
  <2>2. QED
    BY <1>1, <2>1, ManualIs DEF Loaded
<1>3. ASSUME UNCHANGED <<stores, timer>>, StaleManual => StaleManual' PROVE Watched'
  <2>1. WillCome(1) => WillCome(1)'
    BY <1>1, <1>3 DEF WillCome, Plans, stores
  <2>2. 1 = current /\ phase'[1] = "up" =>
          timer'[1] \/ tick'[1] # "idle" \/ ~\E j \in Jobs : Scheduled(mem'[1][j])
    BY <1>1, <1>3 DEF Watched, Running, Plans, stores
  <2>3. QED
    BY <1>1, <1>3, <2>1, <2>2, WatchedAlong DEF stores
<1>4. CASE ManualReserves(w)
  <2>1. timer' = timer
    BY <1>4 DEF ManualReserves
  <2>2. CASE UNCHANGED stores /\ manual' = [manual EXCEPT ![w] = NoManual]
    <3>1. w \notin Reserved
      BY <1>4 DEF ManualReserves, Reserved
    <3>2. Reserved' = Reserved /\ \A v \in Reserved : manual'[v] = manual[v]
      BY <2>2, <3>1, SlotEmpties
    <3>3. StaleManual => StaleManual'
      BY <1>1, <2>2, <3>2 DEF StaleManual, OneService, stores
    <3>4. QED
      BY <1>3, <2>1, <2>2, <3>3
  <2>3. CASE /\ Section(1) /\ disk' = mem'[1] /\ Unmarked(mem[1][manual[w].job])
             /\ disk' = Marked(mem[1], {manual[w].job})
             /\ manual' = [manual EXCEPT ![w].at = "going"]
    <3>1. Good(mem[1]) /\ {manual[w].job} \in SUBSET Jobs /\ \A i \in {manual[w].job} : Has(mem[1][i])
      BY <1>2, <2>3, StoresAreGood DEF Unmarked
    <3>2. Plans(1) <=> \E j \in Jobs : Scheduled(mem'[1][j])
      BY <2>3, <3>1, MarkedPlans DEF Plans
    <3>3. CASE current = 1
      <4>1. phase[1] = "up" => timer[1] \/ Running(1) \/ ~Plans(1)
        BY <3>3 DEF Watched
      <4>2. QED
        BY <1>1, <1>2, <2>1, <2>3, <3>2, <4>1, WatchedBySaving DEF Running
    <3>4. CASE current # 1
      <4>1. w \in Reserved' /\ manual'[w].job = manual[w].job
        BY <1>4, <2>3, SlotReserves DEF ManualReserves
      <4>2. Has(mem'[1][manual[w].job])
        <5>1. Has(Marked(mem[1], {manual[w].job})[manual[w].job])
          BY <1>2, <3>1, MarkedIs
        <5>2. QED
          BY <2>3, <5>1
      <4>3. ~OneService'
        BY <1>1, <1>2, <3>4 DEF OneService, TypeOK, Services
      <4>4. StaleManual'
        BY <4>1, <4>2, <4>3 DEF StaleManual, Front
      <4>5. current \in Services /\ mem'[current] = mem[current]
        BY <1>2, <2>3, <3>4 DEF Section, TypeOK
      <4>6. QED
        BY <1>1, <2>1, <4>4, <4>5 DEF Watched, Running, Plans
    <3>5. QED
      BY <3>3, <3>4
  <2>4. QED
    BY <1>4, <2>2, <2>3, ReservesIs DEF stores
<1>5. CASE ManualFinishes(w)
  <2>1. CASE ~Has(mem[1][manual[w].job]) /\ UNCHANGED <<stores, timer>>
    <3>1. Reserved' = Reserved \ {w} /\ \A v \in Reserved' : manual'[v] = manual[v]
      BY <1>5, ManualFinishesIs, SlotEmpties
    <3>2. StaleManual => StaleManual'
      <4>1. ASSUME NEW v \in Reserved, Has(mem[1][manual[v].job]) PROVE v # w
        BY <2>1, <4>1
      <4>2. QED
        BY <1>1, <2>1, <3>1, <4>1 DEF StaleManual, OneService, Front, stores
    <3>3. QED
      BY <1>3, <2>1, <3>2
  <2>2. CASE /\ Section(1) /\ disk' = mem'[1]
             /\ timer' = [timer EXCEPT ![1] = \E j \in Jobs : Scheduled(mem'[1][j])]
    <3>1. /\ (timer'[1] <=> \E i \in Jobs : Scheduled(mem'[1][i]))
          /\ \A r \in Services \ {1} : timer'[r] = timer[r]
      BY <2>2 DEF TypeOK
    <3>2. QED
      BY <1>1, <1>2, <2>2, <3>1, WatchedBySaving
  <2>3. QED
    BY <1>5, <2>1, <2>2, ManualFinishesIs
<1>6. CASE ManualEnds(w)
  <2>1. Reserved' = Reserved /\ (\A v \in Slots : manual'[v].job = manual[v].job)
        /\ UNCHANGED <<stores, timer>>
    BY <1>6, EndsReserved DEF ManualEnds
  <2>2. StaleManual => StaleManual'
    BY <1>1, <2>1 DEF StaleManual, OneService, Reserved, stores
  <2>3. QED
    BY <1>3, <2>1, <2>2
<1>7. QED
  BY <1>4, <1>5, <1>6 DEF ManualStep

LEMMA WatchedJobs ==
  ASSUME TypeOK, Timed, Watched, NEW s \in Services, NEW k \in Batches, NEW j \in Jobs,
         JobStarts(s, k, j) \/ JobEnds(s, k, j)
  PROVE  Watched'
<1>1. UNCHANGED <<disk, phase, timer, tick, manual, current>>
  BY DEF JobStarts, JobEnds, stores
<1>2. /\ \A r \in Services \ {s} : mem'[r] = mem[r]
      /\ \A i \in Jobs : /\ Has(mem'[s][i]) <=> Has(mem[s][i])
                         /\ Scheduled(mem'[s][i]) <=> Scheduled(mem[s][i])
  <2>1. CASE JobStarts(s, k, j)
    BY <2>1, JobStartsIs DEF Section, TypeOK, Scheduled
  <2>2. CASE JobEnds(s, k, j)
    BY <2>2 DEF JobEnds, stores
  <2>3. QED
    BY <2>1, <2>2
<1>3. WillCome(s) => WillCome(s)'
  BY <1>1, <1>2 DEF WillCome, Plans
<1>4. StaleManual => StaleManual'
  <2>1. ASSUME NEW w \in Reserved, Has(mem[1][manual[w].job]) PROVE Has(mem'[1][manual[w].job])
    BY <1>2, <2>1, ManualIs, FirstIsService DEF Reserved
  <2>2. QED
    BY <1>1, <2>1 DEF StaleManual, OneService, Reserved, Front
<1>5. s = current /\ phase'[s] = "up" =>
        timer'[s] \/ tick'[s] # "idle" \/ ~\E i \in Jobs : Scheduled(mem'[s][i])
  BY <1>1, <1>2 DEF Watched, Running, Plans, Services
<1>6. QED
  BY <1>1, <1>2, <1>3, <1>4, <1>5, WatchedAlong

LEMMA WatchedStep ==
  TypeOK /\ TypeOK' /\ Timed /\ Lives /\ Tidied /\ OwnMarks /\ Watched /\ [Next]_vars => Watched'
<1> SUFFICES ASSUME TypeOK, TypeOK', Timed, Lives, Tidied, OwnMarks, Watched, [Next]_vars
             PROVE  Watched'
  OBVIOUS
<1>1. CASE ClockTick \/ UNCHANGED vars
  <2>1. UNCHANGED <<disk, mem, phase, timer, tick, manual, current>>
    BY <1>1 DEF ClockTick, vars, stores
  <2>2. QED
    BY <2>1 DEF Watched, WillCome, Running, Plans, StaleManual, OneService, Reserved
<1>2. CASE Launch
  <2>1. current' = 1 /\ phase'[1] = "new"
    BY <1>2, FirstIsService DEF Launch, TypeOK
  <2>2. QED
    BY <2>1, FirstIsService DEF Watched, WillCome
<1>3. CASE Reload
  <2>1. current + 1 \in Services /\ current' = current + 1
        /\ phase' = [phase EXCEPT ![current + 1] = "new"]
    BY <1>3, CronServiceAssumption DEF Reload, TypeOK, Services
  <2>2. phase'[current + 1] = "new"
    BY <2>1 DEF TypeOK
  <2>3. QED
    BY <2>1, <2>2 DEF Watched, WillCome
<1>4. CASE Crash
  BY <1>4 DEF Crash, Watched
<1>5. QED
  BY <1>1, <1>2, <1>3, <1>4, WatchedStarts, WatchedTimes, WatchedUsed, WatchedManual, WatchedJobs
     DEF Next

---------------------------------------------------------------------------
(* Jobs that are off are not due, and what is marked is under way.         *)

LEMMA TidySection ==
  ASSUME TypeOK, Tidied, NEW s \in Services, Section(s), \A j \in Jobs : Tidy(mem'[s][j])
  PROVE  Tidied'
<1>1. \A r \in Services \ {s} : mem'[r] = mem[r]
  BY DEF Section, TypeOK
<1>2. \A r \in Services, j \in Jobs : Tidy(mem'[r][j])
  BY <1>1 DEF Tidied
<1>3. \A j \in Jobs : Tidy(disk'[j])
  BY DEF Tidied, Section
<1>4. QED
  BY <1>2, <1>3 DEF Tidied, Tidy

\* A job that is on or off, and due, as it was.
LEMMA TidyAsBefore ==
  ASSUME NEW a, NEW b, Tidy(a), Has(b) => Has(a) /\ b.on = a.on /\ b.next = a.next
  PROVE  Tidy(b)
BY DEF Tidy

LEMMA MarkedTidy ==
  ASSUME TypeOK, NEW S, Good(S), NEW J \in SUBSET Jobs, \A j \in J : Has(S[j]),
         \A j \in Jobs : Tidy(S[j])
  PROVE  \A j \in Jobs : Tidy(Marked(S, J)[j])
BY MarkedIs, TidyAsBefore

LEMMA TidyInit == Init => Tidied
<1> SUFFICES ASSUME Init PROVE Tidied
  OBVIOUS
<1>1. PICK there, due, marked \in SUBSET Jobs : disk = FileOf(there, due, marked)
  BY DEF Init
<1>2. ASSUME NEW j \in Jobs PROVE Tidy(disk[j])
  <2>1. CASE j \notin there
    BY <1>1, <2>1, GoneIs DEF FileOf, Tidy
  <2>2. CASE j \in there
    <3>1. disk[j] = [Fresh(j) EXCEPT !.next = IF j \in due THEN 0 ELSE @,
                                     !.mark = IF j \in marked THEN 0 ELSE @]
      BY <1>1, <2>2 DEF FileOf
    <3>2. disk[j].on
      BY <3>1 DEF Fresh
    <3>3. QED
      BY <3>2 DEF Tidy
  <2>3. QED
    BY <2>1, <2>2
<1>3. \A s \in Services, j \in Jobs : Tidy(mem[s][j])
  BY GoneIs DEF Init, Tidy
<1>4. QED
  BY <1>2, <1>3 DEF Tidied, Tidy

LEMMA TidyStep == TypeOK /\ Timed /\ Tidied /\ [Next]_vars => Tidied'
<1> SUFFICES ASSUME TypeOK, Timed, Tidied, [Next]_vars PROVE Tidied'
  OBVIOUS
<1>a. Good(disk) /\ \A s \in Services : Good(mem[s])
  BY StoresAreGood
<1>b. (\A j \in Jobs : Tidy(disk[j])) /\ \A s \in Services, j \in Jobs : Tidy(mem[s][j])
  BY DEF Tidied
<1>c. ASSUME UNCHANGED stores PROVE Tidied'
  BY <1>c DEF Tidied, Tidy, stores
<1>1. CASE ClockTick \/ Launch \/ Reload \/ UNCHANGED vars
  <2>1. UNCHANGED stores
    BY <1>1 DEF ClockTick, Launch, Reload, vars, stores
  <2>2. QED
    BY <1>c, <2>1
<1>2. CASE Crash
  <2>1. disk' = disk /\ \A s \in Services, j \in Jobs : mem'[s][j] = Gone
    BY <1>2 DEF Crash
  <2>2. QED
    BY <1>b, <2>1, GoneIs DEF Tidied, Tidy
<1>3. ASSUME NEW s \in Services, StartStep(s) PROVE Tidied'
  <2>1. CASE StartClears(s)
    <3>1. \A j \in Jobs : Tidy(mem'[s][j])
      BY <1>b, <2>1, ClearsIs, TidyAsBefore
    <3>2. QED
      BY <2>1, <3>1, ClearsIs, TidySection
  <2>2. CASE StartPlans(s)
    <3>1. CASE UNCHANGED stores
      BY <1>c, <3>1
    <3>2. ASSUME NEW first \in SUBSET Jobs, \A j \in first : Has(mem[s][j]),
                 mem'[s] = Marked(mem[s], first)
          PROVE  Tidied'
      <4>1. \A j \in Jobs : Tidy(Marked(mem[s], first)[j])
        BY <1>a, <1>b, <3>2, MarkedTidy
      <4>2. QED
        BY <2>2, <3>2, <4>1, PlansIs, TidySection
    <3>3. QED
      BY <2>2, <3>1, <3>2, PlansIs
  <2>3. CASE StartApplies(s) \/ StartFinishes(s)
    BY <2>3, StartAppliesIs, FinishesIs, TidySection
  <2>4. QED
    BY <1>3, <2>1, <2>2, <2>3 DEF StartStep
<1>4. ASSUME NEW s \in Services, TimerStep(s) PROVE Tidied'
  <2>1. CASE TimerFires(s) \/ TickEnds(s)
    BY <1>c, <2>1 DEF TimerFires, TickEnds
  <2>2. CASE TickFindsNothing(s) \/ TickApplies(s)
    BY <2>2, FindsNothingIs, TickAppliesIs, TidySection
  <2>3. CASE TickClaims(s)
    <3>1. /\ Section(s) /\ mem'[s] = Marked(disk, DueOnDisk) /\ DueOnDisk \in SUBSET Jobs
          /\ \A j \in DueOnDisk : Has(disk[j])
      BY <2>3, ClaimsIs
    <3>2. \A j \in Jobs : Tidy(Marked(disk, DueOnDisk)[j])
      BY <1>a, <1>b, <3>1, MarkedTidy
    <3>3. QED
      BY <3>1, <3>2, TidySection
  <2>4. QED
    BY <1>4, <2>1, <2>2, <2>3 DEF TimerStep
<1>5. ASSUME NEW s \in Services, List(s) PROVE Tidied'
  BY <1>5, ListIs, TidySection
<1>6. ASSUME NEW s \in Services, NEW j \in Jobs, Add(s, j) \/ ManualRun(s, j) PROVE Tidied'
  BY <1>6, AddIs, ManualRunIs, TidySection
<1>7. ASSUME NEW s \in Services, NEW j \in Jobs, Remove(s, j) PROVE Tidied'
  <2>1. \A i \in Jobs : Tidy(mem'[s][i])
    BY <1>b, <1>7, RemoveIs DEF Tidy
  <2>2. QED
    BY <1>7, <2>1, RemoveIs, TidySection
<1>8. ASSUME NEW s \in Services, NEW j \in Jobs, NEW on \in BOOLEAN, Update(s, j, on) PROVE Tidied'
  <2>1. \A i \in Jobs : Tidy(mem'[s][i])
    BY <1>b, <1>8, UpdateIs
  <2>2. QED
    BY <1>8, <2>1, UpdateIs, TidySection
<1>9. ASSUME NEW s \in Services, NEW k \in Batches, NEW j \in Jobs,
             JobStarts(s, k, j) \/ JobEnds(s, k, j)
      PROVE  Tidied'
  <2>1. CASE JobStarts(s, k, j)
    <3>1. \A i \in Jobs : Tidy(mem'[s][i])
      BY <1>b, <2>1, JobStartsIs, TidyAsBefore
    <3>2. QED
      BY <2>1, <3>1, JobStartsIs, TidySection
  <2>2. CASE JobEnds(s, k, j)
    BY <1>c, <2>2 DEF JobEnds
  <2>3. QED
    BY <1>9, <2>1, <2>2
<1>10. ASSUME NEW w \in Slots, ManualStep(w) \/ ManualEnds(w) PROVE Tidied'
  <2>1. CASE ManualReserves(w)
    <3>1. CASE UNCHANGED stores
      BY <1>c, <3>1
    <3>2. CASE /\ Section(1) /\ disk' = mem'[1] /\ Unmarked(mem[1][manual[w].job])
               /\ disk' = Marked(mem[1], {manual[w].job})
      <4>1. Good(mem[1]) /\ {manual[w].job} \in SUBSET Jobs
            /\ \A i \in {manual[w].job} : Has(mem[1][i])
        BY <1>a, <2>1, <3>2, ReservesIs, FirstIsService DEF Unmarked
      <4>2. \A j \in Jobs : Tidy(Marked(mem[1], {manual[w].job})[j])
        BY <1>b, <4>1, MarkedTidy, FirstIsService
      <4>3. QED
        BY <3>2, <4>2, TidySection, FirstIsService
    <3>3. QED
      BY <2>1, <3>1, <3>2, ReservesIs DEF stores
  <2>2. CASE ManualFinishes(w)
    BY <1>c, <2>2, ManualFinishesIs, TidySection, FirstIsService
  <2>3. CASE ManualEnds(w)
    BY <1>c, <2>3 DEF ManualEnds
  <2>4. QED
    BY <1>10, <2>1, <2>2, <2>3 DEF ManualStep
<1>11. QED
  BY <1>1, <1>2, <1>3, <1>4, <1>5, <1>6, <1>7, <1>8, <1>9, <1>10 DEF Next

\* With one service that has loaded its jobs, what is marked is under way.
Own == MarksIn(mem[1]) \subseteq UnderWay /\ MarksIn(disk) \subseteq UnderWay

LEMMA OwnMarksInit == Init => OwnMarks
BY FirstIsService DEF Init, OwnMarks, OneService

\* A step of the one service.
LEMMA OwnOfOne ==
  ASSUME OneService', MarksIn(mem[1])' \subseteq UnderWay', MarksIn(disk)' \subseteq UnderWay'
  PROVE  OwnMarks'
BY DEF OwnMarks

\* What was under way is, and marks go.
LEMMA OwnFewer ==
  ASSUME OneService', Own, UnderWay \subseteq UnderWay',
         MarksIn(mem[1])' \subseteq MarksIn(mem[1]) \cup MarksIn(disk),
         MarksIn(disk)' \subseteq MarksIn(mem[1]) \cup MarksIn(disk)
  PROVE  OwnMarks'
BY OwnOfOne DEF Own

\* Marks of jobs that begin.
LEMMA MarksAre ==
  ASSUME TypeOK, NEW S, Good(S), NEW J \in SUBSET Jobs, \A j \in J : Has(S[j])
  PROVE  MarksIn(Marked(S, J)) \subseteq MarksIn(S) \cup J
BY MarkedIs DEF MarksIn

LEMMA OwnStarts ==
  ASSUME TypeOK, TypeOK', Timed, Lives, Lives', OneService, OneService', Loaded(1) => Own,
         StartStep(1)
  PROVE  OwnMarks'
<1> USE FirstIsService
<1>a. /\ UnderWay = Starting \cup Ticking \cup InManual
      /\ UnderWay' = Starting' \cup Ticking' \cup InManual'
  BY UnderWayIs, UnderWayIsNext
<1>1. CASE StartClears(1)
  <2>1. disk' = mem'[1] /\ \A j \in Jobs : Has(disk'[j]) => disk'[j].mark = None
    BY <1>1, ClearsIs
  <2>2. QED
    BY <2>1, OwnOfOne DEF MarksIn
<1>b. ASSUME StartPlans(1) \/ StartApplies(1) \/ StartFinishes(1)
      PROVE  Own /\ manual' = manual /\ Reserved' = Reserved /\ InManual' = InManual
  BY <1>b, SameManuals DEF StartPlans, StartApplies, StartFinishes, Loaded
<1>2. CASE StartPlans(1)
  <2>1. CASE UNCHANGED <<stores, batch>>
    <3>1. UnderWay' = UnderWay
      BY <1>2, <1>a, <1>b, <2>1 DEF Starting, Ticking
    <3>2. QED
      BY <1>2, <1>b, <2>1, <3>1, OwnFewer DEF stores, MarksIn
  <2>2. ASSUME NEW first \in SUBSET Jobs, NEW later \in SUBSET Jobs,
               \A j \in first : Has(mem[1][j]),
               batch' = [batch EXCEPT ![1]["start"] = BatchOf(first, later)],
               mem'[1] = Marked(mem[1], first), disk' = mem'[1]
        PROVE  OwnMarks'
    <3>1. /\ batch'[1]["start"] = BatchOf(first, later) /\ batch'[1]["tick"] = batch[1]["tick"]
          /\ batch[1]["start"] = NoBatch
      BY <1>2, <2>2 DEF TypeOK, Batches, StartPlans, Lives
    <3>2. Starting' = first /\ Ticking' = Ticking /\ Starting = {}
      BY <3>1, NoJobs DEF Starting, Ticking, JobsOf, BatchOf
    <3>3. MarksIn(Marked(mem[1], first)) \subseteq MarksIn(mem[1]) \cup first
      BY <2>2, MarksAre, StoresAreGood
    <3>4. QED
      BY <1>2, <1>a, <1>b, <2>2, <3>2, <3>3, OwnOfOne DEF Own, MarksIn
  <2>3. QED
    BY <1>2, <2>1, <2>2, PlansIs
<1>3. CASE StartApplies(1)
  <2>1. Starting' = {} /\ Ticking' = Ticking
    <3>1. batch'[1]["start"] = NoBatch /\ batch'[1]["tick"] = batch[1]["tick"]
      BY <1>3, StartAppliesIs DEF TypeOK, Batches
    <3>2. QED
      BY <3>1, NoJobs DEF Starting, Ticking
  <2>2. disk' = mem'[1] /\ MarksIn(disk)' \subseteq MarksIn(mem[1]) \ Starting
    BY <1>3, StartAppliesIs DEF MarksIn, Starting
  <2>3. MarksIn(mem[1]) \subseteq UnderWay
    BY <1>3, <1>b DEF Own
  <2>4. MarksIn(disk)' \subseteq UnderWay' /\ MarksIn(mem[1])' = MarksIn(disk)'
    BY <1>3, <1>a, <1>b, <2>1, <2>2, <2>3 DEF MarksIn
  <2>5. QED
    BY <2>4, OwnOfOne
<1>4. CASE StartFinishes(1)
  <2>1. batch' = batch
    BY <1>4 DEF StartFinishes
  <2>2. UnderWay' = UnderWay
    BY <1>4, <1>a, <1>b, <2>1 DEF Starting, Ticking
  <2>3. MarksIn(mem[1])' \subseteq MarksIn(mem[1]) /\ (disk' = disk \/ disk' = mem'[1])
    BY <1>4, FinishesIs DEF MarksIn, AsBefore
  <2>4. QED
    BY <1>4, <1>b, <2>2, <2>3, OwnFewer DEF MarksIn
<1>5. QED
  BY <1>1, <1>2, <1>3, <1>4 DEF StartStep

LEMMA OwnTimes ==
  ASSUME TypeOK, TypeOK', Timed, Lives, Lives', OneService, OneService', Own, TimerStep(1)
  PROVE  OwnMarks'
<1> USE FirstIsService
<1>a. /\ UnderWay = Starting \cup Ticking \cup InManual
      /\ UnderWay' = Starting' \cup Ticking' \cup InManual'
  BY UnderWayIs, UnderWayIsNext
<1>b. manual' = manual /\ InManual' = InManual
  BY SameManuals
     DEF TimerStep, TimerFires, TickFindsNothing, TickClaims, TickApplies, TickEnds
<1>1. CASE TimerFires(1) \/ TickEnds(1) \/ TickFindsNothing(1)
  <2>1. batch' = batch
    BY <1>1 DEF TimerFires, TickEnds, TickFindsNothing
  <2>2. UnderWay' = UnderWay
    BY <1>a, <1>b, <2>1 DEF Starting, Ticking
  <2>3. CASE TickFindsNothing(1)
    <3>1. MarksIn(disk)' \subseteq MarksIn(disk) /\ mem'[1] = disk'
      BY <2>3, FindsNothingIs DEF MarksIn, AsBefore
    <3>2. QED
      BY <2>2, <3>1, OwnFewer DEF MarksIn
  <2>4. CASE TimerFires(1) \/ TickEnds(1)
    <3>1. UNCHANGED stores
      BY <2>4 DEF TimerFires, TickEnds
    <3>2. QED
      BY <2>2, <3>1, OwnFewer DEF MarksIn, stores
  <2>5. QED
    BY <1>1, <2>3, <2>4
<1>2. CASE TickClaims(1)
  <2>1. /\ disk' = mem'[1] /\ disk' = Marked(disk, DueOnDisk) /\ DueOnDisk \in SUBSET Jobs
        /\ \A j \in DueOnDisk : Has(disk[j])
    BY <1>2, ClaimsIs
  <2>2. /\ batch'[1]["tick"] = BatchOf(DueOnDisk, {}) /\ batch'[1]["start"] = batch[1]["start"]
        /\ batch[1]["tick"] = NoBatch
    BY <1>2 DEF TickClaims, TypeOK, Batches, Lives
  <2>3. Ticking' = DueOnDisk /\ Starting' = Starting /\ Ticking = {}
    BY <2>2, NoJobs DEF Starting, Ticking, JobsOf, BatchOf
  <2>4. MarksIn(Marked(disk, DueOnDisk)) \subseteq MarksIn(disk) \cup DueOnDisk
    BY <2>1, MarksAre, StoresAreGood
  <2>5. MarksIn(disk)' \subseteq UnderWay' /\ MarksIn(mem[1])' = MarksIn(disk)'
    BY <1>a, <1>b, <2>1, <2>3, <2>4 DEF Own, MarksIn
  <2>6. QED
    BY <2>5, OwnOfOne
<1>3. CASE TickApplies(1)
  <2>1. Ticking' = {} /\ Starting' = Starting
    <3>1. batch'[1]["tick"] = NoBatch /\ batch'[1]["start"] = batch[1]["start"]
      BY <1>3 DEF TickApplies, TypeOK, Batches
    <3>2. QED
      BY <3>1, NoJobs DEF Starting, Ticking
  <2>2. disk' = mem'[1] /\ MarksIn(disk)' \subseteq MarksIn(disk) \ Ticking
    BY <1>3, TickAppliesIs DEF MarksIn, Ticking
  <2>3. MarksIn(disk)' \subseteq UnderWay' /\ MarksIn(mem[1])' = MarksIn(disk)'
    BY <1>a, <1>b, <2>1, <2>2 DEF Own, MarksIn
  <2>4. QED
    BY <2>3, OwnOfOne
<1>4. QED
  BY <1>1, <1>2, <1>3 DEF TimerStep

LEMMA OwnUsed ==
  ASSUME TypeOK, TypeOK', Timed, Lives, Lives', OneService, OneService', Own,
         \/ List(1)
         \/ \E j \in Jobs : \/ Add(1, j) \/ Remove(1, j) \/ ManualRun(1, j)
                            \/ \E on \in BOOLEAN : Update(1, j, on)
  PROVE  OwnMarks'
<1> USE FirstIsService
<1>1. batch' = batch /\ InManual' = InManual
  BY ManualRunReserves, SameManuals DEF List, Add, Remove, Update, ManualRun
<1>2. UnderWay' = UnderWay
  BY <1>1, UnderWayIs, UnderWayIsNext DEF Starting, Ticking
<1>3. MarksIn(mem[1])' \subseteq MarksIn(mem[1]) /\ (disk' = disk \/ disk' = mem'[1])
  <2>1. CASE List(1)
    BY <2>1, ListIs DEF MarksIn, AsBefore
  <2>2. ASSUME NEW j \in Jobs, ManualRun(1, j)
        PROVE  MarksIn(mem[1])' \subseteq MarksIn(mem[1]) /\ disk' = disk
    BY <2>2, ManualRunIs DEF MarksIn, AsBefore
  <2>3. ASSUME NEW j \in Jobs, Add(1, j)
        PROVE  MarksIn(mem[1])' \subseteq MarksIn(mem[1]) /\ disk' = mem'[1]
    BY <2>3, AddIs DEF MarksIn, AsBefore
  <2>4. ASSUME NEW j \in Jobs, Remove(1, j)
        PROVE  MarksIn(mem[1])' \subseteq MarksIn(mem[1]) /\ disk' = mem'[1]
    BY <2>4, RemoveIs DEF MarksIn
  <2>5. ASSUME NEW j \in Jobs, NEW on \in BOOLEAN, Update(1, j, on)
        PROVE  MarksIn(mem[1])' \subseteq MarksIn(mem[1]) /\ disk' = mem'[1]
    <3>1. Has(mem[1][j])
      BY <2>5 DEF Update
    <3>2. QED
      BY <2>5, <3>1, UpdateIs DEF MarksIn
  <2>6. QED
    BY <2>1, <2>2, <2>3, <2>4, <2>5
<1>4. QED
  BY <1>2, <1>3, OwnFewer DEF MarksIn

LEMMA OwnManual ==
  ASSUME TypeOK, TypeOK', Timed, Lives, Lives', InStep, OneService, OneService', Own,
         NEW w \in Slots, ManualStep(w) \/ ManualEnds(w)
  PROVE  OwnMarks'
<1> USE FirstIsService
<1>a. batch' = batch
  BY DEF ManualStep, ManualReserves, ManualFinishes, ManualEnds
<1>b. /\ UnderWay = Starting \cup Ticking \cup InManual
      /\ UnderWay' = Starting \cup Ticking \cup InManual'
  BY <1>a, UnderWayIs, UnderWayIsNext DEF Starting, Ticking
<1>1. CASE ManualReserves(w)
  <2>1. CASE UNCHANGED stores /\ manual' = [manual EXCEPT ![w] = NoManual]
    <3>1. w \notin Reserved
      BY <1>1 DEF ManualReserves, Reserved
    <3>2. InManual' = InManual
      BY <2>1, <3>1, SlotEmpties DEF InManual
    <3>3. QED
      BY <1>b, <2>1, <3>2, OwnFewer DEF MarksIn, stores
  <2>2. CASE /\ disk' = mem'[1] /\ Unmarked(mem[1][manual[w].job])
             /\ disk' = Marked(mem[1], {manual[w].job})
             /\ manual' = [manual EXCEPT ![w].at = "going"]
    <3>1. InManual' = InManual \cup {manual[w].job}
      BY <1>1, <2>2, SlotReserves DEF ManualReserves
    <3>2. Good(mem[1]) /\ {manual[w].job} \in SUBSET Jobs /\ \A i \in {manual[w].job} : Has(mem[1][i])
      BY <1>1, <2>2, ReservesIs, StoresAreGood DEF Unmarked
    <3>3. MarksIn(Marked(mem[1], {manual[w].job})) \subseteq MarksIn(mem[1]) \cup {manual[w].job}
      BY <3>2, MarksAre
    <3>4. MarksIn(disk)' \subseteq UnderWay' /\ MarksIn(mem[1])' = MarksIn(disk)'
      BY <1>b, <2>2, <3>1, <3>3 DEF Own, MarksIn
    <3>5. QED
      BY <3>4, OwnOfOne
  <2>3. QED
    BY <1>1, <2>1, <2>2, ReservesIs DEF stores
<1>2. CASE ManualFinishes(w)
  <2>1. InManual \subseteq InManual' \cup {manual[w].job}
    BY <1>2, ManualFinishesIs, SlotEmpties DEF InManual
  <2>2. manual[w].job \in Jobs
    BY <1>2, ManualFinishesIs
  <2>3. CASE ~Has(mem[1][manual[w].job]) /\ UNCHANGED stores
    <3>1. Loaded(1)
      BY <1>2, ActsLoaded DEF ManualFinishes, NoManual
    <3>2. ~Has(disk[manual[w].job])
      BY <2>2, <2>3, <3>1 DEF InStep, SameJob
    <3>3. MarksIn(mem[1]) \subseteq UnderWay' /\ MarksIn(disk) \subseteq UnderWay'
      BY <1>b, <2>1, <2>3, <3>2 DEF Own, MarksIn
    <3>4. QED
      BY <2>3, <3>3, OwnOfOne DEF MarksIn, stores
  <2>4. CASE /\ disk' = mem'[1]
             /\ ~(Has(disk'[manual[w].job]) /\ disk'[manual[w].job].mark # None)
             /\ \A i \in Jobs :
                  /\ Has(disk'[i]) => Has(disk[i])
                  /\ i # manual[w].job /\ Has(disk[i]) => disk'[i].mark \in {disk[i].mark, None}
    <3>1. MarksIn(disk)' \subseteq MarksIn(disk) \ {manual[w].job} /\ MarksIn(mem[1])' = MarksIn(disk)'
      BY <2>4 DEF MarksIn
    <3>2. QED
      BY <1>b, <2>1, <3>1, OwnOfOne DEF Own
  <2>5. QED
    BY <1>2, <2>3, <2>4, ManualFinishesIs DEF stores
<1>3. CASE ManualEnds(w)
  <2>1. UNCHANGED stores /\ InManual' = InManual
    BY <1>3, EndsReserved DEF ManualEnds
  <2>2. QED
    BY <1>b, <2>1, OwnFewer DEF MarksIn, stores
<1>4. QED
  BY <1>1, <1>2, <1>3 DEF ManualStep

LEMMA OwnJobs ==
  ASSUME TypeOK, TypeOK', Timed, Lives, Lives', OneService, OneService', Own,
         NEW k \in Batches, NEW j \in Jobs, JobStarts(1, k, j) \/ JobEnds(1, k, j)
  PROVE  OwnMarks'
<1> USE FirstIsService
<1>0. manual' = manual
  BY DEF JobStarts, JobEnds
<1>1. BatchOnly(1, k) /\ JobsOf(batch'[1][k]) = JobsOf(batch[1][k])
  BY JobStartsBatch, JobEndsBatch
<1>2. Starting' = Starting /\ Ticking' = Ticking
  BY <1>1 DEF Starting, Ticking, BatchOnly, Batches
<1>3. UnderWay' = UnderWay
  BY <1>0, <1>2, SameManuals, UnderWayIs, UnderWayIsNext
<1>4. CASE JobStarts(1, k, j)
  <2>1. j \in UnderWay
    <3>1. j \in JobsOf(batch[1][k])
      BY <1>4 DEF JobStarts, JobsOf
    <3>2. QED
      BY <3>1 DEF UnderWay
  <2>2. disk' = disk /\ MarksIn(mem[1])' \subseteq MarksIn(mem[1]) \cup {j}
    BY <1>4, JobStartsIs DEF MarksIn
  <2>3. QED
    BY <1>3, <2>1, <2>2, OwnOfOne DEF Own, MarksIn
<1>5. CASE JobEnds(1, k, j)
  <2>1. disk' = disk /\ mem' = mem
    BY <1>5, JobEndsBatch DEF stores
  <2>2. QED
    BY <1>3, <2>1, OwnFewer DEF MarksIn
<1>6. QED
  BY <1>4, <1>5

\* After a reload: a step that leaves the first service as it is, or that
\* leaves it with a timer or at work.
LEMMA OwnElsewhere ==
  ASSUME OwnMarks, ~OneService, ~OneService', InManual \subseteq InManual',
         phase'[1] = phase[1], timer'[1] = timer[1], tick'[1] = tick[1], mem'[1] = mem[1]
  PROVE  OwnMarks'
BY DEF OwnMarks, Unwatched, Running, Plans, Front

LEMMA OwnWatched ==
  ASSUME ~OneService', ~Unwatched(1)'
  PROVE  OwnMarks'
BY DEF OwnMarks, Front

\* What the steps of one service leave of the others.
Apart(s) ==
  /\ UNCHANGED <<manual, current>>
  /\ \A r \in Services \ {s} : /\ phase'[r] = phase[r] /\ timer'[r] = timer[r]
                               /\ tick'[r] = tick[r] /\ mem'[r] = mem[r]

LEMMA StartsApart ==
  ASSUME TypeOK, Timed, NEW s \in Services, StartStep(s)
  PROVE  Apart(s)
<1>1. \A r \in Services \ {s} : mem'[r] = mem[r]
  BY ClearsIs, PlansIs, StartAppliesIs, FinishesIs DEF StartStep, Section, TypeOK
<1>2. CASE StartClears(s)
  BY <1>1, <1>2 DEF StartClears, Apart, TypeOK
<1>3. CASE StartPlans(s)
  <2>1. UNCHANGED <<manual, current, tick, timer>>
    BY <1>3 DEF StartPlans
  <2>2. \A r \in Services \ {s} : phase'[r] = phase[r]
    <3>1. phase' = [phase EXCEPT ![s] = "final"] \/ phase' = [phase EXCEPT ![s] = "catchup"]
      BY <1>3, PlansIs
    <3>2. QED
      BY <3>1 DEF TypeOK
  <2>3. QED
    BY <1>1, <2>1, <2>2 DEF Apart
<1>4. CASE StartApplies(s)
  BY <1>1, <1>4 DEF StartApplies, Apart, TypeOK
<1>5. CASE StartFinishes(s)
  BY <1>1, <1>5 DEF StartFinishes, ArmTimer, Apart, TypeOK
<1>6. QED
  BY <1>2, <1>3, <1>4, <1>5 DEF StartStep

LEMMA TimesApart ==
  ASSUME TypeOK, Timed, NEW s \in Services, TimerStep(s)
  PROVE  Apart(s)
<1>1. CASE TimerFires(s)
  BY <1>1 DEF TimerFires, Apart, TypeOK, stores
<1>2. CASE TickEnds(s)
  BY <1>2 DEF TickEnds, ArmTimer, Apart, TypeOK, stores
<1>3. CASE TickFindsNothing(s) \/ TickClaims(s) \/ TickApplies(s)
  <2>1. UNCHANGED <<manual, current, phase, timer>>
    BY <1>3 DEF TickFindsNothing, TickClaims, TickApplies
  <2>2. \A r \in Services \ {s} : mem'[r] = mem[r]
    BY <1>3, FindsNothingIs, ClaimsIs, TickAppliesIs DEF Section, TypeOK
  <2>3. \A r \in Services \ {s} : tick'[r] = tick[r]
    BY <1>3 DEF TickFindsNothing, TickClaims, TickApplies, TypeOK
  <2>4. QED
    BY <2>1, <2>2, <2>3 DEF Apart
<1>4. QED
  BY <1>1, <1>2, <1>3 DEF TimerStep

LEMMA OwnLater ==
  ASSUME TypeOK, TypeOK', Timed, Lives, OwnMarks, ~OneService, ~OneService', current' = current,
         NEW s \in Services,
         \/ StartStep(s) \/ TimerStep(s) \/ List(s)
         \/ \E j \in Jobs :
              \/ \E k \in Batches : JobStarts(s, k, j) \/ JobEnds(s, k, j)
              \/ Add(s, j) \/ Remove(s, j) \/ ManualRun(s, j)
              \/ \E on \in BOOLEAN : Update(s, j, on)
  PROVE  OwnMarks'
<1> USE FirstIsService
<1>1. CASE StartStep(s)
  <2>1. CASE s # 1
    BY <1>1, <2>1, StartsApart, SameManuals, OwnElsewhere DEF Apart
  <2>2. CASE StartFinishes(1)
    <3>1. timer'[1] <=> Plans(1)'
      BY <2>2 DEF StartFinishes, ArmTimer, TypeOK, Plans
    <3>2. QED
      BY <3>1, OwnWatched DEF Unwatched
  <2>3. CASE StartClears(1) \/ StartPlans(1) \/ StartApplies(1)
    <3>1. CASE StartClears(1)
      BY <3>1, OwnWatched DEF StartClears, TypeOK, Unwatched
    <3>2. CASE StartPlans(1)
      <4>1. phase'[1] # "up"
        BY <3>2, PlansIs DEF TypeOK
      <4>2. QED
        BY <4>1, OwnWatched DEF Unwatched
    <3>3. CASE StartApplies(1)
      BY <3>3, OwnWatched DEF StartApplies, TypeOK, Unwatched
    <3>4. QED
      BY <2>3, <3>1, <3>2, <3>3
  <2>4. QED
    BY <1>1, <2>1, <2>2, <2>3 DEF StartStep
<1>2. CASE TimerStep(s)
  <2>1. CASE s # 1
    BY <1>2, <2>1, TimesApart, SameManuals, OwnElsewhere DEF Apart
  <2>2. CASE TickEnds(1)
    <3>1. timer'[1] <=> Plans(1)'
      BY <2>2 DEF TickEnds, ArmTimer, TypeOK, Plans
    <3>2. QED
      BY <3>1, OwnWatched DEF Unwatched
  <2>3. CASE TimerFires(1) \/ TickFindsNothing(1) \/ TickClaims(1) \/ TickApplies(1)
    <3>1. \E p \in {"fired", "claimed", "swept"} : tick' = [tick EXCEPT ![1] = p]
      BY <2>3 DEF TimerFires, TickFindsNothing, TickClaims, TickApplies
    <3>2. tick'[1] # "idle"
      BY <3>1 DEF TypeOK
    <3>3. QED
      BY <3>2, OwnWatched DEF Unwatched, Running
  <2>4. QED
    BY <1>2, <2>1, <2>2, <2>3 DEF TimerStep
<1>3. ASSUME NEW j \in Jobs, List(s) \/ ManualRun(s, j) PROVE OwnMarks'
  <2>1. s = 1 /\ UNCHANGED <<phase, timer, tick>> /\ InManual' = InManual
    BY <1>3, SameManuals, ManualRunReserves DEF List, ManualRun, Operates, Front
  <2>2. /\ Section(1) /\ MarksIn(mem[1])' \subseteq MarksIn(mem[1])
        /\ \A i \in Jobs : AsBefore(mem[1][i], mem'[1][i])
    BY <1>3, <2>1, ListIs, ManualRunIs DEF MarksIn, AsBefore
  <2>3. Plans(1)' <=> Plans(1)
    BY <2>2, SamePlans DEF Plans
  <2>4. Unwatched(1)' => Unwatched(1)
    BY <2>1, <2>3 DEF Unwatched, Running
  <2>5. QED
    BY <2>1, <2>2, <2>4 DEF OwnMarks, Front
<1>4. ASSUME List(s) PROVE OwnMarks'
  <2>1. PICK j \in Jobs : TRUE
    <3>1. Maintained(mem[s], FALSE) # mem[s] /\ mem[s] \in [Jobs -> JobType]
      BY <1>4 DEF List, TypeOK
    <3>2. ASSUME Jobs = {} PROVE FALSE
      BY <3>1, <3>2 DEF Maintained
    <3>3. QED
      BY <3>2
  <2>2. QED
    BY <1>3, <1>4
<1>5. ASSUME NEW j \in Jobs, Add(s, j) \/ Remove(s, j) \/ \E on \in BOOLEAN : Update(s, j, on)
      PROVE  OwnMarks'
  <2>1. s = 1
    BY <1>5 DEF Add, Remove, Update, Operates, Front
  <2>2. timer' = [timer EXCEPT ![1] = \E i \in Jobs : Scheduled(mem'[1][i])]
    BY <1>5, <2>1 DEF Add, Remove, Update, ArmTimer
  <2>3. timer'[1] <=> Plans(1)'
    BY <2>2 DEF TypeOK, Plans
  <2>4. QED
    BY <2>3, OwnWatched DEF Unwatched
<1>6. ASSUME NEW k \in Batches, NEW j \in Jobs, JobStarts(s, k, j) \/ JobEnds(s, k, j)
      PROVE  OwnMarks'
  <2>1. UNCHANGED <<phase, timer, tick, manual>>
    BY <1>6 DEF JobStarts, JobEnds
  <2>2. CASE s # 1
    <3>1. mem'[1] = mem[1]
      <4>1. CASE JobStarts(s, k, j)
        BY <2>2, <4>1, JobStartsIs DEF Section, TypeOK
      <4>2. CASE JobEnds(s, k, j)
        BY <4>2 DEF JobEnds, stores
      <4>3. QED
        BY <1>6, <4>1, <4>2
    <3>2. QED
      BY <2>1, <3>1, SameManuals, OwnElsewhere
  <2>3. CASE s = 1
    <3>1. batch[1][k] # NoBatch
      BY <1>6, <2>3, NoBatchIs DEF JobStarts, JobEnds
    <3>2. phase[1] = "catchup" \/ tick[1] = "claimed"
      BY <3>1 DEF Lives, Batches
    <3>3. QED
      BY <2>1, <3>2, OwnWatched DEF Unwatched, Running
  <2>4. QED
    BY <2>2, <2>3
<1>7. QED
  BY <1>1, <1>2, <1>3, <1>4, <1>5, <1>6

LEMMA OwnManualLater ==
  ASSUME TypeOK, TypeOK', Timed, OwnMarks, ~OneService, ~OneService', NEW w \in Slots,
         ManualStep(w) \/ ManualEnds(w)
  PROVE  OwnMarks'
<1> USE FirstIsService
<1>1. UNCHANGED <<phase, tick>>
  BY DEF ManualStep, ManualReserves, ManualFinishes, ManualEnds
<1>2. CASE ManualReserves(w)
  <2>1. timer' = timer
    BY <1>2 DEF ManualReserves
  <2>2. CASE UNCHANGED stores /\ manual' = [manual EXCEPT ![w] = NoManual]
    <3>1. w \notin Reserved
      BY <1>2 DEF ManualReserves, Reserved
    <3>2. InManual' = InManual
      BY <2>2, <3>1, SlotEmpties DEF InManual
    <3>3. QED
      BY <1>1, <2>1, <2>2, <3>2, OwnElsewhere DEF stores
  <2>3. CASE /\ disk' = mem'[1] /\ Unmarked(mem[1][manual[w].job])
             /\ disk' = Marked(mem[1], {manual[w].job})
             /\ manual' = [manual EXCEPT ![w].at = "going"]
    <3>1. InManual' = InManual \cup {manual[w].job}
      BY <1>2, <2>3, SlotReserves DEF ManualReserves
    <3>2. Good(mem[1]) /\ {manual[w].job} \in SUBSET Jobs /\ \A i \in {manual[w].job} : Has(mem[1][i])
      BY <1>2, <2>3, ReservesIs, StoresAreGood DEF Unmarked
    <3>3. MarksIn(Marked(mem[1], {manual[w].job})) \subseteq MarksIn(mem[1]) \cup {manual[w].job}
      BY <3>2, MarksAre
    <3>4. Plans(1)' <=> Plans(1)
      BY <2>3, <3>2, MarkedPlans DEF Plans
    <3>5. Unwatched(1)' => Unwatched(1)
      BY <1>1, <2>1, <3>4 DEF Unwatched, Running
    <3>6. MarksIn(mem[1])' \subseteq MarksIn(mem[1]) \cup {manual[w].job}
      BY <2>3, <3>3 DEF MarksIn
    <3>7. QED
      BY <3>1, <3>5, <3>6 DEF OwnMarks, Front
  <2>4. QED
    BY <1>2, <2>2, <2>3, ReservesIs DEF stores
<1>3. CASE ManualFinishes(w)
  <2>1. CASE ~Has(mem[1][manual[w].job]) /\ UNCHANGED <<stores, timer>>
    <3>1. InManual \subseteq InManual' \cup {manual[w].job}
      BY <1>3, ManualFinishesIs, SlotEmpties DEF InManual
    <3>2. Unwatched(1)' => Unwatched(1)
      BY <1>1, <2>1 DEF Unwatched, Running, Plans, stores
    <3>3. MarksIn(mem[1])' = MarksIn(mem[1]) /\ manual[w].job \notin MarksIn(mem[1])
      BY <2>1 DEF MarksIn, stores
    <3>4. QED
      BY <3>1, <3>2, <3>3 DEF OwnMarks, Front
  <2>2. CASE timer' = [timer EXCEPT ![1] = \E j \in Jobs : Scheduled(mem'[1][j])]
    <3>1. timer'[1] <=> Plans(1)'
      BY <2>2 DEF TypeOK, Plans
    <3>2. QED
      BY <3>1, OwnWatched DEF Unwatched
  <2>3. QED
    BY <1>3, <2>1, <2>2, ManualFinishesIs
<1>4. CASE ManualEnds(w)
  <2>1. UNCHANGED <<stores, timer>> /\ InManual' = InManual
    BY <1>4, EndsReserved DEF ManualEnds
  <2>2. QED
    BY <1>1, <2>1, OwnElsewhere DEF stores
<1>5. QED
  BY <1>2, <1>3, <1>4 DEF ManualStep

\* A reload takes the timer of the first service when nothing of it is under
\* way but manual runs.
LEMMA OwnReload ==
  ASSUME TypeOK, TypeOK', Lives, OwnMarks, Reload
  PROVE  OwnMarks'
<1> USE FirstIsService
<1>1. /\ current \in Services /\ current' = current + 1 /\ UNCHANGED <<mem, tick, manual>>
      /\ phase' = [phase EXCEPT ![current + 1] = "new"] /\ timer' = [timer EXCEPT ![current] = FALSE]
  BY DEF Reload, stores, TypeOK
<1>2. ~OneService'
  BY <1>1 DEF OneService, Services
<1>3. phase'[1] = phase[1] /\ InManual' = InManual
  BY <1>1, SameManuals DEF TypeOK, Services
<1>4. CASE OneService
  <2>1. current = 1
    BY <1>1, <1>4 DEF OneService, Services
  <2>2. ASSUME Unwatched(1)' PROVE MarksIn(mem[1]) \subseteq InManual
    <3>1. phase[1] = "up" /\ tick[1] = "idle"
      BY <1>1, <1>3, <2>2 DEF Unwatched, Running
    <3>2. Starting = {} /\ Ticking = {}
      BY <3>1, NoJobs DEF Lives, Starting, Ticking
    <3>3. MarksIn(mem[1]) \subseteq UnderWay
      BY <1>4, <3>1 DEF OwnMarks
    <3>4. QED
      BY <1>4, <3>2, <3>3, UnderWayIs
  <2>3. QED
    BY <1>1, <1>2, <1>3, <2>2 DEF OwnMarks, MarksIn, Front
<1>5. CASE ~OneService
  <2>1. current # 1
    BY <1>5 DEF OneService
  <2>2. timer'[1] = timer[1]
    BY <1>1, <2>1 DEF TypeOK
  <2>3. QED
    BY <1>1, <1>2, <1>3, <1>5, <2>2, OwnElsewhere
<1>6. QED
  BY <1>4, <1>5

LEMMA OwnMarksStep ==
  TypeOK /\ TypeOK' /\ Timed /\ Lives /\ Lives' /\ InStep /\ OwnMarks /\ [Next]_vars => OwnMarks'
<1> SUFFICES ASSUME TypeOK, TypeOK', Timed, Lives, Lives', InStep, OwnMarks, [Next]_vars
             PROVE  OwnMarks'
  OBVIOUS
<1> USE FirstIsService
<1>1. CASE ClockTick \/ UNCHANGED vars
  <2>1. UNCHANGED <<disk, mem, phase, batch, timer, tick, manual, current>>
    BY <1>1 DEF ClockTick, vars, stores
  <2>2. UnderWay' = UnderWay /\ InManual' = InManual
    BY <2>1 DEF UnderWay, InManual, Reserved
  <2>3. MarksIn(mem[1])' = MarksIn(mem[1]) /\ MarksIn(disk)' = MarksIn(disk)
    BY <2>1 DEF MarksIn
  <2>4. Unwatched(1)' <=> Unwatched(1)
    BY <2>1 DEF Unwatched, Running, Plans
  <2>5. QED
    BY <2>1, <2>2, <2>3, <2>4 DEF OwnMarks, OneService, Front
<1>2. CASE Launch \/ Crash
  <2>1. OneService' /\ phase'[1] \in {"off", "new"}
    BY <1>2 DEF Launch, Crash, OneService, TypeOK
  <2>2. QED
    BY <2>1 DEF OwnMarks
<1>3. CASE Reload
  BY <1>3, OwnReload
<1>4. ASSUME NEW s \in Services,
             \/ StartStep(s) \/ TimerStep(s) \/ List(s)
             \/ \E j \in Jobs :
                  \/ \E k \in Batches : JobStarts(s, k, j) \/ JobEnds(s, k, j)
                  \/ Add(s, j) \/ Remove(s, j) \/ ManualRun(s, j)
                  \/ \E on \in BOOLEAN : Update(s, j, on)
      PROVE  OwnMarks'
  <2>1. current' = current
    <3>1. CASE StartStep(s) \/ TimerStep(s)
      BY <3>1, StartsApart, TimesApart DEF Apart
    <3>2. CASE List(s)
      BY <3>2 DEF List
    <3>3. ASSUME NEW j \in Jobs, NEW k \in Batches, JobStarts(s, k, j) \/ JobEnds(s, k, j)
          PROVE  current' = current
      BY <3>3 DEF JobStarts, JobEnds
    <3>4. ASSUME NEW j \in Jobs,
                 \/ Add(s, j) \/ Remove(s, j) \/ ManualRun(s, j)
                 \/ \E on \in BOOLEAN : Update(s, j, on)
          PROVE  current' = current
      BY <3>4 DEF Add, Remove, ManualRun, Update
    <3>5. QED
      BY <1>4, <3>1, <3>2, <3>3, <3>4
  <2>2. CASE ~OneService
    BY <1>4, <2>1, <2>2, OwnLater DEF OneService
  <2>3. CASE OneService
    <3>1. OneService'
      BY <2>1, <2>3 DEF OneService
    <3>2. s <= current
      <4>1. CASE StartClears(s)
        BY <4>1 DEF StartClears, Lives, TypeOK, Services
      <4>2. CASE ~StartClears(s)
        BY <1>4, <4>2, ActsLoaded DEF StartStep
      <4>3. QED
        BY <4>1, <4>2
    <3>3. s = 1
      BY <2>3, <3>2, ActsAlone
    <3>4. Loaded(1) => Own
      BY <2>3 DEF OwnMarks, Loaded, Own
    <3>5. CASE StartStep(s)
      BY <2>3, <3>1, <3>3, <3>4, <3>5, OwnStarts
    <3>6. CASE ~StartStep(s)
      <4>1. Own
        BY <1>4, <3>3, <3>4, <3>6, ActsLoaded
      <4>2. QED
        BY <1>4, <2>3, <3>1, <3>3, <3>6, <4>1, OwnTimes, OwnUsed, OwnJobs
    <3>7. QED
      BY <3>5, <3>6
  <2>4. QED
    BY <2>2, <2>3
<1>5. ASSUME NEW w \in Slots, ManualStep(w) \/ ManualEnds(w) PROVE OwnMarks'
  <2>1. current' = current /\ manual[w].at # "idle"
    BY <1>5 DEF ManualStep, ManualReserves, ManualFinishes, ManualEnds
  <2>2. CASE ~OneService
    BY <1>5, <2>1, <2>2, OwnManualLater DEF OneService
  <2>3. CASE OneService
    <3>1. OneService' /\ Loaded(1)
      BY <2>1, <2>3, ActsLoaded DEF OneService, NoManual
    <3>2. Own
      BY <2>3, <3>1 DEF OwnMarks, Loaded, Own
    <3>3. QED
      BY <1>5, <2>3, <3>1, <3>2, OwnManual
  <2>4. QED
    BY <2>2, <2>3
<1>6. QED
  BY <1>1, <1>2, <1>3, <1>4, <1>5 DEF Next

---------------------------------------------------------------------------
(* The invariant, and the properties it gives.                             *)

LEMMA InvInit == Init => IInv
BY TypeInit, LivesInit, InStepInit, KeptInit, TidyInit, OwnMarksInit DEF IInv, Watched, Init

LEMMA InvStep == IInv /\ [Next]_vars => IInv'
<1> SUFFICES ASSUME IInv, [Next]_vars PROVE IInv'
  OBVIOUS
<1>1. /\ TypeOK /\ Bounded /\ Lives /\ Timed /\ InStep /\ MarkedUnderWay /\ OnePlace /\ Watched
      /\ Tidied /\ OwnMarks
  BY DEF IInv
<1>2. TypeOK' /\ Timed' /\ Bounded'
  BY <1>1, TypeStep
<1>3. Lives' /\ InStep'
  BY <1>1, LivesStep, InStepStep
<1>4. MarkedUnderWay' /\ OnePlace'
  BY <1>1, <1>2, <1>3, KeptStep
<1>5. Watched'
  BY <1>1, <1>2, WatchedStep
<1>6. Tidied' /\ OwnMarks'
  BY <1>1, <1>2, <1>3, TidyStep, OwnMarksStep
<1>7. QED
  BY <1>2, <1>3, <1>4, <1>5, <1>6 DEF IInv

\* The inductive invariant.  For any number of services: how far each one has
\* come, that someone will come to the jobs in the file, and what the first
\* service, when it has no timer, holds marked.  Until a reload starts a second
\* one: that the memory of the service and the file agree, and, while nothing
\* slipped, that the mark of a job under way is kept and the job in one place.
THEOREM Invariance == Spec => []IInv
BY InvInit, InvStep, PTL DEF Spec

\* Until a reload starts a second service, no job runs twice at the same time -
\* by a tick, by the catch-up of a start or in any slot of the cron lane - as
\* long as no mark may have been lost.  A reload at whatever point ends that.
THEOREM OneRunPerJobHolds == Spec => []OneRunPerJob
<1>1. IInv => OneRunPerJob
  BY OneRun DEF IInv
<1>2. QED
  BY <1>1, Invariance, PTL

\* A job in the file that is due and not marked always has a service that
\* comes to it: the scheduler does not fall asleep, whatever reloads, starts
\* and manual runs come between the sections of a tick, and however many
\* services are alive.
THEOREM NeverAsleepHolds == Spec => []NeverAsleep
<1>1. IInv => NeverAsleep
  <2> SUFFICES ASSUME IInv, current # 0, DueOnDisk # {}
               PROVE  \/ \E s \in Services : Awake(s)
                      \/ Reserved # {} /\ ~OneService
    BY DEF NeverAsleep
  <2>1. \E j \in Jobs : Scheduled(disk[j])
    BY DEF DueOnDisk, Runnable, IsDue
  <2>2. StaleManual \/ \E s \in Services : WillCome(s)
    BY <2>1 DEF IInv, Watched
  <2>3. QED
    BY <2>2 DEF StaleManual, WillCome, Awake, Running
<1>2. QED
  BY <1>1, Invariance, PTL

\* Only what a step may do to the time of a job that is due.
NotSkipped ==
  \A j \in Jobs :
    OneService /\ IsDue(disk[j]) /\ Scheduled(disk'[j]) =>
      \/ disk'[j].next = disk[j].next
      \/ disk'[j].last >= disk[j].next \/ j \in UnderWay
      \/ \E s \in Services :
           \/ StartApplies(s) /\ j \in batch[s]["start"].later
           \/ StartFinishes(s) \/ \E i \in Jobs : Add(s, i)
           \/ \E on \in BOOLEAN : Update(s, j, on)

LEMMA NotSkippedStep == IInv /\ [Next]_vars => [NotSkipped]_vars
<1> SUFFICES ASSUME IInv, Next, NEW j \in Jobs, IsDue(disk[j]), Scheduled(disk'[j]),
                    OneService, disk'[j].next # disk[j].next,
                    ~(disk'[j].last >= disk[j].next), j \notin UnderWay,
                    \A s \in Services :
                      /\ ~(StartApplies(s) /\ j \in batch[s]["start"].later)
                      /\ ~StartFinishes(s) /\ \A i \in Jobs : ~Add(s, i)
                      /\ \A on \in BOOLEAN : ~Update(s, j, on)
             PROVE  FALSE
  BY DEF NotSkipped
<1> USE FirstIsService
<1>1. TypeOK /\ Timed /\ Lives /\ InStep
  BY DEF IInv
<1>2. Has(disk[j]) /\ disk[j].on /\ Has(disk'[j]) /\ disk'[j].on
  BY DEF IsDue, Scheduled
<1>3. disk' # disk
  OBVIOUS
<1>4. ~(ClockTick \/ Launch \/ Reload \/ Crash)
  BY <1>3 DEF ClockTick, Launch, Reload, Crash, stores
<1>5. ASSUME Loaded(1)
      PROVE  Has(mem[1][j]) /\ mem[1][j].on /\ mem[1][j].next = disk[j].next
  BY <1>1, <1>2, <1>5 DEF InStep, SameJob
<1>6. \A k \in Batches : j \notin JobsOf(batch[1][k])
  BY DEF UnderWay
<1>7. ASSUME NEW s \in Services, StartStep(s) PROVE FALSE
  <2>1. CASE StartClears(s)
    BY <1>1, <1>2, <2>1, ClearsIs
  <2>2. ASSUME ~StartClears(s) PROVE s = 1 /\ Loaded(1)
    <3>1. Loaded(s) /\ s <= current
      BY <1>1, <1>7, <2>2, ActsLoaded DEF StartStep
    <3>2. QED
      BY <1>1, <3>1, ActsAlone
  <2>3. CASE StartPlans(s)
    <3>1. ~StartClears(s)
      BY <2>3 DEF StartPlans, StartClears
    <3>2. PICK first \in SUBSET Jobs :
            /\ \A i \in first : Has(mem[s][i])
            /\ mem'[s] = Marked(mem[s], first) /\ disk' = mem'[s]
      BY <1>1, <1>3, <2>3, PlansIs DEF stores
    <3>3. Good(mem[s])
      BY <1>1, StoresAreGood
    <3>4. Has(mem[s][j]) => disk'[j].next = mem[s][j].next
      BY <1>1, <3>2, <3>3, MarkedIs
    <3>5. QED
      BY <1>5, <2>2, <3>1, <3>4
  <2>4. CASE StartApplies(s)
    <3>1. ~StartClears(s)
      BY <2>4 DEF StartApplies, StartClears
    <3>2. s = 1 /\ Loaded(1) /\ j \notin JobsOf(batch[s]["start"])
      BY <1>6, <2>2, <3>1 DEF Batches
    <3>3. mem[s][j].on /\ disk'[j].next = mem[s][j].next
      BY <1>1, <1>2, <2>4, <3>2, StartAppliesIs
    <3>4. QED
      BY <1>5, <3>2, <3>3
  <2>5. QED
    BY <1>7, <2>1, <2>3, <2>4 DEF StartStep
<1>8. ASSUME NEW s \in Services, TimerStep(s) PROVE FALSE
  <2>1. s = 1
    BY <1>1, <1>8, ActsLoaded, ActsAlone
  <2>2. CASE TickFindsNothing(s)
    BY <1>1, <1>2, <2>2, FindsNothingIs
  <2>3. CASE TickClaims(s)
    <3>1. disk' = Marked(disk, DueOnDisk) /\ DueOnDisk \in SUBSET Jobs /\ \A i \in DueOnDisk : Has(disk[i])
      BY <1>1, <2>3, ClaimsIs
    <3>2. QED
      BY <1>1, <1>2, <3>1, StoresAreGood, MarkedIs
  <2>4. CASE TickApplies(s)
    BY <1>1, <1>2, <1>6, <2>1, <2>4, TickAppliesIs DEF Batches
  <2>5. CASE TimerFires(s) \/ TickEnds(s)
    BY <1>3, <2>5 DEF TimerFires, TickEnds, stores
  <2>6. QED
    BY <1>8, <2>2, <2>3, <2>4, <2>5 DEF TimerStep
<1>9. ASSUME NEW s \in Services, List(s) PROVE FALSE
  <2>1. s = 1 /\ Loaded(1)
    BY <1>1, <1>9, ActsLoaded, ActsAlone
  <2>2. QED
    BY <1>1, <1>5, <1>9, <2>1, ListIs
<1>10. ASSUME NEW s \in Services, NEW i \in Jobs,
              ManualRun(s, i) \/ Remove(s, i) \/ \E on \in BOOLEAN : Update(s, i, on)
       PROVE  FALSE
  <2>1. s = 1 /\ Loaded(1)
    BY <1>1, <1>10, ActsLoaded, ActsAlone
  <2>2. CASE ManualRun(s, i)
    BY <1>3, <2>2 DEF ManualRun
  <2>3. CASE Remove(s, i)
    BY <1>1, <1>2, <1>5, <2>1, <2>3, RemoveIs
  <2>4. ASSUME NEW on \in BOOLEAN, Update(s, i, on) PROVE FALSE
    <3>1. i # j
      BY <2>4
    <3>2. QED
      BY <1>1, <1>5, <2>1, <2>4, <3>1, UpdateIs
  <2>5. QED
    BY <1>10, <2>2, <2>3, <2>4
<1>11. ASSUME NEW w \in Slots, ManualReserves(w) PROVE FALSE
  <2>1. /\ manual[w].job \in Jobs /\ disk' = Marked(mem[1], {manual[w].job})
        /\ Unmarked(mem[1][manual[w].job])
    BY <1>1, <1>3, <1>11, ReservesIs DEF stores
  <2>2. Loaded(1)
    BY <1>1, <1>11, ActsLoaded DEF ManualReserves, NoManual
  <2>3. Good(mem[1]) /\ {manual[w].job} \in SUBSET Jobs /\ \A i \in {manual[w].job} : Has(mem[1][i])
    BY <1>1, <2>1, StoresAreGood DEF Unmarked
  <2>4. Has(mem[1][j]) => disk'[j].next = mem[1][j].next
    BY <1>1, <2>1, <2>3, MarkedIs
  <2>5. QED
    BY <1>5, <2>2, <2>4
<1>12. ASSUME NEW w \in Slots, ManualFinishes(w) \/ ManualEnds(w) PROVE FALSE
  <2>1. CASE ManualFinishes(w)
    <3>1. w \in Reserved /\ j # manual[w].job
      <4>1. w \in Reserved
        BY <2>1 DEF ManualFinishes, Reserved
      <4>2. QED
        BY <4>1 DEF UnderWay, InManual
    <3>2. QED
      BY <1>1, <1>2, <1>3, <2>1, <3>1, ManualFinishesIs DEF stores
  <2>2. CASE ManualEnds(w)
    BY <1>3, <2>2 DEF ManualEnds, stores
  <2>3. QED
    BY <1>12, <2>1, <2>2
<1>13. ASSUME NEW s \in Services, NEW k \in Batches, NEW i \in Jobs,
              JobStarts(s, k, i) \/ JobEnds(s, k, i)
       PROVE  FALSE
  BY <1>3, <1>13 DEF JobStarts, JobEnds, stores
<1>14. QED
  BY <1>4, <1>7, <1>8, <1>9, <1>10, <1>11, <1>12, <1>13 DEF Next, ManualStep

\* Until a reload, a due run is not passed over: its time in the file moves on only as
\* the job runs, when the user changes it, or when a start defers it or ends.
THEOREM DueNeverSkippedHolds == Spec => DueNeverSkipped
<1>1. Spec => [][NotSkipped]_vars
  BY NotSkippedStep, Invariance, PTL DEF Spec
<1> QED BY <1>1 DEF NotSkipped, DueNeverSkipped
=============================================================================
