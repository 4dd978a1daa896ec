---------------------------- MODULE ServerChannels ----------------------------
(***************************************************************************)
(* One account of a messaging channel in the gateway's channel manager     *)
(* (gateway/server-channels.ts) with the health monitor that restarts it   *)
(* (gateway/channel-health-monitor.ts).                                    *)
(*                                                                         *)
(* A start reserves the account, waits for the configuration check, and    *)
(* hands the account to a run of the provider.  A run that ends is started *)
(* again after a back-off, unless the account is marked as stopped by      *)
(* hand.  A stop marks it, aborts the run it finds, calls the plugin's own *)
(* stop hook if it has one, waits for that run and then clears the store.  *)
(* The monitor stops and starts an account it takes for unhealthy.  Starts *)
(* and stops of all of them interleave at every await.                     *)
(*                                                                         *)
(* A run is a slot that is reused when nothing refers to it.  An account   *)
(* that is disabled or not configured, and a check that throws, are one    *)
(* outcome, and no plugin's startAccount throws before its first await.    *)
(* The monitor's cooldown and its limit per hour are left out.             *)
(***************************************************************************)
EXTENDS Naturals, FiniteSets

CONSTANTS
  MaxRuns,      \* runs alive together, a bound
  MaxAttempts,  \* MAX_RESTART_ATTEMPTS
  MaxRequests   \* bound on starts and stops by an operator or a reload

Runs == 1..MaxRuns
None == 0
Stoppers == {"operator", "monitor"}

ASSUME ServerChannelsAssumption ==
  MaxRuns \in Nat \ {0} /\ MaxAttempts \in Nat /\ MaxRequests \in Nat

VARIABLES
  hook,      \* the plugin has a stopAccount
  task,      \* store.tasks: the run the account was handed to, or None
  abort,     \* store.aborts: the run whose abort controller is stored
  gate,      \* store.starting: the start under way
  manual,    \* manuallyStopped holds the account
  attempts,  \* restartAttempts
  shown,     \* `running` of the account's status
  run,       \* the runs
  stopper,   \* the stops under way
  monitor,   \* what the health monitor does
  requests,
  wanted,    \* the last request asked for the account to run
  slips      \* which of the known slips have happened

store == <<task, abort, gate>>
flags == <<manual, attempts, shown>>
vars == <<hook, store, flags, run, stopper, monitor, requests, wanted, slips>>

Free == [st |-> "free", keep |-> FALSE, aborted |-> FALSE]
NoStop == [at |-> "idle", task |-> None]

Init ==
  /\ hook \in BOOLEAN
  /\ task = None /\ abort = None /\ gate = None
  /\ manual = FALSE
  /\ attempts = 0
  /\ shown = FALSE
  /\ run = [n \in Runs |-> Free]
  /\ stopper = [s \in Stoppers |-> NoStop]
  /\ monitor = "idle"
  /\ requests = 0
  /\ wanted = TRUE
  /\ slips = {}

In(st) == {n \in Runs : run[n].st = st}

\* Mutant: entries are left behind.
Leave(entry, n) == entry

Drop(entry, n) == IF entry = n THEN None ELSE entry
Slip(what, happens) == IF happens THEN {what} ELSE {}

---------------------------------------------------------------------------
(* startChannelInternal.                                                   *)

\* Mutant: the account is not reserved before the first await.
MayStartWithoutGate == task = None

\* A start is let in when the account has no run and no start under way.
MayStart == task = None /\ gate = None

\* Of the start requests only one that is let in does anything.  One that
\* comes while a stop waits for the hook is overtaken by the rest of it.
Reserve(n, keep) ==
  /\ n \in In("free")
  /\ \A m \in In("free") : n <= m
  /\ run' = [run EXCEPT ![n] = [st |-> "starting", keep |-> keep, aborted |-> FALSE]]
  /\ abort' = n
  /\ gate' = n

Overtakes == \E s \in Stoppers : stopper[s].at = "hook"

StartRequest ==
  /\ requests < MaxRequests
  /\ requests' = requests + 1
  /\ wanted' = TRUE
  /\ IF MayStart
     THEN (\E n \in Runs : Reserve(n, FALSE)) /\ slips' = slips \cup Slip("overtaken", Overtakes)
     ELSE /\ slips' = slips \cup Slip("unsettled", manual \/ \E m \in In("starting") : run[m].aborted)
          /\ UNCHANGED <<run, abort, gate>>
  /\ UNCHANGED <<hook, task, flags, stopper, monitor>>

\* The start is given up: its reservation goes.
GiveUp(n) ==
  /\ run' = [run EXCEPT ![n] = Free]
  /\ gate' = Drop(gate, n)
  /\ abort' = Drop(abort, n)

\* The account turns out not to be startable.
Refused(n) ==
  /\ n \in In("starting")
  /\ GiveUp(n)
  /\ shown' \in {FALSE, shown}
  /\ slips' = slips \cup Slip("unsettled", manual)
  /\ UNCHANGED <<hook, task, manual, attempts, stopper, monitor, requests, wanted>>

\* Mutant: no start removes the mark of a stop by hand.
ForgetsNothing(n) == run[n].st = "free"

\* Only an automatic restart keeps the mark of a stop by hand.
ForgetsManualStop(n) == ~run[n].keep

\* Past the check: a stop that came meanwhile makes the start give up.
Abandoned(n) ==
  /\ n \in In("starting")
  /\ manual' = (manual /\ ~ForgetsManualStop(n))
  /\ run[n].aborted \/ manual'
  /\ GiveUp(n)
  /\ shown' = FALSE
  /\ slips' = slips \cup Slip("forgotten", manual /\ ~manual' /\ ~wanted)
  /\ UNCHANGED <<hook, task, attempts, stopper, monitor, requests, wanted>>

HandOver(n) ==
  /\ n \in In("starting")
  /\ manual' = (manual /\ ~ForgetsManualStop(n))
  /\ ~run[n].aborted /\ ~manual'
  /\ attempts' = IF run[n].keep THEN attempts ELSE 0
  /\ run' = [run EXCEPT ![n].st = "live"]
  /\ task' = n
  /\ gate' = Drop(gate, n)
  /\ shown' = TRUE
  /\ UNCHANGED <<hook, abort, stopper, monitor, requests, wanted, slips>>

---------------------------------------------------------------------------
(* The end of a run, and the stops that waited for it.                     *)

\* The rest of stopChannel: the entries go, whosever they are by now.
Waiting(s) == stopper[s].at = "waits"
MonitorAfter(done) == IF "monitor" \in done THEN "start" ELSE monitor

\* The promise of run n settles: its own entries go, and every stop that
\* waited for it ends in the same turn of the event loop.
Settles(n) ==
  LET done == {s \in Stoppers : Waiting(s) /\ stopper[s].task = n} IN
  /\ run' = [run EXCEPT ![n] = Free]
  /\ task' = IF done # {} THEN None ELSE Drop(task, n)
  /\ abort' = IF done # {} THEN None ELSE Drop(abort, n)
  /\ stopper' = [s \in Stoppers |->
                  IF s \in done THEN NoStop ELSE [stopper[s] EXCEPT !.task = Drop(@, n)]]
  /\ shown' = (shown /\ run[n].st # "live" /\ done = {})
  /\ monitor' = MonitorAfter(done)

EndsForGood(n) == manual \/ run[n].aborted \/ attempts + 1 > MaxAttempts

RunEnds(n) ==
  /\ n \in In("live")
  /\ attempts' = IF manual \/ attempts > MaxAttempts THEN attempts ELSE attempts + 1
  /\ IF EndsForGood(n)
     THEN Settles(n)
     ELSE /\ run' = [run EXCEPT ![n].st = "sleeping"]
          /\ shown' = FALSE
          /\ UNCHANGED <<task, abort, stopper, monitor>>
  /\ UNCHANGED <<hook, gate, manual, requests, wanted, slips>>

\* The back-off is over: a new start, if it is let in.
Wake(n) ==
  /\ n \in In("sleeping")
  /\ IF manual
     THEN Settles(n) /\ UNCHANGED gate
     ELSE /\ task' = Drop(task, n)
          /\ IF task' = None /\ gate = None
             THEN \E m \in In("free") \cup {n} :
                    /\ run' = [run EXCEPT ![n] = Free,
                                 ![m] = [st |-> "starting", keep |-> TRUE, aborted |-> FALSE]]
                    /\ \A l \in In("free") \cup {n} : m <= l
                    /\ abort' = m
                    /\ gate' = m
             ELSE run' = [run EXCEPT ![n] = Free] /\ abort' = Drop(abort, n) /\ UNCHANGED gate
          /\ stopper' = [s \in Stoppers |-> [stopper[s] EXCEPT !.task = Drop(@, n)]]
          /\ UNCHANGED <<shown, monitor>>
  /\ UNCHANGED <<hook, manual, attempts, requests, wanted, slips>>

\* A stop that waited for a run that is started again instead waits for that
\* start, since the run's promise does, and for no longer.
StopFinishes(s) ==
  /\ stopper[s] = [at |-> "waits", task |-> None]
  /\ gate = None
  /\ stopper' = [stopper EXCEPT ![s] = NoStop]
  /\ task' = None /\ abort' = None
  /\ shown' = FALSE
  /\ monitor' = MonitorAfter({s})
  /\ UNCHANGED <<hook, gate, manual, attempts, run, requests, wanted, slips>>

---------------------------------------------------------------------------
(* stopChannel.                                                            *)

Nothing == ~hook /\ abort = None /\ task = None

\* The run whose controller is stored is aborted; one that sleeps ends at once.
Woken(n) == n # None /\ n = abort /\ run[n].st = "sleeping"

\* Mutant: only a run that sleeps is told to end.
ToldIfAsleep == [n \in Runs |-> IF Woken(n) THEN Free ELSE run[n]]

Told == [n \in Runs |-> IF Woken(n) THEN Free
                        ELSE [run[n] EXCEPT !.aborted = @ \/ n = abort]]

BeginStop(s) ==
  LET awaited == IF Woken(task) THEN None ELSE task IN
  /\ manual' = TRUE
  /\ run' = Told
  /\ IF hook \/ awaited # None
     THEN /\ stopper' = [stopper EXCEPT ![s] = [at |-> IF hook THEN "hook" ELSE "waits",
                                                task |-> awaited]]
          /\ task' = awaited
          /\ abort' = IF Woken(abort) THEN None ELSE abort
          /\ UNCHANGED shown
     ELSE /\ task' = None /\ abort' = None
          /\ shown' = FALSE
          /\ UNCHANGED stopper

StopRequest ==
  /\ requests < MaxRequests
  /\ requests' = requests + 1
  /\ stopper["operator"] = NoStop
  /\ wanted' = FALSE
  /\ IF Nothing THEN UNCHANGED <<task, abort, manual, shown, run, stopper>>
     ELSE BeginStop("operator")
  /\ slips' = slips \cup Slip("overruled", monitor # "idle") \cup Slip("forgotten", Nothing)
  /\ UNCHANGED <<hook, gate, attempts, monitor>>

HookReturns(s) ==
  /\ stopper[s].at = "hook"
  /\ IF stopper[s].task # None
     THEN /\ stopper' = [stopper EXCEPT ![s].at = "waits"]
          /\ UNCHANGED <<task, abort, shown, monitor>>
     ELSE /\ stopper' = [stopper EXCEPT ![s] = NoStop]
          /\ task' = None /\ abort' = None
          /\ shown' = FALSE
          /\ monitor' = MonitorAfter({s})
  /\ UNCHANGED <<hook, gate, manual, attempts, run, requests, wanted, slips>>

\* The store is left as it is, and the mark stays.
HookThrows(s) ==
  /\ stopper[s].at = "hook"
  /\ stopper' = [stopper EXCEPT ![s] = NoStop]
  /\ monitor' = IF s = "monitor" THEN "idle" ELSE monitor
  /\ slips' = slips \cup Slip("unsettled", TRUE)
  /\ UNCHANGED <<hook, store, flags, run, requests, wanted>>

---------------------------------------------------------------------------
(* runCheck of the health monitor.                                         *)

\* A run that is shown but stale is stopped first.
CheckUnhealthy ==
  /\ monitor = "idle"
  /\ shown /\ ~manual
  /\ BeginStop("monitor")
  /\ monitor' = IF stopper'["monitor"] = NoStop THEN "start" ELSE "stops"
  /\ UNCHANGED <<hook, gate, attempts, requests, wanted, slips>>

\* Mutant: the monitor does not ask whether the account was stopped by hand.
LeavesNothingAlone == FALSE

\* Mutant: nor does it help one whose restarts were given up.
LeavesGivenUpAlone == manual \/ attempts > MaxAttempts

LeavesAlone == manual

CheckNotRunning ==
  /\ monitor = "idle"
  /\ ~shown /\ ~LeavesAlone
  /\ monitor' = "start"
  /\ UNCHANGED <<hook, store, flags, run, stopper, requests, wanted, slips>>

MonitorStarts ==
  /\ monitor = "start"
  /\ monitor' = "idle"
  /\ attempts' = 0
  /\ IF MayStart THEN \E n \in Runs : Reserve(n, FALSE) ELSE UNCHANGED <<run, abort, gate>>
  /\ slips' = slips \cup Slip("overtaken", MayStart /\ Overtakes)
                    \cup Slip("unsettled", ~MayStart /\ manual)
  /\ UNCHANGED <<hook, task, manual, shown, stopper, requests, wanted>>

---------------------------------------------------------------------------
Next ==
  \/ StartRequest \/ StopRequest
  \/ \E n \in Runs : Refused(n) \/ Abandoned(n) \/ HandOver(n) \/ RunEnds(n) \/ Wake(n)
  \/ \E s \in Stoppers : HookReturns(s) \/ HookThrows(s) \/ StopFinishes(s)
  \/ CheckUnhealthy \/ CheckNotRunning \/ MonitorStarts

Spec == Init /\ [][Next]_vars

\* The check of the configuration and the hook return, an aborted run ends, a
\* back-off passes, the monitor goes its rounds, and an account is not found
\* unfit to start for ever.
Fairness ==
  /\ \A n \in Runs :
       /\ SF_vars(HandOver(n)) /\ WF_vars(Abandoned(n)) /\ WF_vars(Wake(n))
       /\ WF_vars(run[n].aborted /\ RunEnds(n))
  /\ \A s \in Stoppers : WF_vars(HookReturns(s) \/ HookThrows(s) \/ StopFinishes(s))
  /\ WF_vars(CheckNotRunning) /\ WF_vars(MonitorStarts)

FairSpec == Spec /\ Fairness

---------------------------------------------------------------------------
(* Properties.                                                             *)

TypeOK ==
  /\ hook \in BOOLEAN
  /\ task \in Runs \cup {None} /\ abort \in Runs \cup {None} /\ gate \in Runs \cup {None}
  /\ manual \in BOOLEAN /\ shown \in BOOLEAN /\ wanted \in BOOLEAN
  /\ attempts \in 0..(MaxAttempts + 1)
  /\ run \in [Runs -> [st : {"free", "starting", "live", "sleeping"}, keep : BOOLEAN,
                       aborted : BOOLEAN]]
  /\ stopper \in [Stoppers -> [at : {"idle", "hook", "waits"}, task : Runs \cup {None}]]
  /\ monitor \in {"idle", "stops", "start"}
  /\ \A n \in {task, abort, gate} \ {None} : run[n].st # "free"
  /\ \A s \in Stoppers : stopper[s].task # None => run[stopper[s].task].st \in {"live", "sleeping"}

\* server-channels.ts:300-301: overlapping starts never boot the provider
\* twice for an account, however stops, crashes and restarts overlap - unless
\* a start overtook a stop that was waiting for the plugin's hook.
OneRunPerAccount ==
  "overtaken" \notin slips => Cardinality(Runs \ In("free")) <= 1

\* Once a stop was asked for, no run goes on that has not been told to end,
\* and no crash, back-off or check of the health monitor brings one back -
\* unless the monitor was in the middle of a restart, or the mark was not set
\* because nothing ran, or was removed by the start the stop interrupted.
StoppedStaysStopped ==
  ~wanted /\ slips \cap {"overtaken", "overruled", "forgotten"} = {} =>
    \A n \in In("live") : run[n].aborted

\* An account that was asked to run is not left marked as stopped by hand,
\* which would keep the restarts and the monitor off it for good - unless a
\* start was ignored while the mark was set, or a restart failed half-way.
MarkedOnlyIfStopped ==
  manual /\ "unsettled" \notin slips =>
    \/ ~wanted
    \/ \E s \in Stoppers : stopper[s] # NoStop
    \/ monitor # "idle"
    \/ \E n \in In("starting") : ~run[n].keep

\* An account that is wanted and not marked as stopped comes back to life,
\* after crashes, refused starts and even after its restarts were given up.
WantedComesBack ==
  wanted /\ ~manual ~> In("live") # {} \/ ~wanted \/ manual

\* A stop ends, unless a start overtook it.
StopEnds ==
  \A s \in Stoppers : stopper[s] # NoStop ~> stopper[s] = NoStop \/ "overtaken" \in slips
=============================================================================
