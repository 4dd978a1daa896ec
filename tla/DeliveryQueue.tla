---------------------------- MODULE DeliveryQueue ----------------------------
(***************************************************************************)
(* The write-ahead queue of outbound deliveries (infra/outbound/deliver.ts,*)
(* delivery-queue-storage.ts, delivery-queue-recovery.ts).                 *)
(*                                                                         *)
(* A delivery is written to <id>.json before it is sent; afterwards the    *)
(* file is acknowledged (renamed to <id>.delivered, then unlinked), updated*)
(* with one more failed attempt, or moved to failed/.  Every start of the  *)
(* gateway, also one in the same process while older deliveries are still  *)
(* in flight, lists the queue and retries what it finds.  A crash keeps    *)
(* the files and nothing else.                                             *)
(*                                                                         *)
(* Time is left out: a backoff may or may not have passed, and the budget  *)
(* of a recovery may run out before any entry but the first.  Files        *)
(* written through a temporary name appear at once.                        *)
(***************************************************************************)
EXTENDS Naturals, FiniteSets

CONSTANTS
  NMessages,   \* deliveries 1..NMessages, in the order of enqueuedAt
  BestEffort,  \* deliveries whose per-payload errors are swallowed
  Watched,     \* deliveries made with an onError callback
  Scanners,    \* recoveries that may be under way at once
  MaxRetries,
  CountBound,  \* bound on the retry counts, at or above MaxRetries
  MaxFaults    \* bound on crashes and refused file operations together

Messages == 1..NMessages
Callers == {"live"} \cup Scanners
Operations == {"ackRename", "ackUnlink", "failRead", "failWrite", "move"}

ASSUME DeliveryQueueAssumption ==
  /\ NMessages \in Nat
  /\ BestEffort \subseteq Messages
  /\ Watched \subseteq Messages
  /\ "live" \notin Scanners
  /\ MaxRetries \in Nat \ {0}
  /\ CountBound \in Nat /\ CountBound >= MaxRetries
  /\ MaxFaults \in Nat

VARIABLES
  pending,     \* ids with a .json file
  retryCount,  \* retryCount in that file (0 when there is none)
  marked,      \* ids with a .delivered file
  failed,      \* ids in failed/
  sender,      \* where deliverOutboundPayloads is for each delivery
  call,        \* the queue file operation each caller is in, by delivery
  readCount,   \* the retryCount that operation has read
  scan,        \* where each recovery is
  unread,      \* listed files a recovery has still to read
  todo,        \* entries it has loaded and not yet visited
  loaded,      \* the retryCount it loaded for each of them
  started,     \* it has visited an entry, so its budget may run out
  attempts,    \* history, while clean: times each delivery was taken up for sending
  sends,       \* times each delivery reached its recipient in full (up to 2)
  aborted,     \* deliveries their caller aborted
  swallowed,   \* deliveries acknowledged though a payload failed
  faults,
  clean        \* no recovery began while a delivery or recovery was in flight

files == <<pending, retryCount, marked, failed>>
calls == <<call, readCount>>
scans == <<scan, unread, todo, loaded, started>>
ghosts == <<sends, aborted, swallowed>>
vars == <<files, sender, calls, scans, ghosts, attempts, faults, clean>>

Init ==
  /\ pending = {} /\ marked = {} /\ failed = {}
  /\ retryCount = [m \in Messages |-> 0]
  /\ sender = [m \in Messages |-> "idle"]
  /\ call = [c \in Callers |-> [m \in Messages |-> "none"]]
  /\ readCount = [c \in Callers |-> [m \in Messages |-> 0]]
  /\ scan = [s \in Scanners |-> "off"]
  /\ unread = [s \in Scanners |-> {}]
  /\ todo = [s \in Scanners |-> {}]
  /\ loaded = [s \in Scanners |-> [m \in Messages |-> 0]]
  /\ started = [s \in Scanners |-> FALSE]
  /\ attempts = [m \in Messages |-> 0]
  /\ sends = [m \in Messages |-> 0]
  /\ aborted = {} /\ swallowed = {}
  /\ faults = 0
  /\ clean = TRUE

Begin(c, m, operation) == call' = [call EXCEPT ![c][m] = operation]

\* One more than AttemptsWithinBudget allows.
AttemptBound == MaxRetries + MaxFaults + 1

TakenUp(m) ==
  attempts' = [attempts EXCEPT ![m] =
                 IF clean /\ @ < AttemptBound THEN @ + 1 ELSE @]
Reached(m) == sends' = [sends EXCEPT ![m] = IF @ = 2 THEN 2 ELSE @ + 1]

---------------------------------------------------------------------------
(* deliverOutboundPayloads: enqueue, send, settle.                         *)

EnqueueDelivery(m) ==
  /\ sender[m] = "idle"
  /\ \A k \in 1..(m - 1) : sender[k] # "idle"
  /\ sender' = [sender EXCEPT ![m] = "sending"]
  /\ pending' = pending \cup {m}
  /\ retryCount' = [retryCount EXCEPT ![m] = 0]
  /\ TakenUp(m)
  /\ UNCHANGED <<marked, failed, calls, scans, ghosts, faults, clean>>

\* The queue file cannot be written: the delivery is sent all the same.
EnqueueFails(m) ==
  /\ sender[m] = "idle"
  /\ \A k \in 1..(m - 1) : sender[k] # "idle"
  /\ faults < MaxFaults
  /\ faults' = faults + 1
  /\ sender' = [sender EXCEPT ![m] = "sendingBare"]
  /\ UNCHANGED <<files, calls, scans, ghosts, attempts, clean>>

Ended(m) == IF sender[m] = "sending" THEN "done" ELSE "doneBare"

Settle(m, operation) ==
  /\ sender' = [sender EXCEPT ![m] = Ended(m)]
  /\ IF sender[m] = "sending" THEN Begin("live", m, operation) ELSE UNCHANGED call

Sending(m) == sender[m] \in {"sending", "sendingBare"}

\* A payload that a hook cancels counts as sent.
LiveSends(m) ==
  /\ Sending(m)
  /\ Reached(m)
  /\ Settle(m, "ackRename")
  /\ UNCHANGED <<files, readCount, scans, aborted, swallowed, attempts, faults, clean>>

\* The delivery throws, perhaps after part of it was sent; a best-effort one
\* does when the channel cannot be used at all.
LiveThrows(m) ==
  /\ Sending(m)
  /\ Settle(m, "failRead")
  /\ UNCHANGED <<files, readCount, scans, ghosts, attempts, faults, clean>>

\* A payload fails and is passed over; only an onError callback knows.
LiveSwallowsError(m) ==
  /\ Sending(m)
  /\ m \in BestEffort
  /\ Settle(m, IF m \in Watched THEN "failRead" ELSE "ackRename")
  /\ swallowed' = IF m \in Watched THEN swallowed ELSE swallowed \cup {m}
  /\ UNCHANGED aborted
  /\ UNCHANGED <<files, readCount, scans, sends, attempts, faults, clean>>

\* Under best effort even an abort counts as a failed payload.
LiveAborts(m) ==
  /\ Sending(m)
  /\ m \notin BestEffort
  /\ Settle(m, "ackRename")
  /\ aborted' = aborted \cup {m}
  /\ UNCHANGED swallowed
  /\ UNCHANGED <<files, readCount, scans, sends, attempts, faults, clean>>

---------------------------------------------------------------------------
(* The operations on a queue file, one await at a time.                    *)

AckRename(c, m) ==
  /\ call[c][m] = "ackRename"
  /\ pending' = pending \ {m}
  /\ marked' = IF m \in pending THEN marked \cup {m} ELSE marked
  /\ retryCount' = [retryCount EXCEPT ![m] = 0]
  /\ Begin(c, m, "ackUnlink")
  /\ UNCHANGED <<failed, readCount>>

AckUnlink(c, m) ==
  /\ call[c][m] = "ackUnlink"
  /\ marked' = marked \ {m}
  /\ Begin(c, m, "none")
  /\ UNCHANGED <<pending, retryCount, failed, readCount>>

\* Mutant: the file is removed until its new contents are written.
FailReadRemoves(c, m) ==
  /\ call[c][m] = "failRead"
  /\ readCount' = [readCount EXCEPT ![c][m] = retryCount[m]]
  /\ Begin(c, m, IF m \in pending THEN "failWrite" ELSE "none")
  /\ pending' = pending \ {m}
  /\ UNCHANGED <<retryCount, marked, failed>>

\* Reading a file that is gone throws, and the caller ignores that.
FailRead(c, m) ==
  /\ call[c][m] = "failRead"
  /\ readCount' = [readCount EXCEPT ![c][m] = IF m \in pending THEN retryCount[m] ELSE @]
  /\ Begin(c, m, IF m \in pending THEN "failWrite" ELSE "none")
  /\ UNCHANGED files

\* The code counts on without end; every count from MaxRetries on is alike to
\* it, so the model stops at a bound that is no smaller.
OneMore(n) == IF n < CountBound THEN n + 1 ELSE n

\* Mutant: the attempt is not counted.
FailWriteSameCount(c, m) ==
  /\ call[c][m] = "failWrite"
  /\ pending' = pending \cup {m}
  /\ retryCount' = [retryCount EXCEPT ![m] = readCount[c][m]]
  /\ Begin(c, m, "none")
  /\ readCount' = [readCount EXCEPT ![c][m] = 0]
  /\ UNCHANGED <<marked, failed>>

FailWrite(c, m) ==
  /\ call[c][m] = "failWrite"
  /\ pending' = pending \cup {m}
  /\ retryCount' = [retryCount EXCEPT ![m] = OneMore(readCount[c][m])]
  /\ Begin(c, m, "none")
  /\ readCount' = [readCount EXCEPT ![c][m] = 0]
  /\ UNCHANGED <<marked, failed>>

MoveToFailed(c, m) ==
  /\ call[c][m] = "move"
  /\ failed' = IF m \in pending THEN failed \cup {m} ELSE failed
  /\ pending' = pending \ {m}
  /\ retryCount' = [retryCount EXCEPT ![m] = 0]
  /\ Begin(c, m, "none")
  /\ UNCHANGED <<marked, readCount>>

\* The file system refuses.  A recovery whose acknowledgement throws counts a
\* failed attempt; every other caller carries on.
CallFails(c, m) ==
  /\ call[c][m] # "none"
  /\ faults < MaxFaults
  /\ faults' = faults + 1
  /\ Begin(c, m, IF c \in Scanners /\ call[c][m] = "ackRename" THEN "failRead" ELSE "none")
  /\ readCount' = [readCount EXCEPT ![c][m] = 0]
  /\ UNCHANGED files

CallStep(c, m) ==
  /\ \/ AckRename(c, m) \/ AckUnlink(c, m) \/ FailRead(c, m) \/ FailWrite(c, m)
     \/ MoveToFailed(c, m)
  /\ UNCHANGED <<sender, scans, ghosts, attempts, faults, clean>>

CallError(c, m) ==
  /\ CallFails(c, m)
  /\ UNCHANGED <<sender, scans, ghosts, attempts, clean>>

---------------------------------------------------------------------------
(* recoverPendingDeliveries, run once by every start of the gateway.       *)

InFlight ==
  \/ \E m \in Messages : Sending(m)
  \/ \E c \in Callers, m \in Messages : call[c][m] # "none"
  \/ \E s \in Scanners : scan[s] # "off"

\* loadPendingDeliveries lists the directory and removes leftover markers.
StartRecovery(s) ==
  /\ scan[s] = "off"
  /\ scan' = [scan EXCEPT ![s] = "reading"]
  /\ unread' = [unread EXCEPT ![s] = pending]
  /\ marked' = {}
  /\ clean' = (clean /\ ~InFlight)
  /\ attempts' = IF clean' THEN attempts ELSE [m \in Messages |-> 0]
  /\ UNCHANGED <<pending, retryCount, failed, sender, calls, todo, loaded, started,
                 ghosts, faults>>

\* A file that has gone meanwhile is skipped.
ReadEntry(s, m) ==
  /\ scan[s] = "reading"
  /\ m \in unread[s]
  /\ unread' = [unread EXCEPT ![s] = @ \ {m}]
  /\ todo' = [todo EXCEPT ![s] = IF m \in pending THEN @ \cup {m} ELSE @]
  /\ loaded' = [loaded EXCEPT ![s][m] = IF m \in pending THEN retryCount[m] ELSE @]
  /\ UNCHANGED <<files, sender, calls, scan, started, ghosts, attempts, faults, clean>>

Ready(s) == scan[s] = "visiting" /\ \A m \in Messages : call[s][m] = "none"
IsOldest(s, m) == m \in todo[s] /\ \A k \in todo[s] : m <= k

AllRead(s) ==
  /\ scan[s] = "reading"
  /\ unread[s] = {}
  /\ scan' = [scan EXCEPT ![s] = "visiting"]
  /\ UNCHANGED <<files, sender, calls, unread, todo, loaded, started, ghosts, attempts, faults, clean>>

\* The budget has run out: a failed attempt is counted for all that is left.
DeferRemaining(s) ==
  /\ Ready(s)
  /\ todo[s] # {}
  /\ started[s]
  /\ call' = [call EXCEPT ![s] =
                [m \in Messages |-> IF m \in todo[s] THEN "failRead" ELSE call[s][m]]]
  /\ todo' = [todo EXCEPT ![s] = {}]
  /\ UNCHANGED <<files, sender, readCount, scan, unread, loaded, started, ghosts,
                 attempts, faults, clean>>

WithinBudget(s) ==
  /\ Ready(s)
  /\ todo[s] # {}
  /\ scan' = [scan EXCEPT ![s] = "checking"]
  /\ started' = [started EXCEPT ![s] = TRUE]
  /\ UNCHANGED <<files, sender, calls, unread, todo, loaded, ghosts, attempts, faults, clean>>

Visited(s, m) ==
  /\ scan' = [scan EXCEPT ![s] = "visiting"]
  /\ todo' = [todo EXCEPT ![s] = @ \ {m}]
  /\ loaded' = [loaded EXCEPT ![s][m] = 0]

GiveUp(s, m) ==
  /\ scan[s] = "checking" /\ IsOldest(s, m)
  /\ loaded[s][m] >= MaxRetries
  /\ Visited(s, m)
  /\ Begin(s, m, "move")
  /\ UNCHANGED <<files, sender, readCount, unread, started, ghosts, attempts, faults, clean>>

\* The first replay of an entry never waits.
BackOff(s, m) ==
  /\ scan[s] = "checking" /\ IsOldest(s, m)
  /\ loaded[s][m] \in 1..(MaxRetries - 1)
  /\ Visited(s, m)
  /\ UNCHANGED <<files, sender, calls, unread, started, ghosts, attempts, faults, clean>>

\* Mutant: an entry at the limit is tried once more.
AttemptAtLimit(s, m) ==
  /\ scan[s] = "checking" /\ IsOldest(s, m)
  /\ loaded[s][m] <= MaxRetries
  /\ TakenUp(m)
  /\ scan' = [scan EXCEPT ![s] = "sending"]
  /\ UNCHANGED <<files, sender, calls, unread, todo, loaded, started, ghosts, faults, clean>>

Attempt(s, m) ==
  /\ scan[s] = "checking" /\ IsOldest(s, m)
  /\ loaded[s][m] < MaxRetries
  /\ TakenUp(m)
  /\ scan' = [scan EXCEPT ![s] = "sending"]
  /\ UNCHANGED <<files, sender, calls, unread, todo, loaded, started, ghosts, faults, clean>>

\* Mutant: the entry just delivered is visited again.
RecoverySendsAgain(s, m) ==
  /\ scan[s] = "sending" /\ IsOldest(s, m)
  /\ Reached(m)
  /\ scan' = [scan EXCEPT ![s] = "visiting"]
  /\ Begin(s, m, "ackRename")
  /\ UNCHANGED <<files, sender, readCount, unread, todo, loaded, started, aborted, swallowed, attempts, faults, clean>>

RecoverySends(s, m) ==
  /\ scan[s] = "sending" /\ IsOldest(s, m)
  /\ Reached(m)
  /\ Visited(s, m)
  /\ Begin(s, m, "ackRename")
  /\ UNCHANGED <<files, sender, readCount, unread, started, aborted, swallowed, attempts, faults, clean>>

\* A recovery passes no onError, so errors of a best-effort delivery vanish.
RecoverySwallowsError(s, m) ==
  /\ scan[s] = "sending" /\ IsOldest(s, m)
  /\ m \in BestEffort
  /\ swallowed' = swallowed \cup {m}
  /\ UNCHANGED aborted
  /\ Visited(s, m)
  /\ Begin(s, m, "ackRename")
  /\ UNCHANGED <<files, sender, readCount, unread, started, sends, attempts, faults, clean>>

\* A permanent error moves the entry to failed/, any other counts an attempt.
RecoveryThrows(s, m) ==
  /\ scan[s] = "sending" /\ IsOldest(s, m)
  /\ \E operation \in {"move", "failRead"} : Begin(s, m, operation)
  /\ Visited(s, m)
  /\ UNCHANGED <<files, sender, readCount, unread, started, ghosts, attempts, faults, clean>>

FinishRecovery(s) ==
  /\ Ready(s)
  /\ todo[s] = {}
  /\ scan' = [scan EXCEPT ![s] = "off"]
  /\ started' = [started EXCEPT ![s] = FALSE]
  /\ UNCHANGED <<files, sender, calls, unread, todo, loaded, ghosts, attempts, faults, clean>>

\* The process dies: only the files are left.
Crash ==
  /\ faults < MaxFaults
  /\ InFlight
  /\ faults' = faults + 1
  /\ sender' = [m \in Messages |-> IF Sending(m) THEN Ended(m) ELSE sender[m]]
  /\ call' = [c \in Callers |-> [m \in Messages |-> "none"]]
  /\ readCount' = [c \in Callers |-> [m \in Messages |-> 0]]
  /\ scan' = [s \in Scanners |-> "off"]
  /\ unread' = [s \in Scanners |-> {}]
  /\ todo' = [s \in Scanners |-> {}]
  /\ loaded' = [s \in Scanners |-> [m \in Messages |-> 0]]
  /\ started' = [s \in Scanners |-> FALSE]
  /\ UNCHANGED <<files, ghosts, attempts, clean>>

---------------------------------------------------------------------------
LiveStep(m) == LiveSends(m) \/ LiveThrows(m) \/ LiveSwallowsError(m) \/ LiveAborts(m)

SendStep(s) ==
  \E m \in Messages :
    RecoverySends(s, m) \/ RecoverySwallowsError(s, m) \/ RecoveryThrows(s, m)

ScanStep(s) ==
  \/ \E m \in Messages : ReadEntry(s, m) \/ GiveUp(s, m) \/ BackOff(s, m) \/ Attempt(s, m)
  \/ AllRead(s) \/ DeferRemaining(s) \/ WithinBudget(s) \/ FinishRecovery(s)
  \/ SendStep(s)

Next ==
  \/ \E m \in Messages : EnqueueDelivery(m) \/ EnqueueFails(m) \/ LiveStep(m)
  \/ \E c \in Callers, m \in Messages : CallStep(c, m) \/ CallError(c, m)
  \/ \E s \in Scanners : StartRecovery(s) \/ ScanStep(s)
  \/ Crash

Spec == Init /\ [][Next]_vars

\* Calls to a channel and to the file system return.  The gateway is started
\* again and again (a recovery runs at a start and at no other time), and the
\* backoff of an entry that is looked at again and again has sometimes passed.
Fairness ==
  /\ \A m \in Messages : WF_vars(LiveStep(m))
  /\ \A c \in Callers, m \in Messages : WF_vars(CallStep(c, m))
  /\ \A s \in Scanners : WF_vars(StartRecovery(s)) /\ WF_vars(ScanStep(s))
  /\ \A s \in Scanners, m \in Messages : SF_vars(Attempt(s, m))

FairSpec == Spec /\ Fairness

---------------------------------------------------------------------------
(* Properties.                                                             *)

TypeOK ==
  /\ pending \subseteq Messages /\ marked \subseteq Messages /\ failed \subseteq Messages
  /\ retryCount \in [Messages -> 0..CountBound]
  /\ sender \in [Messages -> {"idle", "sending", "sendingBare", "done", "doneBare"}]
  /\ call \in [Callers -> [Messages -> {"none"} \cup Operations]]
  /\ readCount \in [Callers -> [Messages -> 0..CountBound]]
  /\ scan \in [Scanners -> {"off", "reading", "visiting", "checking", "sending"}]
  /\ unread \in [Scanners -> SUBSET Messages]
  /\ todo \in [Scanners -> SUBSET Messages]
  /\ loaded \in [Scanners -> [Messages -> 0..CountBound]]
  /\ started \in [Scanners -> BOOLEAN]
  /\ attempts \in [Messages -> 0..AttemptBound]
  /\ sends \in [Messages -> 0..2]
  /\ aborted \subseteq Messages /\ swallowed \subseteq Messages
  /\ faults \in 0..MaxFaults
  /\ clean \in BOOLEAN

\* A delivery that was written to the queue stays there until it has reached
\* its recipient, was aborted or was given up: no crash, restart or clash of a
\* live delivery with recoveries of the same entry loses it.
KeptUntilSettled ==
  \A m \in Messages :
    sender[m] \in {"sending", "done"} =>
      \/ m \in pending \cup failed \cup aborted \cup swallowed
      \/ sends[m] > 0

\* As long as no recovery began while something was in flight, an entry that
\* has left the queue, acknowledged or given up, is never sent or queued again,
\* whatever faults.
SettledIsFinal ==
  [][\A m \in Messages :
       clean' /\ sender[m] = "done" /\ m \notin pending
         => sends'[m] = sends[m] /\ m \notin pending']_vars

\* Under the same condition an entry is taken up for sending, by its caller and
\* by all recoveries together, no more often than the retry limit, and once more
\* for every crash or refused file operation, which lose a count: no retry, crash
\* or deferral lets a delivery that keeps failing be sent over and over.
AttemptsWithinBudget ==
  clean => \A m \in Messages : attempts[m] <= MaxRetries + faults

\* Under the same condition every entry leaves the queue in the end: failed
\* attempts and deferrals add up until the entry is given up.
PendingSettles ==
  \A m \in Messages : m \in pending ~> m \notin pending \/ ~clean
=============================================================================
