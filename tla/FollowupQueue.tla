---------------------------- MODULE FollowupQueue ----------------------------
(***************************************************************************)
(* The follow-up queue of one session (auto-reply/reply/queue/ and         *)
(* utils/queue-helpers.ts): messages that arrive while the agent is busy   *)
(* wait in a queue and are given to follow-up turns, one by one or         *)
(* collected into one turn, by an asynchronous drain.                      *)
(*                                                                         *)
(* FOLLOWUP_QUEUES maps the session key to a queue object.  A drain holds  *)
(* its object; clearing the session removes the map entry under it, and    *)
(* the next message makes a new object, so two objects of one key may be   *)
(* alive.  Object identifiers are reused once nothing refers to them.      *)
(*                                                                         *)
(* Of a turn only what it tells the agent matters: messages, or the list   *)
(* of messages dropped at the cap.  Of that list the count is kept: the    *)
(* lines shown are those of the newest dropped messages, as many as the    *)
(* cap, and which they are is left out; a turn was told of a message if    *)
(* the count includes it.  Message n is the n-th to arrive.  The memory of *)
(* recent message ids does not expire here, and enqueuing does not restart *)
(* an idle drain: its only caller asks it not to.                          *)
(***************************************************************************)
EXTENDS Naturals, Sequences, FiniteSets, Functions

CONSTANTS
  NMessages,  \* messages 1..NMessages, in order of arrival
  RouteOf,    \* the channel and thread each message came from
  Queues,     \* identifiers of queue objects
  NoQueue,    \* no map entry
  Cap,
  Policies,   \* drop policies the session may have
  Modes,      \* queue modes the session may have
  MaxChanges  \* bound on changes of the session's settings

Messages == 1..NMessages

ASSUME FollowupQueueAssumption ==
  /\ NMessages \in Nat
  /\ Cap \in Nat \ {0}
  /\ NoQueue \notin Queues
  /\ Policies \subseteq {"summarize", "old", "new"}
  /\ Modes \subseteq {"collect", "followup"}
  /\ MaxChanges \in Nat

VARIABLES
  current,     \* the queue the map holds for the session, or NoQueue
  items,       \* queue.items
  dropped,     \* the messages queue.droppedCount counts
  hasRun,      \* queue.lastRun is set
  mode,        \* queue.mode
  policy,      \* queue.dropPolicy
  drain,       \* where the drain of each queue is; "off" means not draining
  oneByOne,    \* collectState.forceIndividualCollect of the drain
  turn,        \* what the running follow-up turn was given
  mainRun,     \* an agent run started by a message is under way
  settings,    \* the session's queue settings
  changes,
  arrived,     \* messages arrived so far
  accepted,    \* messages put in a queue
  answered,    \* messages a finished turn was given
  summarised,  \* messages a finished turn was told were dropped
  dismissed,   \* messages cleared, or dropped by the policies that do not tell
  lossy        \* one of the steps that can lose a message was taken

objects == <<items, dropped, hasRun, mode, policy>>
drains == <<drain, oneByOne, turn>>
session == <<mainRun, settings, changes>>
ghosts == <<arrived, accepted, answered, summarised, dismissed, lossy>>
vars == <<current, objects, drains, session, ghosts>>

NoTurn == [given |-> {}, summary |-> {}, take |-> 0]

Init ==
  /\ current = NoQueue
  /\ items = [q \in Queues |-> <<>>]
  /\ dropped = [q \in Queues |-> {}]
  /\ hasRun = [q \in Queues |-> FALSE]
  /\ settings \in [mode : Modes, policy : Policies]
  /\ mode = [q \in Queues |-> settings.mode]
  /\ policy = [q \in Queues |-> settings.policy]
  /\ drain = [q \in Queues |-> "off"]
  /\ oneByOne = [q \in Queues |-> FALSE]
  /\ turn = [q \in Queues |-> NoTurn]
  /\ mainRun = FALSE
  /\ changes = 0
  /\ arrived = 0
  /\ accepted = {} /\ answered = {} /\ summarised = {} /\ dismissed = {}
  /\ lossy = FALSE

---------------------------------------------------------------------------
Reachable(q) == current = q \/ drain[q] # "off"

\* No drain is between two awaits, so another callback may run.
Quiet == \A q \in Queues : drain[q] # "looping"

\* scheduleFollowupDrain: d is the drain function after the caller's changes.
Scheduled(d) ==
  IF current # NoQueue /\ d[current] = "off" THEN [d EXCEPT ![current] = "looping"] ELSE d

SessionActive == mainRun \/ \E q \in Queues : drain[q] = "running"

\* getFollowupQueue: the mapped object, or a new one.
QueueFor(q) ==
  IF current # NoQueue THEN q = current
  ELSE ~Reachable(q) /\ q = CHOOSE r \in Queues : ~Reachable(r)
ItemsOf(q) == IF current # NoQueue THEN items[q] ELSE <<>>
DroppedOf(q) == IF current # NoQueue THEN dropped[q] ELSE {}

\* applyQueueDropPolicy (and a mutant of it).
ExcessOffByOne(q) == IF Len(ItemsOf(q)) < Cap THEN 0 ELSE Len(ItemsOf(q)) - Cap
Excess(q) == IF Len(ItemsOf(q)) < Cap THEN 0 ELSE Len(ItemsOf(q)) - Cap + 1
Oldest(s, n) == Range(SubSeq(s, 1, n))
Without(s, n) == SubSeq(s, n + 1, Len(s))

\* The agent runner's check after it enqueued: a session that has become idle
\* needs a drain; whether a run still looks active is known only roughly.
Recheck(q) ==
  \E looksActive \in BOOLEAN :
    /\ looksActive => SessionActive
    /\ drain' = IF looksActive \/ drain[q] # "off" THEN drain
                ELSE [drain EXCEPT ![q] = "looping"]
    /\ UNCHANGED <<oneByOne, turn>>

---------------------------------------------------------------------------
\* enqueueFollowupRun for a message that arrived while the session was busy.
EnqueueFollowupRun(q) ==
  LET m == arrived + 1
      old == ItemsOf(q)
      over == Excess(q)
      out == Oldest(old, over)
  IN  /\ Quiet
      /\ m \in Messages
      /\ QueueFor(q)
      /\ settings.policy = "new" => over = 0
      /\ arrived' = m
      /\ current' = q
      /\ mode' = [mode EXCEPT ![q] = settings.mode]
      /\ policy' = [policy EXCEPT ![q] = settings.policy]
      /\ hasRun' = [hasRun EXCEPT ![q] = TRUE]
      /\ items' = [items EXCEPT ![q] = Append(Without(old, over), m)]
      /\ dropped' = [dropped EXCEPT ![q] =
                       IF settings.policy = "summarize" THEN DroppedOf(q) \cup out ELSE DroppedOf(q)]
      /\ dismissed' = IF settings.policy = "old" THEN dismissed \cup out ELSE dismissed
      /\ accepted' = accepted \cup {m}
      /\ lossy' = (lossy \/ (over > 0 /\ drain[q] = "running"))
      /\ Recheck(q)
      /\ UNCHANGED <<session, answered, summarised>>

\* At the cap, the policy "new" turns the message away.
EnqueueRefused(q) ==
  /\ Quiet
  /\ arrived < NMessages
  /\ QueueFor(q)
  /\ settings.policy = "new" /\ Excess(q) > 0
  /\ arrived' = arrived + 1
  /\ mode' = [mode EXCEPT ![q] = settings.mode]
  /\ policy' = [policy EXCEPT ![q] = settings.policy]
  /\ hasRun' = [hasRun EXCEPT ![q] = TRUE]
  /\ Recheck(q)
  /\ UNCHANGED <<current, items, dropped, session, accepted, answered, summarised,
                 dismissed, lossy>>

\* A channel delivers a queued message again: only the settings are applied.
EnqueueDuplicate(q) ==
  /\ Quiet
  /\ accepted # {}
  /\ QueueFor(q)
  /\ current' = q
  /\ mode' = [mode EXCEPT ![q] = settings.mode]
  /\ policy' = [policy EXCEPT ![q] = settings.policy]
  /\ items' = [items EXCEPT ![q] = ItemsOf(q)]
  /\ dropped' = [dropped EXCEPT ![q] = DroppedOf(q)]
  /\ hasRun' = [hasRun EXCEPT ![q] = current # NoQueue /\ @]
  /\ Recheck(q)
  /\ UNCHANGED <<session, ghosts>>

\* clearFollowupQueue, for /stop, a reset, a deleted or a killed session.
ClearFollowupQueue ==
  /\ Quiet
  /\ current # NoQueue
  /\ dismissed' = dismissed \cup Range(items[current]) \cup dropped[current]
  /\ items' = [items EXCEPT ![current] = <<>>]
  /\ dropped' = [dropped EXCEPT ![current] = {}]
  /\ hasRun' = [hasRun EXCEPT ![current] = FALSE]
  /\ current' = NoQueue
  /\ lossy' = (lossy \/ drain[current] # "off")
  /\ UNCHANGED <<mode, policy, drains, session, arrived, accepted, answered, summarised>>

ChangeSettings ==
  /\ Quiet
  /\ changes < MaxChanges
  /\ changes' = changes + 1
  /\ settings' \in [mode : Modes, policy : Policies]
  /\ UNCHANGED <<current, objects, drains, mainRun, ghosts>>

---------------------------------------------------------------------------
(* Runs started by messages; finalizeWithFollowup at their end.            *)

MainRunStarts ==
  /\ Quiet
  /\ ~SessionActive
  /\ mainRun' = TRUE
  /\ UNCHANGED <<current, objects, drains, settings, changes, ghosts>>

\* Mutant: a run that ends does not look at the queue.
MainRunEndsSilently ==
  /\ Quiet
  /\ mainRun
  /\ mainRun' = FALSE
  /\ UNCHANGED <<current, objects, drains, settings, changes, ghosts>>

MainRunEnds ==
  /\ Quiet
  /\ mainRun
  /\ mainRun' = FALSE
  /\ drain' = Scheduled(drain)
  /\ UNCHANGED <<current, objects, oneByOne, turn, settings, changes, ghosts>>

---------------------------------------------------------------------------
(* The drain of one queue object.                                          *)

\* Mutant: the queue is forgotten even if messages are left.
FinishAlwaysForgets(q) ==
  /\ current' = NoQueue
  /\ drain' = [drain EXCEPT ![q] = "off"]
  /\ oneByOne' = [oneByOne EXCEPT ![q] = FALSE]
  /\ turn' = [turn EXCEPT ![q] = NoTurn]

\* The loop is left: forget the queue, whichever object the key maps to now,
\* or drain again what is left.
Finish(q) ==
  LET idle == [drain EXCEPT ![q] = "off"]
      empty == items[q] = <<>> /\ dropped[q] = {}
  IN  /\ current' = IF empty THEN NoQueue ELSE current
      /\ drain' = IF empty THEN idle ELSE Scheduled(idle)
      /\ oneByOne' = [oneByOne EXCEPT ![q] = FALSE]
      /\ turn' = [turn EXCEPT ![q] = NoTurn]

\* The loop condition; the loop waits until no message has come for a while.
LoopContinues(q) ==
  /\ drain[q] = "looping"
  /\ items[q] # <<>> \/ dropped[q] # {}
  /\ drain' = [drain EXCEPT ![q] = "waiting"]
  /\ UNCHANGED <<current, objects, oneByOne, turn, session, ghosts>>

LoopEnds(q) ==
  /\ drain[q] = "looping"
  /\ items[q] = <<>> /\ dropped[q] = {}
  /\ Finish(q)
  /\ UNCHANGED <<objects, session, ghosts>>

IsMixed(q) == \E m, n \in Range(items[q]) : RouteOf[m] # RouteOf[n]
HasSummary(q) == policy[q] = "summarize" /\ dropped[q] # {}
Individually(q) == mode[q] = "collect" /\ (oneByOne[q] \/ IsMixed(q))

StartTurn(q, t) ==
  /\ drain[q] = "waiting"
  /\ Quiet
  /\ drain' = [drain EXCEPT ![q] = "running"]
  /\ turn' = [turn EXCEPT ![q] = t]
  /\ UNCHANGED <<current, objects, session, arrived, accepted, answered, summarised, dismissed>>

\* Everything that waits, and the dropped messages, in one turn.
CollectTurn(q) ==
  /\ mode[q] = "collect" /\ ~Individually(q)
  /\ hasRun[q]
  /\ StartTurn(q, [given |-> Range(items[q]),
                   summary |-> IF HasSummary(q) THEN dropped[q] ELSE {},
                   take |-> Len(items[q])])
  /\ UNCHANGED <<oneByOne, lossy>>

\* Mutant: the newest message first.
SingleTurnNewest(q) ==
  /\ items[q] # <<>>
  /\ IF mode[q] = "collect" THEN Individually(q) ELSE ~HasSummary(q)
  /\ StartTurn(q, [given |-> {items[q][Len(items[q])]}, summary |-> {}, take |-> 1])
  /\ oneByOne' = [oneByOne EXCEPT ![q] = @ \/ mode[q] = "collect"]
  /\ UNCHANGED lossy

\* The oldest message alone.
SingleTurn(q) ==
  /\ items[q] # <<>>
  /\ IF mode[q] = "collect" THEN Individually(q) ELSE ~HasSummary(q)
  /\ StartTurn(q, [given |-> {Head(items[q])}, summary |-> {}, take |-> 1])
  /\ oneByOne' = [oneByOne EXCEPT ![q] = @ \/ mode[q] = "collect"]
  /\ UNCHANGED lossy

\* The dropped messages; the oldest message gives the turn its route only, yet
\* it is shifted from the queue afterwards.
SummaryTurn(q) ==
  /\ mode[q] = "followup" /\ HasSummary(q)
  /\ hasRun[q] /\ items[q] # <<>>
  /\ StartTurn(q, [given |-> {}, summary |-> dropped[q], take |-> 1])
  /\ lossy' = TRUE
  /\ UNCHANGED oneByOne

\* No item, or no run to continue: the loop is left.
NothingToRun(q) ==
  /\ drain[q] = "waiting"
  /\ Quiet
  /\ IF mode[q] = "collect" /\ ~Individually(q) THEN ~hasRun[q]
     ELSE items[q] = <<>> \/ (mode[q] = "followup" /\ HasSummary(q) /\ ~hasRun[q])
  /\ Finish(q)
  /\ UNCHANGED <<objects, session, ghosts>>

\* Mutant: a collected batch is not removed.
TurnEndsKeepingItems(q) ==
  /\ Quiet
  /\ drain[q] = "running"
  /\ answered' = answered \cup turn[q].given
  /\ summarised' = summarised \cup turn[q].summary
  /\ items' = [items EXCEPT ![q] = Without(@, 1)]
  /\ dropped' = [dropped EXCEPT ![q] = IF turn[q].summary = {} THEN @ ELSE {}]
  /\ drain' = [drain EXCEPT ![q] = "looping"]
  /\ turn' = [turn EXCEPT ![q] = NoTurn]
  /\ UNCHANGED <<current, hasRun, mode, policy, oneByOne, session, arrived, accepted,
                 dismissed, lossy>>

\* As many items are removed from the head as the turn was given, and the
\* dropped messages forgotten if it was told of any.
TurnEnds(q) ==
  /\ Quiet
  /\ drain[q] = "running"
  /\ answered' = answered \cup turn[q].given
  /\ summarised' = summarised \cup turn[q].summary
  /\ items' = [items EXCEPT ![q] = Without(@, turn[q].take)]
  /\ dropped' = [dropped EXCEPT ![q] = IF turn[q].summary = {} THEN @ ELSE {}]
  /\ drain' = [drain EXCEPT ![q] = "looping"]
  /\ turn' = [turn EXCEPT ![q] = NoTurn]
  /\ UNCHANGED <<current, hasRun, mode, policy, oneByOne, session, arrived, accepted,
                 dismissed, lossy>>

\* The turn throws: nothing is removed and the drain begins anew.
TurnThrows(q) ==
  /\ Quiet
  /\ drain[q] = "running"
  /\ Finish(q)
  /\ UNCHANGED <<objects, session, ghosts>>

---------------------------------------------------------------------------
DrainStep(q) ==
  \/ LoopContinues(q) \/ LoopEnds(q)
  \/ CollectTurn(q) \/ SingleTurn(q) \/ SummaryTurn(q) \/ NothingToRun(q)

Next ==
  \/ \E q \in Queues : EnqueueFollowupRun(q) \/ EnqueueRefused(q) \/ EnqueueDuplicate(q)
  \/ ClearFollowupQueue
  \/ ChangeSettings
  \/ MainRunStarts
  \/ MainRunEnds
  \/ \E q \in Queues : DrainStep(q) \/ TurnEnds(q) \/ TurnThrows(q)

Spec == Init /\ [][Next]_vars

\* Timers fire and runs end; a turn that throws does not throw for ever.
Fairness ==
  /\ WF_vars(MainRunEnds)
  /\ \A q \in Queues : SF_vars(DrainStep(q)) /\ SF_vars(TurnEnds(q))

FairSpec == Spec /\ Fairness

---------------------------------------------------------------------------
(* Properties.                                                             *)

TypeOK ==
  /\ current \in Queues \cup {NoQueue}
  /\ items \in [Queues -> Seq(Messages)] /\ \A q \in Queues : Len(items[q]) <= Cap
  /\ dropped \in [Queues -> SUBSET Messages]
  /\ hasRun \in [Queues -> BOOLEAN]
  /\ mode \in [Queues -> Modes] /\ policy \in [Queues -> Policies]
  /\ drain \in [Queues -> {"off", "looping", "waiting", "running"}]
  /\ oneByOne \in [Queues -> BOOLEAN]
  /\ turn \in [Queues -> [given : SUBSET Messages, summary : SUBSET Messages, take : 0..Cap]]
  /\ mainRun \in BOOLEAN
  /\ settings \in [mode : Modes, policy : Policies]
  /\ changes \in 0..MaxChanges
  /\ arrived \in 0..NMessages
  /\ accepted \cup answered \cup summarised \cup dismissed \subseteq Messages
  /\ lossy \in BOOLEAN

Kept(m) ==
  \E q \in Queues :
    Reachable(q) /\ m \in Range(items[q]) \cup dropped[q] \cup turn[q].given \cup turn[q].summary

\* docs/concepts/queue.md:31 and :69: a queued message is given to a turn, told
\* of in a summary, or dropped by a policy or a command that says so.
NothingLost ==
  \A m \in accepted : m \in answered \cup summarised \cup dismissed \/ Kept(m)

\* A message is lost only after an overflow during a turn, a clear during a
\* drain, or a summary turn: nothing else, no order of arrivals, runs ending,
\* failing turns and changed settings, loses one.
LossOnlyByRaces == lossy \/ NothingLost

\* No message is given to a second turn once a turn with it has finished,
\* overflows and clears during the turn included.
AnsweredOnce ==
  \A q \in Queues : turn[q].given \cap answered = {}

\* Turns are given messages in the order they arrived: no turn gets a message
\* older than one already answered, unless a clear during a drain has left two
\* drains of one session running.
AnsweredInOrder ==
  [][\A q \in Queues : \A m \in turn'[q].given \ turn[q].given :
       lossy \/ \A n \in answered : n < m]_vars

\* Between callbacks a queue with waiting messages is drained, or a run is
\* under way whose end looks at the queue: no order of arrivals, stale checks
\* of the session and runs ending leaves it idle.  Only after a race may the
\* drain be that of an object the key has ceased to map to, which looks at the
\* mapped one when it ends.
NoIdleBacklog ==
  Quiet /\ current # NoQueue /\ items[current] # <<>>
    => mainRun \/ \E q \in Queues : drain[q] # "off" /\ (q = current \/ lossy)

\* What the properties above rest on.
\* Only a running drain has a turn.
TurnsOnlyRunning == \A q \in Queues : drain[q] # "running" => turn[q] = NoTurn

\* Queues hold messages in the order of arrival, and whatever happens to a
\* queue during a turn, what the turn's end leaves in it is newer than what
\* the turn was given.
ArrivalOrder ==
  \A q \in Queues :
    /\ \A i, j \in DOMAIN items[q] : i < j => items[q][i] < items[q][j]
    /\ \A i \in DOMAIN items[q] :
         i > turn[q].take => \A n \in turn[q].given : n < items[q][i]

\* A message waits in one queue at most, and is given by its queue's drain
\* only, to one turn.
Holds(q) == Range(items[q]) \cup turn[q].given

HeldOnce ==
  /\ \A q, r \in Queues : q # r => Holds(q) \cap Holds(r) = {}
  /\ \A q \in Queues : Holds(q) \cap answered = {}

\* Nothing is held or answered that has not arrived.
HeldArrived ==
  /\ answered \subseteq 1..arrived
  /\ \A q \in Queues : Holds(q) \subseteq 1..arrived

\* Until a race: only the mapped queue is drained; a turn's end removes only
\* messages the turn was given or told of; what is not dealt with waits in the
\* mapped queue, behind all that is answered.
Waiting == IF current = NoQueue THEN {} ELSE Range(items[current])
Counted == IF current = NoQueue THEN {} ELSE dropped[current]

OnlyMappedDrains == \A q \in Queues : q # current => drain[q] = "off"

TurnCoversRemoved ==
  \A q \in Queues :
    /\ turn[q].take <= Len(items[q])
    /\ \A i \in 1..turn[q].take : items[q][i] \in turn[q].given
    /\ turn[q].summary # {} => dropped[q] \subseteq turn[q].summary

DealtWithOrWaiting ==
  accepted \subseteq answered \cup summarised \cup dismissed \cup Waiting \cup Counted

AnsweredFirst == \A n \in answered, m \in Waiting : n < m

UnlessRaced ==
  ~lossy => OnlyMappedDrains /\ TurnCoversRemoved /\ DealtWithOrWaiting /\ AnsweredFirst

IInv ==
  /\ TypeOK
  /\ TurnsOnlyRunning
  /\ ArrivalOrder
  /\ HeldOnce
  /\ HeldArrived
  /\ UnlessRaced
  /\ NoIdleBacklog

\* Every message accepted is dealt with in the end, unless messages can have
\* been lost or the settings were changed under a waiting summary.
EveryMessageHandled ==
  \A m \in Messages :
    m \in accepted ~> m \in answered \cup summarised \cup dismissed \/ lossy \/ changes > 0
=============================================================================
