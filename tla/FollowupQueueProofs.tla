------------------------- MODULE FollowupQueueProofs -------------------------
(***************************************************************************)
(* Proofs about FollowupQueue for every number of messages and queue       *)
(* objects, every cap, and every choice of routes, policies and modes.     *)
(***************************************************************************)
EXTENDS FollowupQueue, SequenceTheorems, TLAPS

---------------------------------------------------------------------------
(* Facts about the operations on queue.items.                              *)

\* What splice(0, n) leaves, with n beyond the end allowed.
LEMMA WithoutIs ==
  ASSUME NEW S, NEW s \in Seq(S), NEW n \in Nat
  PROVE  /\ Without(s, n) \in Seq(S)
         /\ n <= Len(s) => Len(Without(s, n)) = Len(s) - n
         /\ n > Len(s) => Without(s, n) = <<>>
         /\ DOMAIN Without(s, n) = 1..Len(Without(s, n))
         /\ \A i \in DOMAIN Without(s, n) : i + n \in DOMAIN s /\ Without(s, n)[i] = s[i + n]
<1>1. Len(s) \in Nat /\ DOMAIN s = 1..Len(s) /\ \A i \in 1..Len(s) : s[i] \in S
  OBVIOUS
<1>2. CASE n <= Len(s)
  <2>1. Without(s, n) = [i \in 1..(Len(s) - n) |-> s[i + n]]
    BY <1>1, <1>2 DEF Without
  <2>2. \A i \in 1..(Len(s) - n) : i + n \in 1..Len(s) /\ s[i + n] \in S
    BY <1>1, <1>2
  <2>3. Len(s) - n \in Nat
    BY <1>1, <1>2
  <2>4. Without(s, n) \in Seq(S) /\ Len(Without(s, n)) = Len(s) - n
    BY <2>1, <2>2, <2>3
  <2>5. QED
    BY <1>1, <1>2, <2>1, <2>2, <2>4
<1>3. CASE n > Len(s)
  <2>1. Without(s, n) = <<>>
    BY <1>1, <1>3 DEF Without
  <2>2. /\ Without(s, n) \in Seq(S) /\ Len(Without(s, n)) = 0
        /\ DOMAIN Without(s, n) = {}
    BY <2>1
  <2>3. DOMAIN Without(s, n) = 1..Len(Without(s, n))
    BY <2>1
  <2>4. ~(n <= Len(s))
    BY <1>1, <1>3
  <2>5. QED
    BY <2>1, <2>2, <2>3, <2>4
<1>4. n <= Len(s) \/ n > Len(s)
  BY <1>1
<1>5. QED
  BY <1>2, <1>3, <1>4

\* The n oldest and the others are all.
LEMMA OldestAndOthers ==
  ASSUME NEW S, NEW s \in Seq(S), NEW n \in Nat, n <= Len(s)
  PROVE  /\ Range(s) = Oldest(s, n) \cup Range(Without(s, n))
         /\ Oldest(s, n) \subseteq Range(s)
         /\ \A i \in 1..n : s[i] \in Oldest(s, n)
         /\ \A m \in Oldest(s, n) : \E i \in 1..n : m = s[i]
<1>1. /\ Len(s) \in Nat /\ DOMAIN s = 1..Len(s)
      /\ SubSeq(s, 1, n) = [i \in 1..n |-> s[i]]
      /\ DOMAIN SubSeq(s, 1, n) = 1..n
  OBVIOUS
<1>2. Oldest(s, n) = {s[i] : i \in 1..n}
  BY <1>1 DEF Oldest, Range
<1>3. /\ Len(Without(s, n)) = Len(s) - n /\ DOMAIN Without(s, n) = 1..Len(Without(s, n))
      /\ \A i \in DOMAIN Without(s, n) : i + n \in DOMAIN s /\ Without(s, n)[i] = s[i + n]
  BY WithoutIs
<1>4. ASSUME NEW i \in 1..Len(s) PROVE s[i] \in Oldest(s, n) \cup Range(Without(s, n))
  <2>1. CASE i <= n
    BY <1>2, <2>1
  <2>2. CASE i > n
    <3>1. i - n \in DOMAIN Without(s, n) /\ Without(s, n)[i - n] = s[i]
      BY <1>1, <1>3, <2>2
    <3>2. QED
      BY <3>1 DEF Range
  <2>3. QED
    BY <1>1, <2>1, <2>2
<1>5. Range(s) = {s[i] : i \in 1..Len(s)}
  BY <1>1 DEF Range
<1>6. Range(Without(s, n)) \subseteq Range(s)
  BY <1>3 DEF Range
<1>7. Oldest(s, n) \subseteq Range(s)
  BY <1>1, <1>2, <1>5
<1>8. QED
  BY <1>2, <1>4, <1>5, <1>6, <1>7

\* What a queue holds after push.
LEMMA AppendIs ==
  ASSUME NEW S, NEW s \in Seq(S), NEW m \in S
  PROVE  /\ Append(s, m) \in Seq(S)
         /\ Len(Append(s, m)) = Len(s) + 1
         /\ DOMAIN Append(s, m) = 1..(Len(s) + 1)
         /\ \A i \in 1..Len(s) : Append(s, m)[i] = s[i]
         /\ Append(s, m)[Len(s) + 1] = m
         /\ Range(Append(s, m)) = Range(s) \cup {m}
<1>1. /\ Len(s) \in Nat /\ DOMAIN s = 1..Len(s)
      /\ Append(s, m) \in Seq(S) /\ Len(Append(s, m)) = Len(s) + 1
      /\ DOMAIN Append(s, m) = 1..(Len(s) + 1)
      /\ \A i \in 1..Len(s) : Append(s, m)[i] = s[i]
      /\ Append(s, m)[Len(s) + 1] = m
  OBVIOUS
<1>2. ASSUME NEW x \in Range(s) PROVE x \in Range(Append(s, m))
  BY <1>1, <1>2 DEF Range
<1>3. m \in Range(Append(s, m))
  BY <1>1 DEF Range
<1>4. ASSUME NEW x \in Range(Append(s, m)) PROVE x \in Range(s) \cup {m}
  BY <1>1, <1>4 DEF Range
<1>5. QED
  BY <1>1, <1>2, <1>3, <1>4

---------------------------------------------------------------------------
(* What the parts of the actions do, one by one.                           *)

DrainStates == {"off", "looping", "waiting", "running"}
Turns == [given : SUBSET Messages, summary : SUBSET Messages, take : 0..Cap]

LEMMA NoTurnType == NoTurn \in Turns
BY FollowupQueueAssumption DEF NoTurn, Turns

LEMMA ItemsType ==
  ASSUME TypeOK, NEW q \in Queues
  PROVE  /\ items[q] \in Seq(Messages) /\ Len(items[q]) \in Nat /\ Len(items[q]) <= Cap
         /\ DOMAIN items[q] = 1..Len(items[q])
         /\ Range(items[q]) \subseteq Messages
         /\ dropped[q] \subseteq Messages
         /\ turn[q] \in Turns /\ turn[q].given \subseteq Messages
         /\ turn[q].summary \subseteq Messages /\ turn[q].take \in Nat
         /\ Cap \in Nat \ {0}
<1>1. items[q] \in Seq(Messages) /\ Len(items[q]) <= Cap /\ turn[q] \in Turns
      /\ dropped[q] \subseteq Messages
  BY DEF TypeOK, Turns
<1>2. Len(items[q]) \in Nat /\ DOMAIN items[q] = 1..Len(items[q])
  BY <1>1
<1>3. Range(items[q]) \subseteq Messages
  BY <1>1, <1>2 DEF Range
<1>4. QED
  BY <1>1, <1>2, <1>3, FollowupQueueAssumption DEF Turns

\* The queue a message is put in, as it is after enqueueFollowupRun.
KeptItems(q) == Without(ItemsOf(q), Excess(q))
NewItems(q) == Append(KeptItems(q), arrived + 1)

LEMMA NewItemsIs ==
  ASSUME TypeOK, NEW q \in Queues, arrived + 1 \in Messages
  PROVE  /\ ItemsOf(q) \in Seq(Messages) /\ Len(ItemsOf(q)) \in Nat /\ Len(ItemsOf(q)) <= Cap
         /\ DOMAIN ItemsOf(q) = 1..Len(ItemsOf(q))
         /\ Excess(q) \in Nat /\ Excess(q) <= Len(ItemsOf(q))
         /\ NewItems(q) \in Seq(Messages)
         /\ Len(NewItems(q)) = Len(ItemsOf(q)) - Excess(q) + 1
         /\ Len(NewItems(q)) <= Cap
         /\ DOMAIN NewItems(q) = 1..Len(NewItems(q))
         /\ \A i \in 1..(Len(NewItems(q)) - 1) :
              i + Excess(q) \in DOMAIN ItemsOf(q) /\ NewItems(q)[i] = ItemsOf(q)[i + Excess(q)]
         /\ NewItems(q)[Len(NewItems(q))] = arrived + 1
         /\ Range(NewItems(q)) = Range(KeptItems(q)) \cup {arrived + 1}
         /\ Range(ItemsOf(q)) = Oldest(ItemsOf(q), Excess(q)) \cup Range(KeptItems(q))
         /\ Range(ItemsOf(q)) \subseteq Messages
         /\ Excess(q) = 0 => Oldest(ItemsOf(q), Excess(q)) = {}
<1> DEFINE old == ItemsOf(q)
           over == Excess(q)
<1>1. /\ old \in Seq(Messages) /\ Len(old) \in Nat /\ Len(old) <= Cap
      /\ DOMAIN old = 1..Len(old) /\ Range(old) \subseteq Messages
  <2>1. CASE current # NoQueue
    BY <2>1, ItemsType DEF ItemsOf
  <2>2. CASE current = NoQueue
    BY <2>2, FollowupQueueAssumption DEF ItemsOf, Range
  <2>3. QED
    BY <2>1, <2>2
<1>2. over \in Nat /\ over <= Len(old) /\ Len(old) - over + 1 <= Cap
  BY <1>1, FollowupQueueAssumption DEF Excess
<1> HIDE DEF old, over
<1> DEFINE kept == Without(old, over)
<1>3. /\ kept \in Seq(Messages) /\ Len(kept) = Len(old) - over
      /\ DOMAIN kept = 1..Len(kept)
      /\ \A i \in DOMAIN kept : i + over \in DOMAIN old /\ kept[i] = old[i + over]
  BY <1>1, <1>2, WithoutIs
<1>4. /\ Range(old) = Oldest(old, over) \cup Range(kept)
      /\ over = 0 => Oldest(old, over) = {}
  BY <1>1, <1>2, OldestAndOthers
<1> HIDE DEF kept
<1> DEFINE new == Append(kept, arrived + 1)
<1>5. /\ new \in Seq(Messages) /\ Len(new) = Len(kept) + 1 /\ DOMAIN new = 1..(Len(kept) + 1)
      /\ \A i \in 1..Len(kept) : new[i] = kept[i]
      /\ new[Len(kept) + 1] = arrived + 1
      /\ Range(new) = Range(kept) \cup {arrived + 1}
  BY <1>3, AppendIs
<1>6. Len(kept) \in Nat
  BY <1>1, <1>2, <1>3
<1> HIDE DEF new
<1>7. /\ Len(new) = Len(old) - over + 1 /\ Len(new) <= Cap
      /\ DOMAIN new = 1..Len(new) /\ new[Len(new)] = arrived + 1
      /\ \A i \in 1..(Len(new) - 1) : i + over \in DOMAIN old /\ new[i] = old[i + over]
  BY <1>1, <1>2, <1>3, <1>5, <1>6
<1>8. new = NewItems(q) /\ kept = KeptItems(q)
  BY DEF NewItems, KeptItems, new, kept, old, over
<1>9. QED
  BY <1>1, <1>2, <1>4, <1>5, <1>7, <1>8 DEF old, over

\* What the check after an enqueue does to the drains.
LEMMA RecheckIs ==
  ASSUME TypeOK, NEW q \in Queues, Recheck(q)
  PROVE  /\ drain' \in [Queues -> DrainStates] /\ UNCHANGED <<oneByOne, turn>>
         /\ \A r \in Queues : r # q => drain'[r] = drain[r]
         /\ drain[q] # "off" => drain'[q] = drain[q]
         /\ drain[q] = "off" => drain'[q] = "looping" \/ (drain'[q] = "off" /\ SessionActive)
         /\ drain'[q] # "running" => drain[q] # "running"
BY DEF Recheck, TypeOK, DrainStates

\* What scheduleFollowupDrain does.
LEMMA ScheduledIs ==
  ASSUME NEW d \in [Queues -> DrainStates], current \in Queues \cup {NoQueue}
  PROVE  /\ Scheduled(d) \in [Queues -> DrainStates]
         /\ \A r \in Queues : \/ Scheduled(d)[r] = d[r]
                              \/ r = current /\ d[r] = "off" /\ Scheduled(d)[r] = "looping"
         /\ current # NoQueue => Scheduled(d)[current] # "off"
BY FollowupQueueAssumption DEF Scheduled, DrainStates

\* What leaving the drain's loop does.
LEMMA FinishIs ==
  ASSUME TypeOK, NEW q \in Queues, Finish(q)
  PROVE  /\ current' = NoQueue \/ current' = current
         /\ items[q] = <<>> /\ dropped[q] = {} => current' = NoQueue
         /\ ~(items[q] = <<>> /\ dropped[q] = {}) => current' = current
         /\ drain' \in [Queues -> DrainStates]
         /\ oneByOne' \in [Queues -> BOOLEAN]
         /\ turn' \in [Queues -> Turns]
         /\ turn'[q] = NoTurn /\ drain'[q] \in {"off", "looping"}
         /\ \A r \in Queues : r # q => turn'[r] = turn[r]
         /\ \A r \in Queues : r # q => \/ drain'[r] = drain[r]
                                       \/ r = current /\ drain'[r] = "looping" /\ drain[r] = "off"
         /\ current' \in Queues => drain'[current'] # "off"
         /\ \A r \in Queues : r # current => drain'[r] = drain[r] \/ (r = q /\ drain'[r] = "off")
<1> DEFINE idle == [drain EXCEPT ![q] = "off"]
<1>1. /\ idle \in [Queues -> DrainStates] /\ idle[q] = "off"
      /\ \A r \in Queues : r # q => idle[r] = drain[r]
      /\ current \in Queues \cup {NoQueue}
  BY DEF TypeOK, DrainStates
<1>2. /\ oneByOne' \in [Queues -> BOOLEAN] /\ turn' \in [Queues -> Turns]
      /\ turn'[q] = NoTurn
      /\ \A r \in Queues : r # q => turn'[r] = turn[r]
  BY NoTurnType DEF Finish, TypeOK, Turns
<1>3. CASE items[q] = <<>> /\ dropped[q] = {}
  <2>1. current' = NoQueue /\ drain' = idle
    BY <1>3 DEF Finish
  <2> HIDE DEF idle
  <2>2. current' \notin Queues
    BY <2>1, FollowupQueueAssumption
  <2>3. /\ drain' \in [Queues -> DrainStates] /\ drain'[q] \in {"off", "looping"}
        /\ \A r \in Queues : r # q => drain'[r] = drain[r]
        /\ drain'[q] = "off"
    BY <1>1, <2>1
  <2>4. \A r \in Queues : r # current => drain'[r] = drain[r] \/ (r = q /\ drain'[r] = "off")
    BY <2>3
  <2>5. QED
    BY <1>2, <1>3, <2>1, <2>2, <2>3, <2>4
<1>4. CASE ~(items[q] = <<>> /\ dropped[q] = {})
  <2>1. current' = current /\ drain' = Scheduled(idle)
    BY <1>4 DEF Finish
  <2> HIDE DEF idle
  <2>2. /\ Scheduled(idle) \in [Queues -> DrainStates]
        /\ \A r \in Queues : \/ Scheduled(idle)[r] = idle[r]
                             \/ r = current /\ idle[r] = "off" /\ Scheduled(idle)[r] = "looping"
        /\ current # NoQueue => Scheduled(idle)[current] # "off"
    BY <1>1, ScheduledIs
  <2>3. current' \in Queues => current # NoQueue
    BY <2>1, FollowupQueueAssumption
  <2>4. /\ drain' \in [Queues -> DrainStates] /\ drain'[q] \in {"off", "looping"}
        /\ current' \in Queues => drain'[current'] # "off"
    BY <1>1, <2>1, <2>2, <2>3
  <2>5. ASSUME NEW r \in Queues, r # q
        PROVE  drain'[r] = drain[r] \/ (r = current /\ drain'[r] = "looping" /\ drain[r] = "off")
    <3>1. idle[r] = drain[r] /\ drain'[r] = Scheduled(idle)[r]
      BY <1>1, <2>1, <2>5
    <3>2. QED
      BY <2>2, <3>1
  <2>6. ASSUME NEW r \in Queues, r # current
        PROVE  drain'[r] = drain[r] \/ (r = q /\ drain'[r] = "off")
    <3>1. drain'[r] = idle[r]
      BY <2>1, <2>2, <2>6
    <3>2. QED
      BY <1>1, <3>1
  <2>7. QED
    BY <1>2, <1>4, <2>1, <2>4, <2>5, <2>6
<1>5. QED
  BY <1>3, <1>4

---------------------------------------------------------------------------
(* Types.                                                                  *)

LEMMA TypeInit == Init => TypeOK
<1> SUFFICES ASSUME Init PROVE TypeOK
  OBVIOUS
<1>1. items \in [Queues -> Seq(Messages)] /\ \A q \in Queues : Len(items[q]) <= Cap
  BY FollowupQueueAssumption DEF Init
<1>2. turn \in [Queues -> Turns]
  BY NoTurnType DEF Init
<1>3. settings.mode \in Modes /\ settings.policy \in Policies
  BY DEF Init
<1>4. mode \in [Queues -> Modes] /\ policy \in [Queues -> Policies]
  BY <1>3 DEF Init
<1>5. changes \in 0..MaxChanges /\ arrived \in 0..NMessages
  BY FollowupQueueAssumption DEF Init
<1>6. QED
  BY <1>1, <1>2, <1>4, <1>5 DEF Init, TypeOK, Turns

\* The steps by which a drain gives a turn its messages.
LEMMA TurnType ==
  ASSUME TypeOK, NEW q \in Queues, CollectTurn(q) \/ SingleTurn(q) \/ SummaryTurn(q)
  PROVE  /\ turn'[q] \in Turns
         /\ turn' = [turn EXCEPT ![q] = turn'[q]]
         /\ drain' = [drain EXCEPT ![q] = "running"]
         /\ drain[q] = "waiting"
         /\ oneByOne' \in [Queues -> BOOLEAN]
         /\ lossy' \in BOOLEAN
         /\ UNCHANGED <<current, objects, session, arrived, accepted, answered, summarised, dismissed>>
<1>1. CASE CollectTurn(q)
  <2> DEFINE t == [given |-> Range(items[q]),
                   summary |-> IF HasSummary(q) THEN dropped[q] ELSE {},
                   take |-> Len(items[q])]
  <2>1. t \in Turns
    BY ItemsType DEF Turns
  <2>2. StartTurn(q, t) /\ UNCHANGED <<oneByOne, lossy>>
    BY <1>1 DEF CollectTurn
  <2> HIDE DEF t
  <2>3. QED
    BY <2>1, <2>2 DEF StartTurn, TypeOK
<1>2. CASE SingleTurn(q)
  <2> DEFINE t == [given |-> {Head(items[q])}, summary |-> {}, take |-> 1]
  <2>1. items[q] # <<>> /\ StartTurn(q, t) /\ UNCHANGED lossy
        /\ oneByOne' = [oneByOne EXCEPT ![q] = @ \/ mode[q] = "collect"]
    BY <1>2 DEF SingleTurn
  <2>2. Head(items[q]) \in Messages
    BY <2>1, ItemsType
  <2>3. t \in Turns
    BY <2>2, ItemsType DEF Turns
  <2>4. oneByOne' \in [Queues -> BOOLEAN]
    BY <2>1 DEF TypeOK
  <2> HIDE DEF t
  <2>5. QED
    BY <2>1, <2>3, <2>4 DEF StartTurn, TypeOK
<1>3. CASE SummaryTurn(q)
  <2> DEFINE t == [given |-> {}, summary |-> dropped[q], take |-> 1]
  <2>1. StartTurn(q, t) /\ lossy' = TRUE /\ UNCHANGED oneByOne
    BY <1>3 DEF SummaryTurn
  <2>2. t \in Turns
    BY ItemsType DEF Turns
  <2> HIDE DEF t
  <2>3. QED
    BY <2>1, <2>2 DEF StartTurn, TypeOK
<1>4. QED
  BY <1>1, <1>2, <1>3

LEMMA TypeStep == TypeOK /\ [Next]_vars => TypeOK'
<1> SUFFICES ASSUME TypeOK, [Next]_vars
             PROVE  TypeOK'
  OBVIOUS
<1> USE FollowupQueueAssumption
<1>a. settings.mode \in Modes /\ settings.policy \in Policies
  BY DEF TypeOK
<1>1. ASSUME NEW q \in Queues, EnqueueFollowupRun(q) PROVE TypeOK'
  <2>1. /\ arrived + 1 \in Messages /\ current' = q /\ arrived' = arrived + 1
        /\ items' = [items EXCEPT ![q] = NewItems(q)]
        /\ hasRun' = [hasRun EXCEPT ![q] = TRUE]
        /\ mode' = [mode EXCEPT ![q] = settings.mode]
        /\ policy' = [policy EXCEPT ![q] = settings.policy]
        /\ accepted' = accepted \cup {arrived + 1}
        /\ Recheck(q) /\ UNCHANGED <<session, answered, summarised>>
    BY <1>1 DEF EnqueueFollowupRun, NewItems, KeptItems
  <2> DEFINE out == Oldest(ItemsOf(q), Excess(q))
  <2>2. /\ dropped' = [dropped EXCEPT ![q] =
                         IF settings.policy = "summarize" THEN DroppedOf(q) \cup out ELSE DroppedOf(q)]
        /\ dismissed' = (IF settings.policy = "old" THEN dismissed \cup out ELSE dismissed)
        /\ lossy' \in BOOLEAN
    BY <1>1 DEF EnqueueFollowupRun
  <2>3. out \subseteq Messages /\ DroppedOf(q) \subseteq Messages
    BY <2>1, NewItemsIs, ItemsType DEF DroppedOf
  <2> HIDE DEF out
  <2>4. items' \in [Queues -> Seq(Messages)] /\ \A r \in Queues : Len(items'[r]) <= Cap
    BY <2>1, NewItemsIs DEF TypeOK
  <2>5. dropped' \in [Queues -> SUBSET Messages] /\ dismissed' \subseteq Messages
    BY <2>2, <2>3 DEF TypeOK
  <2>6. drain' \in [Queues -> DrainStates] /\ UNCHANGED <<oneByOne, turn>>
    BY <2>1, RecheckIs
  <2>7. arrived' \in 0..NMessages /\ accepted' \subseteq Messages
    BY <2>1 DEF TypeOK, Messages
  <2>8. QED
    BY <1>a, <2>1, <2>2, <2>4, <2>5, <2>6, <2>7 DEF TypeOK, DrainStates, session
<1>2. ASSUME NEW q \in Queues, EnqueueRefused(q) PROVE TypeOK'
  <2>1. /\ arrived < NMessages /\ arrived' = arrived + 1
        /\ hasRun' = [hasRun EXCEPT ![q] = TRUE]
        /\ mode' = [mode EXCEPT ![q] = settings.mode]
        /\ policy' = [policy EXCEPT ![q] = settings.policy]
        /\ Recheck(q)
        /\ UNCHANGED <<current, items, dropped, session, accepted, answered, summarised,
                       dismissed, lossy>>
    BY <1>2 DEF EnqueueRefused
  <2>2. drain' \in [Queues -> DrainStates] /\ UNCHANGED <<oneByOne, turn>>
    BY <2>1, RecheckIs
  <2>3. arrived' \in 0..NMessages
    BY <2>1 DEF TypeOK
  <2>4. QED
    BY <1>a, <2>1, <2>2, <2>3 DEF TypeOK, DrainStates, session
<1>3. ASSUME NEW q \in Queues, EnqueueDuplicate(q) PROVE TypeOK'
  <2>1. /\ current' = q
        /\ hasRun' = [hasRun EXCEPT ![q] = current # NoQueue /\ @]
        /\ mode' = [mode EXCEPT ![q] = settings.mode]
        /\ policy' = [policy EXCEPT ![q] = settings.policy]
        /\ items' = [items EXCEPT ![q] = ItemsOf(q)]
        /\ dropped' = [dropped EXCEPT ![q] = DroppedOf(q)]
        /\ Recheck(q)
        /\ UNCHANGED <<session, ghosts>>
    BY <1>3 DEF EnqueueDuplicate
  <2>2. drain' \in [Queues -> DrainStates] /\ UNCHANGED <<oneByOne, turn>>
    BY <2>1, RecheckIs
  <2>3. ItemsOf(q) \in Seq(Messages) /\ Len(ItemsOf(q)) <= Cap /\ DroppedOf(q) \subseteq Messages
    BY ItemsType DEF ItemsOf, DroppedOf
  <2>4. items' \in [Queues -> Seq(Messages)] /\ \A r \in Queues : Len(items'[r]) <= Cap
    BY <2>1, <2>3 DEF TypeOK
  <2>5. dropped' \in [Queues -> SUBSET Messages]
    BY <2>1, <2>3 DEF TypeOK
  <2>6. hasRun' \in [Queues -> BOOLEAN]
    BY <2>1 DEF TypeOK
  <2>7. QED
    BY <1>a, <2>1, <2>2, <2>4, <2>5, <2>6 DEF TypeOK, DrainStates, session, ghosts
<1>4. CASE ClearFollowupQueue
  <2>1. /\ current \in Queues /\ current' = NoQueue
        /\ dismissed' = dismissed \cup Range(items[current]) \cup dropped[current]
        /\ items' = [items EXCEPT ![current] = <<>>]
        /\ dropped' = [dropped EXCEPT ![current] = {}]
        /\ hasRun' = [hasRun EXCEPT ![current] = FALSE]
        /\ lossy' \in BOOLEAN
        /\ UNCHANGED <<mode, policy, drains, session, arrived, accepted, answered, summarised>>
    BY <1>4 DEF ClearFollowupQueue, TypeOK
  <2>2. dismissed' \subseteq Messages
    BY <2>1, ItemsType DEF TypeOK
  <2>3. items' \in [Queues -> Seq(Messages)] /\ \A r \in Queues : Len(items'[r]) <= Cap
    BY <2>1 DEF TypeOK
  <2>4. QED
    BY <2>1, <2>2, <2>3 DEF TypeOK, drains, session
<1>5. CASE ChangeSettings
  <2>1. /\ changes' \in 0..MaxChanges /\ settings' \in [mode : Modes, policy : Policies]
        /\ UNCHANGED <<current, objects, drains, mainRun, ghosts>>
    BY <1>5 DEF ChangeSettings, TypeOK
  <2>2. QED
    BY <2>1 DEF TypeOK, objects, drains, ghosts
<1>6. CASE MainRunStarts
  BY <1>6 DEF MainRunStarts, TypeOK, objects, drains, ghosts
<1>7. CASE MainRunEnds
  <2>1. drain' \in [Queues -> DrainStates]
    BY <1>7, ScheduledIs DEF MainRunEnds, TypeOK, DrainStates
  <2>2. QED
    BY <1>7, <2>1 DEF MainRunEnds, TypeOK, objects, ghosts, DrainStates
<1>8. ASSUME NEW q \in Queues, LoopContinues(q) PROVE TypeOK'
  <2>1. drain' \in [Queues -> DrainStates]
    BY <1>8 DEF LoopContinues, TypeOK, DrainStates
  <2>2. QED
    BY <1>8, <2>1 DEF LoopContinues, TypeOK, objects, session, ghosts, DrainStates
<1>9. ASSUME NEW q \in Queues, Finish(q), UNCHANGED <<objects, session, ghosts>> PROVE TypeOK'
  BY <1>9, FinishIs DEF TypeOK, objects, session, ghosts, DrainStates, Turns
<1>10. ASSUME NEW q \in Queues, CollectTurn(q) \/ SingleTurn(q) \/ SummaryTurn(q) PROVE TypeOK'
  <2>1. turn' \in [Queues -> Turns] /\ drain' \in [Queues -> DrainStates]
    BY <1>10, TurnType DEF TypeOK, DrainStates, Turns
  <2>2. QED
    BY <1>10, <2>1, TurnType DEF TypeOK, objects, session, DrainStates, Turns
<1>11. ASSUME NEW q \in Queues, TurnEnds(q) PROVE TypeOK'
  <2>1. /\ answered' = answered \cup turn[q].given
        /\ summarised' = summarised \cup turn[q].summary
        /\ items' = [items EXCEPT ![q] = Without(@, turn[q].take)]
        /\ dropped' = [dropped EXCEPT ![q] = IF turn[q].summary = {} THEN @ ELSE {}]
        /\ drain' = [drain EXCEPT ![q] = "looping"]
        /\ turn' = [turn EXCEPT ![q] = NoTurn]
        /\ UNCHANGED <<current, hasRun, mode, policy, oneByOne, session, arrived, accepted,
                       dismissed, lossy>>
    BY <1>11 DEF TurnEnds
  <2>2. /\ Without(items[q], turn[q].take) \in Seq(Messages)
        /\ Len(Without(items[q], turn[q].take)) <= Cap
    BY ItemsType, WithoutIs
  <2>3. items' \in [Queues -> Seq(Messages)] /\ \A r \in Queues : Len(items'[r]) <= Cap
    BY <2>1, <2>2 DEF TypeOK
  <2>4. turn' \in [Queues -> Turns]
    BY <2>1, NoTurnType DEF TypeOK, Turns
  <2>5. answered' \subseteq Messages /\ summarised' \subseteq Messages
    BY <2>1, ItemsType DEF TypeOK
  <2>6. dropped' \in [Queues -> SUBSET Messages]
    BY <2>1 DEF TypeOK
  <2>7. QED
    BY <2>1, <2>3, <2>4, <2>5, <2>6 DEF TypeOK, session, Turns
<1>12. ASSUME NEW q \in Queues, LoopEnds(q) \/ NothingToRun(q) \/ TurnThrows(q) PROVE TypeOK'
  BY <1>9, <1>12 DEF LoopEnds, NothingToRun, TurnThrows
<1>13. CASE UNCHANGED vars
  BY <1>13 DEF vars, objects, drains, session, ghosts, TypeOK
<1>14. QED
  BY <1>1, <1>2, <1>3, <1>4, <1>5, <1>6, <1>7, <1>8, <1>10, <1>11, <1>12, <1>13
     DEF Next, DrainStep

\* Type correctness of the follow-up queue; no queue grows beyond the cap.
THEOREM Typing == Spec => []TypeOK
BY TypeInit, TypeStep, PTL DEF Spec

---------------------------------------------------------------------------
(* What waits and what a turn was given.                                   *)

HeldInv == ArrivalOrder /\ HeldOnce /\ HeldArrived

\* Steps that empty queues or end turns at most.
LEMMA HeldShrinks ==
  ASSUME TypeOK, HeldInv, answered' = answered,
         arrived' = arrived \/ arrived' = arrived + 1,
         \A r \in Queues : items'[r] = items[r] \/ items'[r] = <<>>,
         \A r \in Queues : turn'[r] = turn[r] \/ turn'[r] = NoTurn
  PROVE  HeldInv'
<1>1. \A r \in Queues : items'[r] = <<>> => DOMAIN items'[r] = {} /\ Range(items'[r]) = {}
  BY DEF Range
<1>2. \A r \in Queues : turn'[r] = NoTurn => turn'[r].given = {}
  BY DEF NoTurn
<1>3. \A r \in Queues : Holds(r)' \subseteq Holds(r)
  BY <1>1, <1>2 DEF Holds
<1>4. 1..arrived \subseteq 1..arrived'
  BY DEF TypeOK
<1>5. ArrivalOrder'
  <2> SUFFICES ASSUME NEW r \in Queues
               PROVE  /\ \A i, j \in DOMAIN items'[r] : i < j => items'[r][i] < items'[r][j]
                      /\ \A i \in DOMAIN items'[r] :
                           i > turn'[r].take => \A n \in turn'[r].given : n < items'[r][i]
    BY DEF ArrivalOrder
  <2>1. CASE items'[r] = <<>>
    BY <1>1, <2>1
  <2>2. CASE items'[r] = items[r] /\ turn'[r] = NoTurn
    BY <1>2, <2>2 DEF HeldInv, ArrivalOrder
  <2>3. CASE items'[r] = items[r] /\ turn'[r] = turn[r]
    BY <2>3 DEF HeldInv, ArrivalOrder
  <2>4. QED
    BY <2>1, <2>2, <2>3
<1>6. HeldOnce'
  BY <1>3 DEF HeldInv, HeldOnce
<1>7. HeldArrived'
  BY <1>3, <1>4 DEF HeldInv, HeldArrived
<1>8. QED
  BY <1>5, <1>6, <1>7 DEF HeldInv

\* The queue that an enqueue works on.
LEMMA QueueForIs ==
  ASSUME TypeOK, TurnsOnlyRunning, NEW q \in Queues, QueueFor(q)
  PROVE  /\ current # NoQueue => q = current /\ ItemsOf(q) = items[q]
         /\ current = NoQueue => turn[q] = NoTurn /\ drain[q] = "off" /\ ItemsOf(q) = <<>>
         /\ Range(ItemsOf(q)) = Waiting /\ DroppedOf(q) = Counted
         /\ Range(ItemsOf(q)) \subseteq Range(items[q])
<1>1. Range(<<>>) = {}
  BY DEF Range
<1>2. CASE current # NoQueue
  BY <1>2 DEF QueueFor, ItemsOf, DroppedOf, Waiting, Counted
<1>3. CASE current = NoQueue
  <2>1. ~Reachable(q)
    BY <1>3 DEF QueueFor
  <2>2. drain[q] = "off"
    BY <2>1 DEF Reachable
  <2>3. turn[q] = NoTurn
    BY <2>2 DEF TurnsOnlyRunning
  <2>4. QED
    BY <1>1, <1>3, <2>2, <2>3 DEF ItemsOf, DroppedOf, Waiting, Counted
<1>4. QED
  BY <1>2, <1>3

\* What a turn is given comes from its queue, oldest first.
LEMMA GivenFromItems ==
  ASSUME TypeOK, ArrivalOrder, NEW q \in Queues, CollectTurn(q) \/ SingleTurn(q) \/ SummaryTurn(q)
  PROVE  /\ turn'[q].given \subseteq Range(items[q])
         /\ \A i \in DOMAIN items[q] :
              i > turn'[q].take => \A n \in turn'[q].given : n < items[q][i]
         /\ ~lossy' => /\ ~lossy /\ turn'[q].take <= Len(items[q])
                       /\ \A i \in 1..turn'[q].take : items[q][i] \in turn'[q].given
                       /\ turn'[q].summary # {} => dropped[q] \subseteq turn'[q].summary
<1>1. /\ items[q] \in Seq(Messages) /\ Len(items[q]) \in Nat /\ DOMAIN items[q] = 1..Len(items[q])
      /\ turn \in [Queues -> Turns]
  BY ItemsType DEF TypeOK, Turns
<1>2. CASE CollectTurn(q)
  <2> DEFINE t == [given |-> Range(items[q]),
                   summary |-> IF HasSummary(q) THEN dropped[q] ELSE {},
                   take |-> Len(items[q])]
  <2>1. turn'[q] = t /\ lossy' = lossy
    BY <1>1, <1>2 DEF CollectTurn, StartTurn
  <2>2. t.given = Range(items[q]) /\ t.take = Len(items[q]) /\ t.summary \in {dropped[q], {}}
    OBVIOUS
  <2>3. \A i \in 1..Len(items[q]) : items[q][i] \in Range(items[q])
    BY <1>1 DEF Range
  <2> HIDE DEF t
  <2>4. QED
    BY <1>1, <2>1, <2>2, <2>3
<1>3. CASE SingleTurn(q)
  <2> DEFINE t == [given |-> {Head(items[q])}, summary |-> {}, take |-> 1]
  <2>1. turn'[q] = t /\ items[q] # <<>> /\ lossy' = lossy
    BY <1>1, <1>3 DEF SingleTurn, StartTurn
  <2>2. Len(items[q]) >= 1 /\ Head(items[q]) = items[q][1]
    BY <1>1, <2>1
  <2>3. t.given = {items[q][1]} /\ t.take = 1 /\ t.summary = {}
    BY <2>2
  <2>4. items[q][1] \in Range(items[q])
    BY <1>1, <2>2 DEF Range
  <2>5. \A i \in DOMAIN items[q] : i > 1 => items[q][1] < items[q][i]
    BY <1>1, <2>2 DEF ArrivalOrder
  <2> HIDE DEF t
  <2>6. QED
    BY <1>1, <2>1, <2>2, <2>3, <2>4, <2>5
<1>4. CASE SummaryTurn(q)
  <2> DEFINE t == [given |-> {}, summary |-> dropped[q], take |-> 1]
  <2>1. turn'[q] = t /\ items[q] # <<>> /\ lossy' = TRUE
    BY <1>1, <1>4 DEF SummaryTurn, StartTurn
  <2>2. t.given = {}
    OBVIOUS
  <2> HIDE DEF t
  <2>3. QED
    BY <2>1, <2>2
<1>5. QED
  BY <1>2, <1>3, <1>4

LEMMA HeldStep == TypeOK /\ TurnsOnlyRunning /\ HeldInv /\ [Next]_vars => TurnsOnlyRunning' /\ HeldInv'
<1> SUFFICES ASSUME TypeOK, TurnsOnlyRunning, HeldInv, [Next]_vars
             PROVE  TurnsOnlyRunning' /\ HeldInv'
  OBVIOUS
<1> USE FollowupQueueAssumption
<1>a. turn' = turn /\ (\A r \in Queues : drain'[r] # "running" => drain[r] # "running")
        => TurnsOnlyRunning'
  BY DEF TurnsOnlyRunning
<1>b. /\ \A r \in Queues : drain[r] # "running" => turn[r] = NoTurn
      /\ answered \subseteq 1..arrived /\ arrived \in Nat
  BY DEF TurnsOnlyRunning, HeldInv, HeldArrived, TypeOK
<1>1. ASSUME NEW q \in Queues, EnqueueFollowupRun(q) PROVE TurnsOnlyRunning' /\ HeldInv'
  <2>1. /\ arrived + 1 \in Messages /\ arrived' = arrived + 1 /\ answered' = answered
        /\ items' = [items EXCEPT ![q] = NewItems(q)] /\ turn' = turn
        /\ QueueFor(q) /\ Recheck(q)
    BY <1>1 DEF EnqueueFollowupRun, NewItems, KeptItems, Recheck
  <2>2. TurnsOnlyRunning'
    BY <1>a, <2>1, RecheckIs
  <2> DEFINE new == NewItems(q)
             old == ItemsOf(q)
             over == Excess(q)
  <2>3. /\ Len(old) \in Nat /\ DOMAIN old = 1..Len(old) /\ over \in Nat /\ over <= Len(old)
        /\ Len(new) = Len(old) - over + 1 /\ DOMAIN new = 1..Len(new)
        /\ \A i \in 1..(Len(new) - 1) : i + over \in DOMAIN old /\ new[i] = old[i + over]
        /\ new[Len(new)] = arrived + 1
        /\ Range(new) \subseteq Range(old) \cup {arrived + 1}
        /\ old \in Seq(Messages)
    BY <2>1, NewItemsIs
  <2>4. Range(old) \subseteq Range(items[q]) /\ (old = items[q] \/ old = <<>>)
    BY <2>1, QueueForIs
  <2>5. /\ \A i \in DOMAIN old : old[i] <= arrived /\ old[i] \in Nat
        /\ \A i, j \in DOMAIN old : i < j => old[i] < old[j]
        /\ \A i \in DOMAIN old : i > turn[q].take => \A n \in turn[q].given : n < old[i]
    <3>1. CASE old = <<>>
      BY <3>1
    <3>2. CASE old = items[q]
      <4>1. Range(items[q]) \subseteq 1..arrived
        BY DEF HeldInv, HeldArrived, Holds
      <4>2. \A i \in DOMAIN old : old[i] \in 1..arrived
        BY <3>2, <4>1 DEF Range
      <4>3. QED
        BY <1>b, <3>2, <4>2 DEF HeldInv, ArrivalOrder
    <3>3. QED
      BY <2>4, <3>1, <3>2
  <2>6. /\ items'[q] = new /\ turn'[q] = turn[q]
        /\ \A r \in Queues \ {q} : items'[r] = items[r] /\ turn'[r] = turn[r]
    BY <2>1 DEF TypeOK
  <2>7. turn[q].given \subseteq 1..arrived /\ turn[q].take \in Nat
    BY ItemsType DEF HeldInv, HeldArrived, Holds
  <2> HIDE DEF new, old, over
  <2>8. ArrivalOrder'
    <3>1. ASSUME NEW i \in DOMAIN new, NEW j \in DOMAIN new, i < j
          PROVE  new[i] < new[j]
      <4>1. i \in 1..(Len(new) - 1) /\ i + over \in DOMAIN old /\ new[i] = old[i + over]
        BY <2>3, <3>1
      <4>2. CASE j = Len(new)
        BY <1>b, <2>3, <2>5, <4>1, <4>2
      <4>3. CASE j # Len(new)
        <5>1. j + over \in DOMAIN old /\ new[j] = old[j + over] /\ i + over < j + over
          BY <2>3, <3>1, <4>3
        <5>2. QED
          BY <2>5, <4>1, <5>1
      <4>4. QED
        BY <4>2, <4>3
    <3>2. ASSUME NEW i \in DOMAIN new, i > turn[q].take, NEW n \in turn[q].given
          PROVE  n < new[i]
      <4>1. CASE i = Len(new)
        BY <1>b, <2>3, <2>7, <4>1
      <4>2. CASE i # Len(new)
        <5>1. i + over \in DOMAIN old /\ new[i] = old[i + over] /\ i + over > turn[q].take
          BY <2>3, <2>7, <3>2, <4>2
        <5>2. QED
          BY <2>5, <5>1
      <4>3. QED
        BY <4>1, <4>2
    <3>3. QED
      BY <2>6, <3>1, <3>2 DEF HeldInv, ArrivalOrder
  <2>9. /\ Holds(q)' \subseteq Holds(q) \cup {arrived + 1}
        /\ \A r \in Queues \ {q} : Holds(r)' = Holds(r)
    BY <2>3, <2>4, <2>6 DEF Holds
  <2>10. \A r \in Queues : Holds(r) \subseteq 1..arrived /\ arrived + 1 \notin Holds(r)
    <3>1. arrived + 1 \notin 1..arrived
      BY <1>b
    <3>2. QED
      BY <3>1 DEF HeldInv, HeldArrived
  <2>11. arrived + 1 \notin answered
    BY <1>b
  <2>12. HeldOnce'
    BY <2>1, <2>9, <2>10, <2>11 DEF HeldInv, HeldOnce
  <2>13. HeldArrived'
    <3>1. 1..arrived \cup {arrived + 1} \subseteq 1..arrived'
      BY <1>b, <2>1
    <3>2. QED
      BY <1>b, <2>1, <2>9, <2>10, <3>1 DEF HeldArrived
  <2>14. QED
    BY <2>2, <2>8, <2>12, <2>13 DEF HeldInv
<1>2. ASSUME NEW q \in Queues, EnqueueRefused(q) PROVE TurnsOnlyRunning' /\ HeldInv'
  BY <1>2, <1>a, RecheckIs, HeldShrinks DEF EnqueueRefused
<1>3. ASSUME NEW q \in Queues, EnqueueDuplicate(q) PROVE TurnsOnlyRunning' /\ HeldInv'
  <2>1. /\ items' = [items EXCEPT ![q] = ItemsOf(q)] /\ QueueFor(q) /\ Recheck(q)
        /\ UNCHANGED ghosts
    BY <1>3 DEF EnqueueDuplicate
  <2>2. \A r \in Queues : items'[r] = items[r] \/ items'[r] = <<>>
    BY <2>1 DEF ItemsOf, TypeOK
  <2>3. QED
    BY <1>a, <2>1, <2>2, RecheckIs, HeldShrinks DEF ghosts
<1>4. CASE ClearFollowupQueue
  <2>1. \A r \in Queues : items'[r] = items[r] \/ items'[r] = <<>>
    BY <1>4 DEF ClearFollowupQueue, TypeOK
  <2>2. QED
    BY <1>4, <1>a, <2>1, HeldShrinks DEF ClearFollowupQueue, drains
<1>5. CASE ChangeSettings
  BY <1>5, <1>a, HeldShrinks DEF ChangeSettings, objects, drains, ghosts
<1>6. CASE MainRunStarts
  BY <1>6, <1>a, HeldShrinks DEF MainRunStarts, objects, drains, ghosts
<1>7. CASE MainRunEnds
  <2>1. \A r \in Queues : drain'[r] = "running" => drain[r] = "running"
    BY <1>7, ScheduledIs DEF MainRunEnds, TypeOK, DrainStates
  <2>2. \A r \in Queues : drain'[r] # "running" => drain[r] # "running"
    BY <1>7, ScheduledIs DEF MainRunEnds, TypeOK, DrainStates
  <2>3. QED
    BY <1>7, <1>a, <2>2, HeldShrinks DEF MainRunEnds, objects, ghosts
<1>8. ASSUME NEW q \in Queues, LoopContinues(q) PROVE TurnsOnlyRunning' /\ HeldInv'
  <2>1. \A r \in Queues : drain'[r] # "running" => drain[r] # "running"
    BY <1>8 DEF LoopContinues, TypeOK
  <2>2. QED
    BY <1>8, <1>a, <2>1, HeldShrinks DEF LoopContinues, objects, ghosts
<1>9. ASSUME NEW q \in Queues, Finish(q), UNCHANGED <<objects, session, ghosts>>
      PROVE  TurnsOnlyRunning' /\ HeldInv'
  <2>1. \A r \in Queues : turn'[r] = turn[r] \/ turn'[r] = NoTurn
    BY <1>9, FinishIs
  <2>2. ASSUME NEW r \in Queues, drain'[r] # "running" PROVE turn'[r] = NoTurn
    <3>1. CASE r = q
      BY <1>9, <3>1, FinishIs
    <3>2. CASE r # q
      BY <1>9, <1>b, <2>2, <3>2, FinishIs
    <3>3. QED
      BY <3>1, <3>2
  <2>3. QED
    BY <1>9, <2>1, <2>2, HeldShrinks DEF objects, ghosts, TurnsOnlyRunning
<1>10. ASSUME NEW q \in Queues, CollectTurn(q) \/ SingleTurn(q) \/ SummaryTurn(q)
       PROVE  TurnsOnlyRunning' /\ HeldInv'
  <2>1. /\ turn' = [turn EXCEPT ![q] = turn'[q]] /\ drain' = [drain EXCEPT ![q] = "running"]
        /\ UNCHANGED <<items, arrived, answered>>
    BY <1>10, TurnType DEF objects
  <2>2. /\ \A r \in Queues \ {q} : turn'[r] = turn[r] /\ drain'[r] = drain[r]
        /\ drain'[q] = "running"
    BY <2>1 DEF TypeOK
  <2>3. TurnsOnlyRunning'
    BY <1>b, <2>2 DEF TurnsOnlyRunning
  <2>4. /\ turn'[q].given \subseteq Range(items[q])
        /\ \A i \in DOMAIN items[q] :
              i > turn'[q].take => \A n \in turn'[q].given : n < items[q][i]
    BY <1>10, GivenFromItems DEF HeldInv
  <2>5. ArrivalOrder'
    BY <2>1, <2>2, <2>4 DEF HeldInv, ArrivalOrder
  <2>6. \A r \in Queues : Holds(r)' \subseteq Holds(r)
    BY <2>1, <2>2, <2>4 DEF Holds
  <2>7. QED
    BY <2>1, <2>3, <2>5, <2>6 DEF HeldInv, HeldOnce, HeldArrived
<1>11. ASSUME NEW q \in Queues, TurnEnds(q) PROVE TurnsOnlyRunning' /\ HeldInv'
  <2> DEFINE take == turn[q].take
             given == turn[q].given
  <2>1. /\ answered' = answered \cup given /\ arrived' = arrived
        /\ items'[q] = Without(items[q], take) /\ turn'[q] = NoTurn /\ drain'[q] = "looping"
        /\ \A r \in Queues \ {q} : items'[r] = items[r] /\ turn'[r] = turn[r] /\ drain'[r] = drain[r]
    BY <1>11 DEF TurnEnds, TypeOK
  <2>2. /\ take \in Nat /\ items[q] \in Seq(Messages) /\ given \subseteq Messages
    BY ItemsType
  <2>3. /\ DOMAIN items'[q] = 1..Len(items'[q])
        /\ \A i \in DOMAIN items'[q] : i + take \in DOMAIN items[q] /\ items'[q][i] = items[q][i + take]
    BY <2>1, <2>2, WithoutIs
  <2>4. \A i \in DOMAIN items[q] : i > take => \A n \in given : n < items[q][i]
    BY DEF HeldInv, ArrivalOrder
  <2> HIDE DEF take, given
  <2>5. given \subseteq Holds(q) /\ Range(items[q]) \subseteq Holds(q)
    BY DEF Holds, given
  <2>6. Range(items'[q]) \subseteq Range(items[q])
    BY <2>3 DEF Range
  <2>7. Range(items'[q]) \cap given = {}
    <3> SUFFICES ASSUME NEW i \in DOMAIN items'[q] PROVE items'[q][i] \notin given
      BY DEF Range
    <3>1. i \in 1..Len(items'[q]) /\ Len(items'[q]) \in Nat
      <4>1. items'[q] \in Seq(Messages)
        BY <2>1, <2>2, WithoutIs
      <4>2. QED
        BY <2>3, <4>1
    <3>2. i + take \in DOMAIN items[q] /\ i + take > take /\ items'[q][i] = items[q][i + take]
      BY <2>2, <2>3, <3>1
    <3>3. \A n \in given : n < items'[q][i]
      BY <2>4, <3>2
    <3>4. given \subseteq Int
      BY <2>2 DEF Messages
    <3>5. items'[q][i] \in given =>
            items'[q][i] \in Int /\ items'[q][i] < items'[q][i]
      BY <3>3, <3>4
    <3>6. QED
      BY <3>5
  <2>8. turn'[q].given = {}
    BY <2>1 DEF NoTurn
  <2>9. /\ Holds(q)' = Range(items'[q])
        /\ \A r \in Queues \ {q} : Holds(r)' = Holds(r)
    BY <2>1, <2>8 DEF Holds
  <2>10. TurnsOnlyRunning'
    BY <1>b, <2>1 DEF TurnsOnlyRunning
  <2>11. ArrivalOrder'
    <3>1. ASSUME NEW i \in DOMAIN items'[q], NEW j \in DOMAIN items'[q], i < j
          PROVE  items'[q][i] < items'[q][j]
      <4>1. /\ i + take \in DOMAIN items[q] /\ j + take \in DOMAIN items[q]
            /\ items'[q][i] = items[q][i + take] /\ items'[q][j] = items[q][j + take]
        BY <2>3
      <4>2. i \in Int /\ j \in Int
        BY <2>3
      <4>3. i + take < j + take
        BY <2>2, <3>1, <4>2
      <4>4. QED
        BY <4>1, <4>3 DEF HeldInv, ArrivalOrder
    <3>2. QED
      BY <2>1, <2>8, <3>1 DEF HeldInv, ArrivalOrder
  <2>12. HeldOnce'
    <3>1. \A r \in Queues : Holds(r)' \subseteq Holds(r)
      BY <2>5, <2>6, <2>9
    <3>2. \A r \in Queues : Holds(r)' \cap given = {}
      BY <2>5, <2>7, <2>9 DEF HeldInv, HeldOnce
    <3>3. QED
      BY <2>1, <3>1, <3>2 DEF HeldInv, HeldOnce
  <2>13. HeldArrived'
    BY <1>b, <2>1, <2>5, <2>6, <2>9 DEF HeldInv, HeldArrived
  <2>14. QED
    BY <2>10, <2>11, <2>12, <2>13 DEF HeldInv
<1>12. ASSUME NEW q \in Queues, LoopEnds(q) \/ NothingToRun(q) \/ TurnThrows(q)
       PROVE  TurnsOnlyRunning' /\ HeldInv'
  BY <1>9, <1>12 DEF LoopEnds, NothingToRun, TurnThrows
<1>13. CASE UNCHANGED vars
  BY <1>13, <1>a, HeldShrinks DEF vars, objects, drains, ghosts
<1>14. QED
  BY <1>1, <1>2, <1>3, <1>4, <1>5, <1>6, <1>7, <1>8, <1>10, <1>11, <1>12, <1>13
     DEF Next, DrainStep

---------------------------------------------------------------------------
(* What holds until a race.                                                *)

\* Until a race, a queue that is drained is the mapped one.
LEMMA DrainedIsMapped ==
  ASSUME UnlessRaced, ~lossy, NEW q \in Queues, drain[q] # "off"
  PROVE  q = current
BY DEF UnlessRaced, OnlyMappedDrains

\* Steps that leave the queues and what has become of messages alone.
LEMMA RacedUntouched ==
  ASSUME TypeOK, UnlessRaced, UNCHANGED <<items, dropped, accepted, answered, summarised, dismissed>>,
         lossy' = lossy, current' = current,
         \A r \in Queues : turn'[r] = turn[r] \/ turn'[r] = NoTurn,
         \A r \in Queues : r # current => drain'[r] = "off" \/ drain'[r] = drain[r]
  PROVE  UnlessRaced'
<1> SUFFICES ASSUME ~lossy
             PROVE  OnlyMappedDrains' /\ TurnCoversRemoved' /\ DealtWithOrWaiting' /\ AnsweredFirst'
  BY DEF UnlessRaced
<1>1. OnlyMappedDrains /\ TurnCoversRemoved /\ DealtWithOrWaiting /\ AnsweredFirst
  BY DEF UnlessRaced
<1>2. OnlyMappedDrains'
  BY <1>1 DEF OnlyMappedDrains
<1>3. NoTurn.take = 0 /\ NoTurn.summary = {} /\ \A r \in Queues : Len(items[r]) \in Nat
  BY ItemsType DEF NoTurn
<1>4. TurnCoversRemoved'
  BY <1>1, <1>3 DEF TurnCoversRemoved
<1>5. DealtWithOrWaiting' /\ AnsweredFirst'
  BY <1>1 DEF DealtWithOrWaiting, AnsweredFirst, Waiting, Counted
<1>6. QED
  BY <1>2, <1>4, <1>5

LEMMA RacedAfterEnqueue ==
  ASSUME TypeOK, TurnsOnlyRunning, HeldInv, UnlessRaced, NEW q \in Queues, EnqueueFollowupRun(q)
  PROVE  UnlessRaced'
<1> SUFFICES ASSUME ~lossy'
             PROVE  OnlyMappedDrains' /\ TurnCoversRemoved' /\ DealtWithOrWaiting' /\ AnsweredFirst'
  BY DEF UnlessRaced
<1> DEFINE new == NewItems(q)
           old == ItemsOf(q)
           over == Excess(q)
           out == Oldest(old, over)
<1>1. /\ arrived + 1 \in Messages /\ current' = q /\ QueueFor(q) /\ Recheck(q)
      /\ items' = [items EXCEPT ![q] = new] /\ turn' = turn
      /\ dropped' = [dropped EXCEPT ![q] =
                       IF settings.policy = "summarize" THEN DroppedOf(q) \cup out ELSE DroppedOf(q)]
      /\ dismissed' = (IF settings.policy = "old" THEN dismissed \cup out ELSE dismissed)
      /\ accepted' = accepted \cup {arrived + 1}
      /\ UNCHANGED <<answered, summarised>>
      /\ settings.policy = "new" => over = 0
      /\ lossy' = (lossy \/ (over > 0 /\ drain[q] = "running"))
  BY DEF EnqueueFollowupRun, NewItems, KeptItems, Recheck
<1>a. over \in Nat
  BY <1>1, NewItemsIs
<1>b. ~lossy /\ (over = 0 \/ drain[q] # "running")
  <2>1. ~(lossy \/ (over > 0 /\ drain[q] = "running"))
    BY <1>1, Zenon
  <2> HIDE DEF over
  <2>2. QED
    BY <1>a, <2>1
<1>2. OnlyMappedDrains /\ TurnCoversRemoved /\ DealtWithOrWaiting /\ AnsweredFirst
  BY <1>b DEF UnlessRaced
<1>3. /\ Len(old) \in Nat /\ DOMAIN old = 1..Len(old) /\ over \in Nat /\ over <= Len(old)
      /\ Len(new) = Len(old) - over + 1
      /\ \A i \in 1..(Len(new) - 1) : new[i] = old[i + over]
      /\ Range(new) = Range(KeptItems(q)) \cup {arrived + 1}
      /\ Range(old) = out \cup Range(KeptItems(q))
      /\ over = 0 => out = {}
  BY <1>1, NewItemsIs
<1>4. /\ current # NoQueue => q = current /\ old = items[q]
      /\ current = NoQueue => turn[q] = NoTurn /\ drain[q] = "off" /\ old = <<>>
      /\ Range(old) = Waiting /\ DroppedOf(q) = Counted
  BY <1>1, QueueForIs
<1>5. settings.policy \in {"summarize", "old", "new"}
  BY FollowupQueueAssumption DEF TypeOK
<1>6. /\ items'[q] = new
      /\ dropped'[q] = (IF settings.policy = "summarize" THEN DroppedOf(q) \cup out ELSE DroppedOf(q))
      /\ \A r \in Queues \ {q} : items'[r] = items[r] /\ dropped'[r] = dropped[r]
  BY <1>1 DEF TypeOK
<1>7. answered \subseteq 1..arrived /\ arrived \in Nat /\ q # NoQueue
  BY FollowupQueueAssumption DEF HeldInv, HeldArrived, TypeOK
<1> HIDE DEF new, old, over, out
<1>8. OnlyMappedDrains'
  <2> SUFFICES ASSUME NEW r \in Queues, r # q PROVE drain'[r] = "off"
    BY <1>1 DEF OnlyMappedDrains
  <2>1. drain'[r] = drain[r]
    BY <1>1, RecheckIs
  <2>2. r # current
    BY <1>4, FollowupQueueAssumption
  <2>3. QED
    BY <1>2, <2>1, <2>2 DEF OnlyMappedDrains
<1>9. TurnCoversRemoved'
  <2>1. ASSUME NEW r \in Queues, r # q
        PROVE  /\ turn'[r].take <= Len(items'[r])
               /\ \A i \in 1..turn'[r].take : items'[r][i] \in turn'[r].given
               /\ turn'[r].summary # {} => dropped'[r] \subseteq turn'[r].summary
    BY <1>1, <1>2, <1>6, <2>1 DEF TurnCoversRemoved
  <2>2. CASE drain[q] # "running"
    <3>1. turn'[q] = NoTurn
      BY <1>1, <2>2 DEF TurnsOnlyRunning
    <3>2. turn'[q].take = 0 /\ turn'[q].summary = {} /\ 0 <= Len(items'[q])
      BY <1>3, <1>6, <3>1 DEF NoTurn
    <3>3. QED
      BY <2>1, <3>2 DEF TurnCoversRemoved
  <2>3. CASE drain[q] = "running"
    <3>1. over = 0 /\ out = {} /\ old = items[q] /\ DroppedOf(q) = dropped[q]
      BY <1>b, <1>3, <1>4, <2>3 DEF DroppedOf
    <3>2. dropped'[q] = dropped[q]
      BY <1>6, <3>1
    <3>3. turn[q].take <= Len(items[q]) /\ turn[q].take \in Nat /\ Len(items[q]) \in Nat
      BY <1>2, ItemsType DEF TurnCoversRemoved
    <3>4. turn[q].take <= Len(new) /\ \A i \in 1..turn[q].take : new[i] = items[q][i]
      BY <1>3, <3>1, <3>3
    <3>5. QED
      BY <1>1, <1>2, <1>6, <2>1, <3>2, <3>4 DEF TurnCoversRemoved
  <2>4. QED
    BY <2>2, <2>3
<1>10. Waiting' = Range(new) /\ Counted' = dropped'[q]
  BY <1>1, <1>6, <1>7 DEF Waiting, Counted
<1>11. DealtWithOrWaiting'
  <2>1. accepted \subseteq answered \cup summarised \cup dismissed \cup Range(old) \cup DroppedOf(q)
    BY <1>2, <1>4 DEF DealtWithOrWaiting
  <2>2. out \subseteq dismissed' \cup dropped'[q] /\ DroppedOf(q) \subseteq dropped'[q]
        /\ dismissed \subseteq dismissed'
    BY <1>1, <1>3, <1>5, <1>6
  <2>3. QED
    BY <1>1, <1>3, <1>10, <2>1, <2>2 DEF DealtWithOrWaiting
<1>12. AnsweredFirst'
  <2>1. \A n \in answered : n < arrived + 1
    BY <1>7
  <2>2. \A n \in answered, m \in Range(old) : n < m
    BY <1>2, <1>4 DEF AnsweredFirst
  <2>3. QED
    BY <1>1, <1>3, <1>10, <2>1, <2>2 DEF AnsweredFirst
<1>13. QED
  BY <1>8, <1>9, <1>11, <1>12

LEMMA RacedAfterTurn ==
  ASSUME TypeOK, TurnsOnlyRunning, HeldInv, UnlessRaced, NEW q \in Queues, TurnEnds(q)
  PROVE  UnlessRaced'
<1> SUFFICES ASSUME ~lossy
             PROVE  OnlyMappedDrains' /\ TurnCoversRemoved' /\ DealtWithOrWaiting' /\ AnsweredFirst'
  BY DEF UnlessRaced, TurnEnds
<1> DEFINE take == turn[q].take
           given == turn[q].given
<1>1. /\ answered' = answered \cup given
      /\ summarised' = summarised \cup turn[q].summary
      /\ items'[q] = Without(items[q], take) /\ turn'[q] = NoTurn
      /\ dropped'[q] = (IF turn[q].summary = {} THEN dropped[q] ELSE {})
      /\ drain[q] = "running"
      /\ \A r \in Queues \ {q} : items'[r] = items[r] /\ turn'[r] = turn[r] /\ drain'[r] = drain[r]
                                 /\ dropped'[r] = dropped[r]
      /\ UNCHANGED <<current, accepted, dismissed>>
  BY DEF TurnEnds, TypeOK
<1>2. OnlyMappedDrains /\ TurnCoversRemoved /\ DealtWithOrWaiting /\ AnsweredFirst
  BY DEF UnlessRaced
<1>3. q = current /\ current # NoQueue
  BY <1>1, DrainedIsMapped, FollowupQueueAssumption
<1>4. /\ take \in Nat /\ take <= Len(items[q]) /\ items[q] \in Seq(Messages)
      /\ \A i \in 1..take : items[q][i] \in given
      /\ turn[q].summary # {} => dropped[q] \subseteq turn[q].summary
  BY <1>2, ItemsType DEF TurnCoversRemoved
<1>5. /\ Range(items[q]) = Oldest(items[q], take) \cup Range(items'[q])
      /\ Oldest(items[q], take) \subseteq given
      /\ DOMAIN items'[q] = 1..Len(items'[q]) /\ items'[q] \in Seq(Messages)
      /\ \A i \in DOMAIN items'[q] : i + take \in DOMAIN items[q] /\ items'[q][i] = items[q][i + take]
  <2>1. /\ Range(items[q]) = Oldest(items[q], take) \cup Range(Without(items[q], take))
        /\ \A m \in Oldest(items[q], take) : \E i \in 1..take : m = items[q][i]
    BY <1>4, OldestAndOthers
  <2>2. /\ DOMAIN Without(items[q], take) = 1..Len(Without(items[q], take))
        /\ Without(items[q], take) \in Seq(Messages)
        /\ \A i \in DOMAIN Without(items[q], take) :
             i + take \in DOMAIN items[q] /\ Without(items[q], take)[i] = items[q][i + take]
    BY <1>4, WithoutIs
  <2> HIDE DEF take, given
  <2>3. QED
    BY <1>1, <1>4, <2>1, <2>2
<1>6. \A i \in DOMAIN items[q] : i > take => \A n \in given : n < items[q][i]
  BY DEF HeldInv, ArrivalOrder
<1> HIDE DEF take, given
<1>7. OnlyMappedDrains'
  BY <1>1, <1>2, <1>3 DEF OnlyMappedDrains
<1>8. TurnCoversRemoved'
  <2>1. NoTurn.take = 0 /\ NoTurn.summary = {} /\ 0 <= Len(items'[q])
    BY <1>5 DEF NoTurn
  <2>2. QED
    BY <1>1, <1>2, <2>1 DEF TurnCoversRemoved
<1>9. /\ Waiting = Range(items[q]) /\ Counted = dropped[q]
      /\ Waiting' = Range(items'[q]) /\ Counted' = dropped'[q]
  BY <1>1, <1>3 DEF Waiting, Counted
<1>10. DealtWithOrWaiting'
  BY <1>1, <1>2, <1>4, <1>5, <1>9 DEF DealtWithOrWaiting
<1>11. AnsweredFirst'
  <2>1. ASSUME NEW n \in given, NEW i \in DOMAIN items'[q] PROVE n < items'[q][i]
    <3>1. i \in Nat \ {0}
      BY <1>5
    <3>2. i + take \in DOMAIN items[q] /\ i + take > take
      BY <1>4, <1>5, <3>1
    <3>3. QED
      BY <1>5, <1>6, <3>2
  <2>2. \A n \in given, m \in Range(items'[q]) : n < m
    BY <2>1 DEF Range
  <2>3. \A n \in answered, m \in Range(items'[q]) : n < m
    BY <1>2, <1>5, <1>9 DEF AnsweredFirst
  <2>4. QED
    BY <1>1, <1>9, <2>2, <2>3 DEF AnsweredFirst
<1>12. QED
  BY <1>7, <1>8, <1>10, <1>11

LEMMA RacedStep ==
  TypeOK /\ TurnsOnlyRunning /\ HeldInv /\ UnlessRaced /\ [Next]_vars => UnlessRaced'
<1> SUFFICES ASSUME TypeOK, TurnsOnlyRunning, HeldInv, UnlessRaced, [Next]_vars
             PROVE  UnlessRaced'
  OBVIOUS
<1> USE FollowupQueueAssumption
<1>1. ASSUME NEW q \in Queues, EnqueueFollowupRun(q) PROVE UnlessRaced'
  BY <1>1, RacedAfterEnqueue
<1>2. ASSUME NEW q \in Queues, EnqueueRefused(q) PROVE UnlessRaced'
  <2>1. /\ QueueFor(q) /\ Excess(q) > 0 /\ Recheck(q)
        /\ UNCHANGED <<current, items, dropped, accepted, answered, summarised, dismissed, lossy>>
    BY <1>2 DEF EnqueueRefused
  <2>2. q = current
    <3>1. CASE current = NoQueue
      <4>1. ItemsOf(q) = <<>>
        BY <3>1 DEF ItemsOf
      <4>2. QED
        BY <2>1, <4>1 DEF Excess
    <3>2. QED
      BY <2>1, <3>1 DEF QueueFor
  <2>3. turn' = turn /\ \A r \in Queues : r # current => drain'[r] = drain[r]
    BY <2>1, <2>2, RecheckIs
  <2>4. QED
    BY <2>1, <2>3, RacedUntouched
<1>3. ASSUME NEW q \in Queues, EnqueueDuplicate(q) PROVE UnlessRaced'
  <2>1. /\ QueueFor(q) /\ Recheck(q) /\ current' = q
        /\ items' = [items EXCEPT ![q] = ItemsOf(q)]
        /\ dropped' = [dropped EXCEPT ![q] = DroppedOf(q)]
        /\ UNCHANGED ghosts
    BY <1>3 DEF EnqueueDuplicate
  <2>2. /\ items'[q] = ItemsOf(q) /\ dropped'[q] = DroppedOf(q)
        /\ \A r \in Queues \ {q} : items'[r] = items[r] /\ dropped'[r] = dropped[r]
    BY <2>1 DEF TypeOK
  <2>3. /\ current # NoQueue => q = current /\ ItemsOf(q) = items[q]
        /\ current = NoQueue => turn[q] = NoTurn /\ drain[q] = "off"
        /\ Range(ItemsOf(q)) = Waiting /\ DroppedOf(q) = Counted
    BY <2>1, QueueForIs
  <2>4. turn' = turn /\ \A r \in Queues : r # q => drain'[r] = drain[r]
    BY <2>1, RecheckIs
  <2>5. Waiting' = Waiting /\ Counted' = Counted
    BY <2>1, <2>2, <2>3 DEF Waiting, Counted
  <2> SUFFICES ASSUME ~lossy
               PROVE  OnlyMappedDrains' /\ TurnCoversRemoved' /\ DealtWithOrWaiting' /\ AnsweredFirst'
    BY <2>1 DEF UnlessRaced, ghosts
  <2>6. OnlyMappedDrains /\ TurnCoversRemoved /\ DealtWithOrWaiting /\ AnsweredFirst
    BY DEF UnlessRaced
  <2>7. OnlyMappedDrains'
    BY <2>1, <2>3, <2>4, <2>6 DEF OnlyMappedDrains
  <2>8. TurnCoversRemoved'
    <3>1. CASE current # NoQueue
      BY <2>2, <2>3, <2>4, <2>6, <3>1 DEF TurnCoversRemoved, DroppedOf
    <3>2. CASE current = NoQueue
      <4>1. turn'[q].take = 0 /\ turn'[q].summary = {}
        BY <2>3, <2>4, <3>2 DEF NoTurn
      <4>2. 0 <= Len(items'[q])
        <5>1. ItemsOf(q) = <<>>
          BY <3>2 DEF ItemsOf
        <5>2. QED
          BY <2>2, <5>1
      <4>3. QED
        BY <2>2, <2>4, <2>6, <4>1, <4>2 DEF TurnCoversRemoved
    <3>3. QED
      BY <3>1, <3>2
  <2>9. DealtWithOrWaiting' /\ AnsweredFirst'
    BY <2>1, <2>5, <2>6 DEF DealtWithOrWaiting, AnsweredFirst, ghosts
  <2>10. QED
    BY <2>7, <2>8, <2>9
<1>4. CASE ClearFollowupQueue
  <2>1. /\ current \in Queues /\ current' = NoQueue
        /\ dismissed' = dismissed \cup Range(items[current]) \cup dropped[current]
        /\ items' = [items EXCEPT ![current] = <<>>]
        /\ dropped' = [dropped EXCEPT ![current] = {}]
        /\ lossy' = (lossy \/ drain[current] # "off")
        /\ UNCHANGED <<drain, turn, accepted, answered, summarised>>
    BY <1>4 DEF ClearFollowupQueue, TypeOK, drains
  <2> SUFFICES ASSUME ~lossy'
               PROVE  OnlyMappedDrains' /\ TurnCoversRemoved' /\ DealtWithOrWaiting' /\ AnsweredFirst'
    BY DEF UnlessRaced
  <2>2. ~lossy /\ drain[current] = "off"
    <3>1. ~(lossy \/ drain[current] # "off")
      BY <2>1, Zenon
    <3>2. QED
      BY <3>1
  <2>3. OnlyMappedDrains /\ DealtWithOrWaiting
    BY <2>2 DEF UnlessRaced
  <2>4. \A r \in Queues : drain[r] = "off"
    BY <2>2, <2>3 DEF OnlyMappedDrains
  <2>5. \A r \in Queues : turn[r] = NoTurn
    BY <2>4 DEF TurnsOnlyRunning
  <2>6. \A r \in Queues : items'[r] \in Seq(Messages)
    BY <2>1 DEF TypeOK
  <2>7. OnlyMappedDrains' /\ TurnCoversRemoved'
    BY <2>1, <2>4, <2>5, <2>6 DEF OnlyMappedDrains, TurnCoversRemoved, NoTurn
  <2>8. Waiting' = {} /\ Counted' = {}
    BY <2>1 DEF Waiting, Counted
  <2>9. Waiting = Range(items[current]) /\ Counted = dropped[current]
    BY <2>1 DEF Waiting, Counted
  <2>10. DealtWithOrWaiting' /\ AnsweredFirst'
    BY <2>1, <2>3, <2>8, <2>9 DEF DealtWithOrWaiting, AnsweredFirst
  <2>11. QED
    BY <2>7, <2>10
<1>5. CASE ChangeSettings
  BY <1>5, RacedUntouched DEF ChangeSettings, objects, drains, ghosts
<1>6. CASE MainRunStarts
  BY <1>6, RacedUntouched DEF MainRunStarts, objects, drains, ghosts
<1>7. CASE MainRunEnds
  <2>1. \A r \in Queues : r # current => drain'[r] = drain[r]
    BY <1>7, ScheduledIs DEF MainRunEnds, TypeOK, DrainStates
  <2>2. QED
    BY <1>7, <2>1, RacedUntouched DEF MainRunEnds, objects, ghosts
<1>8. ASSUME NEW q \in Queues, LoopContinues(q) PROVE UnlessRaced'
  <2>1. /\ drain' = [drain EXCEPT ![q] = "waiting"] /\ drain[q] # "off"
        /\ UNCHANGED <<current, objects, turn, ghosts>>
    BY <1>8 DEF LoopContinues
  <2>2. CASE lossy
    BY <2>1, <2>2 DEF UnlessRaced, ghosts
  <2>3. CASE ~lossy
    <3>1. q = current
      BY <2>1, <2>3, DrainedIsMapped
    <3>2. \A r \in Queues : r # current => drain'[r] = drain[r]
      BY <2>1, <3>1 DEF TypeOK
    <3>3. QED
      BY <2>1, <3>2, RacedUntouched DEF objects, ghosts
  <2>4. QED
    BY <2>2, <2>3
<1>9. ASSUME NEW q \in Queues, drain[q] # "off", Finish(q), UNCHANGED <<objects, session, ghosts>>
      PROVE  UnlessRaced'
  <2>1. CASE lossy
    BY <1>9, <2>1 DEF UnlessRaced, ghosts
  <2>2. CASE ~lossy
    <3>1. q = current /\ current # NoQueue
      BY <1>9, <2>2, DrainedIsMapped
    <3>2. /\ \A r \in Queues : turn'[r] = turn[r] \/ turn'[r] = NoTurn
          /\ \A r \in Queues : r # current => drain'[r] = "off" \/ drain'[r] = drain[r]
      BY <1>9, FinishIs
    <3>3. CASE current' = current
      BY <1>9, <3>2, <3>3, RacedUntouched DEF objects, ghosts
    <3>4. CASE current' # current
      <4>1. current' = NoQueue /\ items[q] = <<>> /\ dropped[q] = {}
        BY <1>9, <3>4, FinishIs
      <4>2. OnlyMappedDrains /\ TurnCoversRemoved /\ DealtWithOrWaiting
        BY <2>2 DEF UnlessRaced
      <4>3. OnlyMappedDrains'
        <5>1. drain' = [drain EXCEPT ![q] = "off"]
          BY <1>9, <4>1 DEF Finish
        <5>2. QED
          BY <3>1, <4>2, <5>1 DEF OnlyMappedDrains, TypeOK
      <4>4. TurnCoversRemoved'
        <5>1. NoTurn.take = 0 /\ NoTurn.summary = {} /\ \A r \in Queues : Len(items[r]) \in Nat
          BY ItemsType DEF NoTurn
        <5>2. QED
          BY <1>9, <3>2, <4>2, <5>1 DEF TurnCoversRemoved, objects
      <4>5. Waiting = {} /\ Counted = {} /\ Waiting' = {} /\ Counted' = {}
        BY <3>1, <4>1 DEF Waiting, Counted, Range
      <4>6. DealtWithOrWaiting' /\ AnsweredFirst'
        BY <1>9, <4>2, <4>5 DEF DealtWithOrWaiting, AnsweredFirst, ghosts
      <4>7. QED
        BY <4>3, <4>4, <4>6 DEF UnlessRaced
    <3>5. QED
      BY <3>3, <3>4
  <2>3. QED
    BY <2>1, <2>2
<1>10. ASSUME NEW q \in Queues, CollectTurn(q) \/ SingleTurn(q) \/ SummaryTurn(q) PROVE UnlessRaced'
  <2> SUFFICES ASSUME ~lossy'
               PROVE  OnlyMappedDrains' /\ TurnCoversRemoved' /\ DealtWithOrWaiting' /\ AnsweredFirst'
    BY DEF UnlessRaced
  <2>1. /\ turn' = [turn EXCEPT ![q] = turn'[q]] /\ drain' = [drain EXCEPT ![q] = "running"]
        /\ drain[q] = "waiting"
        /\ UNCHANGED <<current, items, dropped, accepted, answered, summarised, dismissed>>
    BY <1>10, TurnType DEF objects
  <2>2. /\ ~lossy /\ turn'[q].take <= Len(items[q])
        /\ \A i \in 1..turn'[q].take : items[q][i] \in turn'[q].given
        /\ turn'[q].summary # {} => dropped[q] \subseteq turn'[q].summary
    BY <1>10, GivenFromItems DEF HeldInv
  <2>3. OnlyMappedDrains /\ TurnCoversRemoved /\ DealtWithOrWaiting /\ AnsweredFirst
    BY <2>2 DEF UnlessRaced
  <2>4. q = current
    BY <2>1, <2>2, DrainedIsMapped
  <2>5. OnlyMappedDrains'
    BY <2>1, <2>3, <2>4 DEF OnlyMappedDrains, TypeOK
  <2>6. \A r \in Queues \ {q} : turn'[r] = turn[r]
    BY <2>1 DEF TypeOK
  <2>7. TurnCoversRemoved'
    BY <2>1, <2>2, <2>3, <2>6 DEF TurnCoversRemoved
  <2>8. DealtWithOrWaiting' /\ AnsweredFirst'
    BY <2>1, <2>3 DEF DealtWithOrWaiting, AnsweredFirst, Waiting, Counted
  <2>9. QED
    BY <2>5, <2>7, <2>8
<1>11. ASSUME NEW q \in Queues, TurnEnds(q) PROVE UnlessRaced'
  BY <1>11, RacedAfterTurn
<1>12. ASSUME NEW q \in Queues, LoopEnds(q) \/ NothingToRun(q) \/ TurnThrows(q) PROVE UnlessRaced'
  BY <1>9, <1>12 DEF LoopEnds, NothingToRun, TurnThrows
<1>13. CASE UNCHANGED vars
  BY <1>13, RacedUntouched DEF vars, objects, drains, ghosts
<1>14. QED
  BY <1>1, <1>2, <1>3, <1>4, <1>5, <1>6, <1>7, <1>8, <1>10, <1>11, <1>12, <1>13
     DEF Next, DrainStep

---------------------------------------------------------------------------
(* No backlog is left idle.                                                *)

\* A session that still looks active has a run, or a drain of its own unless
\* there was a race.
LEMMA ActiveHas ==
  ASSUME TypeOK, UnlessRaced, NEW q \in Queues, QueueFor(q), SessionActive
  PROVE  mainRun \/ \E r \in Queues : drain[r] = "running" /\ (r = q \/ lossy)
<1>1. CASE mainRun
  BY <1>1
<1>2. ASSUME NEW r \in Queues, drain[r] = "running"
      PROVE  r = q \/ lossy
  <2>1. CASE ~lossy
    <3>1. r = current
      BY <1>2, <2>1, DrainedIsMapped
    <3>2. QED
      BY <3>1, FollowupQueueAssumption DEF QueueFor
  <2>2. QED
    BY <2>1
<1>3. QED
  BY <1>1, <1>2 DEF SessionActive

LEMMA BacklogAfterEnqueue ==
  ASSUME TypeOK, UnlessRaced, NEW q \in Queues, QueueFor(q), Recheck(q),
         mainRun' = mainRun, lossy => lossy', current' = q
  PROVE  NoIdleBacklog'
<1>1. CASE drain'[q] # "off"
  BY <1>1 DEF NoIdleBacklog
<1>2. CASE drain'[q] = "off"
  <2>1. drain[q] = "off" /\ SessionActive /\ \A r \in Queues : r # q => drain'[r] = drain[r]
    BY <1>2, RecheckIs
  <2>2. mainRun \/ \E r \in Queues : drain[r] = "running" /\ (r = q \/ lossy)
    BY <2>1, ActiveHas
  <2>3. \A r \in Queues : drain[r] = "running" => drain'[r] = "running"
    BY <2>1
  <2>4. QED
    BY <2>2, <2>3 DEF NoIdleBacklog
<1>3. QED
  BY <1>1, <1>2

LEMMA BacklogStep == TypeOK /\ UnlessRaced /\ NoIdleBacklog /\ [Next]_vars => NoIdleBacklog'
<1> SUFFICES ASSUME TypeOK, UnlessRaced, NoIdleBacklog, [Next]_vars
             PROVE  NoIdleBacklog'
  OBVIOUS
<1> USE FollowupQueueAssumption
<1>a. \A q \in Queues : drain[q] # "off" => q = current \/ lossy
  BY DrainedIsMapped
<1>1. ASSUME NEW q \in Queues, EnqueueFollowupRun(q) PROVE NoIdleBacklog'
  <2>1. /\ QueueFor(q) /\ Recheck(q) /\ mainRun' = mainRun /\ current' = q /\ (lossy => lossy')
    BY <1>1 DEF EnqueueFollowupRun, session
  <2>2. QED
    BY <2>1, BacklogAfterEnqueue
<1>2. ASSUME NEW q \in Queues, EnqueueRefused(q) PROVE NoIdleBacklog'
  <2>1. /\ QueueFor(q) /\ Recheck(q) /\ mainRun' = mainRun /\ current' = current /\ lossy' = lossy
    BY <1>2 DEF EnqueueRefused, session
  <2>2. CASE current = NoQueue
    BY <2>1, <2>2 DEF NoIdleBacklog
  <2>3. CASE current # NoQueue
    BY <2>1, <2>3, BacklogAfterEnqueue DEF QueueFor
  <2>4. QED
    BY <2>2, <2>3
<1>3. ASSUME NEW q \in Queues, EnqueueDuplicate(q) PROVE NoIdleBacklog'
  <2>1. /\ QueueFor(q) /\ Recheck(q) /\ mainRun' = mainRun /\ current' = q /\ lossy' = lossy
    BY <1>3 DEF EnqueueDuplicate, session, ghosts
  <2>2. QED
    BY <2>1, BacklogAfterEnqueue
<1>4. CASE ClearFollowupQueue
  BY <1>4 DEF ClearFollowupQueue, NoIdleBacklog
<1>5. CASE ChangeSettings \/ UNCHANGED vars
  BY <1>5 DEF ChangeSettings, NoIdleBacklog, Quiet, vars, objects, drains, session, ghosts
<1>6. CASE MainRunStarts
  BY <1>6 DEF MainRunStarts, NoIdleBacklog
<1>7. CASE MainRunEnds
  <2>1. current # NoQueue => drain'[current] # "off"
    BY <1>7, ScheduledIs DEF MainRunEnds, TypeOK, DrainStates
  <2>2. current' = current /\ current \in Queues \cup {NoQueue}
    BY <1>7 DEF MainRunEnds, TypeOK
  <2>3. QED
    BY <2>1, <2>2 DEF NoIdleBacklog
<1>8. ASSUME NEW q \in Queues, LoopContinues(q) PROVE NoIdleBacklog'
  <2>1. /\ drain[q] # "off" /\ drain'[q] = "waiting" /\ UNCHANGED <<current, lossy>>
    BY <1>8 DEF LoopContinues, TypeOK, ghosts
  <2>2. QED
    BY <1>a, <2>1 DEF NoIdleBacklog
<1>9. ASSUME NEW q \in Queues, Finish(q) PROVE NoIdleBacklog'
  <2>1. /\ current' \in Queues => drain'[current'] # "off"
        /\ current' \in Queues \cup {NoQueue}
    BY <1>9, FinishIs DEF TypeOK
  <2>2. QED
    BY <2>1 DEF NoIdleBacklog
<1>10. ASSUME NEW q \in Queues, CollectTurn(q) \/ SingleTurn(q) \/ SummaryTurn(q) PROVE NoIdleBacklog'
  <2>1. /\ drain[q] # "off" /\ drain' = [drain EXCEPT ![q] = "running"] /\ current' = current
    BY <1>10, TurnType
  <2>2. drain'[q] # "off"
    BY <2>1 DEF TypeOK
  <2>3. lossy => lossy'
    BY <1>10 DEF CollectTurn, SingleTurn, SummaryTurn
  <2>4. QED
    BY <1>a, <2>1, <2>2, <2>3 DEF NoIdleBacklog
<1>11. ASSUME NEW q \in Queues, TurnEnds(q) PROVE NoIdleBacklog'
  <2>1. drain'[q] = "looping"
    BY <1>11 DEF TurnEnds, TypeOK
  <2>2. QED
    BY <2>1 DEF NoIdleBacklog, Quiet
<1>12. ASSUME NEW q \in Queues, LoopEnds(q) \/ NothingToRun(q) \/ TurnThrows(q) PROVE NoIdleBacklog'
  BY <1>9, <1>12 DEF LoopEnds, NothingToRun, TurnThrows
<1>13. QED
  BY <1>1, <1>2, <1>3, <1>4, <1>5, <1>6, <1>7, <1>8, <1>10, <1>11, <1>12
     DEF Next, DrainStep

---------------------------------------------------------------------------
(* The invariant and what follows from it.                                 *)

LEMMA IInvInit == Init => IInv
<1> SUFFICES ASSUME Init PROVE IInv
  OBVIOUS
<1>1. /\ TypeOK /\ current = NoQueue /\ answered = {} /\ accepted = {}
      /\ \A q \in Queues : items[q] = <<>> /\ turn[q] = NoTurn /\ drain[q] = "off"
  BY TypeInit DEF Init
<1>2. NoTurn.given = {} /\ NoTurn.take = 0 /\ NoTurn.summary = {}
  BY DEF NoTurn
<1>3. DOMAIN <<>> = {} /\ Range(<<>>) = {} /\ Len(<<>>) = 0
  BY DEF Range
<1>4. TurnsOnlyRunning /\ ArrivalOrder
  BY <1>1, <1>2, <1>3 DEF TurnsOnlyRunning, ArrivalOrder
<1>5. \A q \in Queues : Holds(q) = {}
  BY <1>1, <1>2, <1>3 DEF Holds
<1>6. HeldOnce /\ HeldArrived
  BY <1>1, <1>5 DEF HeldOnce, HeldArrived
<1>7. OnlyMappedDrains /\ DealtWithOrWaiting /\ AnsweredFirst
  BY <1>1 DEF OnlyMappedDrains, DealtWithOrWaiting, AnsweredFirst
<1>8. TurnCoversRemoved
  BY <1>1, <1>2, <1>3 DEF TurnCoversRemoved
<1>9. NoIdleBacklog
  BY <1>1 DEF NoIdleBacklog
<1>10. QED
  BY <1>1, <1>4, <1>6, <1>7, <1>8, <1>9 DEF IInv, UnlessRaced

LEMMA IInvStep == IInv /\ [Next]_vars => IInv'
BY TypeStep, HeldStep, RacedStep, BacklogStep DEF IInv, HeldInv

\* The inductive invariant of the follow-up queue.
THEOREM Invariance == Spec => []IInv
BY IInvInit, IInvStep, PTL DEF Spec

\* Whatever arrives, is cleared or fails during a turn, no running turn holds a
\* message that an earlier turn has answered.
THEOREM AnsweredOnceHolds == Spec => []AnsweredOnce
<1>1. IInv => AnsweredOnce
  BY DEF IInv, HeldOnce, Holds, AnsweredOnce
<1>2. QED
  BY <1>1, Invariance, PTL

\* A message can be lost only after one of the three races.
THEOREM LossOnlyByRacesHolds == Spec => []LossOnlyByRaces
<1>1. IInv => LossOnlyByRaces
  <2> SUFFICES ASSUME IInv, ~lossy, NEW m \in accepted,
                      m \notin answered \cup summarised \cup dismissed
               PROVE  Kept(m)
    BY DEF LossOnlyByRaces, NothingLost
  <2>1. m \in Waiting \cup Counted
    BY DEF IInv, UnlessRaced, DealtWithOrWaiting
  <2>2. current \in Queues /\ m \in Range(items[current]) \cup dropped[current]
    BY <2>1 DEF Waiting, Counted, IInv, TypeOK
  <2>3. QED
    BY <2>2 DEF Kept, Reachable
<1>2. QED
  BY <1>1, Invariance, PTL

\* No backlog is left without a drain, or a run whose end starts one.
THEOREM NoIdleBacklogHolds == Spec => []NoIdleBacklog
<1>1. IInv => NoIdleBacklog
  BY DEF IInv
<1>2. QED
  BY <1>1, Invariance, PTL

\* Until a race, turns are given messages newer than all that was answered.
THEOREM AnsweredInOrderHolds == Spec => AnsweredInOrder
<1> DEFINE InOrder == \A q \in Queues : \A m \in turn'[q].given \ turn[q].given :
                        lossy \/ \A n \in answered : n < m
<1>1. IInv /\ [Next]_vars => [InOrder]_vars
  <2> SUFFICES ASSUME IInv, Next,
                      NEW r \in Queues, NEW m \in turn'[r].given, m \notin turn[r].given, ~lossy
               PROVE  \A n \in answered : n < m
    BY DEF vars
  <2>1. TypeOK /\ ArrivalOrder /\ UnlessRaced /\ AnsweredFirst
    BY DEF IInv, UnlessRaced
  <2>2. NoTurn.given = {}
    BY DEF NoTurn
  <2>3. ASSUME NEW q \in Queues, Finish(q) PROVE turn'[r] \in {turn[r], NoTurn}
    BY <2>1, <2>3, FinishIs
  <2>4. ASSUME NEW q \in Queues, Recheck(q) PROVE turn' = turn
    BY <2>4 DEF Recheck
  <2>5. PICK q \in Queues : CollectTurn(q) \/ SingleTurn(q) \/ SummaryTurn(q)
    <3>1. turn'[r] # turn[r] /\ turn'[r] # NoTurn
      BY <2>2
    <3>2. ASSUME NEW q \in Queues, EnqueueFollowupRun(q) \/ EnqueueRefused(q) \/ EnqueueDuplicate(q)
          PROVE  FALSE
      BY <2>4, <3>1, <3>2 DEF EnqueueFollowupRun, EnqueueRefused, EnqueueDuplicate
    <3>3. ASSUME NEW q \in Queues, LoopEnds(q) \/ NothingToRun(q) \/ TurnThrows(q) PROVE FALSE
      BY <2>3, <3>1, <3>3 DEF LoopEnds, NothingToRun, TurnThrows
    <3>4. ASSUME NEW q \in Queues, TurnEnds(q) PROVE FALSE
      BY <2>1, <3>1, <3>4 DEF TurnEnds, TypeOK
    <3>5. ASSUME NEW q \in Queues, LoopContinues(q) PROVE FALSE
      BY <3>1, <3>5 DEF LoopContinues
    <3>6. ~ClearFollowupQueue /\ ~ChangeSettings /\ ~MainRunStarts /\ ~MainRunEnds
      BY <3>1 DEF ClearFollowupQueue, ChangeSettings, MainRunStarts, MainRunEnds, drains
    <3>7. QED
      BY <3>2, <3>3, <3>4, <3>5, <3>6 DEF Next, DrainStep
  <2>6. r = q
    BY <2>1, <2>5, TurnType DEF TypeOK
  <2>7. m \in Range(items[q])
    BY <2>1, <2>5, <2>6, GivenFromItems
  <2>8. q = current /\ current # NoQueue
    BY <2>1, <2>5, TurnType, DrainedIsMapped, FollowupQueueAssumption
  <2>9. QED
    BY <2>1, <2>7, <2>8 DEF AnsweredFirst, Waiting
<1>2. QED
  BY <1>1, Invariance, PTL DEF Spec, AnsweredInOrder
=============================================================================
