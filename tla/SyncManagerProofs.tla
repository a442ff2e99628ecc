------------------------- MODULE SyncManagerProofs -------------------------
(***************************************************************************)
(* Proofs about SyncManager, for any number of processes, semaphores and   *)
(* mutexes, any initial count and any order of acquisition.                *)
(***************************************************************************)
EXTENDS SyncManager, FoldLemmas, FiniteSetTheorems, TLAPS

(* The inductive invariant: no process is in two places of the queues, one *)
(* that is in a queue sleeps, and a sleeper that is in none is one of those *)
(* SleepersAreQueuedOnce names.  MutualExclusion is needed for the last: a  *)
(* process that a completion makes owner was not told so before.           *)

QueuesDistinct ==
  \A r, t \in Resources : \A i \in 1 .. Len(waiting[r]), j \in 1 .. Len(waiting[t]) :
    waiting[r][i] = waiting[t][j] => r = t /\ i = j

QueuedSleep ==
  \A r \in Resources : \A i \in 1 .. Len(waiting[r]) : waiting[r][i] \in asleep

Queued(p) == \E r \in Resources : \E i \in 1 .. Len(waiting[r]) : waiting[r][i] = p

Untold(p) == exited # {} /\ \E m \in Mutexes : owner[m] = p /\ p \notin inside[m]

SleepersAccounted == \A p \in asleep : Queued(p) \/ voided # {} \/ Untold(p)

QInv == QueuesDistinct /\ QueuedSleep /\ SleepersAccounted

SInv == TypeOK /\ MutualExclusion /\ QInv

-----------------------------------------------------------------------------
(* Queues. *)

\* A process that is awake is appended.
LEMMA AppendKeeps ==
  ASSUME TypeOK, QueuesDistinct, QueuedSleep,
         NEW r \in Resources, NEW p \in Processes, p \notin asleep,
         waiting' = [waiting EXCEPT ![r] = Append(@, p)]
  PROVE  /\ waiting' \in [Resources -> Seq(Processes)]
         /\ QueuesDistinct'
         /\ \A t \in Resources : \A i \in 1 .. Len(waiting'[t]) :
              waiting'[t][i] \in asleep \cup {p}
         /\ Queued(p)'
         /\ \A q : Queued(q) => Queued(q)'
<1> DEFINE w == waiting[r]
<1>1. waiting \in [Resources -> Seq(Processes)] /\ w \in Seq(Processes)
  BY DEF TypeOK
<1>2. waiting'[r] = Append(w, p) /\ \A t \in Resources : t # r => waiting'[t] = waiting[t]
  BY <1>1
<1>3. /\ Append(w, p) \in Seq(Processes) /\ Len(w) \in Nat
      /\ Len(Append(w, p)) = Len(w) + 1 /\ Append(w, p)[Len(w) + 1] = p
      /\ \A i \in 1 .. Len(w) : Append(w, p)[i] = w[i]
  BY <1>1
<1>4. waiting' \in [Resources -> Seq(Processes)]
  BY <1>1, <1>3
\* What is in a queue was there, at the same place, or is the new one.
<1>5. ASSUME NEW t \in Resources, NEW i \in 1 .. Len(waiting'[t])
      PROVE  \/ i \in 1 .. Len(waiting[t]) /\ waiting'[t][i] = waiting[t][i]
             \/ t = r /\ i = Len(w) + 1 /\ waiting'[t][i] = p
  <2>1. CASE t = r
    <3>1. i \in 1 .. Len(w) + 1
      BY <1>2, <1>3, <1>5, <2>1
    <3>2. i = Len(w) + 1 \/ i \in 1 .. Len(w)
      BY <1>3, <3>1
    <3> QED BY <1>2, <1>3, <2>1, <3>2
  <2>2. CASE t # r
    BY <1>2, <2>2
  <2> QED BY <2>1, <2>2
<1>6. ASSUME NEW t \in Resources, NEW i \in 1 .. Len(waiting[t]) PROVE waiting[t][i] # p
  BY DEF QueuedSleep
<1>7. QueuesDistinct'
  BY <1>5, <1>6 DEF QueuesDistinct
<1>8. \A t \in Resources : \A i \in 1 .. Len(waiting'[t]) : waiting'[t][i] \in asleep \cup {p}
  BY <1>5 DEF QueuedSleep
<1>9. Queued(p)'
  <2>1. Len(w) + 1 \in 1 .. Len(waiting'[r]) /\ waiting'[r][Len(w) + 1] = p
    BY <1>2, <1>3
  <2> QED BY <2>1 DEF Queued
<1>10. ASSUME NEW q, Queued(q) PROVE Queued(q)'
  <2>1. PICK t \in Resources : \E i \in 1 .. Len(waiting[t]) : waiting[t][i] = q
    BY <1>10 DEF Queued
  <2>0. PICK i \in 1 .. Len(waiting[t]) : waiting[t][i] = q
    BY <2>1
  <2>2. i \in 1 .. Len(waiting'[t]) /\ waiting'[t][i] = q
    <3>1. CASE t = r
      <4>1. i \in 1 .. Len(w) + 1 /\ i \in 1 .. Len(w)
        BY <1>3, <3>1
      <4> QED BY <1>2, <1>3, <2>0, <3>1, <4>1
    <3>2. CASE t # r
      BY <1>2, <2>0, <3>2
    <3> QED BY <3>1, <3>2
  <2> QED BY <2>2 DEF Queued
<1> QED BY <1>4, <1>7, <1>8, <1>9, <1>10

\* The queues of the resources in rs lose their heads, those that have one.
BeheadedAt(rs) ==
  [r \in Resources |-> IF r \in rs /\ waiting[r] # <<>> THEN Tail(waiting[r]) ELSE waiting[r]]

LEMMA BeheadKeeps ==
  ASSUME TypeOK, QueuesDistinct, QueuedSleep,
         NEW rs \in SUBSET Resources, waiting' = BeheadedAt(rs)
  PROVE  /\ waiting' \in [Resources -> Seq(Processes)]
         /\ QueuesDistinct'
         /\ \A t \in Resources : \A i \in 1 .. Len(waiting'[t]) : waiting'[t][i] \in asleep
         /\ \A r \in rs, q \in Processes :
              waiting[r] # <<>> /\ q = Head(waiting[r]) => q \in asleep /\ ~Queued(q)'
         /\ \A q : Queued(q) => \/ Queued(q)'
                                \/ \E r \in rs : waiting[r] # <<>> /\ Head(waiting[r]) = q
<1> DEFINE d(r) == IF r \in rs /\ waiting[r] # <<>> THEN 1 ELSE 0
<1>1. waiting \in [Resources -> Seq(Processes)]
  BY DEF TypeOK
<1>2. ASSUME NEW s \in Seq(Processes), s # <<>>
      PROVE  /\ Tail(s) \in Seq(Processes) /\ Len(Tail(s)) = Len(s) - 1 /\ Len(s) \in Nat
             /\ Head(s) = s[1] /\ 1 \in 1 .. Len(s)
             /\ \A i \in 1 .. Len(s) - 1 : Tail(s)[i] = s[i + 1]
  BY <1>2
<1>3. ASSUME NEW t \in Resources
      PROVE  /\ waiting'[t] \in Seq(Processes) /\ d(t) \in {0, 1} /\ Len(waiting[t]) \in Nat
             /\ Len(waiting'[t]) = Len(waiting[t]) - d(t)
             /\ \A i \in 1 .. Len(waiting'[t]) : /\ i + d(t) \in 1 .. Len(waiting[t])
                                                 /\ waiting'[t][i] = waiting[t][i + d(t)]
  <2>1. CASE t \in rs /\ waiting[t] # <<>>
    <3>1. waiting'[t] = Tail(waiting[t]) /\ d(t) = 1
      BY <2>1 DEF BeheadedAt
    <3>2. waiting[t] \in Seq(Processes)
      BY <1>1
    <3>3. \A i \in 1 .. Len(waiting[t]) - 1 : i + 1 \in 1 .. Len(waiting[t])
      BY <3>2
    <3> QED BY <1>2, <2>1, <3>1, <3>2, <3>3
  <2>2. CASE ~(t \in rs /\ waiting[t] # <<>>)
    <3>1. waiting'[t] = waiting[t] /\ d(t) = 0
      BY <2>2 DEF BeheadedAt
    <3>2. Len(waiting[t]) \in Nat /\ \A i \in 1 .. Len(waiting[t]) : i + 0 = i
      BY <1>1
    <3> QED BY <1>1, <3>1, <3>2
  <2> QED BY <2>1, <2>2
<1> HIDE DEF d
<1>4. waiting' \in [Resources -> Seq(Processes)]
  BY <1>1, <1>3 DEF BeheadedAt
<1>5. QueuesDistinct'
  <2> SUFFICES ASSUME NEW r \in Resources, NEW t \in Resources,
                      NEW i \in 1 .. Len(waiting'[r]), NEW j \in 1 .. Len(waiting'[t]),
                      waiting'[r][i] = waiting'[t][j]
               PROVE  r = t /\ i = j
    BY DEF QueuesDistinct
  <2>0. /\ i + d(r) \in 1 .. Len(waiting[r]) /\ j + d(t) \in 1 .. Len(waiting[t])
        /\ waiting[r][i + d(r)] = waiting[t][j + d(t)]
    BY <1>3
  <2>1. r = t /\ i + d(r) = j + d(t)
    BY <2>0 DEF QueuesDistinct
  <2> QED BY <1>3, <2>1
<1>6. \A t \in Resources : \A i \in 1 .. Len(waiting'[t]) : waiting'[t][i] \in asleep
  BY <1>3 DEF QueuedSleep
<1>7. ASSUME NEW r \in rs, NEW q \in Processes, waiting[r] # <<>>, q = Head(waiting[r])
      PROVE  q \in asleep /\ ~Queued(q)'
  <2>1. 1 \in 1 .. Len(waiting[r]) /\ q = waiting[r][1] /\ r \in Resources
    BY <1>1, <1>2, <1>7
  <2>2. ASSUME NEW t \in Resources, NEW i \in 1 .. Len(waiting'[t]),
               waiting'[t][i] = q
        PROVE  FALSE
    <3>0. i + d(t) \in 1 .. Len(waiting[t]) /\ waiting[t][i + d(t)] = waiting[r][1]
      BY <1>3, <2>1, <2>2
    <3>1. t = r /\ i + d(t) = 1
      BY <2>1, <3>0 DEF QueuesDistinct
    <3>2. d(t) = 1
      BY <1>7, <3>1 DEF d
    <3> QED BY <1>3, <3>1, <3>2
  <2>3. ~Queued(q)'
    BY <2>2 DEF Queued
  <2>4. q \in asleep
    BY <2>1 DEF QueuedSleep
  <2> QED BY <2>3, <2>4
<1>8. ASSUME NEW q, Queued(q)
      PROVE  Queued(q)' \/ \E r \in rs : waiting[r] # <<>> /\ Head(waiting[r]) = q
  <2>1. PICK t \in Resources : \E i \in 1 .. Len(waiting[t]) : waiting[t][i] = q
    BY <1>8 DEF Queued
  <2>0. PICK i \in 1 .. Len(waiting[t]) : waiting[t][i] = q
    BY <2>1
  <2>2. CASE i - d(t) >= 1
    <3>1. i - d(t) \in 1 .. Len(waiting'[t]) /\ (i - d(t)) + d(t) = i
      BY <1>3, <2>2
    <3>2. waiting'[t][i - d(t)] = q
      BY <1>3, <2>0, <3>1
    <3> QED BY <3>1, <3>2 DEF Queued
  <2>3. CASE ~(i - d(t) >= 1)
    <3>1. d(t) = 1 /\ i = 1
      BY <1>3, <2>3
    <3>2. t \in rs /\ waiting[t] # <<>>
      BY <3>1 DEF d
    <3> QED BY <1>1, <1>2, <2>0, <3>1, <3>2
  <2> QED BY <2>2, <2>3
<1> QED BY <1>4, <1>5, <1>6, <1>7, <1>8

\* The queue of one resource is thrown away.
LEMMA EmptyKeeps ==
  ASSUME TypeOK, QueuesDistinct, QueuedSleep,
         NEW r \in Resources, waiting' = [waiting EXCEPT ![r] = <<>>]
  PROVE  /\ waiting' \in [Resources -> Seq(Processes)]
         /\ QueuesDistinct'
         /\ \A t \in Resources : \A i \in 1 .. Len(waiting'[t]) : waiting'[t][i] \in asleep
<1>1. waiting \in [Resources -> Seq(Processes)]
  BY DEF TypeOK
<1>2. waiting'[r] = <<>> /\ \A t \in Resources : t # r => waiting'[t] = waiting[t]
  BY <1>1
<1>3. ASSUME NEW t \in Resources, NEW i \in 1 .. Len(waiting'[t])
      PROVE  i \in 1 .. Len(waiting[t]) /\ waiting'[t][i] = waiting[t][i]
  <2>1. t # r
    BY <1>2
  <2> QED BY <1>2, <2>1
<1>4. waiting' \in [Resources -> Seq(Processes)]
  BY <1>1
<1>5. QueuesDistinct'
  BY <1>3 DEF QueuesDistinct
<1> QED BY <1>3, <1>4, <1>5 DEF QueuedSleep

-----------------------------------------------------------------------------
(* The steps. *)

LEMMA WaitKeeps ==
  ASSUME SInv, NEW p \in Processes, NEW s \in Semaphores, Wait(p, s)
  PROVE  SInv'
<1> USE DEF SInv, registry, manager
<1>1. p \notin asleep /\ s \in Resources
  BY DEF Wait, MayRequest, Awake, Resources
<1>2. CASE count[s] > 0
  <2>1. /\ count' = [count EXCEPT ![s] = @ - 1]
        /\ balance' = [balance EXCEPT ![s][p] = @ + 1]
        /\ UNCHANGED <<owner, waiting, live, unused, sync_mutex, detector, asleep, exited,
                       voided, inside>>
    BY <1>2 DEF Wait
  <2>2. count' \in [Semaphores -> Nat] /\ balance' \in [Semaphores -> [Processes -> Int]]
    BY <1>2, <2>1 DEF TypeOK
  <2>3. TypeOK'
    BY <2>1, <2>2 DEF TypeOK
  <2>4. MutualExclusion' /\ QInv'
    BY <2>1 DEF MutualExclusion, QInv, QueuesDistinct, QueuedSleep, SleepersAccounted, Queued,
                Untold
  <2> QED BY <2>3, <2>4
<1>3. CASE ~(count[s] > 0)
  <2>1. /\ waiting' = [waiting EXCEPT ![s] = Append(@, p)] /\ asleep' = asleep \cup {p}
        /\ UNCHANGED <<owner, live, unused, sync_mutex, detector, count, balance, exited,
                       voided, inside>>
    BY <1>3 DEF Wait
  <2>2. /\ waiting' \in [Resources -> Seq(Processes)] /\ QueuesDistinct' /\ Queued(p)'
        /\ \A t \in Resources : \A i \in 1 .. Len(waiting'[t]) : waiting'[t][i] \in asleep'
        /\ \A q : Queued(q) => Queued(q)'
    BY <1>1, <2>1, AppendKeeps DEF QInv
  <2>3. TypeOK'
    BY <2>1, <2>2 DEF TypeOK
  <2>4. MutualExclusion'
    BY <2>1 DEF MutualExclusion
  <2>5. QInv'
    BY <2>1, <2>2 DEF QInv, QueuedSleep, SleepersAccounted, Untold
  <2> QED BY <2>3, <2>4, <2>5
<1> QED BY <1>2, <1>3

LEMMA LockKeeps ==
  ASSUME SInv, NEW p \in Processes, NEW m \in Mutexes, Lock(p, m)
  PROVE  SInv'
<1> USE DEF SInv, registry, manager
<1>1. p \notin asleep /\ m \in Resources
  BY DEF Lock, MayRequest, Awake, Resources
<1>2. CASE owner[m] \in {Nobody, p}
  <2>1. /\ owner' = [owner EXCEPT ![m] = p]
        /\ inside' = [inside EXCEPT ![m] = @ \cup {p}]
        /\ UNCHANGED <<waiting, live, unused, sync_mutex, detector, asleep, count, balance,
                       exited, voided>>
    BY <1>2 DEF Lock
  <2>2. TypeOK'
    BY <2>1 DEF TypeOK
  <2>3. MutualExclusion'
    <3>1. inside[m] \subseteq {p}
      BY <1>2, SyncAssumption DEF MutualExclusion, TypeOK
    <3> QED BY <2>1, <3>1 DEF MutualExclusion, TypeOK
  <2>4. ASSUME NEW q \in asleep, Untold(q) PROVE Untold(q)'
    <3>1. PICK n \in Mutexes : owner[n] = q /\ q \notin inside[n]
      BY <2>4 DEF Untold
    <3>2. n # m
      BY <1>1, <1>2, <3>1, SyncAssumption DEF TypeOK
    <3> QED BY <2>1, <2>4, <3>1, <3>2 DEF Untold, TypeOK
  <2>5. QInv'
    BY <2>1, <2>4 DEF QInv, QueuesDistinct, QueuedSleep, SleepersAccounted, Queued
  <2> QED BY <2>2, <2>3, <2>5
<1>3. CASE owner[m] \notin {Nobody, p}
  <2>1. /\ waiting' = [waiting EXCEPT ![m] = Append(@, p)] /\ asleep' = asleep \cup {p}
        /\ UNCHANGED <<owner, live, unused, sync_mutex, detector, count, balance, exited,
                       voided, inside>>
    BY <1>3 DEF Lock
  <2>2. /\ waiting' \in [Resources -> Seq(Processes)] /\ QueuesDistinct' /\ Queued(p)'
        /\ \A t \in Resources : \A i \in 1 .. Len(waiting'[t]) : waiting'[t][i] \in asleep'
        /\ \A q : Queued(q) => Queued(q)'
    BY <1>1, <2>1, AppendKeeps DEF QInv
  <2>3. TypeOK'
    BY <2>1, <2>2 DEF TypeOK
  <2>4. MutualExclusion'
    BY <2>1 DEF MutualExclusion
  <2>5. QInv'
    BY <2>1, <2>2 DEF QInv, QueuedSleep, SleepersAccounted, Untold
  <2> QED BY <2>3, <2>4, <2>5
<1> QED BY <1>2, <1>3

LEMMA SignalKeeps ==
  ASSUME SInv, NEW p \in Processes, NEW s \in Semaphores, Signal(p, s)
  PROVE  SInv'
<1> USE DEF SInv, registry, manager
<1>1. s \in Resources /\ waiting[s] \in Seq(Processes)
  BY DEF Resources, TypeOK
<1>2. count' \in [Semaphores -> Nat]
  BY DEF Signal, CountAfterSignal, TypeOK
<1>3. CASE waiting[s] = <<>>
  <2>1. /\ balance' = [balance EXCEPT ![s][p] = @ - 1]
        /\ UNCHANGED <<owner, waiting, live, unused, sync_mutex, detector, asleep, exited,
                       voided, inside>>
    BY <1>3 DEF Signal
  <2>2. TypeOK'
    <3>1. balance' \in [Semaphores -> [Processes -> Int]]
      BY <2>1 DEF TypeOK
    <3> QED BY <1>2, <2>1, <3>1 DEF TypeOK
  <2>3. MutualExclusion' /\ QInv'
    BY <2>1 DEF MutualExclusion, QInv, QueuesDistinct, QueuedSleep, SleepersAccounted, Queued,
                Untold
  <2> QED BY <2>2, <2>3
<1>4. CASE waiting[s] # <<>>
  <2> DEFINE woken == Head(waiting[s])
  <2>1. /\ waiting' = [waiting EXCEPT ![s] = Tail(waiting[s])]
        /\ balance' = [balance EXCEPT ![s][p] = @ - 1, ![s][woken] = @ + 1]
        /\ asleep' = asleep \ {woken}
        /\ UNCHANGED <<owner, live, unused, sync_mutex, detector, exited, voided, inside>>
    BY <1>4 DEF Signal, Dequeued
  <2>2. waiting' = BeheadedAt({s})
    BY <1>4, <2>1 DEF BeheadedAt, TypeOK
  <2>3. woken \in Processes
    BY <1>1, <1>4
  <2> HIDE DEF woken
  <2>4. balance' \in [Semaphores -> [Processes -> Int]]
    BY <2>1, <2>3 DEF TypeOK
  <2>5. /\ waiting' \in [Resources -> Seq(Processes)] /\ QueuesDistinct'
        /\ \A t \in Resources : \A i \in 1 .. Len(waiting'[t]) : waiting'[t][i] \in asleep
        /\ \A q \in Processes : q = woken => ~Queued(q)'
        /\ \A q : Queued(q) => Queued(q)' \/ q = woken
    <3>1. {s} \in SUBSET Resources
      BY <1>1
    <3>2. /\ waiting' \in [Resources -> Seq(Processes)] /\ QueuesDistinct'
          /\ \A t \in Resources : \A i \in 1 .. Len(waiting'[t]) : waiting'[t][i] \in asleep
          /\ \A r \in {s}, q \in Processes :
               waiting[r] # <<>> /\ q = Head(waiting[r]) => q \in asleep /\ ~Queued(q)'
          /\ \A q : Queued(q) => \/ Queued(q)'
                                 \/ \E r \in {s} : waiting[r] # <<>> /\ Head(waiting[r]) = q
      BY <2>2, <3>1, BeheadKeeps DEF QInv
    <3> QED BY <1>4, <3>2 DEF woken
  <2>6. TypeOK'
    BY <1>2, <2>1, <2>4, <2>5 DEF TypeOK
  <2>7. MutualExclusion'
    BY <2>1 DEF MutualExclusion
  <2>8. QueuedSleep'
    BY <2>1, <2>3, <2>5 DEF QueuedSleep, Queued
  <2>9. SleepersAccounted'
    BY <2>1, <2>5 DEF QInv, SleepersAccounted, Untold
  <2> QED BY <2>5, <2>6, <2>7, <2>8, <2>9 DEF QInv
<1> QED BY <1>3, <1>4

\* What unlock does to the queues of mutexes.
LEMMA UnlockBeheads ==
  ASSUME TypeOK, NEW ms \in SUBSET Mutexes, Unlocked(ms)
  PROVE  /\ waiting' = BeheadedAt(ms)
         /\ owner' = [m \in Mutexes |-> IF m \in ms
                                          THEN IF waiting[m] = <<>> THEN Nobody ELSE Head(waiting[m])
                                          ELSE owner[m]]
         /\ owner' \in [Mutexes -> Processes \cup {Nobody}]
<1>1. waiting' = BeheadedAt(ms)
  BY DEF Unlocked, Dequeued, BeheadedAt
<1>2. owner' = [m \in Mutexes |-> IF m \in ms
                                    THEN IF waiting[m] = <<>> THEN Nobody ELSE Head(waiting[m])
                                    ELSE owner[m]]
  BY DEF Unlocked, NextOwner, Dequeued
<1>3. ASSUME NEW m \in Mutexes, waiting[m] # <<>> PROVE Head(waiting[m]) \in Processes
  <2>1. waiting[m] \in Seq(Processes)
    BY DEF TypeOK, Resources
  <2> QED BY <1>3, <2>1
<1> QED BY <1>1, <1>2, <1>3 DEF TypeOK

LEMMA UnlockKeeps ==
  ASSUME SInv, NEW p \in Processes, NEW m \in Mutexes, Unlock(p, m)
  PROVE  SInv'
<1> USE DEF SInv, registry, manager
<1> DEFINE woken == IF waiting[m] = <<>> THEN {} ELSE {Head(waiting[m])}
<1>1. /\ {m} \in SUBSET Mutexes /\ Unlocked({m}) /\ p \notin asleep /\ owner[m] = p
      /\ inside' = [inside EXCEPT ![m] = (@ \ {p}) \cup woken]
      /\ asleep' = asleep \ woken
      /\ UNCHANGED <<count, live, unused, sync_mutex, detector, exited, voided, balance>>
  BY DEF Unlock, Awake, Dequeued
<1>2. /\ waiting' = BeheadedAt({m})
      /\ owner'[m] = (IF waiting[m] = <<>> THEN Nobody ELSE Head(waiting[m]))
      /\ \A n \in Mutexes : n # m => owner'[n] = owner[n]
      /\ owner' \in [Mutexes -> Processes \cup {Nobody}]
  BY <1>1, UnlockBeheads
<1>3. woken \subseteq Processes
  <2>1. waiting[m] \in Seq(Processes)
    BY DEF TypeOK, Resources
  <2> QED BY <2>1
<1>4. /\ waiting' \in [Resources -> Seq(Processes)] /\ QueuesDistinct'
      /\ \A t \in Resources : \A i \in 1 .. Len(waiting'[t]) : waiting'[t][i] \in asleep
      /\ \A q \in woken : ~Queued(q)'
      /\ \A q : Queued(q) => Queued(q)' \/ q \in woken
  <2>1. {m} \in SUBSET Resources
    BY DEF Resources
  <2>2. /\ waiting' \in [Resources -> Seq(Processes)] /\ QueuesDistinct'
        /\ \A t \in Resources : \A i \in 1 .. Len(waiting'[t]) : waiting'[t][i] \in asleep
        /\ \A r \in {m}, q \in Processes :
             waiting[r] # <<>> /\ q = Head(waiting[r]) => q \in asleep /\ ~Queued(q)'
        /\ \A q : Queued(q) => \/ Queued(q)'
                               \/ \E r \in {m} : waiting[r] # <<>> /\ Head(waiting[r]) = q
    BY <1>2, <2>1, BeheadKeeps DEF QInv
  <2> QED BY <1>3, <2>2
<1>5. TypeOK'
  <2>1. inside' \in [Mutexes -> SUBSET Processes] /\ asleep' \subseteq Processes
    BY <1>1, <1>3 DEF TypeOK
  <2> QED BY <1>1, <1>2, <1>4, <2>1 DEF TypeOK
<1>6. MutualExclusion'
  <2>1. inside'[m] \subseteq {owner'[m]}
    <3>1. inside[m] \subseteq {p}
      BY <1>1 DEF MutualExclusion
    <3> QED BY <1>1, <1>2, <3>1 DEF TypeOK
  <2>2. ASSUME NEW n \in Mutexes, n # m PROVE inside'[n] \subseteq {owner'[n]}
    BY <1>1, <1>2, <2>2 DEF MutualExclusion, TypeOK
  <2> QED BY <2>1, <2>2 DEF MutualExclusion
<1>7. QueuedSleep'
  BY <1>1, <1>4 DEF QueuedSleep, Queued
<1>8. SleepersAccounted'
  <2> SUFFICES ASSUME NEW q \in asleep', ~Queued(q)', ~(voided # {})
               PROVE  Untold(q)'
    BY <1>1 DEF SleepersAccounted
  <2>1. q \in asleep /\ ~Queued(q)
    BY <1>1, <1>4
  <2>2. Untold(q)
    BY <2>1 DEF QInv, SleepersAccounted
  <2>3. PICK n \in Mutexes : owner[n] = q /\ q \notin inside[n]
    BY <2>2 DEF Untold
  <2>4. n # m
    BY <1>1, <2>1, <2>3
  <2>5. owner'[n] = q /\ q \notin inside'[n]
    BY <1>1, <1>2, <2>3, <2>4 DEF TypeOK
  <2> QED BY <1>1, <2>2, <2>5 DEF Untold
<1> QED BY <1>4, <1>5, <1>6, <1>7, <1>8 DEF QInv

LEMMA CleanupKeeps ==
  ASSUME SInv, NEW p \in Processes, CleanupProcess(p)
  PROVE  SInv'
<1> USE DEF SInv, registry, manager
<1> DEFINE ms == {m \in Mutexes : owner[m] = p}
<1>1. /\ ms \in SUBSET Mutexes /\ Unlocked(ms) /\ p \notin asleep
      /\ exited' = exited \cup {p}
      /\ inside' = [m \in Mutexes |-> inside[m] \ {p}]
      /\ UNCHANGED <<count, live, unused, sync_mutex, detector, asleep, voided, balance>>
  BY DEF CleanupProcess, Awake
<1>2. /\ waiting' = BeheadedAt(ms)
      /\ \A m \in ms : owner'[m] = (IF waiting[m] = <<>> THEN Nobody ELSE Head(waiting[m]))
      /\ \A m \in Mutexes \ ms : owner'[m] = owner[m]
      /\ owner' \in [Mutexes -> Processes \cup {Nobody}]
  BY <1>1, UnlockBeheads
<1>3. /\ waiting' \in [Resources -> Seq(Processes)] /\ QueuesDistinct'
      /\ \A t \in Resources : \A i \in 1 .. Len(waiting'[t]) : waiting'[t][i] \in asleep
      /\ \A q : Queued(q) => \/ Queued(q)'
                             \/ \E m \in ms : waiting[m] # <<>> /\ Head(waiting[m]) = q
  <2>1. ms \in SUBSET Resources
    BY DEF Resources
  <2> QED BY <1>2, <2>1, BeheadKeeps DEF QInv
\* Nobody is told of the mutexes p leaves.
<1>4. \A m \in ms : inside'[m] = {}
  BY <1>1 DEF MutualExclusion
<1>5. TypeOK'
  BY <1>1, <1>2, <1>3 DEF TypeOK
<1>6. MutualExclusion'
  <2>1. \A m \in Mutexes \ ms : inside'[m] \subseteq {owner'[m]}
    BY <1>1, <1>2 DEF MutualExclusion
  <2> QED BY <1>4, <2>1 DEF MutualExclusion
<1>7. QueuedSleep'
  BY <1>1, <1>3 DEF QueuedSleep
<1>8. SleepersAccounted'
  <2> SUFFICES ASSUME NEW q \in asleep, ~Queued(q)', ~(voided # {})
               PROVE  Untold(q)'
    BY <1>1 DEF SleepersAccounted
  <2>1. exited' # {}
    BY <1>1
  <2>2. CASE Queued(q)
    <3>1. PICK m \in ms : waiting[m] # <<>> /\ Head(waiting[m]) = q
      BY <1>3, <2>2
    <3>2. m \in Mutexes /\ owner'[m] = q /\ q \notin inside'[m]
      BY <1>2, <1>4, <3>1
    <3> QED BY <2>1, <3>2 DEF Untold
  <2>3. CASE ~Queued(q)
    <3>1. PICK m \in Mutexes : owner[m] = q /\ q \notin inside[m]
      BY <2>3 DEF QInv, SleepersAccounted, Untold
    <3>2. m \notin ms
      BY <1>1, <3>1
    <3>3. owner'[m] = q /\ q \notin inside'[m]
      BY <1>1, <1>2, <3>1, <3>2
    <3> QED BY <2>1, <3>3 DEF Untold
  <2> QED BY <2>2, <2>3
<1> QED BY <1>3, <1>5, <1>6, <1>7, <1>8 DEF QInv

LEMMA VoidedKeeps ==
  ASSUME SInv, NEW r \in Resources, Voided(r),
         UNCHANGED <<manager, asleep, exited>>,
         live' \subseteq live, unused' = unused
  PROVE  SInv'
<1> USE DEF SInv, manager
<1>1. /\ waiting' \in [Resources -> Seq(Processes)] /\ QueuesDistinct'
      /\ \A t \in Resources : \A i \in 1 .. Len(waiting'[t]) : waiting'[t][i] \in asleep
  BY EmptyKeeps DEF Voided, QInv
<1>2. TypeOK'
  <2>1. count' \in [Semaphores -> Nat] /\ owner' \in [Mutexes -> Processes \cup {Nobody}]
    BY SyncAssumption DEF Voided, TypeOK
  <2>2. inside' \in [Mutexes -> SUBSET Processes] /\ voided' \subseteq Resources
    BY DEF Voided, TypeOK
  <2>3. balance' \in [Semaphores -> [Processes -> Int]]
    BY DEF Voided, TypeOK
  <2> QED BY <1>1, <2>1, <2>2, <2>3 DEF TypeOK
<1>3. MutualExclusion'
  BY DEF Voided, MutualExclusion
<1>4. voided' # {}
  BY DEF Voided
<1> QED BY <1>1, <1>2, <1>3, <1>4 DEF QInv, QueuedSleep, SleepersAccounted

LEMMA SimulatorKeeps ==
  ASSUME SInv, \/ \E r \in Resources : Create(r)
               \/ DetectDeadlock \/ Scan \/ UNCHANGED vars
  PROVE  SInv'
<1> USE DEF SInv, primitives, registry, processes, manager
<1>1. UNCHANGED <<count, owner, waiting, asleep, exited, voided, inside, balance>>
  BY DEF Create, DetectDeadlock, Scan, vars
<1>2. TypeOK'
  BY <1>1 DEF TypeOK, Create, DetectDeadlock, Scan, vars
<1> QED
  BY <1>1, <1>2 DEF MutualExclusion, QInv, QueuesDistinct, QueuedSleep, SleepersAccounted,
                    Queued, Untold

LEMMA ResetKeeps ==
  ASSUME SInv, Reset
  PROVE  SInv'
<1> USE DEF SInv, manager
<1>1. TypeOK'
  <2>1. count' \in [Semaphores -> Nat] /\ owner' \in [Mutexes -> Processes \cup {Nobody}]
    BY SyncAssumption DEF Reset
  <2>2. waiting' \in [Resources -> Seq(Processes)] /\ inside' \in [Mutexes -> SUBSET Processes]
    BY DEF Reset
  <2>3. balance' \in [Semaphores -> [Processes -> Int]]
    BY DEF Reset
  <2> QED BY <2>1, <2>2, <2>3 DEF Reset, TypeOK
<1>2. MutualExclusion'
  BY DEF Reset, MutualExclusion
<1>3. asleep' = {} /\ \A r \in Resources : Len(waiting'[r]) = 0
  BY DEF Reset
<1> QED BY <1>1, <1>2, <1>3 DEF QInv, QueuesDistinct, QueuedSleep, SleepersAccounted

LEMMA SInvHolds == Spec => []SInv
<1>1. ASSUME Init PROVE SInv
  <2>1. TypeOK
    <3>1. count \in [Semaphores -> Nat] /\ owner \in [Mutexes -> Processes \cup {Nobody}]
      BY <1>1, SyncAssumption DEF Init
    <3>2. waiting \in [Resources -> Seq(Processes)] /\ inside \in [Mutexes -> SUBSET Processes]
      BY <1>1 DEF Init
    <3>3. balance \in [Semaphores -> [Processes -> Int]]
      BY <1>1 DEF Init
    <3> QED BY <1>1, <3>1, <3>2, <3>3 DEF Init, TypeOK
  <2>2. MutualExclusion
    BY <1>1 DEF Init, MutualExclusion
  <2>3. asleep = {} /\ \A r \in Resources : Len(waiting[r]) = 0
    BY <1>1 DEF Init
  <2> QED BY <2>1, <2>2, <2>3 DEF SInv, QInv, QueuesDistinct, QueuedSleep, SleepersAccounted
<1>2. ASSUME SInv, [Next]_vars PROVE SInv'
  <2>1. ASSUME NEW p \in Processes, NEW s \in Semaphores, Wait(p, s) \/ Signal(p, s) PROVE SInv'
    BY <1>2, <2>1, WaitKeeps, SignalKeeps
  <2>2. ASSUME NEW p \in Processes, NEW m \in Mutexes, Lock(p, m) \/ Unlock(p, m) PROVE SInv'
    BY <1>2, <2>2, LockKeeps, UnlockKeeps
  <2>3. ASSUME NEW p \in Processes, CleanupProcess(p) PROVE SInv'
    BY <1>2, <2>3, CleanupKeeps
  <2>4. ASSUME NEW r \in Resources, Destroy(r) \/ Renew(r) PROVE SInv'
    BY <1>2, <2>4, VoidedKeeps DEF Destroy, Renew, registry
  <2>5. ASSUME Reset PROVE SInv'
    BY <1>2, <2>5, ResetKeeps
  <2>6. ASSUME (\E r \in Resources : Create(r)) \/ DetectDeadlock \/ Scan \/ UNCHANGED vars
        PROVE  SInv'
    BY <1>2, <2>6, SimulatorKeeps
  <2> QED BY <1>2, <2>1, <2>2, <2>3, <2>4, <2>5, <2>6 DEF Next
<1> QED BY <1>1, <1>2, PTL DEF Spec

-----------------------------------------------------------------------------
(* The theorems. *)

\* The primitives, the registry and what the processes were told keep their
\* types: no counter falls below zero.
THEOREM SyncTypeCorrect == Spec => []TypeOK
BY SInvHolds, PTL DEF SInv

\* No two processes have been told that they have the same mutex, however it
\* was handed over, left by a process that completed, removed or reset.
THEOREM MutualExclusionAlways == Spec => []MutualExclusion
BY SInvHolds, PTL DEF SInv

LEMMA PlacesAreQueued ==
  ASSUME NEW p, TypeOK
  PROVE  /\ Places(p) # {} <=> Queued(p)
         /\ \A x \in Places(p) : \E r \in Resources : \E i \in 1 .. Len(waiting[r]) :
              x = <<r, i>> /\ waiting[r][i] = p
<1>1. \A r \in Resources : DOMAIN waiting[r] = 1 .. Len(waiting[r])
  BY DEF TypeOK
<1>2. \A x : x \in Places(p) <=> \E r \in Resources : \E i \in DOMAIN waiting[r] :
                                   x = <<r, i>> /\ waiting[r][i] = p
  BY DEF Places
<1>3. \A x : x \in Places(p) <=> \E r \in Resources : \E i \in 1 .. Len(waiting[r]) :
                                   x = <<r, i>> /\ waiting[r][i] = p
  BY <1>1, <1>2
<1> QED BY <1>3 DEF Queued

\* A process waits in one place at most, and the only wake-ups that are lost
\* are those cleanupProcess drops and those of primitives removed or reset.
THEOREM SleepersAreQueuedAlways == Spec => []SleepersAreQueuedOnce
<1>1. ASSUME SInv PROVE SleepersAreQueuedOnce
  <2> USE <1>1 DEF SInv
  <2>1. ASSUME NEW p \in Processes PROVE Cardinality(Places(p)) <= 1
    <3>1. CASE Places(p) = {}
      BY <3>1, FS_EmptySet
    <3>2. CASE Places(p) # {}
      <4>1. PICK x : x \in Places(p)
        BY <3>2
      <4>2. ASSUME NEW y \in Places(p) PROVE y = x
        <5>1. PICK r \in Resources : \E i \in 1 .. Len(waiting[r]) :
                                       x = <<r, i>> /\ waiting[r][i] = p
          BY <4>1, PlacesAreQueued
        <5>2. PICK t \in Resources : \E j \in 1 .. Len(waiting[t]) :
                                       y = <<t, j>> /\ waiting[t][j] = p
          BY PlacesAreQueued
        <5> QED BY <5>1, <5>2 DEF QInv, QueuesDistinct
      <4>3. Places(p) = {x}
        BY <4>1, <4>2
      <4>4. Cardinality({x}) = 1
        BY FS_Singleton
      <4> QED BY <4>3, <4>4
    <3> QED BY <3>1, <3>2
  <2>2. ASSUME NEW p \in Processes, Places(p) # {} PROVE p \in asleep
    BY <2>2, PlacesAreQueued DEF QInv, QueuedSleep, Queued
  <2>3. ASSUME NEW p \in asleep, Places(p) = {}
        PROVE  voided # {} \/ (exited # {} /\ \E m \in Mutexes : owner[m] = p /\ p \notin inside[m])
    BY <2>3, PlacesAreQueued DEF QInv, SleepersAccounted, Untold
  <2> QED BY <2>1, <2>2, <2>3 DEF SleepersAreQueuedOnce
<1> QED BY <1>1, SInvHolds, PTL

-----------------------------------------------------------------------------
(* The units of the semaphores.                                             *)

\* What is settled for one semaphore: its counter and the units the processes
\* have been given add up, and nobody waits while there is a unit.
Settled(s) ==
  /\ count[s] + SumFunction(balance[s]) = InitialCount
  /\ waiting[s] # <<>> => count[s] = 0

\* A semaphore an action leaves alone.
LEMMA SettledAlone ==
  ASSUME NEW s, Settled(s),
         count'[s] = count[s], balance'[s] = balance[s], waiting'[s] = waiting[s]
  PROVE  Settled(s)'
BY DEF Settled

\* From f to h: k units more in the hands of p; one unit handed by p to w.
Moves(f, h, p, k) == \A q \in Processes : h[q] = IF q = p THEN f[q] + k ELSE f[q]
Passes(f, h, p, w) ==
  \A q \in Processes : h[q] = f[q] - (IF q = p THEN 1 ELSE 0) + (IF q = w THEN 1 ELSE 0)

LEMMA UnitMoves ==
  ASSUME NEW f \in [Processes -> Int], NEW p \in Processes, NEW k \in Int,
         NEW h \in [Processes -> Int], Moves(f, h, p, k)
  PROVE  SumFunction(h) = SumFunction(f) + k /\ SumFunction(f) \in Int
<1>1. h[p] = f[p] + k /\ \A q \in Processes \ {p} : h[q] = f[q]
  BY DEF Moves
<1>2. IsFiniteSet(Processes) /\ f[p] \in Int /\ SumFunction(f) \in Int
  BY SyncAssumption, SumType
<1>3. SumFunction(h) = SumFunction(f) + h[p] - f[p]
  BY <1>1, <1>2, SumChanges
<1> QED BY <1>1, <1>2, <1>3

LEMMA UnitPasses ==
  ASSUME NEW f \in [Processes -> Int], NEW p \in Processes, NEW w \in Processes,
         NEW h \in [Processes -> Int], Passes(f, h, p, w)
  PROVE  SumFunction(h) = SumFunction(f)
<1> DEFINE g == [q \in Processes |-> IF q = p THEN f[q] - 1 ELSE f[q]]
           minus == -1
<1>1. g \in [Processes -> Int] /\ Moves(f, g, p, minus) /\ minus \in Int /\ minus + 1 = 0
  BY DEF Moves
<1>2. Moves(g, h, w, 1)
  BY DEF Moves, Passes
<1> HIDE DEF g, minus
<1>3. SumFunction(g) = SumFunction(f) + minus /\ SumFunction(f) \in Int
  BY <1>1, UnitMoves
<1>4. SumFunction(h) = SumFunction(g) + 1
  BY <1>1, <1>2, UnitMoves
<1> QED BY <1>1, <1>3, <1>4

\* Nobody has a unit yet.
LEMMA NoUnits ==
  InitialCount + SumFunction([p \in Processes |-> 0]) = InitialCount
<1> DEFINE f == [p \in Processes |-> 0]
<1>1. f \in [Processes -> Int] /\ IsFiniteSet(Processes) /\ \A p \in Processes : f[p] = 0
  BY SyncAssumption
<1>2. SumFunction(f) = 0
  <2> HIDE DEF f
  <2> QED BY <1>1, SumOfZeroes
<1> QED BY <1>2, SyncAssumption

LEMMA WaitSettles ==
  ASSUME TypeOK, NEW p \in Processes, NEW s \in Semaphores, Wait(p, s), Settled(s)
  PROVE  Settled(s)'
<1>1. s \in Resources /\ balance[s] \in [Processes -> Int] /\ count[s] \in Nat
  BY DEF TypeOK, Resources
<1>2. CASE count[s] > 0
  <2>1. /\ count'[s] = count[s] - 1 /\ waiting'[s] = waiting[s]
        /\ balance'[s] = [balance[s] EXCEPT ![p] = @ + 1]
    BY <1>2 DEF Wait, TypeOK
  <2> DEFINE f == balance[s]
             h == balance'[s]
  <2>2. f \in [Processes -> Int] /\ h \in [Processes -> Int]
        /\ Moves(f, h, p, 1)
    BY <1>1, <2>1 DEF Moves
  <2>3. SumFunction(h) = SumFunction(f) + 1 /\ SumFunction(f) \in Int
    <3> HIDE DEF f, h
    <3> QED BY <2>2, UnitMoves
  <2> QED BY <1>1, <1>2, <2>1, <2>3 DEF Settled
<1>3. CASE count[s] = 0
  BY <1>3 DEF Wait, Settled, TypeOK
<1> QED BY <1>1, <1>2, <1>3

\* A unit that is signalled goes to the counter, or to the first that waits.
LEMMA SignalSettles ==
  ASSUME TypeOK, NEW p \in Processes, NEW s \in Semaphores, Signal(p, s), Settled(s)
  PROVE  Settled(s)'
<1>1. /\ s \in Resources /\ balance[s] \in [Processes -> Int] /\ count[s] \in Nat
      /\ waiting[s] \in Seq(Processes) /\ InitialCount \in Nat
  BY SyncAssumption DEF TypeOK, Resources
<1>2. CASE waiting[s] = <<>>
  <2>1. /\ count'[s] = count[s] + 1 /\ waiting'[s] = waiting[s]
        /\ balance'[s] = [balance[s] EXCEPT ![p] = @ - 1]
    BY <1>2 DEF Signal, CountAfterSignal, TypeOK
  <2> DEFINE f == balance[s]
             h == balance'[s]
  <2>2. f \in [Processes -> Int] /\ h \in [Processes -> Int]
        /\ Moves(f, h, p, -1)
    BY <1>1, <2>1 DEF Moves
  <2>3. SumFunction(h) = SumFunction(f) + -1 /\ SumFunction(f) \in Int
    <3> HIDE DEF f, h
    <3> QED BY <2>2, UnitMoves
  <2> QED BY <1>1, <1>2, <2>1, <2>3 DEF Settled
<1>3. CASE waiting[s] # <<>>
  <2> DEFINE woken == Head(waiting[s])
             f == balance[s]
             h == balance'[s]
  <2>1. woken \in Processes
    BY <1>1, <1>3
  <2>2. /\ count'[s] = count[s] /\ count[s] = 0
        /\ h = [f EXCEPT ![p] = @ - 1, ![woken] = @ + 1]
    BY <1>1, <1>3 DEF Signal, CountAfterSignal, Dequeued, TypeOK, Settled
  <2>3. h \in [Processes -> Int]
        /\ Passes(f, h, p, woken)
    <3>1. f \in [Processes -> Int] /\ p \in Processes /\ h = [f EXCEPT ![p] = @ - 1, ![woken] = @ + 1]
      BY <1>1, <2>2
    <3> HIDE DEF woken, f, h
    <3>2. h \in [Processes -> Int]
      BY <2>1, <3>1
    <3> QED BY <2>1, <3>1, <3>2 DEF Passes
  <2>4. SumFunction(h) = SumFunction(f)
    <3>1. f \in [Processes -> Int]
      BY <1>1
    <3> HIDE DEF woken, h, f
    <3> QED BY <2>1, <2>3, <3>1, UnitPasses
  <2> QED BY <2>2, <2>4 DEF Settled
<1> QED BY <1>2, <1>3

LEMMA SettledStep ==
  ASSUME TypeOK, [Next]_vars, NEW s \in Semaphores, Settled(s)
  PROVE  Settled(s)'
<1> USE DEF primitives, registry, processes, manager
<1>0. s \in Resources /\ s \notin Mutexes
  BY SyncAssumption DEF Resources
<1>1. ASSUME NEW p \in Processes, NEW t \in Semaphores, Wait(p, t) \/ Signal(p, t)
      PROVE  Settled(s)'
  <2>1. CASE t = s
    BY <1>1, <2>1, WaitSettles, SignalSettles
  <2>2. CASE t # s
    <3>1. /\ count'[s] = count[s] /\ balance'[s] = balance[s]
          /\ waiting'[s] = waiting[s]
      BY <1>0, <1>1, <2>2 DEF Wait, Signal, TypeOK
    <3> QED BY <3>1, SettledAlone
  <2> QED BY <2>1, <2>2
<1>2. ASSUME NEW p \in Processes, NEW m \in Mutexes, Lock(p, m) \/ Unlock(p, m)
      PROVE  Settled(s)'
  <2>1. count'[s] = count[s] /\ balance'[s] = balance[s] /\ waiting'[s] = waiting[s]
    BY <1>0, <1>2 DEF Lock, Unlock, Unlocked, TypeOK
  <2> QED BY <2>1, SettledAlone
<1>3. ASSUME NEW p \in Processes, CleanupProcess(p) PROVE Settled(s)'
  <2>1. count'[s] = count[s] /\ balance'[s] = balance[s] /\ waiting'[s] = waiting[s]
    BY <1>0, <1>3 DEF CleanupProcess, Unlocked, TypeOK
  <2> QED BY <2>1, SettledAlone
<1>4. ASSUME NEW r \in Resources, Voided(r) PROVE Settled(s)'
  <2>1. CASE r = s
    <3>1. /\ count'[s] = InitialCount /\ waiting'[s] = <<>>
          /\ balance'[s] = [p \in Processes |-> 0]
      BY <1>0, <1>4, <2>1 DEF Voided, TypeOK
    <3> QED BY <3>1, NoUnits DEF Settled
  <2>2. CASE r # s
    <3>1. count'[s] = count[s] /\ balance'[s] = balance[s] /\ waiting'[s] = waiting[s]
      BY <1>0, <1>4, <2>2 DEF Voided, TypeOK
    <3> QED BY <3>1, SettledAlone
  <2> QED BY <2>1, <2>2
<1>5. ASSUME Reset PROVE Settled(s)'
  BY <1>0, <1>5, NoUnits DEF Reset, Settled
<1>6. ASSUME (\E r \in Resources : Create(r)) \/ DetectDeadlock \/ Scan \/ UNCHANGED vars
      PROVE  Settled(s)'
  BY <1>6, SettledAlone DEF Create, DetectDeadlock, Scan, vars
<1> QED BY <1>1, <1>2, <1>3, <1>4, <1>5, <1>6 DEF Next, Destroy, Renew

\* However waits, signals, removals and resets follow one another: the counter
\* and the units handed out add up to the initial count, and no unit is left
\* while a process waits for one.
THEOREM SemaphoreConservesAlways == Spec => []SemaphoreConserves
<1> DEFINE AllSettled == \A s \in Semaphores : Settled(s)
<1>1. Init => AllSettled
  BY NoUnits DEF Init, Resources, Settled
<1>2. TypeOK /\ AllSettled /\ [Next]_vars => AllSettled'
  BY SettledStep
<1>3. AllSettled => SemaphoreConserves
  BY DEF Settled, SemaphoreConserves
<1> HIDE DEF AllSettled
<1> QED BY <1>1, <1>2, <1>3, SyncTypeCorrect, PTL DEF Spec
=============================================================================
