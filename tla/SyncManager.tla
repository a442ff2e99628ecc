----------------------------- MODULE SyncManager -----------------------------
(***************************************************************************)
(* The semaphores and mutexes of SyncManager, the processes that use them  *)
(* through getSyncManager, and the simulator's calls: cleanupProcess for a *)
(* process that has completed, detectDeadlock after a time step, and reset *)
(* together with the whole simulation.                                     *)
(*                                                                         *)
(* The primitives never stop a caller: wait and lock answer FALSE and the  *)
(* caller has to block, until the pid that signal or unlock answers is its *)
(* own.  What the processes know from those answers (asleep, inside,       *)
(* balance) is kept apart from what the primitives store.                  *)
(*                                                                         *)
(* A client asks the manager for the pointer to a primitive at each call,  *)
(* under sync_mutex_, and then the operation is one critical section of    *)
(* the primitive's own lock.  The two are one step here: an operation does *)
(* not touch sync_mutex_, so one that the detector overtakes leaves the    *)
(* primitives and the processes as if it had come before the detector.     *)
(***************************************************************************)
EXTENDS Integers, Sequences, FiniteSets, SequencesExt, FiniteSetsExt, Functions

CONSTANTS
  Processes, Semaphores, Mutexes,
  Nobody,          \* the code's pid -1
  InitialCount,    \* of every semaphore
  Rank,            \* the order in which processes acquire resources
  MaxCredit        \* bound: signals of a process in excess of its waits

Resources == Semaphores \cup Mutexes

ASSUME SyncAssumption ==
  /\ IsFiniteSet(Processes) /\ Nobody \notin Processes
  /\ Semaphores \cap Mutexes = {} /\ InitialCount \in Nat /\ MaxCredit \in Nat
  /\ Rank \in [Resources -> Nat]

VARIABLES
  count,        \* Semaphore::count_
  owner,        \* Mutex::owner_process_
  waiting,      \* waiting_processes_ of every resource
  live,         \* the ids in semaphores_ and mutexes_
  unused,       \* ids not yet given out: next_sem_id_ and next_mutex_id_
  voided,       \* history: the primitives removed or reset
  sync_mutex,   \* sync_mutex_ of the manager: "free" or "detector"
  detector,     \* the thread in detectDeadlock: "idle", "scanning" or "stuck"
  asleep,       \* processes told to block, and not told of a wake-up since
  exited,       \* processes that have completed
  inside,       \* inside[m]: processes told that they have mutex m
  balance       \* balance[s][p]: units p was told it got, less its signals

primitives == <<count, owner, waiting>>
registry   == <<live, unused>>
processes  == <<asleep, exited, voided, inside, balance>>
manager    == <<sync_mutex, detector>>
vars == <<primitives, registry, manager, processes>>

Init ==
  /\ count = [s \in Semaphores |-> InitialCount]
  /\ owner = [m \in Mutexes |-> Nobody]
  /\ waiting = [r \in Resources |-> <<>>]
  /\ live = {} /\ unused = Resources /\ voided = {}
  /\ sync_mutex = "free" /\ detector = "idle"
  /\ asleep = {} /\ exited = {}
  /\ inside = [m \in Mutexes |-> {}]
  /\ balance = [s \in Semaphores |-> [p \in Processes |-> 0]]

-----------------------------------------------------------------------------
(* The processes. *)

Awake(p) == p \in Processes \ (asleep \cup exited)

Held(p) == {m \in Mutexes : p \in inside[m]} \cup {s \in Semaphores : balance[s][p] > 0}

\* getSemaphore and getMutex answer a pointer to r; a caller waits while the
\* detector has the lock, for ever if it is stuck with it.
LookUp(r) == sync_mutex = "free" /\ r \in live

\* The manager enforces no order of acquisition: the processes keep to one.
MayRequest(p, r) == Awake(p) /\ LookUp(r) /\ \A h \in Held(p) : Rank[h] < Rank[r]

-----------------------------------------------------------------------------
(* Semaphores and mutexes. *)

\* Faults for the checks: the queue taken from its back; front without pop.
DequeuedLast(q) == [first |-> Last(q), rest |-> Front(q)]
NotDequeued(q) == [first |-> Head(q), rest |-> q]

\* front() and pop() of a std::queue that is not empty.
Dequeued(q) == [first |-> Head(q), rest |-> Tail(q)]

\* Fault for the checks: the counter is not looked at.
WaitUnchecked(p, s) ==
  /\ MayRequest(p, s)
  /\ count' = [count EXCEPT ![s] = @ - 1]
  /\ balance' = [balance EXCEPT ![s][p] = @ + 1]
  /\ UNCHANGED <<owner, waiting, registry, manager, asleep, exited, voided, inside>>

Wait(p, s) ==
  /\ MayRequest(p, s)
  /\ \/ /\ count[s] > 0
        /\ count' = [count EXCEPT ![s] = @ - 1]
        /\ balance' = [balance EXCEPT ![s][p] = @ + 1]
        /\ UNCHANGED <<waiting, asleep>>
     \/ /\ count[s] = 0
        /\ waiting' = [waiting EXCEPT ![s] = Append(@, p)]
        /\ asleep' = asleep \cup {p}
        /\ UNCHANGED <<count, balance>>
  /\ UNCHANGED <<owner, registry, manager, exited, voided, inside>>

\* Fault for the checks: the unit given to a waiter is also put back.
CountWhenWoken(s) == count[s] + 1

\* signal leaves the counter alone when it wakes a process.
CountAfterSignal(s) == IF waiting[s] = <<>> THEN count[s] + 1 ELSE count[s]

Signal(p, s) ==
  /\ Awake(p) /\ LookUp(s) /\ balance[s][p] > -MaxCredit
  /\ count' = [count EXCEPT ![s] = CountAfterSignal(s)]
  /\ \/ /\ waiting[s] = <<>>
        /\ balance' = [balance EXCEPT ![s][p] = @ - 1]
        /\ UNCHANGED <<waiting, asleep>>
     \/ /\ waiting[s] # <<>>
        /\ LET woken == Dequeued(waiting[s])
           IN /\ waiting' = [waiting EXCEPT ![s] = woken.rest]
              /\ balance' = [balance EXCEPT ![s][p] = @ - 1, ![s][woken.first] = @ + 1]
              /\ asleep' = asleep \ {woken.first}
  /\ UNCHANGED <<owner, registry, manager, exited, voided, inside>>

\* A process that owns the mutex already is answered TRUE, and nothing changes.
Lock(p, m) ==
  /\ MayRequest(p, m) \/ (Awake(p) /\ LookUp(m) /\ owner[m] = p)
  /\ \/ /\ owner[m] \in {Nobody, p}
        /\ owner' = [owner EXCEPT ![m] = p]
        /\ inside' = [inside EXCEPT ![m] = @ \cup {p}]
        /\ UNCHANGED <<waiting, asleep>>
     \/ /\ owner[m] \notin {Nobody, p}
        /\ waiting' = [waiting EXCEPT ![m] = Append(@, p)]
        /\ asleep' = asleep \cup {p}
        /\ UNCHANGED <<owner, inside>>
  /\ UNCHANGED <<count, registry, manager, exited, voided, balance>>

\* Fault for the checks: the mutex is left free for the woken process to take.
FreeForNext(m) == Nobody

\* unlock gives the mutex to the first waiter.
NextOwner(m) == IF waiting[m] = <<>> THEN Nobody ELSE Dequeued(waiting[m]).first

\* What unlock does to the mutexes ms, all of them owned by the caller.
Unlocked(ms) ==
  /\ owner' = [m \in Mutexes |-> IF m \in ms THEN NextOwner(m) ELSE owner[m]]
  /\ waiting' = [r \in Resources |->
       IF r \in ms /\ waiting[r] # <<>> THEN Dequeued(waiting[r]).rest ELSE waiting[r]]

\* The caller of unlock learns who was woken.  (Unlocking a mutex that is not
\* owned changes nothing and is left out.)
Unlock(p, m) ==
  /\ Awake(p) /\ LookUp(m) /\ owner[m] = p
  /\ Unlocked({m})
  /\ LET woken == IF waiting[m] = <<>> THEN {} ELSE {Dequeued(waiting[m]).first}
     IN /\ inside' = [inside EXCEPT ![m] = (@ \ {p}) \cup woken]
        /\ asleep' = asleep \ woken
  /\ UNCHANGED <<count, registry, manager, exited, voided, balance>>

-----------------------------------------------------------------------------
(* The registry. *)

\* createSemaphore and createMutex: the primitive of an id not yet given out
\* is as its constructor leaves it.
Create(r) ==
  /\ sync_mutex = "free" /\ r \in unused
  /\ live' = live \cup {r} /\ unused' = unused \ {r}
  /\ UNCHANGED <<primitives, manager, processes>>

\* What is left of r when its queue is thrown away and its state is that of
\* the constructor again: what the processes had of it is void, and those
\* that wait for it are told nothing.
Voided(r) ==
  /\ count' = [s \in Semaphores |-> IF s = r THEN InitialCount ELSE count[s]]
  /\ owner' = [m \in Mutexes |-> IF m = r THEN Nobody ELSE owner[m]]
  /\ waiting' = [waiting EXCEPT ![r] = <<>>]
  /\ inside' = [m \in Mutexes |-> IF m = r THEN {} ELSE inside[m]]
  /\ balance' = [s \in Semaphores |-> IF s = r THEN [p \in Processes |-> 0] ELSE balance[s]]
  /\ voided' = voided \cup {r}

\* removeSemaphore and removeMutex.
Destroy(r) ==
  /\ sync_mutex = "free" /\ r \in live
  /\ Voided(r) /\ live' = live \ {r}
  /\ UNCHANGED <<unused, manager, asleep, exited>>

\* Semaphore::reset and Mutex::reset, through a pointer like the others.
Renew(r) ==
  /\ LookUp(r)
  /\ Voided(r)
  /\ UNCHANGED <<registry, manager, asleep, exited>>

-----------------------------------------------------------------------------
(* The simulator. *)

\* SimulationController::reset, once its stop has joined the thread: the
\* processes go with the primitives, and the ids begin again.
Reset ==
  /\ sync_mutex = "free" /\ detector = "idle"
  /\ count' = [s \in Semaphores |-> InitialCount]
  /\ owner' = [m \in Mutexes |-> Nobody]
  /\ waiting' = [r \in Resources |-> <<>>]
  /\ live' = {} /\ unused' = Resources /\ voided' = {}
  /\ asleep' = {} /\ exited' = {}
  /\ inside' = [m \in Mutexes |-> {}]
  /\ balance' = [s \in Semaphores |-> [p \in Processes |-> 0]]
  /\ UNCHANGED manager

\* A process completes while it runs, so awake.  cleanupProcess unlocks its
\* mutexes and drops the pids unlock answers; units and queues stay.
CleanupProcess(p) ==
  /\ Awake(p) /\ sync_mutex = "free"
  /\ Unlocked({m \in Mutexes : owner[m] = p})
  /\ exited' = exited \cup {p}
  /\ inside' = [m \in Mutexes |-> inside[m] \ {p}]
  /\ UNCHANGED <<count, registry, manager, asleep, voided, balance>>

DetectDeadlock ==
  /\ detector = "idle" /\ sync_mutex = "free"
  /\ detector' = "scanning" /\ sync_mutex' = "detector"
  /\ UNCHANGED <<primitives, registry, processes>>

\* For a mutex that has an owner the scan calls the manager's own
\* isProcessWaiting, which locks sync_mutex_: this thread holds it already.
Scan ==
  /\ detector = "scanning"
  /\ \/ /\ \A m \in Mutexes : owner[m] = Nobody
        /\ detector' = "idle" /\ sync_mutex' = "free"
     \/ /\ \E m \in Mutexes : owner[m] # Nobody
        /\ detector' = "stuck" /\ UNCHANGED sync_mutex
  /\ UNCHANGED <<primitives, registry, processes>>

-----------------------------------------------------------------------------

Next ==
  \/ \E p \in Processes :
       \/ \E s \in Semaphores : Wait(p, s) \/ Signal(p, s)
       \/ \E m \in Mutexes : Lock(p, m) \/ Unlock(p, m)
       \/ CleanupProcess(p)
  \/ \E r \in Resources : Create(r) \/ Destroy(r) \/ Renew(r)
  \/ DetectDeadlock \/ Scan \/ Reset

Spec == Init /\ [][Next]_vars

\* A process that holds a unit or a mutex gives it back in the end, if again
\* and again it is awake and finds sync_mutex_ free; the thread in
\* detectDeadlock keeps running.
FairSpec ==
  /\ Spec /\ WF_vars(Scan)
  /\ \A p \in Processes :
       /\ \A s \in Semaphores : SF_vars(balance[s][p] > 0 /\ Signal(p, s))
       /\ \A m \in Mutexes : SF_vars(Unlock(p, m))

-----------------------------------------------------------------------------
(* Properties. *)

TypeOK ==
  /\ count \in [Semaphores -> Nat]
  /\ owner \in [Mutexes -> Processes \cup {Nobody}]
  /\ waiting \in [Resources -> Seq(Processes)]
  /\ live \subseteq Resources /\ unused \subseteq Resources \ live
  /\ sync_mutex \in {"free", "detector"} /\ detector \in {"idle", "scanning", "stuck"}
  /\ asleep \subseteq Processes /\ exited \subseteq Processes /\ voided \subseteq Resources
  /\ inside \in [Mutexes -> SUBSET Processes]
  /\ balance \in [Semaphores -> [Processes -> Int]]

\* No two processes have been told that they have the same mutex, and the one
\* that was told is the owner on record, through hand-overs and completions.
MutualExclusion == \A m \in Mutexes : inside[m] \subseteq {owner[m]}

\* No unit of a semaphore is lost or made by waits that slept, and units are
\* never left over while a process waits for one.
SemaphoreConserves ==
  \A s \in Semaphores :
    /\ count[s] + SumFunction(balance[s]) = InitialCount
    /\ waiting[s] # <<>> => count[s] = 0

\* The positions p has in the waiting queues.
Places(p) == UNION {{<<r, i>> : i \in {j \in DOMAIN waiting[r] : waiting[r][j] = p}} : r \in Resources}

\* A process in a queue sleeps and is there once.  One that sleeps is in a
\* queue, or what it waits for was removed or reset, or it was made owner of
\* a mutex by the completion of another process and nobody told it: the
\* wake-ups the manager loses are these two.
SleepersAreQueuedOnce ==
  /\ \A p \in Processes : Cardinality(Places(p)) <= 1
  /\ \A p \in Processes : Places(p) # {} => p \in asleep
  /\ \A p \in asleep :
       Places(p) = {} =>
         \/ voided # {}
         \/ exited # {} /\ \E m \in Mutexes : owner[m] = p /\ p \notin inside[m]

\* As long as no process has completed and nothing is removed or reset, one
\* that waits is served: the queues are first in, first out, and nobody is
\* overtaken for ever, although a detection may keep any process from giving
\* back what it holds for a while.  One that is stuck stops all service: it
\* keeps sync_mutex_, and nobody gets as far as signal or unlock.
EveryWaiterServed ==
  \A p \in Processes :
    p \in asleep ~> (p \notin asleep \/ exited # {} \/ voided # {} \/ detector = "stuck")

\* design.md, Property 14: the manager detects deadlocks.  A detection that is
\* begun gives an answer.
DetectionAnswers == detector # "idle" ~> detector = "idle"
=============================================================================
