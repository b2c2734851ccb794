----------------------------- MODULE ThreadPool -----------------------------
(***************************************************************************)
(* The polling thread pool of include/MSTL/ext/thread_pool.hpp: workers    *)
(* that run thread_function, any number of concurrent submit_task calls,   *)
(* and one owner that calls set_mode, start and stop.                      *)
(*                                                                         *)
(* A section of code under task_queue_mtx_ that neither waits nor returns  *)
(* is one action; the unlocked accesses (start's loops, stop's store to    *)
(* is_running_, the ++idle_thread_size_ after a task) are actions of their *)
(* own, so they interleave with the locked sections as they do in the code.*)
(***************************************************************************)
EXTENDS Integers, Sequences, FiniteSets

CONSTANTS
    Tasks,        \* the submit_task calls; each call submits one task
    MaxIds,       \* bound: ids 0 .. MaxIds-1 that __thread_pool_id_generator hands out
    MaxStarts,    \* bound: calls of start() that find the pool stopped
    Modes,        \* the THREAD_POOL_MODE values the owner passes to set_mode
    StartSizes,   \* the init_thread_size arguments the owner passes to start
    TaskMax,      \* MSTL_TASK_MAX_THRESHHOLD__, the initial task_threshhold_
    TaskLimits,   \* the arguments the owner passes to set_task_threshhold
    ThreadLimits, \* the arguments the owner passes to set_thread_threshhold
    HwThreads,    \* MSTL_THREAD_MAX_THRESHHOLD__ (hardware_concurrency)
    UIntMod,      \* 2^32: idle_thread_size_ is an atomic_uint
    Overlap,      \* TRUE: submit_task calls may overlap start() and stop()
    NoTask        \* the empty Task of thread_function

ASSUME PoolAssumption ==
    /\ MaxIds \in Nat /\ MaxStarts \in Nat /\ HwThreads \in Nat
    /\ UIntMod \in Nat \ {0}
    /\ Modes \subseteq {"FIXED", "CACHED"}
    /\ StartSizes \subseteq Nat /\ TaskMax \in Nat
    /\ TaskLimits \subseteq Nat /\ ThreadLimits \subseteq Nat
    /\ Overlap \in BOOLEAN
    /\ NoTask \notin Tasks

Ids == 0 .. MaxIds - 1

VARIABLES
    threads,  \* the keys of threads_map_
    nextId,   \* __pool_thread_id, the next id to hand out
    initSize, \* init_thread_size_
    queue,    \* task_queue_ (task_size_ is its length: both change under the mutex)
    idle,     \* idle_thread_size_, before reduction modulo 2^32
    mode,     \* pool_mode_
    taskMax,  \* task_threshhold_
    threadMax,\* thread_threshhold_
    running,  \* is_running_
    wpc,      \* where each worker is in thread_function
    wtask,    \* the local variable task of each worker
    tpc,      \* how far each submit_task call, then its task, has come
    octl,     \* where the owner is in start() or stop()
    k,        \* the loop counter of start()
    starts,   \* how often start() began (bounded by MaxStarts)
    fault     \* start() dereferenced a map entry that is not a thread it made

config == <<mode, taskMax, threadMax>>
owner  == <<octl, k, starts, fault, running, initSize>>
vars == <<threads, nextId, queue, idle, config, wpc, wtask, tpc, owner>>

WorkerPcs == {"none",     \* no such thread
              "made",     \* in threads_map_, not started yet
              "lock",     \* about to lock task_queue_mtx_ and test the queue
              "wait",     \* blocked on not_empty_
              "timedout", \* its wait_for timed out, the mutex not yet relocked
              "busy",     \* running a task
              "ran"}      \* task done, idle_thread_size_ not yet incremented

TaskPcs == {"new", "blocked", "retry", "expired", "queued", "running", "done",
            "refused"}

OwnerPcs == {"down", "creating", "starting", "counting", "up", "halting",
             "joining", "recheck"}

-----------------------------------------------------------------------------
(* Condition variables: notify_all moves every waiter back to its relock.  *)
(* A definition named ..._<bug> is not part of the model: it is a plausible*)
(* bug in the definition after it, with which the properties are tested.   *)

NotifyNotEmpty_forgotten(pcs) == pcs
NotifyNotEmpty(pcs) == [w \in Ids |-> IF pcs[w] = "wait" THEN "lock" ELSE pcs[w]]

NotifyNotFull_forgotten(pcs) == pcs
NotifyNotFull(pcs) == [t \in Tasks |-> IF pcs[t] = "blocked" THEN "retry" ELSE pcs[t]]

NotifyExit_forgotten == UNCHANGED octl
NotifyExit == octl' = IF octl = "joining" THEN "recheck" ELSE octl

(* idle_thread_size_ as the unsigned value a comparison reads.             *)
UInt(n) == n % UIntMod

Init ==
    /\ threads = {} /\ nextId = 0 /\ initSize = 0
    /\ queue = <<>> /\ idle = 0
    /\ mode = "FIXED" /\ taskMax = TaskMax /\ threadMax = HwThreads
    /\ running = FALSE
    /\ wpc = [w \in Ids |-> "none"] /\ wtask = [w \in Ids |-> NoTask]
    /\ tpc = [t \in Tasks |-> "new"]
    /\ octl = "down" /\ k = 0 /\ starts = 0 /\ fault = FALSE

-----------------------------------------------------------------------------
(* The owner.                                                              *)

SetMode(m) ==
    /\ octl = "down" /\ ~running
    /\ mode' = m
    /\ UNCHANGED <<threads, nextId, queue, idle, taskMax, threadMax, wpc, wtask, tpc, owner>>

SetTaskThreshhold(n) ==
    /\ octl = "down" /\ ~running
    /\ taskMax' = n
    /\ UNCHANGED <<threads, nextId, queue, idle, mode, threadMax, wpc, wtask, tpc, owner>>

AtMostHardware_unclamped(n) == n
AtMostHardware(n) == IF n > HwThreads THEN HwThreads ELSE n

SetThreadThreshhold(n) ==
    /\ octl = "down" /\ ~running /\ mode # "FIXED"
    /\ threadMax' = AtMostHardware(n)
    /\ UNCHANGED <<threads, nextId, queue, idle, mode, taskMax, wpc, wtask, tpc, owner>>

(* start(): publish is_running_ and the size, then create, then start.     *)
Start(n) ==
    /\ octl = "down" /\ ~running
    /\ starts < MaxStarts
    /\ running' = TRUE /\ initSize' = n
    /\ octl' = "creating" /\ k' = 0 /\ starts' = starts + 1
    /\ UNCHANGED <<threads, nextId, queue, idle, config, wpc, wtask, tpc, fault>>

CreateThread ==
    /\ octl = "creating" /\ k < initSize /\ nextId < MaxIds
    /\ nextId' = nextId + 1
    /\ threads' = threads \cup {nextId}
    /\ wpc' = IF nextId \in threads THEN wpc ELSE [wpc EXCEPT ![nextId] = "made"]
    /\ k' = k + 1
    /\ UNCHANGED <<queue, idle, config, wtask, tpc, octl, starts, fault, running, initSize>>

CreatedAll ==
    /\ octl = "creating" /\ k = initSize
    /\ octl' = "starting" /\ k' = 0
    /\ UNCHANGED <<threads, nextId, queue, idle, config, wpc, wtask, tpc, starts, fault,
                   running, initSize>>

(* threads_map_[k]->start(): operator[] makes a null entry for a missing k.*)
StartThread ==
    /\ octl = "starting" /\ k < initSize
    /\ IF k \in threads /\ wpc[k] = "made"
         THEN /\ wpc' = [wpc EXCEPT ![k] = "lock"]
              /\ octl' = "counting"
              /\ UNCHANGED fault
         ELSE /\ fault' = TRUE
              /\ UNCHANGED <<wpc, octl>>
    /\ UNCHANGED <<threads, nextId, queue, idle, config, wtask, tpc, k, starts, running, initSize>>

CountStarted ==
    /\ octl = "counting"
    /\ idle' = idle + 1
    /\ octl' = "starting" /\ k' = k + 1
    /\ UNCHANGED <<threads, nextId, queue, config, wpc, wtask, tpc, starts, fault, running, initSize>>

StartReturns ==
    /\ octl = "starting" /\ k = initSize
    /\ octl' = "up"
    /\ UNCHANGED <<threads, nextId, queue, idle, config, wpc, wtask, tpc, k, starts, fault,
                   running, initSize>>

(* stop(), also run by the destructor: is_running_ is cleared unlocked.    *)
Stop ==
    /\ octl = "up" /\ running
    /\ Overlap \/ \A t \in Tasks : tpc[t] \notin {"blocked", "retry", "expired"}
    /\ running' = FALSE
    /\ octl' = "halting"
    /\ UNCHANGED <<threads, nextId, queue, idle, config, wpc, wtask, tpc, k, starts, fault, initSize>>

ResetId_forgotten == UNCHANGED nextId
ResetId == nextId' = 0

(* exit_cond_.wait returns at once, or at a notification, on an empty map. *)
AwaitExit ==
    /\ IF threads = {} THEN octl' = "down" /\ ResetId
                       ELSE octl' = "joining" /\ UNCHANGED nextId
    /\ UNCHANGED <<threads, queue, idle, config, wtask, tpc, k, starts, fault, running, initSize>>

StopLocked ==
    /\ octl = "halting"
    /\ wpc' = NotifyNotEmpty(wpc)
    /\ AwaitExit

StopRecheck ==
    /\ octl = "recheck"
    /\ AwaitExit
    /\ UNCHANGED wpc

-----------------------------------------------------------------------------
(* submit_task: the call of task t.                                        *)

NotFull == Len(queue) < taskMax

(* In MODE_CACHED a submit that finds too few idle threads starts another. *)
NeedsThread_stale_size ==
    mode = "CACHED" /\ Len(queue) > UInt(idle) /\ Cardinality(threads) < threadMax
NeedsThread ==
    /\ mode = "CACHED"
    /\ Len(queue) + 1 > UInt(idle)
    /\ Cardinality(threads) < threadMax

Enqueue(t) ==
    /\ NotFull
    /\ queue' = Append(queue, t)
    /\ tpc' = [tpc EXCEPT ![t] = "queued"]
    /\ IF NeedsThread
         THEN /\ nextId < MaxIds
              /\ nextId' = nextId + 1
              /\ threads' = threads \cup {nextId}
              /\ wpc' = [NotifyNotEmpty(wpc) EXCEPT ![nextId] = "lock"]
              /\ idle' = idle + 1
         ELSE /\ wpc' = NotifyNotEmpty(wpc)
              /\ UNCHANGED <<nextId, threads, idle>>
    /\ UNCHANGED <<config, wtask, owner>>

Block(t) ==
    /\ ~NotFull
    /\ tpc' = [tpc EXCEPT ![t] = "blocked"]
    /\ UNCHANGED <<threads, nextId, queue, idle, config, wpc, wtask, owner>>

Submit(t) ==
    /\ tpc[t] = "new"
    /\ Overlap \/ octl = "up"
    /\ Enqueue(t) \/ Block(t)

Resubmit(t) ==
    /\ tpc[t] = "retry"
    /\ Enqueue(t) \/ Block(t)

(* The second of wait_for is over: the predicate is tested a last time.    *)
SubmitTimeout(t) ==
    /\ tpc[t] = "blocked"
    /\ tpc' = [tpc EXCEPT ![t] = "expired"]
    /\ UNCHANGED <<threads, nextId, queue, idle, config, wpc, wtask, owner>>

SubmitExpired(t) ==
    /\ tpc[t] = "expired"
    /\ \/ Enqueue(t)
       \/ /\ ~NotFull
          /\ tpc' = [tpc EXCEPT ![t] = "refused"]
          /\ UNCHANGED <<threads, nextId, queue, idle, config, wpc, wtask, owner>>

-----------------------------------------------------------------------------
(* thread_function: worker w.                                              *)

Leave(w) ==
    /\ threads' = threads \ {w}
    /\ wpc' = [wpc EXCEPT ![w] = "none"]
    /\ UNCHANGED <<nextId, queue, config, wtask, tpc, k, starts, fault, running, initSize>>

PopTask_forgotten == UNCHANGED queue
PopTask == queue' = Tail(queue)

NextTask_newest == queue[Len(queue)]
NextTask == Head(queue)

TakeTask(w) ==
    /\ wpc[w] = "lock" /\ queue # <<>>
    /\ idle' = idle - 1
    /\ PopTask
    /\ wtask' = [wtask EXCEPT ![w] = NextTask]
    /\ wpc' = [IF queue' # <<>> THEN NotifyNotEmpty(wpc) ELSE wpc EXCEPT ![w] = "busy"]
    /\ tpc' = NotifyNotFull([tpc EXCEPT ![NextTask] = "running"])
    /\ UNCHANGED <<threads, nextId, config, owner>>

ExitStopped(w) ==
    /\ wpc[w] = "lock" /\ queue = <<>> /\ ~running
    /\ Leave(w)
    /\ NotifyExit
    /\ UNCHANGED idle

WaitForTask(w) ==
    /\ wpc[w] = "lock" /\ queue = <<>> /\ running
    /\ wpc' = [wpc EXCEPT ![w] = "wait"]
    /\ UNCHANGED <<threads, nextId, queue, idle, config, wtask, tpc, owner>>

(* Spurious wake-up of wait or wait_for: back to the test of the queue.    *)
SpuriousWake(w) ==
    /\ wpc[w] = "wait"
    /\ wpc' = [wpc EXCEPT ![w] = "lock"]
    /\ UNCHANGED <<threads, nextId, queue, idle, config, wtask, tpc, owner>>

WaitTimeout(w) ==
    /\ wpc[w] = "wait" /\ mode = "CACHED"
    /\ wpc' = [wpc EXCEPT ![w] = "timedout"]
    /\ UNCHANGED <<threads, nextId, queue, idle, config, wtask, tpc, owner>>

(* 60 idle seconds are over, seen without testing the queue or is_running_.*)
AboveInit_or_equal == Cardinality(threads) >= initSize
AboveInit == Cardinality(threads) > initSize

ExitIdle(w) ==
    /\ wpc[w] = "timedout"
    /\ AboveInit
    /\ Leave(w)
    /\ idle' = idle - 1
    /\ UNCHANGED octl

StayIdle(w) ==
    /\ wpc[w] = "timedout"
    /\ wpc' = [wpc EXCEPT ![w] = "lock"]
    /\ UNCHANGED <<threads, nextId, queue, idle, config, wtask, tpc, owner>>

FinishTask(w) ==
    /\ wpc[w] = "busy"
    /\ tpc' = [tpc EXCEPT ![wtask[w]] = "done"]
    /\ wtask' = [wtask EXCEPT ![w] = NoTask]
    /\ wpc' = [wpc EXCEPT ![w] = "ran"]
    /\ UNCHANGED <<threads, nextId, queue, idle, config, owner>>

CountIdle_forgotten(w) ==
    /\ wpc[w] = "ran"
    /\ wpc' = [wpc EXCEPT ![w] = "lock"]
    /\ UNCHANGED <<threads, nextId, queue, idle, config, wtask, tpc, owner>>
CountIdle(w) ==
    /\ wpc[w] = "ran"
    /\ idle' = idle + 1
    /\ wpc' = [wpc EXCEPT ![w] = "lock"]
    /\ UNCHANGED <<threads, nextId, queue, config, wtask, tpc, owner>>

-----------------------------------------------------------------------------

StartStep == CreateThread \/ CreatedAll \/ StartThread \/ CountStarted \/ StartReturns
StopStep  == StopLocked \/ StopRecheck

OwnerCall ==
    \/ \E m \in Modes : SetMode(m)
    \/ \E n \in TaskLimits : SetTaskThreshhold(n)
    \/ \E n \in ThreadLimits : SetThreadThreshhold(n)
    \/ \E n \in StartSizes : Start(n)
    \/ Stop

SubmitStep(t) == Resubmit(t) \/ SubmitTimeout(t) \/ SubmitExpired(t)

WorkerStep(w) ==
    \/ TakeTask(w) \/ ExitStopped(w) \/ WaitForTask(w)
    \/ ExitIdle(w) \/ StayIdle(w) \/ FinishTask(w) \/ CountIdle(w)

Next ==
    /\ ~fault
    /\ \/ OwnerCall \/ StartStep \/ StopStep
       \/ \E t \in Tasks : Submit(t) \/ SubmitStep(t)
       \/ \E w \in Ids : WorkerStep(w) \/ SpuriousWake(w) \/ WaitTimeout(w)

Spec == Init /\ [][Next]_vars

(* Threads keep running, tasks return, a contended mutex is eventually     *)
(* acquired and a wait_for ends. Nobody is obliged to call the pool, and   *)
(* an idle worker may or may not have been idle for 60 seconds.            *)
Fairness ==
    /\ WF_vars(~fault /\ (StartStep \/ StopStep))
    /\ \A t \in Tasks : WF_vars(~fault /\ SubmitStep(t))
    /\ \A w \in Ids : WF_vars(~fault /\ WorkerStep(w))

FairSpec == Spec /\ Fairness

-----------------------------------------------------------------------------
(* Properties.                                                             *)

ClientPcs == {"blocked", "retry", "expired"}
IdlePcs   == {"lock", "wait", "timedout"}
IdleWorkers == {w \in Ids : wpc[w] \in IdlePcs}

\* The type invariant: every variable has its C++ type's values; the thread
\* limit stays within the hardware limit set_thread_threshhold clamps it to.
TypeOK ==
    /\ threads \subseteq Ids /\ nextId \in 0 .. MaxIds /\ initSize \in Nat
    /\ queue \in Seq(Tasks) /\ idle \in Int
    /\ mode \in {"FIXED", "CACHED"} /\ taskMax \in Nat /\ threadMax \in 0 .. HwThreads
    /\ running \in BOOLEAN /\ fault \in BOOLEAN
    /\ wpc \in [Ids -> WorkerPcs]
    /\ wtask \in [Ids -> Tasks \cup {NoTask}]
    /\ tpc \in [Tasks -> TaskPcs]
    /\ octl \in OwnerPcs /\ k \in Nat /\ starts \in 0 .. MaxStarts

\* A task submitted once is at one place at a time: in the queue once, or in
\* the hands of exactly one worker, or finished, or refused and never queued.
OneHolder ==
    /\ \A t \in Tasks : tpc[t] = "queued" <=> \E i \in DOMAIN queue : queue[i] = t
    /\ \A i, j \in DOMAIN queue : queue[i] = queue[j] => i = j
    /\ \A t \in Tasks : tpc[t] = "running" <=> \E w \in Ids : wtask[w] = t
    /\ \A v, w \in Ids : wtask[v] = wtask[w] /\ wtask[v] # NoTask => v = w
    /\ \A w \in Ids : wpc[w] = "busy" <=> wtask[w] # NoTask

\* No lost wake-up of a worker: none sleeps on not_empty_ while a task is
\* queued, whatever order submitters, finishing and timing-out workers run in.
WaitOnlyWhenEmpty == queue # <<>> => \A w \in Ids : wpc[w] # "wait"

\* No lost wake-up of a submitter: none sleeps on not_full_ while there is room.
BlockedOnlyWhenFull == NotFull => \A t \in Tasks : tpc[t] # "blocked"

\* No worker sleeps through stop(): once stop() has locked the mutex and
\* notified, no worker waits for a task of the stopped pool.
NoSleepAfterStop ==
    octl \in {"joining", "recheck"} => \A w \in Ids : wpc[w] # "wait"

\* stop() never sleeps on exit_cond_ with no worker left to notify it.
ExitSignalled == octl = "joining" => threads # {}

\* start() finds under each index 0 .. n-1 a thread that it has just made.
StartFindsItsThreads == ~fault

(* The threads of a started pool never fall below the number start() was   *)
(* given, and are exactly that number in MODE_FIXED ("static number").      *)
PoolFloor ==
    octl = "up" => /\ Cardinality(threads) >= initSize
                   /\ mode = "FIXED" => Cardinality(threads) = initSize

(* Growth stops at the thread limit, or at the size start() was given.     *)
ThreadCeiling ==
    Cardinality(threads) <= initSize \/ Cardinality(threads) <= threadMax

\* The number of threads stays between the number start() was given and the
\* limit, through growth, idle time-outs, stop and restart.
PoolSizeBounds == PoolFloor /\ ThreadCeiling

\* idle_thread_size_ never counts fewer threads than are idle, except for
\* the one start() has started and not counted yet: too few threads are
\* never taken for granted, so the pool never grows without need.
IdleNeverUnder ==
    idle + (IF octl = "counting" THEN 1 ELSE 0) >= Cardinality(IdleWorkers)

(* A step that accepts a task while every thread is busy and the limit is  *)
(* not reached adds a thread.                                              *)
GrowsIfBusy ==
    \A t \in Tasks :
        /\ tpc[t] # "queued" /\ tpc'[t] = "queued"
        /\ octl = "up" /\ mode = "CACHED"
        /\ \A w \in threads : wpc[w] = "busy"
        /\ Cardinality(threads) < threadMax
        => threads' # threads

\* MODE_CACHED is a "dynamic number" of threads: a submit that finds every
\* thread busy and the limit not reached starts another thread.
GrowsWhenBusy == [][GrowsIfBusy]_vars

\* It does so until the pool is stopped for the first time.
GrowsInFirstCycle == [][starts = 1 => GrowsIfBusy]_vars

\* A task accepted by a running pool is run, even if stop() comes first.
TasksDrain ==
    \A t \in Tasks : (tpc[t] = "queued" /\ octl = "up") ~> (tpc[t] = "done")

\* stop() returns: every worker drains the queue, leaves and is noticed.
StopReturns == (octl = "halting") ~> (octl = "down")

-----------------------------------------------------------------------------
(* What the pool promises: an executor that starts tasks in the order it   *)
(* accepted them, each at most once.                                       *)

Executor == INSTANCE TaskExecutor WITH
    pending  <- queue,
    active   <- {t \in Tasks : tpc[t] = "running"},
    finished <- {t \in Tasks : tpc[t] = "done"},
    refused  <- {t \in Tasks : tpc[t] = "refused"}

\* Every step of the pool is a step of the abstract executor or changes
\* nothing it can see.
ImplementsExecutor == Executor!Spec

=============================================================================
