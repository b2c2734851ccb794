-------------------------- MODULE ThreadPoolProofs --------------------------
(***************************************************************************)
(* Proofs about ThreadPool, for every set of tasks and every bound.        *)
(***************************************************************************)
EXTENDS ThreadPool, FiniteSetTheorems, SequenceTheorems, TLAPS

(* The map holds exactly the threads that exist, all with ids handed out.  *)
MapExact ==
    /\ \A w \in Ids : w \in threads <=> wpc[w] # "none"
    /\ \A w \in threads : w < nextId

(* is_running_ holds from the call of start() to the call of stop().       *)
RunningExact == running <=> octl \in {"creating", "starting", "counting", "up"}

-----------------------------------------------------------------------------

\* Every variable keeps its type.
THEOREM TypeCorrect == Spec => []TypeOK
<1> USE DEF PoolAssumption, TypeOK, Ids
<1>0. PoolAssumption
  BY PoolAssumption
<1> USE <1>0
<1>1. Init => TypeOK
  <2> SUFFICES ASSUME Init PROVE TypeOK
    OBVIOUS
  <2> USE DEF Init, WorkerPcs, TaskPcs, OwnerPcs
  <2>1. /\ threads \subseteq Ids /\ nextId \in 0 .. MaxIds /\ initSize \in Nat
        /\ idle \in Int
    OBVIOUS
  <2>1a. queue \in Seq(Tasks)
    <3>1. queue = <<>>
      OBVIOUS
    <3>2. QED
      BY <3>1, EmptySeq
  <2>1b. running \in BOOLEAN /\ fault \in BOOLEAN
    OBVIOUS
  <2>2. /\ mode \in {"FIXED", "CACHED"} /\ taskMax \in Nat /\ threadMax \in 0 .. HwThreads
        /\ octl \in OwnerPcs /\ k \in Nat /\ starts \in 0 .. MaxStarts
    OBVIOUS
  <2>3. wpc \in [Ids -> WorkerPcs]
    OBVIOUS
  <2>4. wtask \in [Ids -> Tasks \cup {NoTask}] /\ tpc \in [Tasks -> TaskPcs]
    OBVIOUS
  <2>5. QED
    BY <2>1, <2>1a, <2>1b, <2>2, <2>3, <2>4
<1>2. TypeOK /\ [Next]_vars => TypeOK'
  <2> SUFFICES ASSUME TypeOK, [Next]_vars PROVE TypeOK'
    OBVIOUS
  <2> USE DEF owner, config, WorkerPcs, TaskPcs, OwnerPcs
  <2>1. ASSUME NEW m \in Modes, SetMode(m) PROVE TypeOK'
    BY <2>1 DEF SetMode
  <2>2. ASSUME NEW n \in TaskLimits, SetTaskThreshhold(n) PROVE TypeOK'
    BY <2>2 DEF SetTaskThreshhold
  <2>3. ASSUME NEW n \in ThreadLimits, SetThreadThreshhold(n) PROVE TypeOK'
    BY <2>3 DEF SetThreadThreshhold, AtMostHardware
  <2>4. ASSUME NEW n \in StartSizes, Start(n) PROVE TypeOK'
    BY <2>4 DEF Start
  <2>5. CASE CreateThread
    BY <2>5 DEF CreateThread
  <2>6. CASE CreatedAll
    BY <2>6 DEF CreatedAll
  <2>7. CASE StartThread
    BY <2>7 DEF StartThread
  <2>8. CASE CountStarted
    BY <2>8 DEF CountStarted
  <2>9. CASE StartReturns
    BY <2>9 DEF StartReturns
  <2>10. CASE Stop
    BY <2>10 DEF Stop
  <2>11. CASE StopLocked
    BY <2>11 DEF StopLocked, AwaitExit, ResetId, NotifyNotEmpty
  <2>12. CASE StopRecheck
    BY <2>12 DEF StopRecheck, AwaitExit, ResetId
  <2>13. ASSUME NEW t \in Tasks, Enqueue(t) PROVE TypeOK'
    <3>1. queue' \in Seq(Tasks) /\ tpc' \in [Tasks -> TaskPcs]
      BY <2>13 DEF Enqueue
    <3>2. wpc' \in [Ids -> WorkerPcs]
      BY <2>13 DEF Enqueue, NotifyNotEmpty
    <3>3. threads' \subseteq Ids /\ nextId' \in 0 .. MaxIds /\ idle' \in Int
      <4>1. CASE NeedsThread
        <5>1. /\ nextId < MaxIds
              /\ nextId' = nextId + 1
              /\ threads' = threads \cup {nextId}
              /\ idle' = idle + 1
          BY <2>13, <4>1 DEF Enqueue
        <5>2. nextId \in 0 .. MaxIds - 1 /\ nextId + 1 \in 0 .. MaxIds
          BY <5>1
        <5>3. QED
          BY <5>1, <5>2
      <4>2. CASE ~NeedsThread
        BY <2>13, <4>2 DEF Enqueue
      <4>3. QED
        BY <4>1, <4>2
    <3>4. QED
      BY <2>13, <3>1, <3>2, <3>3 DEF Enqueue
  <2>14. ASSUME NEW t \in Tasks, Block(t) PROVE TypeOK'
    BY <2>14 DEF Block
  <2>15. ASSUME NEW t \in Tasks, SubmitTimeout(t) PROVE TypeOK'
    BY <2>15 DEF SubmitTimeout
  <2>16. ASSUME NEW t \in Tasks, SubmitExpired(t) PROVE TypeOK'
    BY <2>13, <2>16 DEF SubmitExpired
  <2>17. ASSUME NEW w \in Ids, TakeTask(w) PROVE TypeOK'
    BY <2>17 DEF TakeTask, PopTask, NextTask, NotifyNotEmpty, NotifyNotFull
  <2>18. ASSUME NEW w \in Ids, ExitStopped(w) PROVE TypeOK'
    BY <2>18 DEF ExitStopped, Leave, NotifyExit
  <2>19. ASSUME NEW w \in Ids, WaitForTask(w) PROVE TypeOK'
    BY <2>19 DEF WaitForTask
  <2>20. ASSUME NEW w \in Ids, SpuriousWake(w) PROVE TypeOK'
    BY <2>20 DEF SpuriousWake
  <2>21. ASSUME NEW w \in Ids, WaitTimeout(w) PROVE TypeOK'
    BY <2>21 DEF WaitTimeout
  <2>22. ASSUME NEW w \in Ids, ExitIdle(w) PROVE TypeOK'
    BY <2>22 DEF ExitIdle, Leave
  <2>23. ASSUME NEW w \in Ids, StayIdle(w) PROVE TypeOK'
    BY <2>23 DEF StayIdle
  <2>24. ASSUME NEW w \in Ids, FinishTask(w) PROVE TypeOK'
    BY <2>24 DEF FinishTask
  <2>25. ASSUME NEW w \in Ids, CountIdle(w) PROVE TypeOK'
    BY <2>25 DEF CountIdle
  <2>26. CASE UNCHANGED vars
    BY <2>26 DEF vars
  <2>27. QED
    BY <2>1, <2>2, <2>3, <2>4, <2>5, <2>6, <2>7, <2>8, <2>9, <2>10, <2>11, <2>12,
       <2>13, <2>14, <2>15, <2>16, <2>17, <2>18, <2>19, <2>20, <2>21, <2>22, <2>23,
       <2>24, <2>25, <2>26
    DEF Next, OwnerCall, StartStep, StopStep, Submit, Resubmit, SubmitStep, WorkerStep
<1>3. QED
  BY <1>1, <1>2, PTL DEF Spec


-----------------------------------------------------------------------------
(* Wake-ups. A worker goes to sleep only on an empty queue, and whoever     *)
(* makes the queue non-empty, or leaves it so, notifies: inductive as it is.*)

\* No worker sleeps on not_empty_ while a task is queued.
THEOREM NoWorkerMissesTask == Spec => []WaitOnlyWhenEmpty
<1> USE DEF WaitOnlyWhenEmpty
<1>1. Init => WaitOnlyWhenEmpty
  BY DEF Init
<1>2. TypeOK /\ WaitOnlyWhenEmpty /\ [Next]_vars => WaitOnlyWhenEmpty'
  <2> SUFFICES ASSUME TypeOK, WaitOnlyWhenEmpty, [Next]_vars PROVE WaitOnlyWhenEmpty'
    OBVIOUS
  <2>0. wpc \in [Ids -> WorkerPcs]
    BY DEF TypeOK
  <2> USE <2>0 DEF owner, config
  <2>1. CASE OwnerCall
    BY <2>1 DEF OwnerCall, SetMode, SetTaskThreshhold, SetThreadThreshhold, Start, Stop
  <2>2. CASE StartStep
    BY <2>2 DEF StartStep, CreateThread, CreatedAll, StartThread, CountStarted, StartReturns
  <2>3. CASE StopStep
    BY <2>3 DEF StopStep, StopLocked, StopRecheck, AwaitExit, NotifyNotEmpty
  <2>4. ASSUME NEW t \in Tasks, Enqueue(t) PROVE WaitOnlyWhenEmpty'
    BY <2>4 DEF Enqueue, NotifyNotEmpty
  <2>5. ASSUME NEW t \in Tasks, Submit(t) \/ SubmitStep(t) PROVE WaitOnlyWhenEmpty'
    BY <2>4, <2>5 DEF Submit, SubmitStep, Resubmit, Block, SubmitTimeout, SubmitExpired
  <2>6. ASSUME NEW w \in Ids, TakeTask(w) PROVE WaitOnlyWhenEmpty'
    BY <2>6 DEF TakeTask, NotifyNotEmpty
  <2>7. ASSUME NEW w \in Ids, WorkerStep(w) PROVE WaitOnlyWhenEmpty'
    BY <2>6, <2>7 DEF WorkerStep, ExitStopped, WaitForTask, ExitIdle, StayIdle, FinishTask,
                      CountIdle, Leave
  <2>8. ASSUME NEW w \in Ids, SpuriousWake(w) \/ WaitTimeout(w) PROVE WaitOnlyWhenEmpty'
    BY <2>8 DEF SpuriousWake, WaitTimeout
  <2>9. CASE UNCHANGED vars
    BY <2>9 DEF vars
  <2>10. QED
    BY <2>1, <2>2, <2>3, <2>5, <2>7, <2>8, <2>9 DEF Next
<1>3. QED
  BY <1>1, <1>2, TypeCorrect, PTL DEF Spec

(* After stop() has notified, is_running_ is false and no worker goes back   *)
(* to sleep; this needs to know when is_running_ is false.                  *)
StopInv == RunningExact /\ NoSleepAfterStop

LEMMA StopInvariant == Spec => []StopInv
<1> USE DEF StopInv, RunningExact, NoSleepAfterStop
<1>1. Init => StopInv
  BY DEF Init
<1>2. TypeOK /\ StopInv /\ [Next]_vars => StopInv'
  <2> SUFFICES ASSUME TypeOK, StopInv, [Next]_vars PROVE StopInv'
    OBVIOUS
  <2>0. wpc \in [Ids -> WorkerPcs] /\ running \in BOOLEAN
    BY DEF TypeOK
  <2> USE <2>0 DEF owner, config
  <2>1. CASE OwnerCall
    BY <2>1 DEF OwnerCall, SetMode, SetTaskThreshhold, SetThreadThreshhold, Start, Stop
  <2>2. CASE StartStep
    BY <2>2 DEF StartStep, CreateThread, CreatedAll, StartThread, CountStarted, StartReturns
  <2>3. CASE StopStep
    BY <2>3 DEF StopStep, StopLocked, StopRecheck, AwaitExit, NotifyNotEmpty
  <2>4. ASSUME NEW t \in Tasks, Enqueue(t) PROVE StopInv'
    BY <2>4 DEF Enqueue, NotifyNotEmpty
  <2>5. ASSUME NEW t \in Tasks, Submit(t) \/ SubmitStep(t) PROVE StopInv'
    BY <2>4, <2>5 DEF Submit, SubmitStep, Resubmit, Block, SubmitTimeout, SubmitExpired
  <2>6. ASSUME NEW w \in Ids, TakeTask(w) PROVE StopInv'
    BY <2>6 DEF TakeTask, NotifyNotEmpty
  <2>7. ASSUME NEW w \in Ids, ExitStopped(w) PROVE StopInv'
    BY <2>7 DEF ExitStopped, Leave, NotifyExit
  <2>8. ASSUME NEW w \in Ids, WaitForTask(w) PROVE StopInv'
    BY <2>8 DEF WaitForTask
  <2>9. ASSUME NEW w \in Ids, WorkerStep(w) PROVE StopInv'
    BY <2>6, <2>7, <2>8, <2>9 DEF WorkerStep, ExitIdle, StayIdle, FinishTask, CountIdle, Leave
  <2>10. ASSUME NEW w \in Ids, SpuriousWake(w) \/ WaitTimeout(w) PROVE StopInv'
    BY <2>10 DEF SpuriousWake, WaitTimeout
  <2>11. CASE UNCHANGED vars
    BY <2>11 DEF vars
  <2>12. QED
    BY <2>1, <2>2, <2>3, <2>5, <2>9, <2>10, <2>11 DEF Next
<1>3. QED
  BY <1>1, <1>2, TypeCorrect, PTL DEF Spec

\* No worker sleeps through stop().
THEOREM NoWorkerMissesStop == Spec => []NoSleepAfterStop
  BY StopInvariant, PTL DEF StopInv

(* Clients that call submit_task only between start() and stop() are all    *)
(* out of it when the owner changes the task limit.                         *)
SubmitInv ==
    /\ BlockedOnlyWhenFull
    /\ octl # "up" => \A t \in Tasks : tpc[t] \notin ClientPcs

LEMMA SubmitInvariant ==
    ASSUME Overlap = FALSE
    PROVE  Spec => []SubmitInv
<1> USE DEF SubmitInv, BlockedOnlyWhenFull, NotFull, ClientPcs
<1>1. Init => SubmitInv
  BY DEF Init
<1>2. TypeOK /\ SubmitInv /\ [Next]_vars => SubmitInv'
  <2> SUFFICES ASSUME TypeOK, SubmitInv, [Next]_vars PROVE SubmitInv'
    OBVIOUS
  <2>0. tpc \in [Tasks -> TaskPcs] /\ queue \in Seq(Tasks) /\ taskMax \in Nat
    BY DEF TypeOK
  <2> USE <2>0 DEF owner, config
  <2>1. CASE OwnerCall
    BY <2>1 DEF OwnerCall, SetMode, SetTaskThreshhold, SetThreadThreshhold, Start, Stop
  <2>2. CASE StartStep
    BY <2>2 DEF StartStep, CreateThread, CreatedAll, StartThread, CountStarted, StartReturns
  <2>3. CASE StopStep
    BY <2>3 DEF StopStep, StopLocked, StopRecheck, AwaitExit
  <2>4. ASSUME NEW t \in Tasks, Enqueue(t), octl = "up" PROVE SubmitInv'
    <3>1. Len(queue') = Len(queue) + 1
      BY <2>4 DEF Enqueue
    <3>2. QED
      BY <2>4, <3>1 DEF Enqueue
  <2>5. ASSUME NEW t \in Tasks, Block(t), octl = "up" PROVE SubmitInv'
    BY <2>5 DEF Block
  <2>6. ASSUME NEW t \in Tasks, Submit(t) \/ SubmitStep(t) PROVE SubmitInv'
    BY <2>4, <2>5, <2>6 DEF Submit, SubmitStep, Resubmit, SubmitTimeout, SubmitExpired
  <2>7. ASSUME NEW w \in Ids, TakeTask(w) PROVE SubmitInv'
    BY <2>7 DEF TakeTask, NotifyNotFull
  <2>8. ASSUME NEW w \in Ids, WorkerStep(w) PROVE SubmitInv'
    BY <2>7, <2>8 DEF WorkerStep, ExitStopped, WaitForTask, ExitIdle, StayIdle, FinishTask,
                      CountIdle, Leave, NotifyExit
  <2>9. ASSUME NEW w \in Ids, SpuriousWake(w) \/ WaitTimeout(w) PROVE SubmitInv'
    BY <2>9 DEF SpuriousWake, WaitTimeout
  <2>10. CASE UNCHANGED vars
    BY <2>10 DEF vars
  <2>11. QED
    BY <2>1, <2>2, <2>3, <2>6, <2>8, <2>9, <2>10 DEF Next
<1>3. QED
  BY <1>1, <1>2, TypeCorrect, PTL DEF Spec

\* No submitter sleeps on not_full_ while there is room, for such clients.
THEOREM NoSubmitterMissesRoom ==
    ASSUME Overlap = FALSE
    PROVE  Spec => []BlockedOnlyWhenFull
<1>1. SubmitInv => BlockedOnlyWhenFull
  BY DEF SubmitInv
<1>2. Spec => []SubmitInv
  BY SubmitInvariant
<1>3. QED
  BY <1>1, <1>2, PTL

-----------------------------------------------------------------------------
(* Where the tasks are. OneHolder is inductive once it is known that a new  *)
(* id never belongs to a thread that exists, so that neither start() nor a   *)
(* growing submit_task overwrites a worker.                                  *)

(* What submit_task does to the workers: it wakes the sleeping ones, and may *)
(* add one under an id that no thread has.                                  *)
LEMMA EnqueueWorkers ==
    ASSUME TypeOK, MapExact, NEW t \in Tasks, Enqueue(t)
    PROVE  \/ /\ nextId \in Ids \ threads /\ wpc[nextId] = "none"
              /\ threads' = threads \cup {nextId} /\ nextId' = nextId + 1
              /\ wpc' = [NotifyNotEmpty(wpc) EXCEPT ![nextId] = "lock"]
           \/ /\ ~NeedsThread
              /\ UNCHANGED <<threads, nextId>>
              /\ wpc' = NotifyNotEmpty(wpc)
<1>1. CASE NeedsThread
  <2>1. nextId < MaxIds /\ nextId \in Nat /\ MaxIds \in Nat
    BY <1>1, PoolAssumption DEF Enqueue, TypeOK, PoolAssumption
  <2>2. nextId \in Ids /\ nextId \notin threads
    BY <2>1 DEF Ids, MapExact
  <2>3. QED
    BY <1>1, <2>2 DEF Enqueue, MapExact
<1>2. CASE ~NeedsThread
  BY <1>2 DEF Enqueue
<1>3. QED
  BY <1>1, <1>2

LEMMA MapCorrect == Spec => []MapExact
<1> USE DEF MapExact
<1>1. Init => MapExact
  BY DEF Init
<1>2. TypeOK /\ MapExact /\ [Next]_vars => MapExact'
  <2> SUFFICES ASSUME TypeOK, MapExact, [Next]_vars PROVE MapExact'
    OBVIOUS
  <2>0. /\ wpc \in [Ids -> WorkerPcs] /\ threads \subseteq Ids
        /\ nextId \in Nat /\ \A w \in Ids : w \in Int
    BY PoolAssumption DEF TypeOK, Ids, PoolAssumption
  <2> USE <2>0 DEF owner, config
  <2>1. CASE OwnerCall
    BY <2>1 DEF OwnerCall, SetMode, SetTaskThreshhold, SetThreadThreshhold, Start, Stop
  <2>2. CASE CreateThread
    BY <2>2 DEF CreateThread
  <2>3. CASE StartStep
    BY <2>2, <2>3 DEF StartStep, CreatedAll, StartThread, CountStarted, StartReturns
  <2>4. CASE StopStep
    BY <2>4 DEF StopStep, StopLocked, StopRecheck, AwaitExit, NotifyNotEmpty, ResetId
  <2>5. ASSUME NEW t \in Tasks, Enqueue(t) PROVE MapExact'
    <3>1. CASE UNCHANGED <<threads, nextId>> /\ wpc' = NotifyNotEmpty(wpc)
      BY <3>1 DEF NotifyNotEmpty
    <3>2. CASE /\ nextId \in Ids \ threads
               /\ threads' = threads \cup {nextId} /\ nextId' = nextId + 1
               /\ wpc' = [NotifyNotEmpty(wpc) EXCEPT ![nextId] = "lock"]
      <4>1. \A w \in Ids : w \in threads' <=> wpc'[w] # "none"
        BY <3>2 DEF NotifyNotEmpty
      <4>2. \A w \in threads' : w < nextId'
        BY <3>2
      <4>3. QED
        BY <4>1, <4>2
    <3>3. QED
      BY <2>5, <3>1, <3>2, EnqueueWorkers
  <2>6. ASSUME NEW t \in Tasks, Submit(t) \/ SubmitStep(t) PROVE MapExact'
    BY <2>5, <2>6 DEF Submit, SubmitStep, Resubmit, Block, SubmitTimeout, SubmitExpired
  <2>7. ASSUME NEW w \in Ids, TakeTask(w) PROVE MapExact'
    BY <2>7 DEF TakeTask, NotifyNotEmpty
  <2>8. ASSUME NEW w \in Ids, ExitStopped(w) \/ ExitIdle(w) PROVE MapExact'
    BY <2>8 DEF ExitStopped, ExitIdle, Leave
  <2>9. ASSUME NEW w \in Ids, WorkerStep(w) PROVE MapExact'
    BY <2>7, <2>8, <2>9 DEF WorkerStep, WaitForTask, StayIdle, FinishTask, CountIdle
  <2>10. ASSUME NEW w \in Ids, SpuriousWake(w) \/ WaitTimeout(w) PROVE MapExact'
    BY <2>10 DEF SpuriousWake, WaitTimeout
  <2>11. CASE UNCHANGED vars
    BY <2>11 DEF vars
  <2>12. QED
    BY <2>1, <2>3, <2>4, <2>6, <2>9, <2>10, <2>11 DEF Next
<1>3. QED
  BY <1>1, <1>2, TypeCorrect, PTL DEF Spec

(* The two halves of OneHolder: the queue and the workers' hands.           *)
QueueExact ==
    /\ \A t \in Tasks : tpc[t] = "queued" <=> \E i \in DOMAIN queue : queue[i] = t
    /\ \A i, j \in DOMAIN queue : queue[i] = queue[j] => i = j

HandsExact ==
    /\ \A t \in Tasks : tpc[t] = "running" <=> \E w \in Ids : wtask[w] = t
    /\ \A v, w \in Ids : wtask[v] = wtask[w] /\ wtask[v] # NoTask => v = w
    /\ \A w \in Ids : wpc[w] = "busy" <=> wtask[w] # NoTask

LEMMA OneHolderIsBoth == OneHolder <=> QueueExact /\ HandsExact
  BY DEF OneHolder, QueueExact, HandsExact

(* A step that moves no task: the queue and the hands are unchanged, and so *)
(* is who is queued, running or busy.                                       *)
Still ==
    /\ UNCHANGED <<queue, wtask>>
    /\ \A t \in Tasks : \A p \in {"queued", "running", "done", "refused"} :
           tpc'[t] = p <=> tpc[t] = p
    /\ \A w \in Ids : wpc'[w] = "busy" <=> wpc[w] = "busy"

LEMMA StillKeepsHolders == ASSUME OneHolder, Still PROVE OneHolder'
<1>1. QueueExact'
  BY OneHolderIsBoth DEF QueueExact, Still
<1>2. HandsExact'
  BY OneHolderIsBoth DEF HandsExact, Still
<1>3. QED
  BY <1>1, <1>2 DEF OneHolder, QueueExact, HandsExact

(* Every step moves no task, or is one of the four that do.                 *)
LEMMA TasksMove ==
    ASSUME TypeOK, MapExact, [Next]_vars
    PROVE  \/ Still
           \/ \E t \in Tasks : Enqueue(t) /\ tpc[t] \in {"new", "retry", "expired"}
           \/ \E t \in Tasks : SubmitExpired(t) /\ tpc' = [tpc EXCEPT ![t] = "refused"]
                               /\ UNCHANGED <<queue, wpc, wtask>>
           \/ \E w \in Ids : TakeTask(w) \/ FinishTask(w)
<1>0. /\ wpc \in [Ids -> WorkerPcs] /\ threads \subseteq Ids /\ tpc \in [Tasks -> TaskPcs]
      /\ nextId \in Nat /\ \A w \in Ids : w \in Int
  BY PoolAssumption DEF TypeOK, Ids, PoolAssumption
<1> USE <1>0 DEF owner, config, Still
<1>1. CASE OwnerCall
  BY <1>1 DEF OwnerCall, SetMode, SetTaskThreshhold, SetThreadThreshhold, Start, Stop
<1>2. CASE CreateThread
  BY <1>2 DEF CreateThread, MapExact
<1>3. CASE StartStep
  BY <1>2, <1>3 DEF StartStep, CreatedAll, StartThread, CountStarted, StartReturns
<1>4. CASE StopStep
  BY <1>4 DEF StopStep, StopLocked, StopRecheck, AwaitExit, NotifyNotEmpty
<1>5. ASSUME NEW t \in Tasks, Block(t), tpc[t] \in {"new", "retry"} PROVE Still
  BY <1>5 DEF Block
<1>6. ASSUME NEW t \in Tasks, SubmitTimeout(t) PROVE Still
  BY <1>6 DEF SubmitTimeout
<1>7. CASE \E t \in Tasks : Submit(t) \/ SubmitStep(t)
  BY <1>5, <1>6, <1>7 DEF Submit, SubmitStep, Resubmit, SubmitExpired
<1>8. ASSUME NEW w \in Ids, ExitStopped(w) \/ ExitIdle(w) PROVE Still
  BY <1>8 DEF ExitStopped, ExitIdle, Leave
<1>9. CASE \E w \in Ids : WorkerStep(w)
  BY <1>8, <1>9 DEF WorkerStep, WaitForTask, StayIdle, CountIdle
<1>10. CASE \E w \in Ids : SpuriousWake(w) \/ WaitTimeout(w)
  BY <1>10 DEF SpuriousWake, WaitTimeout
<1>11. CASE UNCHANGED vars
  BY <1>11 DEF vars
<1>12. QED
  BY <1>1, <1>3, <1>4, <1>7, <1>9, <1>10, <1>11 DEF Next

LEMMA EnqueueKeepsHolders ==
    ASSUME TypeOK, MapExact, OneHolder,
           NEW t \in Tasks, Enqueue(t), tpc[t] \in {"new", "retry", "expired"}
    PROVE  OneHolder'
<1>0. /\ wpc \in [Ids -> WorkerPcs] /\ threads \subseteq Ids /\ tpc \in [Tasks -> TaskPcs]
      /\ queue \in Seq(Tasks) /\ nextId \in Nat /\ \A w \in Ids : w \in Int
  BY PoolAssumption DEF TypeOK, Ids, PoolAssumption
<1>1. /\ queue' = Append(queue, t) /\ tpc' = [tpc EXCEPT ![t] = "queued"]
      /\ wtask' = wtask
  BY DEF Enqueue
<1>2. \A w \in Ids : wpc'[w] = "busy" <=> wpc[w] = "busy"
  BY <1>0, EnqueueWorkers DEF NotifyNotEmpty
<1>3. \A i \in DOMAIN queue : queue[i] # t
  BY <1>0 DEF OneHolder
<1>4. /\ DOMAIN queue' = 1 .. Len(queue) + 1 /\ DOMAIN queue = 1 .. Len(queue)
      /\ \A i \in DOMAIN queue : queue'[i] = queue[i]
      /\ queue'[Len(queue) + 1] = t /\ Len(queue) \in Nat
  BY <1>0, <1>1
<1>5. QueueExact'
  <2>1. \A u \in Tasks : tpc'[u] = "queued" <=> \E i \in DOMAIN queue' : queue'[i] = u
    BY <1>0, <1>1, <1>4 DEF OneHolder
  <2>2. \A i, j \in DOMAIN queue' : queue'[i] = queue'[j] => i = j
    BY <1>3, <1>4 DEF OneHolder
  <2>3. QED
    BY <2>1, <2>2 DEF QueueExact
<1>6. HandsExact'
  BY <1>0, <1>1, <1>2 DEF HandsExact, OneHolder
<1>7. QED
  BY <1>5, <1>6 DEF OneHolder, QueueExact, HandsExact

LEMMA TakeKeepsHolders ==
    ASSUME TypeOK, OneHolder, NEW w \in Ids, TakeTask(w)
    PROVE  OneHolder'
<1> DEFINE h == Head(queue)
<1>0. /\ wpc \in [Ids -> WorkerPcs] /\ tpc \in [Tasks -> TaskPcs]
      /\ queue \in Seq(Tasks) /\ wtask \in [Ids -> Tasks \cup {NoTask}] /\ NoTask \notin Tasks
  BY PoolAssumption DEF TypeOK, PoolAssumption
<1>1. /\ queue # <<>> /\ queue' = Tail(queue) /\ wpc[w] = "lock"
      /\ wtask' = [wtask EXCEPT ![w] = h]
  BY DEF TakeTask, PopTask, NextTask
<1>2. /\ h \in Tasks /\ h = queue[1] /\ Len(queue) \in Nat \ {0}
      /\ DOMAIN queue = 1 .. Len(queue) /\ DOMAIN queue' = 1 .. Len(queue) - 1
      /\ \A i \in DOMAIN queue' : queue'[i] = queue[i + 1]
  BY <1>0, <1>1
<1>3. \A t \in Tasks : /\ tpc'[t] = "queued" <=> tpc[t] = "queued" /\ t # h
                       /\ tpc'[t] = "running" <=> tpc[t] = "running" \/ t = h
  BY <1>0, <1>2 DEF TakeTask, NotifyNotFull, NextTask
<1>4. \A v \in Ids : wpc'[v] = "busy" <=> wpc[v] = "busy" \/ v = w
  BY <1>0 DEF TakeTask, NotifyNotEmpty
<1>5. tpc[h] = "queued" /\ \A i \in DOMAIN queue : queue[i] = h => i = 1
  BY <1>2 DEF OneHolder
<1>6. QueueExact'
  <2>1. ASSUME NEW t \in Tasks, tpc'[t] = "queued" PROVE \E i \in DOMAIN queue' : queue'[i] = t
    <3>1. PICK j \in DOMAIN queue : queue[j] = t /\ j # 1
      BY <1>2, <1>3, <2>1 DEF OneHolder
    <3>2. j - 1 \in DOMAIN queue' /\ queue'[j - 1] = queue[j]
      BY <1>2, <3>1
    <3>3. QED
      BY <3>1, <3>2
  <2>2. ASSUME NEW i \in DOMAIN queue' PROVE tpc'[queue'[i]] = "queued"
    <3>1. i + 1 \in DOMAIN queue /\ queue'[i] = queue[i + 1] /\ i + 1 # 1
      BY <1>2
    <3>2. queue[i + 1] \in Tasks /\ queue[i + 1] # h
      BY <1>0, <1>5, <3>1
    <3>3. QED
      BY <1>3, <3>1, <3>2 DEF OneHolder
  <2>3. ASSUME NEW i \in DOMAIN queue', NEW j \in DOMAIN queue', queue'[i] = queue'[j]
        PROVE  i = j
    <3>1. i + 1 \in DOMAIN queue /\ j + 1 \in DOMAIN queue /\ queue[i + 1] = queue[j + 1]
      BY <1>2, <2>3
    <3>2. i + 1 = j + 1
      BY <3>1 DEF OneHolder
    <3>3. QED
      BY <1>2, <3>2
  <2>4. QED
    BY <2>1, <2>2, <2>3 DEF QueueExact
<1>7. HandsExact'
  <2>1. wtask[w] = NoTask /\ \A v \in Ids : wtask[v] # h
    BY <1>0, <1>1, <1>2, <1>5 DEF OneHolder
  <2>2. \A t \in Tasks : tpc'[t] = "running" <=> \E v \in Ids : wtask'[v] = t
    BY <1>0, <1>1, <1>2, <1>3, <2>1 DEF OneHolder
  <2>3. \A u, v \in Ids : wtask'[u] = wtask'[v] /\ wtask'[u] # NoTask => u = v
    BY <1>0, <1>1, <2>1 DEF OneHolder
  <2>4. \A v \in Ids : wpc'[v] = "busy" <=> wtask'[v] # NoTask
    BY <1>0, <1>1, <1>2, <1>4 DEF OneHolder
  <2>5. QED
    BY <2>2, <2>3, <2>4 DEF HandsExact
<1>8. QED
  BY <1>6, <1>7 DEF OneHolder, QueueExact, HandsExact

LEMMA FinishKeepsHolders ==
    ASSUME TypeOK, OneHolder, NEW w \in Ids, FinishTask(w)
    PROVE  OneHolder'
<1>0. /\ wpc \in [Ids -> WorkerPcs] /\ tpc \in [Tasks -> TaskPcs]
      /\ wtask \in [Ids -> Tasks \cup {NoTask}] /\ NoTask \notin Tasks
  BY PoolAssumption DEF TypeOK, PoolAssumption
<1>1. /\ tpc' = [tpc EXCEPT ![wtask[w]] = "done"]
      /\ wtask' = [wtask EXCEPT ![w] = NoTask]
      /\ wpc' = [wpc EXCEPT ![w] = "ran"] /\ queue' = queue
  BY DEF FinishTask
<1>2. wtask[w] \in Tasks /\ tpc[wtask[w]] = "running"
  BY <1>0 DEF FinishTask, OneHolder
<1>3. QueueExact'
  BY <1>0, <1>1, <1>2 DEF OneHolder, QueueExact
<1>4. HandsExact'
  <2>1. \A t \in Tasks : tpc'[t] = "running" <=> \E v \in Ids : wtask'[v] = t
    BY <1>0, <1>1, <1>2 DEF OneHolder
  <2>2. \A u, v \in Ids : wtask'[u] = wtask'[v] /\ wtask'[u] # NoTask => u = v
    BY <1>0, <1>1 DEF OneHolder
  <2>3. \A v \in Ids : wpc'[v] = "busy" <=> wtask'[v] # NoTask
    BY <1>0, <1>1 DEF OneHolder
  <2>4. QED
    BY <2>1, <2>2, <2>3 DEF HandsExact
<1>5. QED
  BY <1>3, <1>4 DEF OneHolder, QueueExact, HandsExact

\* A task is in the queue once, in the hands of one worker, or in neither.
THEOREM OneHolderEach == Spec => []OneHolder
<1>1. Init => OneHolder
  <2> SUFFICES ASSUME Init PROVE OneHolder
    OBVIOUS
  <2>1. queue = <<>> /\ DOMAIN queue = {}
    <3>1. queue = <<>>
      BY DEF Init
    <3>2. QED
      BY <3>1, EmptySeq
  <2>2. QED
    BY <2>1, PoolAssumption DEF Init, OneHolder, PoolAssumption
<1>2. TypeOK /\ MapExact /\ OneHolder /\ [Next]_vars => OneHolder'
  <2> SUFFICES ASSUME TypeOK, MapExact, OneHolder, [Next]_vars PROVE OneHolder'
    OBVIOUS
  <2>1. CASE Still
    BY <2>1, StillKeepsHolders
  <2>2. CASE \E t \in Tasks : Enqueue(t) /\ tpc[t] \in {"new", "retry", "expired"}
    BY <2>2, EnqueueKeepsHolders
  <2>3. ASSUME NEW t \in Tasks, SubmitExpired(t), tpc' = [tpc EXCEPT ![t] = "refused"],
               UNCHANGED <<queue, wpc, wtask>>
        PROVE  OneHolder'
    <3>1. tpc \in [Tasks -> TaskPcs] /\ tpc[t] = "expired"
      BY <2>3 DEF TypeOK, SubmitExpired
    <3>2. QED
      BY <2>3, <3>1 DEF OneHolder
  <2>4. CASE \E w \in Ids : TakeTask(w) \/ FinishTask(w)
    BY <2>4, TakeKeepsHolders, FinishKeepsHolders
  <2>5. QED
    BY <2>1, <2>2, <2>3, <2>4, TasksMove
<1>3. QED
  BY <1>1, <1>2, TypeCorrect, MapCorrect, PTL DEF Spec

-----------------------------------------------------------------------------
(* Refinement. The pool's steps that move a task are the executor's; OneHolder*)
(* tells that what they take or add is where the executor wants it.         *)

Active   == {t \in Tasks : tpc[t] = "running"}
Finished == {t \in Tasks : tpc[t] = "done"}
Refused  == {t \in Tasks : tpc[t] = "refused"}

LEMMA StillStutters == ASSUME Still PROVE UNCHANGED Executor!vars
  BY DEF Still, Executor!vars

LEMMA NotYetSubmittedIsFresh ==
    ASSUME TypeOK, OneHolder, NEW t \in Tasks, tpc[t] \in {"new", "retry", "expired"}
    PROVE  Executor!Fresh(t)
  BY DEF Executor!Fresh, OneHolder

LEMMA EnqueueAccepts ==
    ASSUME TypeOK, OneHolder, NEW t \in Tasks, Enqueue(t), tpc[t] \in {"new", "retry", "expired"}
    PROVE  Executor!Accept(t)
<1>1. /\ tpc \in [Tasks -> TaskPcs] /\ tpc' = [tpc EXCEPT ![t] = "queued"]
      /\ queue' = Append(queue, t)
  BY DEF TypeOK, Enqueue
<1>2. Active' = Active /\ Finished' = Finished /\ Refused' = Refused
  BY <1>1 DEF Active, Finished, Refused
<1>3. QED
  BY <1>1, <1>2, NotYetSubmittedIsFresh DEF Executor!Accept, Active, Finished, Refused

LEMMA ExpiredRefuses ==
    ASSUME TypeOK, OneHolder, NEW t \in Tasks, SubmitExpired(t),
           tpc' = [tpc EXCEPT ![t] = "refused"], UNCHANGED <<queue, wpc, wtask>>
    PROVE  Executor!Refuse(t)
<1>1. tpc \in [Tasks -> TaskPcs] /\ tpc[t] = "expired"
  BY DEF TypeOK, SubmitExpired
<1>2. Active' = Active /\ Finished' = Finished /\ Refused' = Refused \cup {t}
  BY <1>1 DEF Active, Finished, Refused
<1>3. QED
  BY <1>1, <1>2, NotYetSubmittedIsFresh DEF Executor!Refuse, Active, Finished, Refused

LEMMA TakeBegins ==
    ASSUME TypeOK, OneHolder, NEW w \in Ids, TakeTask(w)
    PROVE  Executor!Begin
<1>1. /\ tpc \in [Tasks -> TaskPcs] /\ queue \in Seq(Tasks) /\ queue # <<>>
      /\ queue' = Tail(queue)
  BY DEF TypeOK, TakeTask, PopTask
<1>2. Head(queue) \in Tasks /\ tpc[Head(queue)] = "queued"
  <2>1. 1 \in DOMAIN queue /\ Head(queue) = queue[1] /\ Head(queue) \in Tasks
    BY <1>1
  <2>2. QED
    BY <2>1 DEF OneHolder
<1>3. /\ Active' = Active \cup {Head(queue)}
      /\ Finished' = Finished /\ Refused' = Refused
  BY <1>1, <1>2 DEF TakeTask, NextTask, NotifyNotFull, Active, Finished, Refused
<1>4. QED
  BY <1>1, <1>3 DEF Executor!Begin, Active, Finished, Refused

LEMMA FinishFinishes ==
    ASSUME TypeOK, OneHolder, NEW w \in Ids, FinishTask(w)
    PROVE  \E t \in Tasks : Executor!Finish(t)
<1>1. /\ tpc \in [Tasks -> TaskPcs] /\ tpc' = [tpc EXCEPT ![wtask[w]] = "done"]
      /\ queue' = queue
  BY DEF TypeOK, FinishTask
<1>2. wtask[w] \in Tasks /\ tpc[wtask[w]] = "running"
  BY PoolAssumption DEF TypeOK, FinishTask, OneHolder, PoolAssumption
<1>3. /\ Active' = Active \ {wtask[w]}
      /\ Finished' = Finished \cup {wtask[w]} /\ Refused' = Refused
  BY <1>1, <1>2 DEF Active, Finished, Refused
<1>4. QED
  BY <1>1, <1>2, <1>3 DEF Executor!Finish, Active, Finished, Refused

\* The pool is an executor: accepted tasks start in the order of acceptance,
\* each once, and end; a refused task is never run.
THEOREM PoolIsExecutor == Spec => ImplementsExecutor
<1>1. Init => Executor!Init
  BY DEF Init, Executor!Init
<1>2. TypeOK /\ MapExact /\ OneHolder /\ [Next]_vars => [Executor!Next]_(Executor!vars)
  <2> SUFFICES ASSUME TypeOK, MapExact, OneHolder, [Next]_vars
               PROVE  Executor!Next \/ UNCHANGED Executor!vars
    OBVIOUS
  <2>1. CASE Still
    BY <2>1, StillStutters
  <2>2. CASE \E t \in Tasks : Enqueue(t) /\ tpc[t] \in {"new", "retry", "expired"}
    BY <2>2, EnqueueAccepts DEF Executor!Next
  <2>3. CASE \E t \in Tasks : SubmitExpired(t) /\ tpc' = [tpc EXCEPT ![t] = "refused"]
                              /\ UNCHANGED <<queue, wpc, wtask>>
    BY <2>3, ExpiredRefuses DEF Executor!Next
  <2>4. CASE \E w \in Ids : TakeTask(w) \/ FinishTask(w)
    BY <2>4, TakeBegins, FinishFinishes DEF Executor!Next
  <2>5. QED
    BY <2>1, <2>2, <2>3, <2>4, TasksMove
<1>3. QED
  BY <1>1, <1>2, TypeCorrect, MapCorrect, OneHolderEach, PTL
  DEF Spec, ImplementsExecutor, Executor!Spec

-----------------------------------------------------------------------------
(* The number of threads. Finding the thread of each index in start(), and  *)
(* the bounds on the number of threads, need each other: no worker may leave *)
(* while start() walks the map, because the map is not above its size yet.   *)

(* How far start() has come, and what it has made so far.                   *)
StartInv ==
    /\ octl = "down" => threads = {} /\ nextId = 0
    /\ octl = "creating" =>
           /\ nextId = k /\ k <= initSize /\ threads = 0 .. k - 1
           /\ \A w \in threads : wpc[w] = "made"
    /\ octl \in {"starting", "counting"} =>
           /\ k <= initSize /\ threads = 0 .. initSize - 1
           /\ \A w \in threads : w > k => wpc[w] = "made"
    /\ octl = "starting" => \A w \in threads : w = k => wpc[w] = "made"
    /\ octl = "counting" => k < initSize
    /\ ~fault

SizeInv == StartInv /\ PoolSizeBounds

LEMMA ThreadsFinite ==
    ASSUME TypeOK
    PROVE  IsFiniteSet(threads) /\ Cardinality(threads) \in Nat
<1>1. IsFiniteSet(Ids)
  BY PoolAssumption, FS_Interval DEF Ids, PoolAssumption
<1>2. IsFiniteSet(threads)
  BY <1>1, FS_Subset DEF TypeOK
<1>3. QED
  BY <1>2, FS_CardinalityType

LEMMA FirstCardinality == \A n \in Nat : Cardinality(0 .. n - 1) = n
  BY FS_Interval

(* While start() is creating or starting threads the map is at most at its  *)
(* size, and outside start() and stop() no thread exists.                   *)
LEMMA NotAboveWhileStarting ==
    ASSUME TypeOK, StartInv, octl \in {"down", "creating", "starting", "counting"}
    PROVE  Cardinality(threads) <= initSize
<1>1. initSize \in Nat /\ k \in Nat
  BY DEF TypeOK
<1>2. Cardinality({}) = 0
  BY FS_EmptySet
<1>3. CASE octl = "down"
  BY <1>1, <1>2, <1>3 DEF StartInv
<1>4. CASE octl = "creating"
  <2>1. Cardinality(0 .. k - 1) = k
    BY <1>1, FirstCardinality
  <2>2. QED
    BY <1>1, <1>4, <2>1 DEF StartInv
<1>5. CASE octl \in {"starting", "counting"}
  <2>1. Cardinality(0 .. initSize - 1) = initSize
    BY <1>1, FirstCardinality
  <2>2. QED
    BY <1>1, <1>5, <2>1 DEF StartInv
<1>6. QED
  BY <1>3, <1>4, <1>5

(* A step of a worker that stays.                                           *)
LEMMA StayingKeepsSize ==
    ASSUME TypeOK, MapExact, SizeInv, NEW w \in Ids,
           wpc[w] \notin {"none", "made"},
           UNCHANGED <<threads, nextId, mode, threadMax, owner>>,
           \A v \in Ids \ {w} : wpc[v] = "made" => wpc'[v] = "made"
    PROVE  SizeInv'
<1>1. threads \subseteq Ids /\ w \in threads
  BY DEF TypeOK, MapExact
<1>2. StartInv'
  BY <1>1 DEF SizeInv, StartInv, owner
<1>3. PoolSizeBounds'
  BY DEF SizeInv, PoolSizeBounds, PoolFloor, ThreadCeiling, owner
<1>4. QED
  BY <1>2, <1>3 DEF SizeInv

LEMMA LeavingKeepsSize ==
    ASSUME TypeOK, MapExact, RunningExact, SizeInv, NEW w \in Ids,
           ExitStopped(w) \/ ExitIdle(w)
    PROVE  SizeInv'
<1>0. /\ Cardinality(threads) \in Nat /\ initSize \in Nat /\ threadMax \in Nat
      /\ Cardinality(threads') = Cardinality(threads) - 1
      /\ UNCHANGED <<mode, threadMax, initSize, nextId, k, fault>>
  <2>1. w \in threads /\ threads' = threads \ {w}
    BY DEF MapExact, ExitStopped, ExitIdle, Leave
  <2>2. Cardinality(threads') = Cardinality(threads) - 1
    BY <2>1, ThreadsFinite, FS_RemoveElement
  <2>3. threadMax \in Nat /\ initSize \in Nat
    BY PoolAssumption DEF TypeOK, PoolAssumption
  <2>4. UNCHANGED <<mode, threadMax, initSize, nextId, k, fault>>
    BY DEF ExitStopped, ExitIdle, Leave, config
  <2>5. QED
    BY <2>2, <2>3, <2>4, ThreadsFinite
<1>1. octl \notin {"down", "creating", "starting", "counting"}
      /\ octl' \notin {"down", "creating", "starting", "counting"}
  <2>1. CASE ExitStopped(w)
    <3>1. octl # "down"
      BY <2>1 DEF MapExact, ExitStopped, SizeInv, StartInv
    <3>2. octl \notin {"creating", "starting", "counting"}
      BY <2>1 DEF ExitStopped, RunningExact
    <3>3. QED
      BY <2>1, <3>1, <3>2 DEF ExitStopped, NotifyExit
  <2>2. CASE ExitIdle(w)
    BY <2>2, <1>0, NotAboveWhileStarting DEF ExitIdle, AboveInit, SizeInv
  <2>3. QED
    BY <2>1, <2>2
<1>2. StartInv'
  BY <1>0, <1>1 DEF SizeInv, StartInv
<1>3. PoolFloor'
  <2>1. CASE ExitStopped(w)
    BY <2>1 DEF ExitStopped, RunningExact, NotifyExit, PoolFloor
  <2>2. CASE ExitIdle(w)
    BY <2>2, <1>0 DEF ExitIdle, AboveInit, SizeInv, PoolSizeBounds, PoolFloor
  <2>3. QED
    BY <2>1, <2>2
<1>4. ThreadCeiling'
  BY <1>0 DEF SizeInv, PoolSizeBounds, ThreadCeiling
<1>5. QED
  BY <1>2, <1>3, <1>4 DEF SizeInv, PoolSizeBounds

LEMMA EnqueueKeepsSize ==
    ASSUME TypeOK, MapExact, SizeInv, octl = "up", NEW t \in Tasks, Enqueue(t)
    PROVE  SizeInv'
<1>0. /\ Cardinality(threads) \in Nat /\ initSize \in Nat /\ threadMax \in Nat
      /\ UNCHANGED <<mode, threadMax, initSize, octl, k, fault>>
  BY ThreadsFinite, PoolAssumption DEF TypeOK, Enqueue, config, owner, PoolAssumption
<1>1. StartInv'
  BY <1>0 DEF SizeInv, StartInv
<1>2. CASE NeedsThread
  <2>1. Cardinality(threads') = Cardinality(threads) + 1
    BY <1>2, ThreadsFinite, FS_AddElement, EnqueueWorkers
  <2>2. mode = "CACHED" /\ Cardinality(threads) < threadMax
    BY <1>2 DEF NeedsThread
  <2>3. QED
    BY <1>0, <1>1, <2>1, <2>2 DEF SizeInv, PoolSizeBounds, PoolFloor, ThreadCeiling
<1>3. CASE ~NeedsThread
  BY <1>0, <1>1, <1>3 DEF Enqueue, SizeInv, PoolSizeBounds, PoolFloor, ThreadCeiling
<1>4. QED
  BY <1>2, <1>3

LEMMA CreateKeepsSize ==
    ASSUME TypeOK, MapExact, SizeInv, CreateThread
    PROVE  SizeInv'
<1>0. /\ k \in Nat /\ initSize \in Nat /\ MaxIds \in Nat /\ wpc \in [Ids -> WorkerPcs]
  BY PoolAssumption DEF TypeOK, PoolAssumption
<1>1. /\ octl = "creating" /\ octl' = octl /\ k < initSize /\ k' = k + 1 /\ fault' = fault
      /\ initSize' = initSize /\ nextId = k /\ nextId' = k + 1 /\ k < MaxIds
      /\ threads = 0 .. k - 1 /\ threads' = threads \cup {k}
      /\ \A w \in threads : wpc[w] = "made"
  BY DEF CreateThread, SizeInv, StartInv
<1>2. k \in Ids /\ k \notin threads /\ wpc' = [wpc EXCEPT ![k] = "made"]
  BY <1>0, <1>1 DEF CreateThread, Ids
<1>3. threads' = 0 .. k' - 1
  BY <1>0, <1>1
<1>4. \A w \in threads' : wpc'[w] = "made"
  BY <1>0, <1>1, <1>2 DEF TypeOK
<1>5. StartInv'
  BY <1>0, <1>1, <1>3, <1>4 DEF SizeInv, StartInv
<1>6. Cardinality(threads') = k + 1
  <2>1. k + 1 \in Nat /\ threads' = 0 .. (k + 1) - 1
    BY <1>0, <1>1, <1>3
  <2>2. QED
    BY <2>1, FirstCardinality
<1>7. PoolSizeBounds'
  BY <1>0, <1>1, <1>6 DEF PoolSizeBounds, PoolFloor, ThreadCeiling
<1>8. QED
  BY <1>5, <1>7 DEF SizeInv

LEMMA StartKeepsSize ==
    ASSUME TypeOK, MapExact, SizeInv,
           CreatedAll \/ StartThread \/ CountStarted \/ StartReturns
    PROVE  SizeInv'
<1>0. /\ k \in Nat /\ initSize \in Nat /\ wpc \in [Ids -> WorkerPcs] /\ threads \subseteq Ids
      /\ UNCHANGED <<threads, initSize, mode, threadMax, nextId>>
  BY DEF TypeOK, CreatedAll, StartThread, CountStarted, StartReturns, config
<1>1. CASE CreatedAll
  <2>1. StartInv'
    BY <1>0, <1>1 DEF CreatedAll, SizeInv, StartInv
  <2>2. PoolSizeBounds'
    BY <1>0, <1>1 DEF CreatedAll, SizeInv, PoolSizeBounds, PoolFloor, ThreadCeiling
  <2>3. QED
    BY <2>1, <2>2 DEF SizeInv
<1>2. CASE StartThread
  <2>1. octl = "starting" /\ k < initSize /\ k \in threads /\ wpc[k] = "made"
    BY <1>0, <1>2 DEF StartThread, SizeInv, StartInv
  <2>2. /\ wpc' = [wpc EXCEPT ![k] = "lock"] /\ octl' = "counting" /\ k' = k /\ ~fault'
    BY <1>2, <2>1 DEF StartThread, SizeInv, StartInv
  <2>3. StartInv'
    BY <1>0, <2>1, <2>2 DEF SizeInv, StartInv
  <2>4. PoolSizeBounds'
    BY <1>0, <2>2 DEF SizeInv, PoolSizeBounds, PoolFloor, ThreadCeiling
  <2>5. QED
    BY <2>3, <2>4 DEF SizeInv
<1>3. CASE CountStarted
  <2>1. octl = "counting" /\ octl' = "starting" /\ k' = k + 1 /\ wpc' = wpc /\ fault' = fault
    BY <1>3 DEF CountStarted
  <2>2. k < initSize /\ threads = 0 .. initSize - 1 /\ \A w \in threads : w > k => wpc[w] = "made"
    BY <2>1 DEF SizeInv, StartInv
  <2>3. \A w \in threads : w > k' \/ w = k' => wpc'[w] = "made"
    BY <1>0, <2>1, <2>2
  <2>4. StartInv'
    BY <1>0, <2>1, <2>2, <2>3 DEF SizeInv, StartInv
  <2>5. PoolSizeBounds'
    BY <1>0, <2>1 DEF SizeInv, PoolSizeBounds, PoolFloor, ThreadCeiling
  <2>6. QED
    BY <2>4, <2>5 DEF SizeInv
<1>4. CASE StartReturns
  <2>1. octl = "starting" /\ octl' = "up" /\ threads = 0 .. initSize - 1 /\ fault' = fault
    BY <1>4 DEF StartReturns, SizeInv, StartInv
  <2>2. Cardinality(threads') = initSize /\ initSize' = initSize
    BY <1>0, <2>1, FirstCardinality
  <2>3. QED
    BY <1>0, <2>1, <2>2 DEF SizeInv, StartInv, PoolSizeBounds, PoolFloor, ThreadCeiling
<1>5. QED
  BY <1>1, <1>2, <1>3, <1>4

LEMMA OwnerKeepsSize ==
    ASSUME TypeOK, SizeInv, OwnerCall \/ StopStep
    PROVE  SizeInv'
<1>0. UNCHANGED threads /\ wpc \in [Ids -> WorkerPcs] /\ initSize \in Nat
  BY DEF OwnerCall, SetMode, SetTaskThreshhold, SetThreadThreshhold, Start, Stop,
         StopStep, StopLocked, StopRecheck, AwaitExit, TypeOK
<1>1. CASE \/ \E m \in Modes : SetMode(m)
           \/ \E n \in TaskLimits : SetTaskThreshhold(n)
           \/ \E n \in ThreadLimits : SetThreadThreshhold(n)
           \/ \E n \in StartSizes : Start(n)
  <2>1. octl = "down" /\ threads = {} /\ nextId = 0 /\ Cardinality(threads) = 0
    BY <1>1, FS_EmptySet
    DEF SetMode, SetTaskThreshhold, SetThreadThreshhold, Start, SizeInv, StartInv
  <2>2. nextId' = nextId /\ initSize' \in Nat /\ fault' = fault
    <3>1. CASE \E n \in StartSizes : Start(n)
      BY <3>1, PoolAssumption DEF Start, PoolAssumption
    <3>2. CASE ~ \E n \in StartSizes : Start(n)
      BY <1>0, <1>1, <3>2 DEF SetMode, SetTaskThreshhold, SetThreadThreshhold, owner
    <3>3. QED
      BY <3>1, <3>2
  <2>3. octl' = "down" \/ (octl' = "creating" /\ k' = 0)
    BY <1>1, <2>1 DEF SetMode, SetTaskThreshhold, SetThreadThreshhold, Start, owner
  <2>4. StartInv'
    <3>1. CASE octl' = "down"
      BY <1>0, <2>1, <2>2, <3>1 DEF SizeInv, StartInv
    <3>2. CASE octl' = "creating" /\ k' = 0
      <4>1. threads' = {} /\ 0 .. k' - 1 = {} /\ k' <= initSize'
        BY <1>0, <2>1, <2>2, <3>2
      <4>2. QED
        BY <2>1, <2>2, <3>2, <4>1 DEF SizeInv, StartInv
    <3>3. QED
      BY <2>3, <3>1, <3>2
  <2>5. PoolSizeBounds'
    BY <1>0, <2>1, <2>2, <2>3 DEF PoolSizeBounds, PoolFloor, ThreadCeiling
  <2>6. QED
    BY <2>4, <2>5 DEF SizeInv
<1>2. CASE Stop
  BY <1>0, <1>2
  DEF Stop, SizeInv, StartInv, PoolSizeBounds, PoolFloor, ThreadCeiling, config
<1>3. CASE StopStep
  <2>1. /\ (octl' = "down" /\ threads = {} /\ nextId' = 0) \/ octl' = "joining"
        /\ UNCHANGED <<fault, initSize, threadMax, mode>>
    BY <1>3 DEF StopStep, StopLocked, StopRecheck, AwaitExit, ResetId, config
  <2>2. QED
    BY <1>0, <2>1 DEF SizeInv, StartInv, PoolSizeBounds, PoolFloor, ThreadCeiling
<1>4. QED
  BY <1>1, <1>2, <1>3 DEF OwnerCall

LEMMA SizeInvariant ==
    ASSUME Overlap = FALSE
    PROVE  Spec => []SizeInv
<1>1. Init => SizeInv
  BY FS_EmptySet DEF Init, SizeInv, StartInv, PoolSizeBounds, PoolFloor, ThreadCeiling
<1>2. TypeOK /\ MapExact /\ RunningExact /\ SubmitInv /\ SizeInv /\ [Next]_vars => SizeInv'
  <2> SUFFICES ASSUME TypeOK, MapExact, RunningExact, SubmitInv, SizeInv, [Next]_vars
               PROVE  SizeInv'
    OBVIOUS
  <2>0. wpc \in [Ids -> WorkerPcs]
    BY DEF TypeOK
  <2>1. CASE OwnerCall \/ StopStep
    BY <2>1, OwnerKeepsSize
  <2>2. CASE StartStep
    BY <2>2, CreateKeepsSize, StartKeepsSize DEF StartStep
  <2>3. ASSUME NEW t \in Tasks, Submit(t) \/ SubmitStep(t) PROVE SizeInv'
    <3>1. octl = "up"
      BY <2>3 DEF Submit, SubmitStep, Resubmit, SubmitTimeout, SubmitExpired, SubmitInv,
                  ClientPcs
    <3>2. CASE Enqueue(t)
      BY <3>1, <3>2, EnqueueKeepsSize
    <3>3. CASE UNCHANGED <<threads, nextId, config, wpc, owner>>
      BY <3>3 DEF config, owner, SizeInv, StartInv, PoolSizeBounds, PoolFloor, ThreadCeiling
    <3>4. QED
      BY <2>3, <3>2, <3>3
      DEF Submit, SubmitStep, Resubmit, Block, SubmitTimeout, SubmitExpired
  <2>4. ASSUME NEW w \in Ids, WorkerStep(w) \/ SpuriousWake(w) \/ WaitTimeout(w)
        PROVE  SizeInv'
    <3>1. CASE ExitStopped(w) \/ ExitIdle(w)
      BY <3>1, LeavingKeepsSize
    <3>2. CASE \/ TakeTask(w) \/ WaitForTask(w) \/ StayIdle(w) \/ FinishTask(w)
               \/ CountIdle(w) \/ SpuriousWake(w) \/ WaitTimeout(w)
      <4>1. /\ wpc[w] \notin {"none", "made"}
            /\ UNCHANGED <<threads, nextId, mode, threadMax, owner>>
            /\ \A v \in Ids \ {w} : wpc[v] = "made" => wpc'[v] = "made"
        BY <2>0, <3>2
        DEF TakeTask, WaitForTask, StayIdle, FinishTask, CountIdle, SpuriousWake,
            WaitTimeout, NotifyNotEmpty, config
      <4>2. QED
        BY <4>1, StayingKeepsSize
    <3>3. QED
      BY <2>4, <3>1, <3>2 DEF WorkerStep
  <2>5. CASE UNCHANGED vars
    BY <2>5 DEF vars, config, owner, SizeInv, StartInv, PoolSizeBounds, PoolFloor,
                ThreadCeiling
  <2>6. QED
    BY <2>1, <2>2, <2>3, <2>4, <2>5 DEF Next
<1>3. Spec => []SubmitInv
  BY SubmitInvariant
<1>4. QED
  BY <1>1, <1>2, <1>3, TypeCorrect, MapCorrect, StopInvariant, PTL DEF Spec, StopInv

\* start() finds the thread it made under every index, if clients submit only
\* between start() and stop().
THEOREM StartFinds ==
    ASSUME Overlap = FALSE
    PROVE  Spec => []StartFindsItsThreads
<1>1. SizeInv => StartFindsItsThreads
  BY DEF SizeInv, StartInv, StartFindsItsThreads
<1>2. Spec => []SizeInv
  BY SizeInvariant
<1>3. QED
  BY <1>1, <1>2, PTL

\* The number of threads stays within its bounds, for the same clients.
THEOREM SizeBounded ==
    ASSUME Overlap = FALSE
    PROVE  Spec => []PoolSizeBounds
<1>1. SizeInv => PoolSizeBounds
  BY DEF SizeInv
<1>2. Spec => []SizeInv
  BY SizeInvariant
<1>3. QED
  BY <1>1, <1>2, PTL

-----------------------------------------------------------------------------
(* The last worker to leave a stopped pool is one that notifies: one that   *)
(* has idled too long leaves only from a map larger than initSize >= 1.      *)

ExitInv == ExitSignalled /\ (octl # "down" => initSize >= 1)

\* stop() never sleeps on an empty map, unless the pool was started with size 0.
THEOREM ExitIsSignalled ==
    ASSUME 0 \notin StartSizes
    PROVE  Spec => []ExitSignalled
<1> USE DEF ExitInv, ExitSignalled
<1>1. Init => ExitInv
  BY DEF Init
<1>2. TypeOK /\ MapExact /\ ExitInv /\ [Next]_vars => ExitInv'
  <2> SUFFICES ASSUME TypeOK, MapExact, ExitInv, [Next]_vars PROVE ExitInv'
    OBVIOUS
  <2>0. initSize \in Nat
    BY DEF TypeOK
  <2> USE <2>0 DEF owner, config
  <2>1. CASE OwnerCall
    BY <2>1, PoolAssumption
    DEF OwnerCall, SetMode, SetTaskThreshhold, SetThreadThreshhold, Start, Stop, PoolAssumption
  <2>2. CASE StartStep
    BY <2>2 DEF StartStep, CreateThread, CreatedAll, StartThread, CountStarted, StartReturns
  <2>3. CASE StopStep
    BY <2>3 DEF StopStep, StopLocked, StopRecheck, AwaitExit
  <2>4. ASSUME NEW t \in Tasks, Enqueue(t) PROVE ExitInv'
    BY <2>4 DEF Enqueue
  <2>5. ASSUME NEW t \in Tasks, Submit(t) \/ SubmitStep(t) PROVE ExitInv'
    BY <2>4, <2>5 DEF Submit, SubmitStep, Resubmit, Block, SubmitTimeout, SubmitExpired
  <2>6. ASSUME NEW w \in Ids, ExitStopped(w) PROVE ExitInv'
    BY <2>6 DEF ExitStopped, Leave, NotifyExit
  <2>7. ASSUME NEW w \in Ids, ExitIdle(w) PROVE ExitInv'
    <3>1. CASE octl = "joining"
      <4>1. Cardinality(threads) > 1 /\ Cardinality(threads) \in Nat
        BY <2>7, <3>1, ThreadsFinite DEF ExitIdle, AboveInit
      <4>2. /\ IsFiniteSet(threads')
            /\ Cardinality(threads') = Cardinality(threads) - 1
              \/ Cardinality(threads') = Cardinality(threads)
        BY <2>7, ThreadsFinite, FS_RemoveElement DEF ExitIdle, Leave
      <4>3. threads' # {}
        BY <4>1, <4>2, FS_EmptySet
      <4>4. QED
        BY <2>7, <3>1, <4>3 DEF ExitIdle, Leave
    <3>2. CASE octl # "joining"
      BY <2>7, <3>2 DEF ExitIdle, Leave
    <3>3. QED
      BY <3>1, <3>2
  <2>8. ASSUME NEW w \in Ids, WorkerStep(w) PROVE ExitInv'
    BY <2>6, <2>7, <2>8 DEF WorkerStep, TakeTask, WaitForTask, StayIdle, FinishTask, CountIdle
  <2>9. ASSUME NEW w \in Ids, SpuriousWake(w) \/ WaitTimeout(w) PROVE ExitInv'
    BY <2>9 DEF SpuriousWake, WaitTimeout
  <2>10. CASE UNCHANGED vars
    BY <2>10 DEF vars
  <2>11. QED
    BY <2>1, <2>2, <2>3, <2>5, <2>8, <2>9, <2>10 DEF Next
<1>3. QED
  BY <1>1, <1>2, TypeCorrect, MapCorrect, PTL DEF Spec

-----------------------------------------------------------------------------
(* The counter of idle threads: every step that makes a worker idle counts   *)
(* it at once or is start()'s, and every step that discounts one takes one.  *)

LEMMA IdleFinite ==
    ASSUME TypeOK
    PROVE  IsFiniteSet(IdleWorkers) /\ Cardinality(IdleWorkers) \in Nat
<1>1. IsFiniteSet(Ids) /\ IdleWorkers \in SUBSET Ids
  BY PoolAssumption, FS_Interval DEF Ids, IdleWorkers, PoolAssumption
<1>2. IsFiniteSet(IdleWorkers)
  BY <1>1, FS_Subset
<1>3. QED
  BY <1>2, FS_CardinalityType

(* By how much the counter, with the thread start() is about to count, is   *)
(* above the number of idle workers.                                        *)
Drift == idle + (IF octl = "counting" THEN 1 ELSE 0) - Cardinality(IdleWorkers)

LEMMA DriftNumber == ASSUME TypeOK PROVE Drift \in Int
<1>1. idle \in Int /\ Cardinality(IdleWorkers) \in Nat
  BY IdleFinite DEF TypeOK
<1>2. QED
  BY <1>1 DEF Drift

LEMMA DriftSame ==
    ASSUME IdleWorkers' = IdleWorkers, idle' = idle, octl' = "counting" <=> octl = "counting"
    PROVE  Drift' = Drift
  BY DEF Drift

LEMMA DriftLess ==
    ASSUME TypeOK, NEW w \in IdleWorkers, IdleWorkers' = IdleWorkers \ {w},
           octl' = "counting" <=> octl = "counting"
    PROVE  /\ idle' = idle - 1 => Drift' = Drift
           /\ idle' = idle => Drift' = Drift + 1
<1>1. Cardinality(IdleWorkers') = Cardinality(IdleWorkers) - 1
  BY IdleFinite, FS_RemoveElement
<1>2. idle \in Int /\ Cardinality(IdleWorkers) \in Nat
  BY IdleFinite DEF TypeOK
<1>3. QED
  BY <1>1, <1>2 DEF Drift

LEMMA DriftMore ==
    ASSUME TypeOK, NEW w \in Ids \ IdleWorkers, IdleWorkers' = IdleWorkers \cup {w},
           idle' = idle + 1, octl' = "counting" <=> octl = "counting"
    PROVE  Drift' = Drift
<1>1. Cardinality(IdleWorkers') = Cardinality(IdleWorkers) + 1
  BY IdleFinite, FS_AddElement
<1>2. QED
  BY <1>1, IdleFinite DEF Drift, TypeOK

(* Only a worker that leaves because of stop() makes the counter drift, and *)
(* only upwards.                                                            *)
Drifts == Drift' = Drift + 1 /\ ~running /\ \E w \in Ids : wpc[w] = "lock"

LEMMA DriftSteps ==
    ASSUME TypeOK, MapExact, [Next]_vars
    PROVE  Drift' = Drift \/ Drifts
<1>0. wpc \in [Ids -> WorkerPcs] /\ idle \in Int
  BY DEF TypeOK
<1> USE <1>0 DEF owner, config, IdlePcs
<1>1. CASE OwnerCall
  BY <1>1, DriftSame
  DEF OwnerCall, SetMode, SetTaskThreshhold, SetThreadThreshhold, Start, Stop, IdleWorkers
<1>2. CASE CreateThread
  <2>1. IdleWorkers' = IdleWorkers
    BY <1>2 DEF CreateThread, IdleWorkers, MapExact
  <2>2. QED
    BY <1>2, <2>1, DriftSame DEF CreateThread
<1>3. CASE StartThread
  <2>1. CASE k \in threads /\ wpc[k] = "made"
    <3>1. k \in Ids \ IdleWorkers /\ IdleWorkers' = IdleWorkers \cup {k}
      BY <1>3, <2>1 DEF StartThread, IdleWorkers, TypeOK
    <3>2. Cardinality(IdleWorkers') = Cardinality(IdleWorkers) + 1
      BY <3>1, IdleFinite, FS_AddElement
    <3>3. idle' = idle /\ octl = "starting" /\ octl' = "counting"
      BY <1>3, <2>1 DEF StartThread
    <3>4. QED
      BY <3>2, <3>3, IdleFinite DEF Drift
  <2>2. CASE ~(k \in threads /\ wpc[k] = "made")
    BY <1>3, <2>2, DriftSame DEF StartThread, IdleWorkers
  <2>3. QED
    BY <2>1, <2>2
<1>4. CASE CountStarted
  <2>1. IdleWorkers' = IdleWorkers
    BY <1>4 DEF CountStarted, IdleWorkers
  <2>2. QED
    BY <1>4, <2>1, IdleFinite DEF CountStarted, Drift
<1>5. CASE CreatedAll \/ StartReturns
  BY <1>5, DriftSame DEF CreatedAll, StartReturns, IdleWorkers
<1>6. CASE StopStep
  <2>1. IdleWorkers' = IdleWorkers
    BY <1>6 DEF StopStep, StopLocked, StopRecheck, AwaitExit, NotifyNotEmpty, IdleWorkers
  <2>2. QED
    BY <1>6, <2>1, DriftSame DEF StopStep, StopLocked, StopRecheck, AwaitExit
<1>7. ASSUME NEW t \in Tasks, Enqueue(t) PROVE Drift' = Drift
  <2>1. CASE NeedsThread
    <3>1. /\ nextId \in Ids /\ wpc[nextId] = "none"
          /\ wpc' = [NotifyNotEmpty(wpc) EXCEPT ![nextId] = "lock"]
      BY <1>7, <2>1, EnqueueWorkers
    <3>2. nextId \in Ids \ IdleWorkers /\ IdleWorkers' = IdleWorkers \cup {nextId}
      BY <3>1 DEF NotifyNotEmpty, IdleWorkers
    <3>3. QED
      BY <1>7, <2>1, <3>2, DriftMore DEF Enqueue
  <2>2. CASE ~NeedsThread
    <3>1. IdleWorkers' = IdleWorkers
      BY <1>7, <2>2 DEF Enqueue, NotifyNotEmpty, IdleWorkers
    <3>2. QED
      BY <1>7, <2>2, <3>1, DriftSame DEF Enqueue
  <2>3. QED
    BY <2>1, <2>2
<1>8. ASSUME NEW t \in Tasks, Submit(t) \/ SubmitStep(t) PROVE Drift' = Drift
  <2>1. CASE UNCHANGED <<wpc, idle, octl>>
    BY <2>1, DriftSame DEF IdleWorkers
  <2>2. QED
    BY <1>7, <1>8, <2>1
    DEF Submit, SubmitStep, Resubmit, Block, SubmitTimeout, SubmitExpired
<1>9. ASSUME NEW w \in Ids, TakeTask(w) PROVE Drift' = Drift
  <2>1. w \in IdleWorkers /\ IdleWorkers' = IdleWorkers \ {w}
    BY <1>9 DEF TakeTask, NotifyNotEmpty, IdleWorkers
  <2>2. QED
    BY <1>9, <2>1, DriftLess DEF TakeTask
<1>10. ASSUME NEW w \in Ids, ExitStopped(w) \/ ExitIdle(w) PROVE Drift' = Drift \/ Drifts
  <2>1. w \in IdleWorkers /\ IdleWorkers' = IdleWorkers \ {w}
    BY <1>10 DEF ExitStopped, ExitIdle, Leave, IdleWorkers
  <2>2. octl' = "counting" <=> octl = "counting"
    BY <1>10 DEF ExitStopped, ExitIdle, NotifyExit
  <2>3. CASE ExitStopped(w)
    <3>1. idle' = idle /\ ~running /\ wpc[w] = "lock"
      BY <2>3 DEF ExitStopped
    <3>2. QED
      BY <2>1, <2>2, <3>1, DriftLess DEF Drifts
  <2>4. CASE ExitIdle(w)
    BY <2>1, <2>2, <2>4, DriftLess DEF ExitIdle
  <2>5. QED
    BY <1>10, <2>3, <2>4
<1>11. ASSUME NEW w \in Ids, CountIdle(w) PROVE Drift' = Drift
  <2>1. w \in Ids \ IdleWorkers /\ IdleWorkers' = IdleWorkers \cup {w}
    BY <1>11 DEF CountIdle, IdleWorkers
  <2>2. QED
    BY <1>11, <2>1, DriftMore DEF CountIdle
<1>12. ASSUME NEW w \in Ids, \/ WaitForTask(w) \/ StayIdle(w) \/ FinishTask(w)
                             \/ SpuriousWake(w) \/ WaitTimeout(w)
       PROVE  Drift' = Drift
  <2>1. IdleWorkers' = IdleWorkers
    BY <1>12 DEF WaitForTask, StayIdle, FinishTask, SpuriousWake, WaitTimeout, IdleWorkers
  <2>2. QED
    BY <1>12, <2>1, DriftSame
    DEF WaitForTask, StayIdle, FinishTask, SpuriousWake, WaitTimeout
<1>13. CASE UNCHANGED vars
  BY <1>13, DriftSame DEF vars, IdleWorkers
<1>14. QED
  BY <1>1, <1>2, <1>3, <1>4, <1>5, <1>6, <1>8, <1>9, <1>10, <1>11, <1>12, <1>13
  DEF Next, StartStep, WorkerStep

\* idle_thread_size_ never counts fewer threads than are idle, except for the
\* one that start() has started and not counted yet.
THEOREM IdleCounted == Spec => []IdleNeverUnder
<1>1. TypeOK => (IdleNeverUnder <=> Drift >= 0)
  BY IdleFinite DEF IdleNeverUnder, Drift, TypeOK
<1>2. (TypeOK => (IdleNeverUnder <=> Drift >= 0))'
  BY <1>1, PTL
<1>3. Init => IdleNeverUnder
  <2> SUFFICES ASSUME Init PROVE IdleNeverUnder
    OBVIOUS
  <2>1. IdleWorkers = {} /\ idle = 0 /\ octl = "down"
    BY DEF Init, IdleWorkers, IdlePcs
  <2>2. QED
    BY <2>1, FS_EmptySet DEF IdleNeverUnder
<1>4. TypeOK /\ TypeOK' /\ MapExact /\ IdleNeverUnder /\ [Next]_vars => IdleNeverUnder'
  <2> SUFFICES ASSUME TypeOK, TypeOK', MapExact, IdleNeverUnder, [Next]_vars
               PROVE  IdleNeverUnder'
    OBVIOUS
  <2>1. Drift' >= 0
    BY <1>1, DriftNumber, DriftSteps DEF Drifts
  <2>2. QED
    BY <1>2, <2>1
<1>5. QED
  BY <1>3, <1>4, TypeCorrect, MapCorrect, PTL DEF Spec

(* The pool is used only after its first start, and until the first stop    *)
(* nothing has made the counter drift.                                      *)
FirstCycle ==
    /\ starts = 0 => octl = "down" /\ Drift = 0 /\ \A w \in Ids : wpc[w] = "none"
    /\ starts = 1 /\ running => Drift = 0

LEMMA OwnerSteps ==
    ASSUME [Next]_vars
    PROVE  (starts' = starts /\ (running' => running)) \/ starts' = starts + 1
<1> USE DEF owner
<1>1. CASE OwnerCall
  BY <1>1 DEF OwnerCall, SetMode, SetTaskThreshhold, SetThreadThreshhold, Start, Stop
<1>2. CASE StartStep
  BY <1>2 DEF StartStep, CreateThread, CreatedAll, StartThread, CountStarted, StartReturns
<1>3. CASE StopStep
  BY <1>3 DEF StopStep, StopLocked, StopRecheck, AwaitExit
<1>4. ASSUME NEW t \in Tasks, Submit(t) \/ SubmitStep(t) PROVE UNCHANGED owner
  BY <1>4 DEF Submit, SubmitStep, Resubmit, SubmitTimeout, SubmitExpired, Block, Enqueue
<1>5. ASSUME NEW w \in Ids, WorkerStep(w) PROVE UNCHANGED <<starts, running>>
  BY <1>5 DEF WorkerStep, TakeTask, ExitStopped, WaitForTask, ExitIdle, StayIdle, FinishTask,
              CountIdle, Leave
<1>6. ASSUME NEW w \in Ids, SpuriousWake(w) \/ WaitTimeout(w) PROVE UNCHANGED owner
  BY <1>6 DEF SpuriousWake, WaitTimeout
<1>7. CASE UNCHANGED vars
  BY <1>7 DEF vars
<1>8. QED
  BY <1>1, <1>2, <1>3, <1>4, <1>5, <1>6, <1>7 DEF Next

LEMMA FirstCycleInvariant ==
    ASSUME Overlap = FALSE
    PROVE  Spec => []FirstCycle
<1>1. Init => FirstCycle
  <2> SUFFICES ASSUME Init PROVE FirstCycle
    OBVIOUS
  <2>1. IdleWorkers = {} /\ idle = 0 /\ octl = "down" /\ starts = 0
    BY DEF Init, IdleWorkers, IdlePcs
  <2>2. Drift = 0
    BY <2>1, FS_EmptySet DEF Drift
  <2>3. QED
    BY <2>1, <2>2 DEF FirstCycle, Init
<1>2. TypeOK /\ MapExact /\ SubmitInv /\ FirstCycle /\ [Next]_vars => FirstCycle'
  <2> SUFFICES ASSUME TypeOK, MapExact, SubmitInv, FirstCycle, [Next]_vars PROVE FirstCycle'
    OBVIOUS
  <2>0. starts \in Nat /\ Drift \in Int
    BY DriftNumber, PoolAssumption DEF TypeOK, PoolAssumption
  <2> USE DEF owner
  <2>1. CASE starts = 0
    <3>1. /\ octl = "down" /\ Drift = 0
          /\ \A w \in Ids : wpc[w] = "none"
          /\ \A t \in Tasks : tpc[t] \notin ClientPcs
      BY <2>1 DEF FirstCycle, SubmitInv
    <3>2. ~StartStep /\ ~StopStep /\ ~Stop
      BY <3>1 DEF StartStep, CreateThread, CreatedAll, StartThread, CountStarted, StartReturns,
                  StopStep, StopLocked, StopRecheck, Stop
    <3>3. \A t \in Tasks : ~Submit(t) /\ ~SubmitStep(t)
      BY <3>1 DEF Submit, SubmitStep, Resubmit, SubmitTimeout, SubmitExpired, ClientPcs
    <3>4. \A w \in Ids : ~WorkerStep(w) /\ ~SpuriousWake(w) /\ ~WaitTimeout(w)
      BY <3>1 DEF WorkerStep, TakeTask, ExitStopped, WaitForTask, ExitIdle, StayIdle, FinishTask,
                  CountIdle, SpuriousWake, WaitTimeout
    <3>5. OwnerCall \/ UNCHANGED vars
      BY <3>2, <3>3, <3>4 DEF Next
    <3>6. UNCHANGED wpc /\ (starts' = 1 \/ (starts' = 0 /\ octl' = "down"))
      BY <2>1, <3>1, <3>2, <3>5
      DEF OwnerCall, SetMode, SetTaskThreshhold, SetThreadThreshhold, Start, vars
    <3>7. Drift' = 0
      BY <3>1, DriftSteps DEF Drifts
    <3>8. QED
      BY <3>1, <3>6, <3>7 DEF FirstCycle
  <2>2. CASE starts # 0
    <3>1. \/ starts' = starts /\ (running' => running)
          \/ starts' = starts + 1
      BY OwnerSteps
    <3>2. starts' # 0 /\ (starts' = 1 /\ running' => starts = 1 /\ running)
      BY <2>0, <2>2, <3>1
    <3>3. starts' = 1 /\ running' => Drift' = 0
      BY <3>2, DriftSteps DEF FirstCycle, Drifts
    <3>4. QED
      BY <3>2, <3>3 DEF FirstCycle
  <2>3. QED
    BY <2>1, <2>2
<1>3. Spec => []SubmitInv
  BY SubmitInvariant
<1>4. QED
  BY <1>1, <1>2, <1>3, TypeCorrect, MapCorrect, PTL DEF Spec

\* Until the first stop(), a submit_task that is accepted while every thread of
\* a MODE_CACHED pool is busy and the limit is not reached starts a thread.
THEOREM GrowsFirst ==
    ASSUME Overlap = FALSE
    PROVE  Spec => GrowsInFirstCycle
<1>1. /\ TypeOK /\ RunningExact /\ MapExact /\ FirstCycle /\ [Next]_vars
      => [starts = 1 => GrowsIfBusy]_vars
  <2> SUFFICES ASSUME TypeOK, RunningExact, MapExact, FirstCycle, Next, starts = 1,
                      NEW t \in Tasks,
                      tpc[t] # "queued", tpc'[t] = "queued",
                      octl = "up", mode = "CACHED",
                      \A w \in threads : wpc[w] = "busy",
                      Cardinality(threads) < threadMax
               PROVE  threads' # threads
    BY DEF GrowsIfBusy
  <2>1. idle = 0
    <3>1. IdleWorkers = {}
      BY DEF MapExact, IdleWorkers, IdlePcs
    <3>2. Drift = 0
      BY DEF FirstCycle, RunningExact
    <3>3. idle \in Int
      BY DEF TypeOK
    <3>4. QED
      BY <3>1, <3>2, <3>3, FS_EmptySet DEF Drift
  <2>2. NeedsThread
    <3>1. UInt(idle) = 0
      BY <2>1, PoolAssumption DEF UInt, PoolAssumption
    <3>2. Len(queue) \in Nat
      BY DEF TypeOK
    <3>3. QED
      BY <3>1, <3>2 DEF NeedsThread
  <2>3. \E u \in Tasks : Enqueue(u)
    <3> SUFFICES ASSUME \A u \in Tasks : ~Enqueue(u) PROVE FALSE
      OBVIOUS
    <3>0. tpc \in [Tasks -> TaskPcs]
      BY DEF TypeOK
    <3>1. ~OwnerCall
      BY DEF OwnerCall, SetMode, SetTaskThreshhold, SetThreadThreshhold, Start, Stop
    <3>2. ~StartStep /\ ~StopStep
      BY DEF StartStep, CreateThread, CreatedAll, StartThread, CountStarted, StartReturns,
             StopStep, StopLocked, StopRecheck
    <3>3. \A u \in Tasks : ~Submit(u) /\ ~SubmitStep(u)
      BY <3>0 DEF Submit, SubmitStep, Resubmit, SubmitTimeout, SubmitExpired, Block
    <3>4. \A w \in Ids : ~WorkerStep(w)
      BY <3>0 DEF WorkerStep, TakeTask, NotifyNotFull, ExitStopped, WaitForTask, ExitIdle,
                  StayIdle, FinishTask, CountIdle, Leave
    <3>5. \A w \in Ids : ~SpuriousWake(w) /\ ~WaitTimeout(w)
      BY DEF SpuriousWake, WaitTimeout
    <3>6. QED
      BY <3>1, <3>2, <3>3, <3>4, <3>5 DEF Next
  <2>4. QED
    BY <2>2, <2>3, EnqueueWorkers
<1>2. Spec => []FirstCycle
  BY FirstCycleInvariant
<1>3. StopInv => RunningExact
  BY DEF StopInv
<1>4. QED
  BY <1>1, <1>2, <1>3, TypeCorrect, StopInvariant, MapCorrect, PTL DEF Spec, GrowsInFirstCycle

=============================================================================
