------------------------- MODULE ToolDispatcherProofs -------------------------
(***************************************************************************)
(* Proofs about ToolDispatcher, for every set of workers, batch size and   *)
(* number of batches: its invariants, and that it implements ToolBatch.    *)
(* The invariant of the first is extended for the second by what they do   *)
(* not need: the fates and the requests.                                   *)
(***************************************************************************)
EXTENDS ToolDispatcher, FiniteSetTheorems, TLAPS

Open == caller \in {"queueing", "awaiting", "moving"}

\* The calls whose result is still missing.
Outstanding == {i \in 1 .. size : ~Recorded(i)}

\* How the engine's thread and the thread running Dispatch wait for each other.
ThreadInv ==
    /\ engine = "idle" => caller = "none"
    /\ engine = "polling" => batch \in Batches
    /\ caller # "none" => ~done
    /\ engine = "polling" /\ caller = "none" => done
    /\ done => batch \in Batches
    /\ batch = 0 => engine = "idle"
    /\ stop => engine = "idle"
    /\ caller = "queueing" => next <= size

\* The pool holds tasks of the open batch only.
TaskInv ==
    /\ \A k \in DOMAIN tasks :
         Open /\ tasks[k].batch = batch /\ tasks[k].call \in 1 .. size
    /\ \A w \in Workers : worker[w].task # NoTask =>
         /\ Open /\ worker[w].task.batch = batch
         /\ worker[w].task.call \in 1 .. size
    /\ \A w \in Workers :
         worker[w].pc \in {"waiting", "exited"} <=> worker[w].task = NoTask
    /\ \A w \in Workers : worker[w].pc = "recording" =>
         worker[w].res.call = worker[w].task.call

\* What the slots of SharedState and of the engine's results hold.
SlotInv ==
    /\ \A b \in Batches : (~Open \/ b # batch) => results[b] = NoResults
    /\ Open => \A i \in Calls :
         Recorded(i) => i <= size /\ results[batch][i].call = i
    /\ Open => delivered = NoResults
    /\ ~Open /\ batch > 0 => \A i \in 1 .. size : delivered[i].call = i
    /\ caller = "moving" => Outstanding = {}

\* remaining is the number of missing results.
CountInv == Open => remaining[batch] = Cardinality(Outstanding)

IInv ==
    TypeOK /\ ThreadInv /\ TaskInv /\ SlotInv /\ CountInv /\ CallInOnePlace

USE BoundsAssumption

-----------------------------------------------------------------------------
\* Outstanding is a finite set of calls.
LEMMA OutstandingFinite ==
    ASSUME size \in 0 .. MaxCalls
    PROVE  IsFiniteSet(Outstanding)
<1>1. IsFiniteSet(1 .. size)
  BY FS_Interval
<1>2. Outstanding \in SUBSET (1 .. size)
  BY DEF Outstanding
<1>3. QED
  BY <1>1, <1>2, FS_Subset

\* While no batch is open the pool holds nothing.
LEMMA PoolEmpty ==
    ASSUME TypeOK, TaskInv, ~Open
    PROVE  tasks = <<>> /\ \A w \in Workers : worker[w].task = NoTask
<1>1. tasks = <<>>
  <2>1. DOMAIN tasks = {} /\ tasks \in Seq(Task)
    BY DEF TaskInv, TypeOK
  <2>2. QED
    BY <2>1, SMT
<1>2. QED
  BY <1>1 DEF TaskInv

LEMMA InitIInv == Init => IInv
<1> SUFFICES ASSUME Init PROVE IInv
  OBVIOUS
<1> USE DEF Init
<1>0. /\ NoResult \in Result /\ NoTask \in Task
      /\ NoResults \in [Calls -> Result]
  BY DEF NoResults, NoResult, Result, NoTask, Task
<1>1. TypeOK
  <2>1. worker \in [Workers -> WorkerState]
    BY <1>0 DEF Idle, WorkerState
  <2>2. /\ batch \in 0 .. NumBatches /\ size \in 0 .. MaxCalls
        /\ next \in 1 .. MaxCalls + 1
        /\ remaining \in [Batches -> 0 .. MaxCalls]
    OBVIOUS
  <2>3. /\ delivered \in [Calls -> Result]
        /\ results \in [Batches -> [Calls -> Result]]
    BY <1>0
  <2>4. cancelled \in [Batches -> BOOLEAN] /\ tasks \in Seq(Task)
    OBVIOUS
  <2>5. QED
    BY <2>1, <2>2, <2>3, <2>4 DEF TypeOK
<1>2. ThreadInv
  BY DEF ThreadInv, Batches
<1>3. TaskInv
  BY DEF TaskInv, Idle
<1>4. SlotInv
  BY DEF SlotInv, Open, Outstanding
<1>5. CountInv
  BY DEF CountInv, Open
<1>6. CallInOnePlace
  BY DEF CallInOnePlace, Idle
<1>7. QED
  BY <1>1, <1>2, <1>3, <1>4, <1>5, <1>6 DEF IInv

-----------------------------------------------------------------------------
\* One lemma per action: the step preserves the inductive invariant.

LEMMA StartDispatchStep ==
    ASSUME IInv, NEW n \in Calls, NEW forever \in SUBSET (1 .. n), NEW heedless \in SUBSET forever,
           StartDispatch(n, forever, heedless)
    PROVE  IInv'
<1> USE DEF StartDispatch, poolVars
<1>0. /\ caller = "none" /\ batch' = batch + 1 /\ batch' \in Batches
      /\ Open' /\ ~Open /\ n \in 1 .. MaxCalls /\ n \in Nat
  BY DEF IInv, TypeOK, ThreadInv, Open, Batches, Calls
<1>1. TypeOK'
  <2>1. NoResults \in [Calls -> Result]
    BY DEF NoResults, NoResult, Result
  <2>2. forever \in SUBSET Calls /\ heedless \in SUBSET forever /\ n \in 0 .. MaxCalls
    BY <1>0 DEF Calls
  <2>3. remaining' \in [Batches -> 0 .. MaxCalls]
    BY <1>0, <2>2 DEF IInv, TypeOK
  <2>4. next' \in 1 .. MaxCalls + 1 /\ batch' \in 0 .. NumBatches
    BY <1>0 DEF Batches
  <2>5. QED
    BY <2>1, <2>2, <2>3, <2>4 DEF IInv, TypeOK
<1>2. ThreadInv'
  BY <1>0 DEF IInv, TypeOK, ThreadInv
<1>3. /\ tasks = <<>>
      /\ \A w \in Workers : worker[w].task = NoTask
  BY <1>0, PoolEmpty DEF IInv
<1>4. TaskInv'
  BY <1>0, <1>3 DEF IInv, TaskInv
<1>5. results'[batch'] = NoResults
  BY <1>0 DEF IInv, SlotInv
<1>6. \A i \in Calls : ~Recorded(i)'
  BY <1>5 DEF Recorded, NoResults
<1>7. SlotInv'
  BY <1>0, <1>5, <1>6 DEF IInv, SlotInv, Open
<1>8. CountInv'
  <2>1. Outstanding' = 1 .. n
    BY <1>0, <1>6 DEF Outstanding, Calls, IInv, TypeOK
  <2>2. remaining'[batch'] = n
    BY <1>0 DEF IInv, TypeOK
  <2>3. QED
    BY <1>0, <2>1, <2>2, FS_Interval DEF CountInv
<1>9. CallInOnePlace'
  <2>1. \A i \in 1 .. size' : /\ Unsent(i)' /\ ~Queued(i)' /\ ~Held(i)'
                              /\ ~Recorded(i)' /\ ~Delivered(i)'
    BY <1>0, <1>3, <1>6
    DEF Unsent, Queued, Held, Delivered, TaskOf, NoTask, NoResults, Calls,
        Batches, IInv, TypeOK
  <2>2. QED
    BY <1>3, <2>1 DEF CallInOnePlace
<1>10. QED
  BY <1>1, <1>2, <1>4, <1>7, <1>8, <1>9 DEF IInv

LEMMA PressEscStep == IInv /\ PressEsc => IInv'
<1> SUFFICES ASSUME IInv, PressEsc PROVE IInv'
  OBVIOUS
<1> USE DEF PressEsc, engineVars, callerVars, poolVars, stateVars
<1>1. TypeOK'
  BY DEF IInv, TypeOK
<1>2. /\ ThreadInv' /\ TaskInv' /\ SlotInv' /\ CountInv' /\ CallInOnePlace'
  BY DEF IInv, ThreadInv, TaskInv, SlotInv, CountInv, CallInOnePlace, Open,
     Outstanding, Unsent, Queued, Held, Recorded, Delivered, TaskOf
<1>3. QED
  BY <1>1, <1>2 DEF IInv

LEMMA JoinDispatchStep == IInv /\ JoinDispatch => IInv'
<1> SUFFICES ASSUME IInv, JoinDispatch PROVE IInv'
  OBVIOUS
<1> USE DEF JoinDispatch, callerVars, poolVars, stateVars
<1>1. TypeOK' /\ ThreadInv'
  BY DEF IInv, TypeOK, ThreadInv
<1>2. /\ TaskInv' /\ SlotInv' /\ CountInv' /\ CallInOnePlace'
  BY DEF IInv, TaskInv, SlotInv, CountInv, CallInOnePlace, Open,
     Outstanding, Unsent, Queued, Held, Recorded, Delivered, TaskOf
<1>3. QED
  BY <1>1, <1>2 DEF IInv

LEMMA StopPoolStep == IInv /\ StopPool => IInv'
<1> SUFFICES ASSUME IInv, StopPool PROVE IInv'
  OBVIOUS
<1> USE DEF StopPool, engineVars, callerVars, stateVars
<1>1. TypeOK' /\ ThreadInv'
  BY DEF IInv, TypeOK, ThreadInv
<1>2. /\ TaskInv' /\ SlotInv' /\ CountInv' /\ CallInOnePlace'
  BY DEF IInv, TaskInv, SlotInv, CountInv, CallInOnePlace, Open,
     Outstanding, Unsent, Queued, Held, Recorded, Delivered, TaskOf
<1>3. QED
  BY <1>1, <1>2 DEF IInv

LEMMA QueueTaskStep == IInv /\ QueueTask => IInv'
<1> SUFFICES ASSUME IInv, QueueTask PROVE IInv'
  OBVIOUS
<1> USE DEF QueueTask, engineVars, stateVars
<1> DEFINE new == TaskOf(next)
<1>0. /\ Open /\ Open' /\ batch > 0 /\ batch \in Nat
      /\ next \in 1 .. size /\ size \in Nat /\ size <= MaxCalls
      /\ new \in Task /\ new.batch = batch /\ new.call = next
      /\ tasks' = Append(tasks, new)
  BY DEF IInv, TypeOK, ThreadInv, Open, TaskOf, Task, Batches
<1>1. TypeOK'
  <2>1. tasks' \in Seq(Task) /\ next' \in 1 .. MaxCalls + 1
    BY <1>0 DEF IInv, TypeOK
  <2>2. QED
    BY <2>1 DEF IInv, TypeOK
<1>2. ThreadInv'
  BY <1>0 DEF IInv, ThreadInv
<1>3. /\ DOMAIN tasks' = DOMAIN tasks \cup {Len(tasks) + 1}
      /\ tasks'[Len(tasks) + 1] = new
      /\ \A k \in DOMAIN tasks : tasks'[k] = tasks[k] /\ k # Len(tasks) + 1
  BY <1>0 DEF IInv, TypeOK
<1>4. TaskInv'
  BY <1>0, <1>3 DEF IInv, TaskInv
<1>5. /\ SlotInv' /\ CountInv'
  BY <1>0 DEF IInv, SlotInv, CountInv, Open, Outstanding, Recorded
<1>6. CallInOnePlace'
  <2>1. \A i \in 1 .. size : TaskOf(i)' = TaskOf(i) /\ (TaskOf(i) = new <=> i = next)
    BY DEF TaskOf
  <2>2. \A i \in 1 .. size : Queued(i)' <=> Queued(i) \/ i = next
    BY <1>3, <2>1 DEF Queued
  <2>3. \A i \in 1 .. size : Unsent(i)' <=> Unsent(i) /\ i # next
    BY <1>0 DEF Unsent, IInv, TypeOK
  <2>4. \A i \in 1 .. size : /\ Held(i)' <=> Held(i)
                             /\ Recorded(i)' <=> Recorded(i)
                             /\ Delivered(i)' <=> Delivered(i)
    BY <2>1 DEF Held, Recorded, Delivered
  <2>5. ~Queued(next) /\ Unsent(next)
    BY <1>0 DEF IInv, CallInOnePlace, Unsent
  <2>6. \A k \in DOMAIN tasks : tasks[k] # new
    BY <2>5 DEF Queued
  <2>7. \A j, k \in DOMAIN tasks' : tasks'[j] = tasks'[k] => j = k
    BY <1>3, <2>6 DEF IInv, CallInOnePlace
  <2>8. QED
    BY <1>0, <2>2, <2>3, <2>4, <2>5, <2>7 DEF IInv, CallInOnePlace
<1>7. QED
  BY <1>1, <1>2, <1>4, <1>5, <1>6 DEF IInv

LEMMA AwaitAllStep == IInv /\ AwaitAll => IInv'
<1> SUFFICES ASSUME IInv, AwaitAll PROVE IInv'
  OBVIOUS
<1> USE DEF AwaitAll, AllDone, engineVars, poolVars, stateVars
<1>0. Open /\ Open' /\ size \in 0 .. MaxCalls
  BY DEF Open, IInv, TypeOK
<1>1. TypeOK' /\ ThreadInv'
  BY DEF IInv, TypeOK, ThreadInv
<1>2. TaskInv' /\ CountInv'
  BY <1>0 DEF IInv, TaskInv, CountInv, Outstanding, Recorded
<1>3. Outstanding = {}
  BY <1>0, OutstandingFinite, FS_EmptySet DEF IInv, CountInv
<1>4. SlotInv'
  BY <1>0, <1>3 DEF IInv, SlotInv, Outstanding, Recorded
<1>5. CallInOnePlace'
  BY DEF IInv, CallInOnePlace, Unsent, Queued, Held, Recorded, Delivered, TaskOf
<1>6. QED
  BY <1>1, <1>2, <1>4, <1>5 DEF IInv

LEMMA MoveResultsStep == IInv /\ MoveResults => IInv'
<1> SUFFICES ASSUME IInv, MoveResults PROVE IInv'
  OBVIOUS
<1> USE DEF MoveResults, engineVars, poolVars
<1>0. /\ Open /\ ~Open' /\ batch \in Batches /\ size \in 0 .. MaxCalls
  BY DEF Open, IInv, TypeOK, ThreadInv, Batches
<1>1. TypeOK'
  <2>1. NoResults \in [Calls -> Result]
    BY DEF NoResults, NoResult, Result
  <2>2. QED
    BY <1>0, <2>1 DEF IInv, TypeOK
<1>2. ThreadInv'
  BY DEF IInv, ThreadInv
<1>3. \A i \in 1 .. size : Recorded(i) /\ results[batch][i].call = i
  BY <1>0 DEF IInv, SlotInv, Outstanding, Calls
<1>4. \A i \in 1 .. size : ~Queued(i) /\ ~Held(i)
  BY <1>0, <1>3 DEF IInv, CallInOnePlace, Batches
<1>5. TaskInv'
  <2>1. \A k \in DOMAIN tasks :
          /\ tasks[k] \in Task /\ tasks[k].batch = batch
          /\ tasks[k].call \in 1 .. size
    BY DEF IInv, TaskInv, TypeOK
  <2>2. \A k \in DOMAIN tasks : tasks[k] = TaskOf(tasks[k].call)
    BY <2>1 DEF Task, TaskOf
  <2>3. \A k \in DOMAIN tasks : FALSE
    BY <1>4, <2>1, <2>2 DEF Queued
  <2>4. \A w \in Workers : worker[w].task # NoTask =>
          /\ worker[w].task = TaskOf(worker[w].task.call)
          /\ worker[w].task.call \in 1 .. size
    <3>1. \A w \in Workers : worker[w].task \in Task
      BY DEF IInv, TypeOK, WorkerState
    <3>2. QED
      BY <3>1 DEF IInv, TaskInv, Task, TaskOf
  <2>5. \A w \in Workers : worker[w].task = NoTask
    BY <1>4, <2>4 DEF Held
  <2>6. QED
    BY <2>3, <2>5 DEF IInv, TaskInv
<1>6. results'[batch] = NoResults /\ delivered' = results[batch]
  BY <1>0 DEF IInv, TypeOK
<1>7. \A b \in Batches : results'[b] = NoResults
  BY <1>0, <1>6 DEF IInv, SlotInv, TypeOK
<1>8. SlotInv'
  BY <1>0, <1>3, <1>6, <1>7 DEF SlotInv, Open
<1>9. CountInv'
  BY <1>0 DEF CountInv
<1>10. CallInOnePlace'
  <2>1. \A i \in 1 .. size :
          /\ ~Unsent(i)' /\ ~Queued(i)' /\ ~Held(i)' /\ ~Recorded(i)'
          /\ Delivered(i)'
    BY <1>0, <1>3, <1>4, <1>6
    DEF Unsent, Queued, Held, Recorded, Delivered, TaskOf, NoResults, Calls
  <2>2. QED
    BY <2>1 DEF IInv, CallInOnePlace
<1>11. QED
  BY <1>1, <1>2, <1>5, <1>8, <1>9, <1>10 DEF IInv

LEMMA SetDoneStep == IInv /\ SetDone => IInv'
<1> SUFFICES ASSUME IInv, SetDone PROVE IInv'
  OBVIOUS
<1> USE DEF SetDone, poolVars, stateVars
<1>0. ~Open /\ ~Open'
  BY DEF Open
<1>1. TypeOK' /\ ThreadInv'
  BY DEF IInv, TypeOK, ThreadInv
<1>2. TaskInv' /\ CountInv'
  BY <1>0 DEF IInv, TaskInv, CountInv
<1>3. SlotInv'
  BY <1>0 DEF IInv, SlotInv
<1>4. CallInOnePlace'
  BY DEF IInv, CallInOnePlace, Unsent, Queued, Held, Recorded, Delivered, TaskOf
<1>5. QED
  BY <1>1, <1>2, <1>3, <1>4 DEF IInv

LEMMA TakeTaskStep ==
    ASSUME IInv, NEW w \in Workers, TakeTask(w)
    PROVE  IInv'
<1> USE DEF TakeTask, Pop, engineVars, callerVars, stateVars
<1>0. /\ tasks \in Seq(Task) /\ tasks # <<>> /\ Head(tasks) \in Task
      /\ Head(tasks) = tasks[1] /\ 1 \in DOMAIN tasks
      /\ tasks' \in Seq(Task)
      /\ DOMAIN tasks' = 1 .. Len(tasks) - 1
      /\ \A k \in DOMAIN tasks' : /\ k + 1 \in DOMAIN tasks /\ k \in Nat
                                 /\ tasks'[k] = tasks[k + 1]
  BY DEF IInv, TypeOK
<1> DEFINE t == tasks[1]
<1>1. /\ worker'[w].task = t /\ worker'[w].pc = "checking"
      /\ \A v \in Workers : v # w => worker'[v] = worker[v]
  BY <1>0 DEF IInv, TypeOK
<1>2. TypeOK'
  BY <1>0 DEF IInv, TypeOK, WorkerState
<1>3. ThreadInv'
  BY DEF IInv, ThreadInv
<1>4. /\ Open /\ t.batch = batch /\ t.call \in 1 .. size /\ t \in Task
      /\ t = TaskOf(t.call) /\ t # NoTask /\ batch > 0
  <2>1. /\ Open /\ t.batch = batch /\ t.call \in 1 .. size /\ t \in Task
    BY <1>0 DEF IInv, TaskInv
  <2>2. batch > 0
    BY <2>1 DEF IInv, TypeOK, ThreadInv, Open, Batches
  <2>3. QED
    BY <2>1, <2>2 DEF Task, TaskOf, NoTask
<1>5. worker[w].task = NoTask
  BY DEF IInv, TaskInv
<1>6. TaskInv'
  <2>1. \A k \in DOMAIN tasks' :
          Open' /\ tasks'[k].batch = batch /\ tasks'[k].call \in 1 .. size
    BY <1>0, <1>4 DEF IInv, TaskInv, Open
  <2>2. QED
    BY <1>1, <1>4, <2>1 DEF IInv, TaskInv, Open
<1>7. SlotInv' /\ CountInv'
  BY DEF IInv, SlotInv, CountInv, Open, Outstanding, Recorded
<1>8. CallInOnePlace'
  <2>1. \A i \in 1 .. size : (TaskOf(i) = t <=> i = t.call) /\ TaskOf(i)' = TaskOf(i)
                             /\ TaskOf(i) # NoTask
    BY <1>4 DEF TaskOf, NoTask
  <2>2. \A j, k \in DOMAIN tasks : tasks[j] = tasks[k] => j = k
    BY DEF IInv, CallInOnePlace
  <2>3. \A i \in 1 .. size : Queued(i) /\ i # t.call => Queued(i)'
    <3> SUFFICES ASSUME NEW i \in 1 .. size, Queued(i), i # t.call
                 PROVE  Queued(i)'
      OBVIOUS
    <3>1. PICK k \in DOMAIN tasks : tasks[k] = TaskOf(i)
      BY DEF Queued
    <3>2. k # 1
      BY <2>1, <3>1
    <3>3. k - 1 \in DOMAIN tasks' /\ tasks'[k - 1] = TaskOf(i)
      BY <1>0, <3>1, <3>2
    <3>4. QED
      BY <2>1, <3>3 DEF Queued
  <2>4. \A i \in 1 .. size : Queued(i)' => Queued(i) /\ i # t.call
    BY <1>0, <2>1, <2>2 DEF Queued
  <2>5. \A i \in 1 .. size : Held(i)' <=> Held(i) \/ i = t.call
    BY <1>1, <1>5, <2>1 DEF Held
  <2>6. Queued(t.call)
    BY <1>0, <1>4 DEF Queued
  <2>7. \A i \in 1 .. size : /\ Unsent(i)' <=> Unsent(i)
                             /\ Recorded(i)' <=> Recorded(i)
                             /\ Delivered(i)' <=> Delivered(i)
    BY DEF Unsent, Recorded, Delivered
  <2>8. \A j, k \in DOMAIN tasks' : tasks'[j] = tasks'[k] => j = k
    BY <1>0, <2>2
  <2>9. \A v \in Workers : worker[v].task # t
    BY <1>4, <2>6 DEF IInv, CallInOnePlace, Held
  <2>10. \A u, v \in Workers :
           worker'[u].task = worker'[v].task /\ worker'[u].task # NoTask => u = v
    <3>1. \A u, v \in Workers :
            worker[u].task = worker[v].task /\ worker[u].task # NoTask => u = v
      BY DEF IInv, CallInOnePlace
    <3>2. SUFFICES ASSUME NEW u \in Workers, NEW v \in Workers, u # v,
                          worker'[u].task = worker'[v].task,
                          worker'[u].task # NoTask
                   PROVE  FALSE
      OBVIOUS
    <3>3. u # w /\ v # w
      BY <1>1, <2>9, <3>2
    <3>4. QED
      BY <1>1, <3>1, <3>2, <3>3
  <2>11. QED
    BY <1>4, <2>3, <2>4, <2>5, <2>6, <2>7, <2>8, <2>10 DEF IInv, CallInOnePlace
<1>9. QED
  BY <1>2, <1>3, <1>6, <1>7, <1>8 DEF IInv

\* Changing only the place and the result of a worker disturbs nothing else.
LEMMA SameTaskStep ==
    ASSUME IInv, UNCHANGED <<engineVars, callerVars, tasks, stop, stateVars, delivered>>,
           \A v \in Workers : worker'[v].task = worker[v].task
    PROVE  ThreadInv' /\ SlotInv' /\ CountInv' /\ CallInOnePlace'
<1> USE DEF engineVars, callerVars, stateVars
<1>1. ThreadInv'
  BY DEF IInv, ThreadInv
<1>2. SlotInv' /\ CountInv'
  BY DEF IInv, SlotInv, CountInv, Open, Outstanding, Recorded
<1>3. \A i \in 1 .. size : /\ Unsent(i)' <=> Unsent(i)
                           /\ Queued(i)' <=> Queued(i)
                           /\ Held(i)' <=> Held(i)
                           /\ Recorded(i)' <=> Recorded(i)
                           /\ Delivered(i)' <=> Delivered(i)
  BY DEF Unsent, Queued, Held, Recorded, Delivered, TaskOf
<1>4. CallInOnePlace'
  BY <1>3 DEF IInv, CallInOnePlace
<1>5. QED
  BY <1>1, <1>2, <1>4

\* A worker that goes on with its task keeps the pool's bookkeeping.
LEMMA BusyWorkerStep ==
    ASSUME TaskInv, NEW w \in Workers,
           UNCHANGED <<batch, caller, size, tasks>>,
           worker[w].pc \in {"checking", "running"},
           worker'[w].pc \in {"running", "recording"},
           worker'[w].task = worker[w].task,
           worker'[w].pc = "recording" => worker'[w].res.call = worker[w].task.call,
           \A v \in Workers : v # w => worker'[v] = worker[v]
    PROVE  TaskInv'
BY DEF TaskInv, Open

LEMMA ExitWorkerStep ==
    ASSUME IInv, NEW w \in Workers, ExitWorker(w)
    PROVE  IInv'
<1> USE DEF ExitWorker, engineVars, callerVars, stateVars
<1>1. TypeOK'
  BY DEF IInv, TypeOK, WorkerState
<1>2. /\ worker'[w].task = worker[w].task /\ worker'[w].pc = "exited"
      /\ \A v \in Workers : v # w => worker'[v] = worker[v]
  BY DEF IInv, TypeOK
<1>3. TaskInv'
  BY <1>2 DEF IInv, TaskInv, Open
<1>4. QED
  BY <1>1, <1>2, <1>3, SameTaskStep DEF IInv

LEMMA CheckCancelledStep ==
    ASSUME IInv, NEW w \in Workers, CheckCancelled(w)
    PROVE  IInv'
<1> USE DEF CheckCancelled, engineVars, callerVars, stateVars
<1>0. worker[w].task \in Task
  BY DEF IInv, TypeOK, WorkerState
<1>1. /\ worker'[w].task = worker[w].task
      /\ worker'[w].pc \in {"recording", "running"}
      /\ worker'[w].pc = "recording" => worker'[w].res.call = worker[w].task.call
      /\ worker'[w].res \in Result
      /\ \A v \in Workers : v # w => worker'[v] = worker[v]
  BY <1>0 DEF IInv, TypeOK, Result, Task, Fates, WorkerState
<1>2. TypeOK'
  <2>1. [call |-> worker[w].task.call, fate |-> "skipped"] \in Result
    BY <1>0 DEF Result, Task, Fates
  <2>2. QED
    BY <2>1 DEF IInv, TypeOK, WorkerState
<1>3. TaskInv'
  BY <1>1, BusyWorkerStep DEF IInv
<1>4. QED
  BY <1>1, <1>2, <1>3, SameTaskStep DEF IInv

LEMMA FinishToolStep ==
    ASSUME IInv, NEW w \in Workers, FinishTool(w)
    PROVE  IInv'
<1> USE DEF FinishTool, engineVars, callerVars, stateVars
<1>0. worker[w].task \in Task
  BY DEF IInv, TypeOK, WorkerState
<1>1. PICK f \in PossibleFates(worker[w].task) :
        worker' = [worker EXCEPT ![w].pc = "recording",
                     ![w].res = [call |-> worker[w].task.call, fate |-> f]]
  OBVIOUS
<1>2. f \in Fates
  BY DEF PossibleFates, Fates
<1>3. [call |-> worker[w].task.call, fate |-> f] \in Result
  BY <1>0, <1>2 DEF Result, Task
<1>4. TypeOK'
  <2>1. [worker[w] EXCEPT !.pc = "recording",
           !.res = [call |-> worker[w].task.call, fate |-> f]] \in WorkerState
    BY <1>3 DEF IInv, TypeOK, WorkerState
  <2>2. worker' \in [Workers -> WorkerState]
    BY <1>1, <2>1 DEF IInv, TypeOK
  <2>3. QED
    BY <2>2 DEF IInv, TypeOK
<1>5. /\ worker'[w].task = worker[w].task /\ worker'[w].pc = "recording"
      /\ worker'[w].res.call = worker[w].task.call
      /\ \A v \in Workers : v # w => worker'[v] = worker[v]
  BY <1>1 DEF IInv, TypeOK
<1>6. TaskInv'
  BY <1>5, BusyWorkerStep DEF IInv
<1>7. QED
  BY <1>4, <1>5, <1>6, SameTaskStep DEF IInv

LEMMA RecordResultStep ==
    ASSUME IInv, NEW w \in Workers, RecordResult(w)
    PROVE  IInv'
<1> USE DEF RecordResult, Slot, engineVars, callerVars
<1> DEFINE t == worker[w].task
           i == t.call
           r == worker[w].res
<1>0. /\ t \in Task /\ t # NoTask /\ Open /\ Open' /\ t.batch = batch
      /\ i \in 1 .. size /\ i \in Calls /\ t = TaskOf(i)
      /\ batch \in Batches /\ batch > 0 /\ size \in 0 .. MaxCalls
      /\ r \in Result /\ r.call = i /\ r # NoResult
  <2>1. /\ t \in Task /\ r \in Result /\ size \in 0 .. MaxCalls
    BY DEF IInv, TypeOK, WorkerState
  <2>2. t # NoTask /\ r.call = i
    BY DEF IInv, TaskInv
  <2>3. Open /\ t.batch = batch /\ i \in 1 .. size /\ Open'
    BY <2>2 DEF IInv, TaskInv, Open
  <2>4. batch \in Batches /\ batch > 0
    BY <2>3 DEF IInv, TypeOK, ThreadInv, Open, Batches
  <2>5. QED
    BY <2>1, <2>2, <2>3, <2>4 DEF Task, TaskOf, Calls, NoResult
<1>1. /\ results'[batch] = [results[batch] EXCEPT ![i] = r]
      /\ \A b \in Batches : b # batch => results'[b] = results[b]
      /\ results' \in [Batches -> [Calls -> Result]]
      /\ results[batch] \in [Calls -> Result]
  BY <1>0 DEF IInv, TypeOK
<1>2. /\ worker'[w] = Idle("waiting")
      /\ \A v \in Workers : v # w => worker'[v] = worker[v]
  BY DEF IInv, TypeOK
<1>3. Held(i) /\ ~Unsent(i) /\ ~Queued(i) /\ ~Recorded(i) /\ ~Delivered(i)
  <2>1. Held(i)
    BY <1>0 DEF Held
  <2>2. QED
    BY <1>0, <2>1 DEF IInv, CallInOnePlace
<1>4. \A j \in 1 .. size : Recorded(j)' <=> Recorded(j) \/ j = i
  BY <1>0, <1>1 DEF Recorded, Calls
<1>5. /\ Outstanding' = Outstanding \ {i} /\ i \in Outstanding
      /\ Outstanding # {}
  BY <1>0, <1>3, <1>4 DEF Outstanding
<1>6. /\ Cardinality(Outstanding') = Cardinality(Outstanding) - 1
      /\ Cardinality(Outstanding) \in Nat \ {0}
  <2>1. IsFiniteSet(Outstanding)
    BY <1>0, OutstandingFinite
  <2>2. Cardinality(Outstanding \ {i}) = Cardinality(Outstanding) - 1
    BY <1>5, <2>1, FS_RemoveElement
  <2>3. Cardinality(Outstanding) \in Nat
    BY <2>1, FS_CardinalityType
  <2>4. Cardinality(Outstanding) # 0
    BY <1>5, <2>1, FS_EmptySet
  <2>5. QED
    BY <1>5, <2>2, <2>3, <2>4
<1>7. /\ remaining'[batch] = remaining[batch] - 1
      /\ remaining[batch] \in 1 .. MaxCalls
  BY <1>0, <1>6 DEF IInv, TypeOK, CountInv
<1>8. TypeOK'
  <2>1. remaining' \in [Batches -> 0 .. MaxCalls]
    BY <1>0, <1>7 DEF IInv, TypeOK
  <2>2. Idle("waiting") \in WorkerState
    BY DEF Idle, NoTask, NoResult, Task, Result, WorkerState
  <2>3. worker' = [worker EXCEPT ![w] = Idle("waiting")]
    OBVIOUS
  <2>4. QED
    BY <1>1, <2>1, <2>2, <2>3 DEF IInv, TypeOK
<1>9. ThreadInv'
  BY DEF IInv, ThreadInv
<1>10. TaskInv'
  BY <1>0, <1>2 DEF IInv, TaskInv, Idle, Open
<1>11. SlotInv'
  <2>1. \A b \in Batches : (~Open' \/ b # batch) => results'[b] = NoResults
    BY <1>0, <1>1 DEF IInv, SlotInv
  <2>2. \A j \in Calls : Recorded(j)' => j <= size /\ results'[batch][j].call = j
    BY <1>0, <1>1 DEF IInv, SlotInv, Recorded
  <2>3. caller # "moving"
    BY <1>5 DEF IInv, SlotInv
  <2>4. QED
    BY <1>0, <2>1, <2>2, <2>3 DEF IInv, SlotInv, Open
<1>12. CountInv'
  BY <1>0, <1>6, <1>7 DEF IInv, CountInv
<1>13. CallInOnePlace'
  <2>1. \A j \in 1 .. size : /\ Unsent(j)' <=> Unsent(j)
                             /\ Queued(j)' <=> Queued(j)
                             /\ Delivered(j)' <=> Delivered(j)
    BY DEF Unsent, Queued, Delivered, TaskOf
  <2>2. \A u, v \in Workers :
          worker[u].task = worker[v].task /\ worker[u].task # NoTask => u = v
    BY DEF IInv, CallInOnePlace
  <2>3. \A j \in 1 .. size : TaskOf(j)' = TaskOf(j) /\ TaskOf(j) # NoTask
                             /\ (TaskOf(j) = t <=> j = i)
    BY <1>0 DEF TaskOf, NoTask
  <2>4. \A j \in 1 .. size : Held(j)' <=> Held(j) /\ j # i
    BY <1>0, <1>2, <2>2, <2>3 DEF Held, Idle
  <2>5. \A u, v \in Workers :
          worker'[u].task = worker'[v].task /\ worker'[u].task # NoTask => u = v
    BY <1>2, <2>2 DEF Idle
  <2>6. QED
    BY <1>3, <1>4, <2>1, <2>4, <2>5 DEF IInv, CallInOnePlace
<1>14. QED
  BY <1>8, <1>9, <1>10, <1>11, <1>12, <1>13 DEF IInv

-----------------------------------------------------------------------------
LEMMA StutterStep == IInv /\ UNCHANGED vars => IInv'
<1> SUFFICES ASSUME IInv, UNCHANGED vars PROVE IInv'
  OBVIOUS
<1> USE DEF vars, engineVars, callerVars, poolVars, stateVars
<1>1. TypeOK' /\ TaskInv'
  BY DEF IInv, TypeOK, TaskInv, Open
<1>2. ThreadInv' /\ SlotInv' /\ CountInv' /\ CallInOnePlace'
  BY SameTaskStep DEF IInv
<1>3. QED
  BY <1>1, <1>2 DEF IInv

LEMMA NextStep == IInv /\ [Next]_vars => IInv'
<1> SUFFICES ASSUME IInv, [Next]_vars PROVE IInv'
  OBVIOUS
<1>1. ASSUME NEW n \in Calls, NEW forever \in SUBSET (1 .. n), NEW heedless \in SUBSET forever,
             StartDispatch(n, forever, heedless)
      PROVE  IInv'
  BY <1>1, StartDispatchStep
<1>2. ASSUME NEW w \in Workers,
             \/ TakeTask(w) \/ CheckCancelled(w) \/ FinishTool(w)
             \/ RecordResult(w) \/ ExitWorker(w)
      PROVE  IInv'
  BY <1>2, TakeTaskStep, CheckCancelledStep, FinishToolStep, RecordResultStep,
     ExitWorkerStep
<1>3. CASE PressEsc \/ JoinDispatch \/ StopPool
  BY <1>3, PressEscStep, JoinDispatchStep, StopPoolStep
<1>4. CASE QueueTask \/ AwaitAll \/ MoveResults \/ SetDone
  BY <1>4, QueueTaskStep, AwaitAllStep, MoveResultsStep, SetDoneStep
<1>5. CASE Destroyed \/ PollInVain \/ UNCHANGED vars
  BY <1>5, StutterStep DEF Destroyed, PollInVain
<1>6. QED
  BY <1>1, <1>2, <1>3, <1>4, <1>5 DEF Next

\* The inductive invariant holds in every reachable state.
THEOREM Invariance == Spec => []IInv
BY InitIInv, NextStep, PTL DEF Spec

\* The variables keep their types; in particular remaining never leaves
\* 0 .. MaxCalls, so the decrement in the task closure never underflows.
THEOREM TypeCorrect == Spec => []TypeOK
<1>1. IInv => TypeOK
  BY DEF IInv
<1>2. QED
  BY <1>1, Invariance, PTL

\* No call of a batch is lost, run twice or held by two workers.
THEOREM CallConservation == Spec => []CallInOnePlace
<1>1. IInv => CallInOnePlace
  BY DEF IInv
<1>2. QED
  BY <1>1, Invariance, PTL

\* When Dispatch has returned, the pool holds no task and no result of the
\* batch: the SharedState it gave back is not written any more.
THEOREM NoZombies == Spec => []NothingLeftBehind
<1>1. IInv => NothingLeftBehind
  <2> SUFFICES ASSUME IInv, caller \in {"none", "returned"}
               PROVE  /\ tasks = <<>>
                      /\ \A w \in Workers : worker[w].task = NoTask
                      /\ \A b \in Batches : results[b] = NoResults
    BY DEF NothingLeftBehind
  <2>1. ~Open
    BY DEF Open
  <2>2. QED
    BY <2>1, PoolEmpty DEF IInv, SlotInv
<1>2. QED
  BY <1>1, Invariance, PTL

\* What Dispatch returns is the results of all the calls, in call order.
THEOREM ResultsPairedWithCalls == Spec => []ResultsInCallOrder
<1>1. IInv => ResultsInCallOrder
  <2> SUFFICES ASSUME IInv, caller = "returned" \/ done
               PROVE  \A i \in 1 .. size : delivered[i].call = i
    BY DEF ResultsInCallOrder
  <2>1. ~Open /\ batch > 0
    BY DEF IInv, TypeOK, ThreadInv, Open, Batches
  <2>2. QED
    BY <2>1 DEF IInv, SlotInv
<1>2. QED
  BY <1>1, Invariance, PTL

-----------------------------------------------------------------------------
(* The pool implements ToolBatch: every step of a worker, of the thread in *)
(* Dispatch and of the engine is a step of the batch or leaves it as it is.*)

\* The batch seen from its caller, as ToolDispatcher maps it.
Abandoned == batch > 0 /\ cancelled[batch]
Outcome   == IF Open THEN results[batch] ELSE delivered

\* A call is given up only if its batch was cancelled, and a request is new when
\* its batch starts.
FateInv ==
    /\ \A w \in Workers : worker[w].pc = "recording" =>
         /\ worker[w].res.fate \in Fates
         /\ worker[w].res.fate \in {"skipped", "interrupted"} => cancelled[batch]
    /\ \A b \in Batches : b > batch => ~cancelled[b]

LEMMA InitFates == Init => FateInv
  BY DEF Init, FateInv, Idle

LEMMA NextFates ==
    ASSUME IInv, FateInv, [Next]_vars
    PROVE  FateInv'
<1> USE DEF FateInv
<1>1. ASSUME NEW n \in Calls, NEW forever \in SUBSET (1 .. n), NEW heedless \in SUBSET forever,
             StartDispatch(n, forever, heedless)
      PROVE  FateInv'
  <2>1. \A w \in Workers : worker[w].task = NoTask
    BY <1>1, PoolEmpty DEF StartDispatch, IInv, ThreadInv, Open
  <2>2. \A w \in Workers : worker[w].pc # "recording"
    BY <2>1 DEF IInv, TaskInv
  <2>3. batch \in Nat /\ batch' = batch + 1
    BY <1>1 DEF StartDispatch, IInv, TypeOK
  <2>4. QED
    BY <1>1, <2>2, <2>3 DEF StartDispatch, poolVars, Batches
<1>2. CASE PressEsc
  <2>1. batch \in Batches
    BY <1>2 DEF PressEsc, IInv, ThreadInv
  <2>2. cancelled' = [cancelled EXCEPT ![batch] = TRUE] /\ cancelled \in [Batches -> BOOLEAN]
    BY <1>2 DEF PressEsc, IInv, TypeOK
  <2>3. cancelled'[batch] /\ \A b \in Batches : b # batch => cancelled'[b] = cancelled[b]
    BY <2>1, <2>2
  <2>4. batch' = batch /\ worker' = worker
    BY <1>2 DEF PressEsc, engineVars, poolVars
  <2>5. \A b \in Batches : b > batch => b # batch
    BY DEF IInv, TypeOK, Batches
  <2>6. QED
    BY <2>3, <2>4, <2>5
<1>3. ASSUME UNCHANGED <<batch, cancelled, worker>>
      PROVE  FateInv'
  BY <1>3
<1>4. ASSUME NEW w \in Workers, UNCHANGED <<batch, cancelled>>,
             \A v \in Workers : v # w => worker'[v] = worker[v],
             worker'[w].pc = "recording" =>
                 /\ worker'[w].res.fate \in Fates
                 /\ worker'[w].res.fate \in {"skipped", "interrupted"} => cancelled[batch]
      PROVE  FateInv'
  BY <1>4
<1>5. ASSUME NEW w \in Workers
      PROVE  worker[w] \in WorkerState /\ worker \in [Workers -> WorkerState]
  BY DEF IInv, TypeOK
<1>6. ASSUME NEW w \in Workers, TakeTask(w)
      PROVE  FateInv'
  <2>1. worker'[w].pc = "checking" /\ \A v \in Workers : v # w => worker'[v] = worker[v]
    BY <1>6, <1>5 DEF TakeTask, WorkerState
  <2>2. QED
    BY <1>4, <1>6, <2>1 DEF TakeTask, engineVars
<1>7. ASSUME NEW w \in Workers, ExitWorker(w)
      PROVE  FateInv'
  <2>1. worker'[w].pc = "exited" /\ \A v \in Workers : v # w => worker'[v] = worker[v]
    BY <1>7, <1>5 DEF ExitWorker, WorkerState
  <2>2. QED
    BY <1>4, <1>7, <2>1 DEF ExitWorker, engineVars
<1>8. ASSUME NEW w \in Workers, worker[w].pc \in {"checking", "running"}
      PROVE  worker[w].task.batch = batch
  BY <1>8 DEF IInv, TaskInv
<1>9. ASSUME NEW w \in Workers, CheckCancelled(w)
      PROVE  FateInv'
  <2>1. \A v \in Workers : v # w => worker'[v] = worker[v]
    BY <1>9, <1>5 DEF CheckCancelled
  <2>2. CASE cancelled[batch]
    <3>1. worker'[w].res.fate = "skipped"
      BY <1>9, <1>8, <1>5, <2>2 DEF CheckCancelled, WorkerState, Result
    <3>2. QED
      BY <1>4, <1>9, <2>1, <2>2, <3>1 DEF CheckCancelled, engineVars, Fates
  <2>3. CASE ~cancelled[batch]
    <3>1. worker'[w].pc = "running"
      BY <1>9, <1>8, <1>5, <2>3 DEF CheckCancelled, WorkerState
    <3>2. QED
      BY <1>4, <1>9, <2>1, <3>1 DEF CheckCancelled, engineVars
  <2>4. QED
    BY <2>2, <2>3
<1>10. ASSUME NEW w \in Workers, FinishTool(w)
       PROVE  FateInv'
  <2>1. PICK f \in PossibleFates(worker[w].task) :
          worker' = [worker EXCEPT ![w].pc = "recording",
                       ![w].res = [call |-> worker[w].task.call, fate |-> f]]
    BY <1>10 DEF FinishTool
  <2>2. f \in Fates /\ (f \in {"skipped", "interrupted"} => cancelled[batch])
    BY <1>10, <1>8 DEF FinishTool, PossibleFates, Fates
  <2>3. worker'[w].res.fate = f /\ \A v \in Workers : v # w => worker'[v] = worker[v]
    BY <2>1, <1>5 DEF WorkerState, Result
  <2>4. QED
    BY <1>4, <1>10, <2>2, <2>3 DEF FinishTool, engineVars
<1>11. ASSUME NEW w \in Workers, RecordResult(w)
       PROVE  FateInv'
  <2>1. worker'[w].pc = "waiting" /\ \A v \in Workers : v # w => worker'[v] = worker[v]
    BY <1>11, <1>5 DEF RecordResult, Idle
  <2>2. QED
    BY <1>4, <1>11, <2>1 DEF RecordResult, engineVars
<1>12. CASE JoinDispatch \/ StopPool
  BY <1>3, <1>12 DEF JoinDispatch, StopPool, poolVars, engineVars
<1>13. CASE QueueTask \/ AwaitAll \/ MoveResults \/ SetDone
  BY <1>3, <1>13 DEF QueueTask, AwaitAll, MoveResults, SetDone, engineVars, poolVars
<1>14. CASE Destroyed \/ PollInVain \/ UNCHANGED vars
  BY <1>3, <1>14 DEF Destroyed, PollInVain, vars, engineVars, poolVars
<1>15. QED
  BY <1>1, <1>2, <1>6, <1>7, <1>9, <1>10, <1>11, <1>12, <1>13, <1>14 DEF Next

-----------------------------------------------------------------------------
LEMMA InitBatch == Init => Batch!Init
<1> SUFFICES ASSUME Init PROVE Batch!Init
  OBVIOUS
<1>1. /\ batch = 0 /\ size = 0 /\ ~Open /\ delivered = NoResults
  BY DEF Init, Open
<1>2. NoResults = [i \in Batch!Calls |-> Batch!Unresolved]
  BY DEF NoResults, NoResult, Calls, Batch!Calls, Batch!Unresolved
<1>3. ~Abandoned
  BY <1>1 DEF Abandoned
<1>4. QED
  BY <1>1, <1>2, <1>3 DEF Batch!Init, Abandoned, Open

\* A step that leaves what the caller sees of the batch leaves ToolBatch alone.
LEMMA SameBatch ==
    ASSUME UNCHANGED <<batch, size, cancelled, results, delivered>>, Open' = Open
    PROVE  UNCHANGED Batch!vars
<1>1. Outcome' = Outcome /\ Abandoned' = Abandoned
  BY DEF Outcome, Abandoned
<1>2. QED
  BY <1>1 DEF Batch!vars, Outcome, Abandoned, Open

LEMMA SubmitStep ==
    ASSUME IInv, FateInv, NEW n \in Calls, NEW forever \in SUBSET (1 .. n), NEW heedless \in SUBSET forever,
           StartDispatch(n, forever, heedless)
    PROVE  Batch!Submit(n)
<1>1. /\ ~Open /\ Open' /\ batch' = batch + 1 /\ batch < NumBatches /\ size' = n
      /\ cancelled' = cancelled /\ results' = results
  BY DEF StartDispatch, IInv, ThreadInv, Open
<1>2. batch \in 0 .. NumBatches
  BY DEF IInv, TypeOK
<1>3. batch' \in Batches /\ batch' > batch
  <2>1. batch \in Nat /\ NumBatches \in Nat
    BY <1>2
  <2>2. QED
    BY <1>1, <2>1 DEF Batches
<1>4. results'[batch'] = NoResults
  BY <1>1, <1>3 DEF IInv, SlotInv
<1>5. ~cancelled'[batch']
  BY <1>1, <1>3 DEF FateInv
<1>6. NoResults = [i \in Batch!Calls |-> Batch!Unresolved]
  BY DEF NoResults, NoResult, Calls, Batch!Calls, Batch!Unresolved
<1>7. (batch > 0 /\ cancelled[batch])' = FALSE
  BY <1>5
<1>8. QED
  BY <1>1, <1>4, <1>6, <1>7 DEF Batch!Submit, Open

LEMMA CancelStep ==
    ASSUME IInv, PressEsc
    PROVE  Batch!Cancel
<1>1. batch \in Batches /\ cancelled' = [cancelled EXCEPT ![batch] = TRUE]
      /\ cancelled \in [Batches -> BOOLEAN]
  BY DEF PressEsc, IInv, ThreadInv, TypeOK
<1>2. batch > 0 /\ batch' = batch /\ size' = size
  BY <1>1 DEF PressEsc, engineVars, Batches
<1>3. cancelled'[batch']
  BY <1>1, <1>2
<1>4. /\ caller' = caller /\ results' = results /\ delivered' = delivered
  BY DEF PressEsc, callerVars, stateVars
<1>5. (batch > 0 /\ cancelled[batch])' = TRUE
  BY <1>2, <1>3
<1>6. QED
  BY <1>2, <1>4, <1>5 DEF Batch!Cancel

LEMMA ResolveStep ==
    ASSUME IInv, FateInv, NEW w \in Workers, RecordResult(w)
    PROVE  \E i \in Batch!Calls, fate \in Batch!GivenUp \cup Batch!Ended : Batch!Resolve(i, fate)
<1> DEFINE t == worker[w].task
           i == t.call
           fate == worker[w].res.fate
<1>1. worker[w] \in WorkerState /\ worker[w].pc = "recording"
  BY DEF RecordResult, IInv, TypeOK
<1>2. t # NoTask
  BY <1>1 DEF IInv, TaskInv
<1>3. Open /\ t.batch = batch /\ i \in 1 .. size /\ worker[w].res.call = i
  BY <1>1, <1>2 DEF IInv, TaskInv
<1>4. t \in Task /\ worker[w].res \in Result
  BY <1>1 DEF WorkerState
<1>5. t = TaskOf(i) /\ worker[w].res = [call |-> i, fate |-> fate]
  BY <1>3, <1>4 DEF Task, TaskOf, Result
<1>6. i \in Calls /\ size \in 0 .. MaxCalls /\ batch \in Batches
  <2>1. size \in 0 .. MaxCalls /\ engine \in {"idle", "polling"}
    BY DEF IInv, TypeOK
  <2>2. engine = "polling"
    BY <1>3, <2>1 DEF IInv, ThreadInv, Open
  <2>3. batch \in Batches
    BY <2>2 DEF IInv, ThreadInv
  <2>4. i \in Calls
    BY <1>3, <2>1 DEF Calls
  <2>5. QED
    BY <2>1, <2>3, <2>4
<1>7. fate \in Fates /\ (fate \in {"skipped", "interrupted"} => cancelled[batch])
  BY <1>1 DEF FateInv
<1>8. batch > 0
  BY <1>6 DEF Batches
<1>9. results[batch][i] = NoResult
  <2>1. Held(i)
    BY <1>5 DEF Held
  <2>2. ~Recorded(i)
    BY <1>3, <1>8, <2>1 DEF IInv, CallInOnePlace
  <2>3. QED
    BY <2>2 DEF Recorded
<1>10. /\ results' = [results EXCEPT ![batch][i] = [call |-> i, fate |-> fate]]
       /\ UNCHANGED <<batch, size, cancelled, caller, delivered>>
  BY <1>3, <1>5 DEF RecordResult, Slot, engineVars, callerVars
<1>11. results \in [Batches -> [Calls -> Result]]
  BY DEF IInv, TypeOK
<1>12. results'[batch'] = [results[batch] EXCEPT ![i] = [call |-> i, fate |-> fate]]
  BY <1>6, <1>10, <1>11
<1>13. Open' /\ Abandoned' = Abandoned
  BY <1>3, <1>10 DEF Open, Abandoned
<1>14. Batch!Resolve(i, fate)
  <2>1. fate \in Batch!GivenUp => Abandoned
    BY <1>7, <1>8 DEF Batch!GivenUp, Abandoned
  <2>2. Outcome = results[batch] /\ Outcome' = results'[batch']
    BY <1>3, <1>13 DEF Outcome
  <2>3. Outcome[i] = Batch!Unresolved
    BY <1>9, <2>2 DEF Batch!Unresolved, NoResult
  <2>4. Outcome' = [Outcome EXCEPT ![i] = [call |-> i, fate |-> fate]]
    BY <1>12, <2>2
  <2>5. i <= size
    BY <1>3, <1>6
  <2>6. QED
    BY <1>3, <1>10, <1>13, <2>1, <2>3, <2>4, <2>5
       DEF Batch!Resolve, Outcome, Abandoned, Open
<1>15. fate \in Batch!GivenUp \cup Batch!Ended /\ i \in Batch!Calls
  BY <1>6, <1>7 DEF Batch!GivenUp, Batch!Ended, Batch!Calls, Calls, Fates
<1>16. QED
  BY <1>14, <1>15

LEMMA HandBackStep ==
    ASSUME IInv, MoveResults
    PROVE  Batch!HandBack
<1>1. Open /\ ~Open' /\ delivered' = results[batch]
      /\ UNCHANGED <<batch, size, cancelled>>
  BY DEF MoveResults, Open, engineVars
<1>2. \A i \in 1 .. size : results[batch][i] # NoResult
  BY DEF MoveResults, IInv, SlotInv, Outstanding, Recorded
<1>3. \A i \in 1 .. size : Outcome[i] # Batch!Unresolved
  BY <1>1, <1>2 DEF Outcome, Batch!Unresolved, NoResult
<1>4. Outcome' = Outcome /\ Abandoned' = Abandoned
  BY <1>1 DEF Outcome, Abandoned
<1>5. QED
  BY <1>1, <1>3, <1>4 DEF Batch!HandBack, Outcome, Abandoned, Open

\* Every step of the pool is a step of the batch, or leaves it.
LEMMA NextBatch ==
    ASSUME IInv, FateInv, [Next]_vars
    PROVE  [Batch!Next]_(Batch!vars)
<1>1. ASSUME NEW n \in Calls, NEW forever \in SUBSET (1 .. n), NEW heedless \in SUBSET forever,
             StartDispatch(n, forever, heedless)
      PROVE  Batch!Next
  <2>1. n \in Batch!Calls
    BY DEF Calls, Batch!Calls
  <2>2. QED
    BY <1>1, <2>1, SubmitStep DEF Batch!Next
<1>2. CASE PressEsc
  BY <1>2, CancelStep DEF Batch!Next
<1>3. ASSUME NEW w \in Workers, RecordResult(w)
      PROVE  Batch!Next
  BY <1>3, ResolveStep DEF Batch!Next
<1>4. CASE MoveResults
  BY <1>4, HandBackStep DEF Batch!Next
<1>5. CASE JoinDispatch \/ StopPool
  BY <1>5, SameBatch DEF JoinDispatch, StopPool, engineVars, callerVars, stateVars, Open
<1>6. CASE QueueTask \/ AwaitAll \/ SetDone
  BY <1>6, SameBatch DEF QueueTask, AwaitAll, SetDone, engineVars, stateVars, Open
<1>7. ASSUME NEW w \in Workers,
             TakeTask(w) \/ CheckCancelled(w) \/ FinishTool(w) \/ ExitWorker(w)
      PROVE  UNCHANGED Batch!vars
  BY <1>7, SameBatch
     DEF TakeTask, CheckCancelled, FinishTool, ExitWorker, engineVars, callerVars, stateVars, Open
<1>8. CASE Destroyed \/ PollInVain \/ UNCHANGED vars
  BY <1>8, SameBatch DEF Destroyed, PollInVain, vars, engineVars, callerVars, stateVars, Open
<1>9. QED
  BY <1>1, <1>2, <1>3, <1>4, <1>5, <1>6, <1>7, <1>8 DEF Next

\* Dispatch keeps the promise of ToolBatch whatever its threads do: each call is
\* resolved once, given up only after Esc, and the batch comes back whole.
THEOREM DispatchIsABatch == Spec => ImplementsBatch
<1>1. Init => FateInv /\ Batch!Init
  BY InitFates, InitBatch
<1>2. FateInv /\ IInv /\ [Next]_vars => FateInv' /\ [Batch!Next]_(Batch!vars)
  BY NextFates, NextBatch
<1>3. QED
  BY <1>1, <1>2, Invariance, PTL DEF Spec, ImplementsBatch, Batch!Spec

-----------------------------------------------------------------------------
(* Nobody waits for ever.                                                  *)

\* A worker leaves only a pool that is stopped.
LeaveInv == \A w \in Workers : worker[w].pc = "exited" => stop

LEMMA LeaveStep ==
    ASSUME IInv, LeaveInv, [Next]_vars
    PROVE  LeaveInv'
<1> USE DEF LeaveInv
<1>1. worker \in [Workers -> WorkerState]
  BY DEF IInv, TypeOK
<1>2. ASSUME worker' = worker, stop => stop'
      PROVE  LeaveInv'
  BY <1>2
<1>3. ASSUME NEW w \in Workers, stop' = stop,
             \A v \in Workers : v # w => worker'[v] = worker[v],
             worker'[w].pc = "exited" => stop
      PROVE  LeaveInv'
  BY <1>3
<1>4. ASSUME NEW w \in Workers, TakeTask(w)
      PROVE  LeaveInv'
  <2>1. worker'[w].pc = "checking" /\ \A v \in Workers : v # w => worker'[v] = worker[v]
    BY <1>1, <1>4 DEF TakeTask, WorkerState
  <2>2. QED
    BY <1>3, <1>4, <2>1 DEF TakeTask
<1>5. ASSUME NEW w \in Workers, CheckCancelled(w)
      PROVE  LeaveInv'
  <2>1. worker'[w].pc \in {"recording", "running"}
        /\ \A v \in Workers : v # w => worker'[v] = worker[v]
    <3>1. CASE cancelled[worker[w].task.batch]
      BY <1>1, <1>5, <3>1 DEF CheckCancelled, WorkerState
    <3>2. CASE ~cancelled[worker[w].task.batch]
      BY <1>1, <1>5, <3>2 DEF CheckCancelled, WorkerState
    <3>3. QED
      BY <3>1, <3>2
  <2>2. QED
    BY <1>3, <1>5, <2>1 DEF CheckCancelled
<1>6. ASSUME NEW w \in Workers, FinishTool(w)
      PROVE  LeaveInv'
  <2>1. worker'[w].pc = "recording" /\ \A v \in Workers : v # w => worker'[v] = worker[v]
    BY <1>1, <1>6 DEF FinishTool, WorkerState
  <2>2. QED
    BY <1>3, <1>6, <2>1 DEF FinishTool
<1>7. ASSUME NEW w \in Workers, RecordResult(w)
      PROVE  LeaveInv'
  <2>1. worker'[w].pc = "waiting" /\ \A v \in Workers : v # w => worker'[v] = worker[v]
    BY <1>1, <1>7 DEF RecordResult, Idle
  <2>2. QED
    BY <1>3, <1>7, <2>1 DEF RecordResult
<1>8. ASSUME NEW w \in Workers, ExitWorker(w)
      PROVE  LeaveInv'
  <2>1. stop /\ \A v \in Workers : v # w => worker'[v] = worker[v]
    BY <1>1, <1>8 DEF ExitWorker, MayExit
  <2>2. QED
    BY <1>3, <1>8, <2>1 DEF ExitWorker
<1>9. ASSUME NEW n \in Calls, NEW forever \in SUBSET (1 .. n), NEW heedless \in SUBSET forever,
             StartDispatch(n, forever, heedless)
      PROVE  LeaveInv'
  BY <1>2, <1>9 DEF StartDispatch, poolVars
<1>10. CASE PressEsc \/ JoinDispatch \/ StopPool
  BY <1>2, <1>10 DEF PressEsc, JoinDispatch, StopPool, poolVars
<1>11. CASE QueueTask \/ AwaitAll \/ MoveResults \/ SetDone
  BY <1>2, <1>11 DEF QueueTask, AwaitAll, MoveResults, SetDone, poolVars
<1>12. CASE Destroyed \/ PollInVain \/ UNCHANGED vars
  BY <1>2, <1>12 DEF Destroyed, PollInVain, vars, poolVars
<1>13. QED
  BY <1>4, <1>5, <1>6, <1>7, <1>8, <1>9, <1>10, <1>11, <1>12 DEF Next

\* A worker that has a call can go on: only a command without an end waits for Esc.
LEMMA BusyGoesOn ==
    ASSUME IInv, NEW w \in Workers, worker[w].task # NoTask, CallsEnd
    PROVE  CanGoOn(w)
<1>1. worker[w].pc \in {"checking", "running", "recording"} /\ worker[w].task.batch = batch
  BY DEF IInv, TypeOK, TaskInv, WorkerState
<1>2. worker[w].pc = "running" => PossibleFates(worker[w].task) # {}
  <2> HAVE worker[w].pc = "running"
  <2>1. CASE endless = {}
    BY <2>1 DEF PossibleFates
  <2>2. CASE cancelled[batch] /\ worker[w].task.call \notin deaf
    BY <1>1, <2>2 DEF PossibleFates
  <2>3. QED
    BY <2>1, <2>2 DEF CallsEnd
<1>3. QED
  BY <1>1, <1>2 DEF CanGoOn

\* A task in the queue finds a worker who takes it, or who is busy and can go on.
LEMMA QueueGoesOn ==
    ASSUME IInv, LeaveInv, Workers # {}, engine = "polling", tasks # <<>>, CallsEnd
    PROVE  \E w \in Workers : CanGoOn(w)
<1>1. PICK w \in Workers : TRUE
  OBVIOUS
<1>2. worker[w].pc # "exited"
  BY DEF IInv, ThreadInv, LeaveInv
<1>3. CASE worker[w].task = NoTask
  BY <1>2, <1>3 DEF IInv, TaskInv, CanGoOn
<1>4. CASE worker[w].task # NoTask
  BY <1>4, BusyGoesOn
<1>5. QED
  BY <1>3, <1>4

\* A batch never hangs, in a pool that has a worker (--max_parallel_tools is not
\* checked, and a pool of none would wait for ever): a call that is missing is in
\* the queue of workers who have not left, or with one who can go on.
THEOREM NoDeadlock == ASSUME Workers # {} PROVE Spec => []NeverStuck
<1>1. Init => LeaveInv
  BY DEF Init, LeaveInv, Idle
<1>2. IInv /\ LeaveInv /\ [Next]_vars => LeaveInv'
  BY LeaveStep
<1>3. IInv /\ LeaveInv => NeverStuck
  <2> SUFFICES ASSUME IInv, LeaveInv, engine = "polling", CallsEnd, ~done, ~CallerCanGoOn
               PROVE  \E w \in Workers : CanGoOn(w)
    BY DEF NeverStuck
  <2>1. caller = "awaiting" /\ Open /\ remaining[batch] # 0 /\ batch \in Batches
    BY DEF CallerCanGoOn, AllDone, IInv, TypeOK, ThreadInv, Open
  <2>2. Outstanding # {}
    BY <2>1, FS_EmptySet DEF IInv, CountInv
  <2>3. PICK i \in 1 .. size : ~Recorded(i)
    BY <2>2 DEF Outstanding
  <2>4. i \in Calls
    BY DEF IInv, TypeOK, Calls
  <2>5. ~Unsent(i) /\ ~Delivered(i)
    BY <2>1, <2>4 DEF Unsent, Delivered, NoResults, IInv, SlotInv
  <2>6. Queued(i) \/ Held(i)
    BY <2>1, <2>3, <2>5 DEF IInv, CallInOnePlace, Batches
  <2>7. CASE Queued(i)
    <3>1. tasks # <<>>
      BY <2>7 DEF Queued
    <3>2. QED
      BY <3>1, QueueGoesOn
  <2>8. CASE Held(i)
    <3>1. PICK w \in Workers : worker[w].task = TaskOf(i)
      BY <2>8 DEF Held
    <3>2. TaskOf(i) # NoTask
      BY <2>1 DEF TaskOf, NoTask, Batches
    <3>3. QED
      BY <3>1, <3>2, BusyGoesOn
  <2>9. QED
    BY <2>6, <2>7, <2>8
<1>4. QED
  BY <1>1, <1>2, <1>3, Invariance, PTL DEF Spec
=============================================================================
