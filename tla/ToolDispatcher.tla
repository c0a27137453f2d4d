---------------------------- MODULE ToolDispatcher ----------------------------
(***************************************************************************)
(* The thread pool that runs the tool calls of one model response in       *)
(* parallel (core/tool_dispatcher.cpp), the thread that the interaction    *)
(* engine starts to wait for it, the engine's loop that polls the Esc key  *)
(* meanwhile (interface/interaction_engine.cpp), and what the tool         *)
(* executor makes of a tool's outcome (core/tool_executor.cpp, Execute).   *)
(*                                                                         *)
(* One action is one critical section or one call that another thread can  *)
(* observe.  A call is its position in the batch; a task is the closure    *)
(* Dispatch queues for it, which captured the batch's SharedState.         *)
(***************************************************************************)
EXTENDS Naturals, Sequences, FiniteSets

CONSTANTS
    Workers,      \* the pool's threads (--max_parallel_tools of them)
    NumBatches,   \* bound: how many batches the engine dispatches
    MaxCalls      \* bound: the largest batch

ASSUME BoundsAssumption ==
    /\ NumBatches \in Nat
    /\ MaxCalls \in Nat

ASSUME WorkersAssumption == IsFiniteSet(Workers)

Batches == 1 .. NumBatches
Calls   == 1 .. MaxCalls

VARIABLES
    \* the engine's thread
    engine,       \* "idle" | "polling": inside while (!done)
    batch,        \* how many batches have been dispatched; the current one
    size,         \* calls.size() of the current batch
    endless,      \* those of its calls that do not end by themselves
    deaf,         \* those of these that do not look at the cancellation either
    delivered,    \* the engine's `results`: NoResults until Dispatch returned
    done,         \* the atomic flag that ends the polling
    \* the thread t that runs Dispatch
    caller,       \* "none" | "queueing" | "awaiting" | "moving" | "returned"
    next,         \* the index of the for loop that queues the tasks
    \* SharedState of a batch, and its CancellationRequest
    remaining, results, cancelled,
    \* the pool
    tasks, stop,
    worker        \* worker[w]: its place in WorkerLoop, its task, its `res`

engineVars == <<engine, batch, size, endless, deaf, done>>
callerVars == <<caller, next>>
poolVars   == <<tasks, stop, worker>>
stateVars  == <<remaining, results>>
vars == <<engineVars, callerVars, poolVars, stateVars, delivered, cancelled>>

-----------------------------------------------------------------------------
\* What became of a call.  "skipped": cancelled before it started; "refused":
\* Execute returned an error status (branch guard, unknown tool); "finished":
\* the tool ran to its end, whatever it says; "interrupted": the tool saw the
\* cancellation and gave up.
Fates == {"skipped", "refused", "finished", "interrupted"}

Task   == [batch : 0 .. NumBatches, call : 0 .. MaxCalls]
NoTask == [batch |-> 0, call |-> 0]

\* Dispatch's Result; the slots of results.resize(n) hold NoResult.
Result   == [call : 0 .. MaxCalls, fate : Fates \cup {"none"}]
NoResult == [call |-> 0, fate |-> "none"]
NoResults == [i \in Calls |-> NoResult]

WorkerState ==
    [pc : {"waiting", "checking", "running", "recording", "exited"},
     task : Task, res : Result]

-----------------------------------------------------------------------------
TypeOK ==
    /\ engine \in {"idle", "polling"}
    /\ batch \in 0 .. NumBatches
    /\ size \in 0 .. MaxCalls
    /\ endless \in SUBSET Calls /\ deaf \in SUBSET endless
    /\ delivered \in [Calls -> Result]
    /\ done \in BOOLEAN
    /\ caller \in {"none", "queueing", "awaiting", "moving", "returned"}
    /\ next \in 1 .. MaxCalls + 1
    /\ remaining \in [Batches -> 0 .. MaxCalls]
    /\ results \in [Batches -> [Calls -> Result]]
    /\ cancelled \in [Batches -> BOOLEAN]
    /\ tasks \in Seq(Task)
    /\ stop \in BOOLEAN
    /\ worker \in [Workers -> WorkerState]

Idle(p) == [pc |-> p, task |-> NoTask, res |-> NoResult]

Init ==
    /\ engine = "idle" /\ batch = 0 /\ done = FALSE
    /\ size = 0 /\ endless = {} /\ deaf = {} /\ delivered = NoResults
    /\ caller = "none" /\ next = 1
    /\ remaining = [b \in Batches |-> 0]
    /\ results = [b \in Batches |-> NoResults]
    /\ cancelled = [b \in Batches |-> FALSE]
    /\ tasks = <<>> /\ stop = FALSE
    /\ worker = [w \in Workers |-> Idle("waiting")]

-----------------------------------------------------------------------------
\* The engine.

\* The engine found n > 0 tool calls in an assistant message: it creates the
\* CancellationRequest, the flag and the thread; Dispatch sets up its state.
StartDispatch(n, forever, heedless) ==
    /\ engine = "idle" /\ ~stop /\ batch < NumBatches
    /\ batch' = batch + 1
    /\ size' = n /\ endless' = forever /\ deaf' = heedless /\ delivered' = NoResults
    /\ remaining' = [remaining EXCEPT ![batch'] = n]
    /\ engine' = "polling" /\ done' = FALSE
    /\ caller' = "queueing" /\ next' = 1
    /\ UNCHANGED <<poolVars, results, cancelled>>

\* IsEscPressed() inside the polling loop: Cancel() takes effect once.
PressEsc ==
    /\ engine = "polling" /\ ~done
    /\ ~cancelled[batch]
    /\ cancelled' = [cancelled EXCEPT ![batch] = TRUE]
    /\ UNCHANGED <<engineVars, callerVars, poolVars, stateVars, delivered>>

\* The loop sees done, joins the thread and goes on with the results.
JoinDispatch ==
    /\ engine = "polling" /\ done
    /\ caller = "none"
    /\ engine' = "idle"
    /\ UNCHANGED <<batch, size, endless, deaf, done, callerVars, poolVars, stateVars,
                   delivered, cancelled>>

\* The loop polls a call that nothing ends: the turn does not go on.
PollInVain ==
    /\ engine = "polling" /\ ~done
    /\ \E w \in Workers : worker[w].pc = "running" /\ worker[w].task.call \in deaf
    /\ UNCHANGED vars

\* The program ends: the dispatcher is destroyed after the engine's last use.
StopPool ==
    /\ engine = "idle" /\ ~stop
    /\ stop' = TRUE
    /\ UNCHANGED <<engineVars, callerVars, tasks, worker, stateVars, delivered,
                   cancelled>>

-----------------------------------------------------------------------------
\* The thread that runs Dispatch for the current batch.

\* One turn of the for loop: the task is queued under mu_, so the workers may
\* already run the first calls of the batch.
QueueTask ==
    /\ caller = "queueing" /\ next <= size
    /\ tasks' = Append(tasks, [batch |-> batch, call |-> next])
    /\ next' = next + 1
    /\ caller' = IF next = size THEN "awaiting" ELSE "queueing"
    /\ UNCHANGED <<engineVars, stop, worker, stateVars, delivered, cancelled>>

\* A faulty condition that lets Dispatch return one call early.
AllDoneOffByOne == remaining[batch] <= 1
AllDone == remaining[batch] = 0

\* Await(all_done), which releases the lock again ...
AwaitAll ==
    /\ caller = "awaiting" /\ AllDone
    /\ caller' = "moving"
    /\ UNCHANGED <<engineVars, next, poolVars, stateVars, delivered, cancelled>>

\* ... and a second critical section moves the results out.
MoveResults ==
    /\ caller = "moving"
    /\ delivered' = results[batch]
    /\ results' = [results EXCEPT ![batch] = NoResults]
    /\ caller' = "returned"
    /\ UNCHANGED <<engineVars, next, poolVars, remaining, cancelled>>

SetDone ==
    /\ caller = "returned"
    /\ done' = TRUE /\ caller' = "none"
    /\ UNCHANGED <<engine, batch, size, endless, deaf, next, poolVars, stateVars,
                   delivered, cancelled>>

-----------------------------------------------------------------------------
\* The workers.

\* A faulty worker that leaves the task in the queue.
PopNothing(q) == q
Pop(q) == Tail(q)

TakeTask(w) ==
    /\ worker[w].pc = "waiting" /\ tasks # <<>>
    /\ worker' = [worker EXCEPT ![w].pc = "checking", ![w].task = Head(tasks)]
    /\ tasks' = Pop(tasks)
    /\ UNCHANGED <<engineVars, callerVars, stop, stateVars, delivered, cancelled>>

\* Faulty conditions: a worker that leaves when it finds the queue empty, and
\* one that is not woken by stop_.
MayExitWhenEmpty == tasks = <<>>
MayExitNever == FALSE
MayExit == stop /\ tasks = <<>>

ExitWorker(w) ==
    /\ worker[w].pc = "waiting" /\ MayExit
    /\ worker' = [worker EXCEPT ![w].pc = "exited"]
    /\ UNCHANGED <<engineVars, callerVars, tasks, stop, stateVars, delivered,
                   cancelled>>

\* cancellation->IsCancelled(), before the executor is called.
CheckCancelled(w) ==
    /\ worker[w].pc = "checking"
    /\ LET t == worker[w].task IN
       worker' = IF cancelled[t.batch]
                 THEN [worker EXCEPT ![w].pc = "recording",
                         ![w].res = [call |-> t.call, fate |-> "skipped"]]
                 ELSE [worker EXCEPT ![w].pc = "running"]
    /\ UNCHANGED <<engineVars, callerVars, tasks, stop, stateVars, delivered,
                   cancelled>>

\* The fates the executor can report for a call.  A tool that polls the request
\* while its command runs gives it up, and an endless command ends in no other way;
\* a deaf one has closed its outputs and is waited for, or its tool was not given
\* the request (git, query_db).
PossibleFates(t) ==
    (IF t.call \in endless THEN {} ELSE {"finished", "refused"})
    \cup (IF cancelled[t.batch] /\ t.call \notin deaf THEN {"interrupted"} ELSE {})

FinishTool(w) ==
    /\ worker[w].pc = "running"
    /\ \E f \in PossibleFates(worker[w].task) :
         worker' = [worker EXCEPT ![w].pc = "recording",
                      ![w].res = [call |-> worker[w].task.call, fate |-> f]]
    /\ UNCHANGED <<engineVars, callerVars, tasks, stop, stateVars, delivered,
                   cancelled>>

\* A faulty closure that files its result in the order of arrival.
SlotByArrival(t) == size - remaining[t.batch] + 1
Slot(t) == t.call

\* results[i] = res; remaining--, under the batch's own mutex.
RecordResult(w) ==
    /\ worker[w].pc = "recording"
    /\ LET t == worker[w].task IN
       /\ results' = [results EXCEPT ![t.batch][Slot(t)] = worker[w].res]
       /\ remaining' = [remaining EXCEPT ![t.batch] = @ - 1]
    /\ worker' = [worker EXCEPT ![w] = Idle("waiting")]
    /\ UNCHANGED <<engineVars, callerVars, tasks, stop, delivered, cancelled>>

WorkerStep(w) ==
    \/ TakeTask(w) \/ CheckCancelled(w) \/ FinishTool(w) \/ RecordResult(w)
    \/ ExitWorker(w)

CallerStep == QueueTask \/ AwaitAll \/ MoveResults \/ SetDone

\* The pool has been joined: nothing is left to do.
Destroyed ==
    /\ stop /\ \A w \in Workers : worker[w].pc = "exited"
    /\ UNCHANGED vars

Next ==
    \/ \E n \in Calls : \E forever \in SUBSET (1 .. n) : \E heedless \in SUBSET forever :
         StartDispatch(n, forever, heedless)
    \/ PressEsc \/ JoinDispatch \/ PollInVain \/ StopPool
    \/ QueueTask \/ AwaitAll \/ MoveResults \/ SetDone
    \/ \E w \in Workers :
         \/ TakeTask(w) \/ CheckCancelled(w) \/ FinishTool(w)
         \/ RecordResult(w) \/ ExitWorker(w)
    \/ Destroyed

Spec == Init /\ [][Next]_vars

\* Threads are scheduled; nobody promises that Esc is pressed, and a worker inside a
\* call that may not end (PossibleFates is empty) is promised nothing.
Fairness ==
    /\ WF_vars(CallerStep)
    /\ WF_vars(JoinDispatch)
    /\ \A w \in Workers : WF_vars(WorkerStep(w))

FairSpec == Spec /\ Fairness

-----------------------------------------------------------------------------
\* Where call i of the current batch is.
TaskOf(i)    == [batch |-> batch, call |-> i]
Unsent(i)    == caller = "queueing" /\ i >= next
Queued(i)    == \E k \in DOMAIN tasks : tasks[k] = TaskOf(i)
Held(i)      == \E w \in Workers : worker[w].task = TaskOf(i)
Recorded(i)  == results[batch][i] # NoResult
Delivered(i) == delivered[i] # NoResult

\* Every call of the batch is in exactly one place: not yet queued, queued
\* once, held by one worker, recorded, or delivered.  So no call is lost or
\* run twice (Dispatch, WorkerLoop).
CallInOnePlace ==
    /\ batch > 0 => \A i \in 1 .. size :
         /\ Unsent(i) <=> ~(Queued(i) \/ Held(i) \/ Recorded(i) \/ Delivered(i))
         /\ Queued(i) => ~(Held(i) \/ Recorded(i) \/ Delivered(i))
         /\ Held(i) => ~(Recorded(i) \/ Delivered(i))
         /\ Recorded(i) => ~Delivered(i)
    /\ \A j, k \in DOMAIN tasks : tasks[j] = tasks[k] => j = k
    /\ \A v, w \in Workers :
         worker[v].task = worker[w].task /\ worker[v].task # NoTask => v = w

\* When Dispatch has returned, the pool holds nothing of the batch: no worker
\* still runs one of its calls, no result is written to a batch given back
\* (the "zombies" the user guide rules out).
NothingLeftBehind ==
    caller \in {"none", "returned"} =>
        /\ tasks = <<>>
        /\ \A w \in Workers : worker[w].task = NoTask
        /\ \A b \in Batches : results[b] = NoResults

\* Once Dispatch has returned, slot i holds the result of call i, for every
\* call: the engine pairs rows with calls by position.
ResultsInCallOrder ==
    caller = "returned" \/ done => \A i \in 1 .. size : delivered[i].call = i

\* What the threads can do next: the one in Dispatch, and a worker, who waits for
\* nothing but a task, and for Esc where its command has no end.
CallerCanGoOn ==
    caller \in {"queueing", "moving", "returned"} \/ (caller = "awaiting" /\ AllDone)

CanGoOn(w) ==
    \/ worker[w].pc = "waiting" /\ tasks # <<>>
    \/ worker[w].pc \in {"checking", "recording"}
    \/ worker[w].pc = "running" /\ PossibleFates(worker[w].task) # {}

\* The calls of the batch come to an end: each by itself, or because Esc was
\* pressed and none that is deaf to it is under way.  No other starts after Esc.
CallsEnd ==
    \/ endless = {}
    \/ /\ cancelled[batch]
       /\ \A w \in Workers : worker[w].pc = "running" => worker[w].task.call \notin deaf

\* While the engine polls and the calls come to an end, some thread can go on or the
\* flag is set: a batch never hangs because the caller waits for a result nobody
\* will record, or a task for a worker who has left.
NeverStuck ==
    engine = "polling" /\ CallsEnd =>
        done \/ CallerCanGoOn \/ \E w \in Workers : CanGoOn(w)

\* The pool implements ToolBatch: seen from its caller, Dispatch is the batch
\* of that module, whatever the threads do.
Batch == INSTANCE ToolBatch WITH
    number    <- batch,
    cancelled <- batch > 0 /\ cancelled[batch],
    outcome   <- IF caller \in {"queueing", "awaiting", "moving"}
                 THEN results[batch] ELSE delivered,
    open      <- caller \in {"queueing", "awaiting", "moving"}

ImplementsBatch == Batch!Spec

\* Dispatch returns and the engine goes on, if all the calls end by themselves, or if
\* Esc is pressed while no call runs that does not look at it: a silent child that has
\* closed its outputs (core/shell_util.cpp), a git command or a query without an end.
\* Deaf calls that have not started yet are left out, and do not hold the batch up.
DispatchReturns ==
    \A b \in Batches :
        (batch = b /\ CallsEnd) ~> (batch = b /\ engine = "idle")

\* The destructor's join returns.
PoolIsJoined == stop ~> \A w \in Workers : worker[w].pc = "exited"
=============================================================================
