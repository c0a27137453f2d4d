-------------------------- MODULE CancellationRequest --------------------------
(***************************************************************************)
(* core/cancellation.cpp: a request that several threads share.  Cancel    *)
(* sets the flag and takes the callbacks under the mutex, then runs them   *)
(* with the mutex released; RegisterCallback keeps a callback, or runs it  *)
(* at once when the request was cancelled before.  A callback may itself   *)
(* use the request (every callback here asks IsCancelled), so running it   *)
(* needs the mutex to be free.                                             *)
(***************************************************************************)
EXTENDS Naturals, Sequences, FiniteSets

CONSTANTS Threads, Callbacks, NoThread

ASSUME NoThreadAssumption == NoThread \notin Threads
ASSUME CallbacksAssumption == IsFiniteSet(Callbacks)

VARIABLES
    cancelled,   \* cancelled_
    callbacks,   \* callbacks_
    mu,          \* the thread that holds mu_, or NoThread
    pc,          \* pc[t]: "idle" | "cancel" | "register" | "running"
    toRun,       \* toRun[t]: the callbacks t still has to run
    registering, \* registering[t]: the callback t is registering
    registered,  \* the callbacks given to RegisterCallback so far
    ran          \* ran[c]: how often callback c was run

vars == <<cancelled, callbacks, mu, pc, toRun, registering, registered, ran>>

TypeOK ==
    /\ cancelled \in BOOLEAN
    /\ callbacks \in Seq(Callbacks)
    /\ mu \in Threads \cup {NoThread}
    /\ pc \in [Threads -> {"idle", "cancel", "register", "running"}]
    /\ toRun \in [Threads -> Seq(Callbacks)]
    /\ registering \in [Threads -> SUBSET Callbacks]
    /\ registered \in SUBSET Callbacks
    /\ ran \in [Callbacks -> 0 .. 1]

Init ==
    /\ cancelled = FALSE /\ callbacks = <<>> /\ mu = NoThread
    /\ pc = [t \in Threads |-> "idle"]
    /\ toRun = [t \in Threads |-> <<>>]
    /\ registering = [t \in Threads |-> {}]
    /\ registered = {}
    /\ ran = [c \in Callbacks |-> 0]

\* MutexLock at the top of Cancel.
EnterCancel(t) ==
    /\ pc[t] = "idle" /\ mu = NoThread
    /\ mu' = t /\ pc' = [pc EXCEPT ![t] = "cancel"]
    /\ UNCHANGED <<cancelled, callbacks, toRun, registering, registered, ran>>

\* MutexLock in RegisterCallback(c).
EnterRegister(t, c) ==
    /\ pc[t] = "idle" /\ mu = NoThread /\ c \notin registered
    /\ mu' = t /\ pc' = [pc EXCEPT ![t] = "register"]
    /\ registering' = [registering EXCEPT ![t] = {c}]
    /\ registered' = registered \cup {c}
    /\ UNCHANGED <<cancelled, callbacks, toRun, ran>>

\* Faulty variants: the mutex is kept while the callbacks run; the swap
\* forgets to empty callbacks_.
HeldWhileRunning(t) == t
MutexAfter(t) == NoThread
CallbacksKept == callbacks
CallbacksTaken == <<>>

\* The critical section of Cancel.
CancelOnce(t) ==
    /\ pc[t] = "cancel" /\ ~cancelled
    /\ cancelled' = TRUE
    /\ toRun' = [toRun EXCEPT ![t] = callbacks]
    /\ callbacks' = CallbacksTaken
    /\ pc' = [pc EXCEPT ![t] = "running"]
    /\ mu' = MutexAfter(t)
    /\ UNCHANGED <<registering, registered, ran>>

\* The early return of Cancel.
CancelAgain(t) ==
    /\ pc[t] = "cancel" /\ cancelled
    /\ mu' = NoThread /\ pc' = [pc EXCEPT ![t] = "idle"]
    /\ UNCHANGED <<cancelled, callbacks, toRun, registering, registered, ran>>

KeepCallback == ~cancelled

\* The critical section of RegisterCallback.
Register(t) ==
    /\ pc[t] = "register"
    /\ \E c \in registering[t] :
         IF KeepCallback
         THEN /\ callbacks' = Append(callbacks, c)
              /\ pc' = [pc EXCEPT ![t] = "idle"]
              /\ UNCHANGED toRun
         ELSE /\ toRun' = [toRun EXCEPT ![t] = <<c>>]
              /\ pc' = [pc EXCEPT ![t] = "running"]
              /\ UNCHANGED callbacks
    /\ registering' = [registering EXCEPT ![t] = {}]
    /\ mu' = NoThread
    /\ UNCHANGED <<cancelled, registered, ran>>

\* cb(): the callback takes the mutex for a moment.
RunCallback(t) ==
    /\ pc[t] = "running" /\ toRun[t] # <<>> /\ mu = NoThread
    /\ ran' = [ran EXCEPT ![Head(toRun[t])] = @ + 1]
    /\ toRun' = [toRun EXCEPT ![t] = Tail(@)]
    /\ UNCHANGED <<cancelled, callbacks, mu, pc, registering, registered>>

ReturnFromRun(t) ==
    /\ pc[t] = "running" /\ toRun[t] = <<>>
    /\ pc' = [pc EXCEPT ![t] = "idle"]
    /\ UNCHANGED <<cancelled, callbacks, mu, toRun, registering, registered, ran>>

InCall(t) ==
    \/ CancelOnce(t) \/ CancelAgain(t) \/ Register(t)
    \/ RunCallback(t) \/ ReturnFromRun(t)

Next ==
    \E t \in Threads :
        \/ EnterCancel(t)
        \/ \E c \in Callbacks : EnterRegister(t, c)
        \/ CancelOnce(t) \/ CancelAgain(t) \/ Register(t)
        \/ RunCallback(t) \/ ReturnFromRun(t)

Spec == Init /\ [][Next]_vars

\* A thread that is inside Cancel or RegisterCallback is scheduled, and the
\* mutex is handed over fairly; nobody is obliged to call either.
FairSpec == Spec /\ \A t \in Threads : SF_vars(InCall(t))

-----------------------------------------------------------------------------
\* A registered callback is in exactly one place: on its way in, kept by the
\* request, taken by one thread, or run; and it is run once.  A cancelled request
\* keeps none: one registered late is run by RegisterCallback itself.  So the
\* race of Cancel and RegisterCallback neither loses a callback nor runs it twice.
CallbackInOnePlace ==
    /\ cancelled => callbacks = <<>>
    /\ \A c \in registered :
           Cardinality({t \in Threads : c \in registering[t]})
           + Cardinality({k \in DOMAIN callbacks : callbacks[k] = c})
           + Cardinality({p \in Threads \X (1 .. Cardinality(Callbacks)) :
                            p[2] \in DOMAIN toRun[p[1]] /\ toRun[p[1]][p[2]] = c})
           + ran[c] = 1

\* A thread inside Cancel or RegisterCallback can go on, or another one inside can
\* for which it waits: the mutex is never held across a callback, which takes it
\* itself, so no thread waits for itself and no two for each other.
NeverStuck ==
    (\E t \in Threads : pc[t] # "idle") =>
        \E t \in Threads :
            \/ pc[t] \in {"cancel", "register"}
            \/ pc[t] = "running" /\ (toRun[t] = <<>> \/ mu = NoThread)

\* A registered callback of a cancelled request is run.
CallbackRuns ==
    \A c \in Callbacks : (cancelled /\ c \in registered) ~> ran[c] = 1
=============================================================================
