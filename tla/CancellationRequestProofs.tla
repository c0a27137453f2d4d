----------------------- MODULE CancellationRequestProofs -----------------------
(***************************************************************************)
(* Proofs about CancellationRequest, for every set of threads and every    *)
(* finite set of callbacks.  The property counts the places a callback is  *)
(* in; the invariant says instead that it is in one and no other, and once.*)
(***************************************************************************)
EXTENDS CancellationRequest, FiniteSetTheorems, TLAPS

\* The places of callback c: on its way in, kept by the request, taken by a thread.
OnItsWay(c) == \E t \in Threads : c \in registering[t]
Kept(c)     == \E k \in DOMAIN callbacks : callbacks[k] = c
Taken(c)    == \E t \in Threads : \E k \in DOMAIN toRun[t] : toRun[t][k] = c

\* What a thread has in hand, by where it is.
ThreadInv ==
    /\ \A t \in Threads : pc[t] # "register" => registering[t] = {}
    /\ \A t \in Threads : pc[t] = "register" => \E c \in Callbacks : registering[t] = {c}
    /\ \A t \in Threads : pc[t] # "running" => toRun[t] = <<>>
    /\ cancelled => callbacks = <<>>

\* A callback is in one place, and in none before it is registered.
PlaceInv ==
    \A c \in Callbacks :
        /\ c \in registered <=> OnItsWay(c) \/ Kept(c) \/ Taken(c) \/ ran[c] = 1
        /\ OnItsWay(c) => ~Kept(c) /\ ~Taken(c) /\ ran[c] = 0
        /\ Kept(c) => ~Taken(c) /\ ran[c] = 0
        /\ Taken(c) => ran[c] = 0

\* It is in that place once.
OnceInv ==
    /\ \A t, u \in Threads, c \in Callbacks : c \in registering[t] /\ c \in registering[u] => t = u
    /\ \A j, k \in DOMAIN callbacks : callbacks[j] = callbacks[k] => j = k
    /\ \A t, u \in Threads : \A j \in DOMAIN toRun[t], k \in DOMAIN toRun[u] :
           toRun[t][j] = toRun[u][k] => t = u /\ j = k

IInv == TypeOK /\ ThreadInv /\ PlaceInv /\ OnceInv

-----------------------------------------------------------------------------
LEMMA InitIInv == Init => IInv
<1> SUFFICES ASSUME Init PROVE IInv
  OBVIOUS
<1> USE DEF Init
<1>1. TypeOK
  <2>1. callbacks \in Seq(Callbacks) /\ toRun \in [Threads -> Seq(Callbacks)]
    OBVIOUS
  <2>2. ran \in [Callbacks -> 0 .. 1] /\ registering \in [Threads -> SUBSET Callbacks]
    OBVIOUS
  <2>3. QED
    BY <2>1, <2>2 DEF TypeOK
<1>2. \A c \in Callbacks : ~OnItsWay(c) /\ ~Kept(c) /\ ~Taken(c) /\ ran[c] = 0
  BY DEF OnItsWay, Kept, Taken
<1>3. PlaceInv
  BY <1>2 DEF PlaceInv
<1>4. ThreadInv /\ OnceInv
  BY DEF ThreadInv, OnceInv
<1>5. QED
  BY <1>1, <1>3, <1>4 DEF IInv

\* A step that moves no callback.
LEMMA NothingMoves ==
    ASSUME IInv, UNCHANGED <<cancelled, callbacks, toRun, registering, registered, ran>>,
           TypeOK', ThreadInv'
    PROVE  IInv'
<1>1. \A c \in Callbacks : /\ OnItsWay(c)' <=> OnItsWay(c)
                           /\ Kept(c)' <=> Kept(c)
                           /\ Taken(c)' <=> Taken(c)
  BY DEF OnItsWay, Kept, Taken
<1>2. PlaceInv'
  BY <1>1 DEF IInv, PlaceInv
<1>3. OnceInv'
  BY DEF IInv, OnceInv
<1>4. QED
  BY <1>2, <1>3 DEF IInv

LEMMA EnterCancelStep ==
    ASSUME IInv, NEW t \in Threads, EnterCancel(t)
    PROVE  IInv'
<1>1. pc \in [Threads -> {"idle", "cancel", "register", "running"}]
  BY DEF IInv, TypeOK
<1>2. TypeOK'
  BY <1>1 DEF EnterCancel, IInv, TypeOK
<1>3. ThreadInv'
  BY <1>1 DEF EnterCancel, IInv, ThreadInv
<1>4. QED
  BY <1>2, <1>3, NothingMoves DEF EnterCancel

LEMMA CancelAgainStep ==
    ASSUME IInv, NEW t \in Threads, CancelAgain(t)
    PROVE  IInv'
<1>1. pc \in [Threads -> {"idle", "cancel", "register", "running"}]
  BY DEF IInv, TypeOK
<1>2. TypeOK'
  BY <1>1 DEF CancelAgain, IInv, TypeOK
<1>3. ThreadInv'
  BY <1>1 DEF CancelAgain, IInv, ThreadInv
<1>4. QED
  BY <1>2, <1>3, NothingMoves DEF CancelAgain

LEMMA ReturnFromRunStep ==
    ASSUME IInv, NEW t \in Threads, ReturnFromRun(t)
    PROVE  IInv'
<1>1. pc \in [Threads -> {"idle", "cancel", "register", "running"}]
  BY DEF IInv, TypeOK
<1>2. TypeOK'
  BY <1>1 DEF ReturnFromRun, IInv, TypeOK
<1>3. ThreadInv'
  BY <1>1 DEF ReturnFromRun, IInv, ThreadInv
<1>4. QED
  BY <1>2, <1>3, NothingMoves DEF ReturnFromRun

\* A new callback is in no place before.
LEMMA EnterRegisterStep ==
    ASSUME IInv, NEW t \in Threads, NEW c \in Callbacks, EnterRegister(t, c)
    PROVE  IInv'
<1>1. /\ pc \in [Threads -> {"idle", "cancel", "register", "running"}]
      /\ registering \in [Threads -> SUBSET Callbacks] /\ registered \subseteq Callbacks
  BY DEF IInv, TypeOK
<1>2. pc[t] = "idle" /\ registering[t] = {} /\ toRun[t] = <<>>
  BY DEF EnterRegister, IInv, ThreadInv
<1>3. /\ pc' = [pc EXCEPT ![t] = "register"]
      /\ registering' = [registering EXCEPT ![t] = {c}]
      /\ registered' = registered \cup {c} /\ c \notin registered
      /\ UNCHANGED <<cancelled, callbacks, toRun, ran>>
  BY DEF EnterRegister
<1>4. TypeOK'
  BY <1>1, <1>3 DEF EnterRegister, IInv, TypeOK
<1>5. ThreadInv'
  <2>1. pc'[t] = "register" /\ registering'[t] = {c}
    BY <1>1, <1>3
  <2>2. \A u \in Threads : u # t => pc'[u] = pc[u] /\ registering'[u] = registering[u]
    BY <1>1, <1>3
  <2>3. \A u \in Threads : pc'[u] = "register" => \E d \in Callbacks : registering'[u] = {d}
    BY <2>1, <2>2 DEF IInv, ThreadInv
  <2>4. \A u \in Threads : pc'[u] # "register" => registering'[u] = {}
    BY <2>1, <2>2 DEF IInv, ThreadInv
  <2>5. (\A u \in Threads : pc[u] # "running" => toRun[u] = <<>>)'
    BY <1>2, <1>3, <2>2 DEF IInv, ThreadInv
  <2>6. QED
    BY <1>3, <2>3, <2>4, <2>5 DEF IInv, ThreadInv
<1>6. \A d \in Callbacks : /\ OnItsWay(d)' <=> OnItsWay(d) \/ d = c
                           /\ Kept(d)' <=> Kept(d)
                           /\ Taken(d)' <=> Taken(d)
  BY <1>1, <1>2, <1>3 DEF OnItsWay, Kept, Taken
<1>7. ~OnItsWay(c) /\ ~Kept(c) /\ ~Taken(c) /\ ran[c] = 0
  <2>1. ran[c] \in 0 .. 1
    BY DEF IInv, TypeOK
  <2>2. ~OnItsWay(c) /\ ~Kept(c) /\ ~Taken(c) /\ ran[c] # 1
    BY <1>3 DEF IInv, PlaceInv
  <2>3. QED
    BY <2>1, <2>2
<1>8. PlaceInv'
  BY <1>3, <1>6, <1>7 DEF IInv, PlaceInv
<1>9. OnceInv'
  <2>1. \A u, v \in Threads, d \in Callbacks :
            d \in registering'[u] /\ d \in registering'[v] => u = v
    BY <1>1, <1>3, <1>7 DEF IInv, OnceInv, OnItsWay
  <2>2. QED
    BY <2>1, <1>3 DEF IInv, OnceInv
<1>10. QED
  BY <1>4, <1>5, <1>8, <1>9 DEF IInv

\* What was kept is taken by the thread that cancels, which had nothing.
LEMMA CancelOnceStep ==
    ASSUME IInv, NEW t \in Threads, CancelOnce(t)
    PROVE  IInv'
<1>1. /\ pc \in [Threads -> {"idle", "cancel", "register", "running"}]
      /\ toRun \in [Threads -> Seq(Callbacks)] /\ callbacks \in Seq(Callbacks)
  BY DEF IInv, TypeOK
<1>2. pc[t] = "cancel" /\ registering[t] = {} /\ toRun[t] = <<>>
  BY DEF CancelOnce, IInv, ThreadInv
<1>3. /\ cancelled' /\ callbacks' = <<>> /\ mu' = NoThread
      /\ toRun' = [toRun EXCEPT ![t] = callbacks]
      /\ pc' = [pc EXCEPT ![t] = "running"]
      /\ UNCHANGED <<registering, registered, ran>>
  BY DEF CancelOnce, CallbacksTaken, MutexAfter
<1>4. TypeOK'
  <2>1. cancelled' \in BOOLEAN
    BY DEF CancelOnce
  <2>2. callbacks' \in Seq(Callbacks) /\ toRun' \in [Threads -> Seq(Callbacks)]
    BY <1>1, <1>3
  <2>3. mu' \in Threads \cup {NoThread} /\ pc' \in [Threads -> {"idle", "cancel", "register", "running"}]
    BY <1>1, <1>3
  <2>4. QED
    BY <1>3, <2>1, <2>2, <2>3 DEF IInv, TypeOK
<1>5. ThreadInv'
  BY <1>1, <1>2, <1>3 DEF IInv, ThreadInv
<1>6. /\ toRun'[t] = callbacks
      /\ \A u \in Threads : u # t => toRun'[u] = toRun[u]
  BY <1>1, <1>3
<1>7. \A d \in Callbacks : /\ OnItsWay(d)' <=> OnItsWay(d)
                           /\ ~Kept(d)'
                           /\ Taken(d)' <=> Taken(d) \/ Kept(d)
  <2>1. \A d \in Callbacks : OnItsWay(d)' <=> OnItsWay(d)
    BY <1>3 DEF OnItsWay
  <2>2. \A d \in Callbacks : ~Kept(d)'
    BY <1>3 DEF Kept
  <2>3. \A d \in Callbacks : Taken(d)' <=> Taken(d) \/ Kept(d)
    BY <1>2, <1>6 DEF Kept, Taken
  <2>4. QED
    BY <2>1, <2>2, <2>3
<1>8. PlaceInv'
  BY <1>3, <1>7 DEF IInv, PlaceInv
<1>9. OnceInv'
  <2>1. ASSUME NEW u \in Threads, NEW v \in Threads,
               NEW j \in DOMAIN toRun'[u], NEW k \in DOMAIN toRun'[v],
               toRun'[u][j] = toRun'[v][k]
        PROVE  u = v /\ j = k
    <3>1. CASE u = t /\ v = t
      BY <2>1, <3>1, <1>6 DEF IInv, OnceInv
    <3>2. CASE u # t /\ v # t
      BY <2>1, <3>2, <1>6 DEF IInv, OnceInv
    <3>3. CASE u = t /\ v # t
      <4>1. toRun[v][k] \in Callbacks /\ Kept(toRun[v][k]) /\ Taken(toRun[v][k])
        BY <2>1, <3>3, <1>1, <1>6 DEF Kept, Taken
      <4>2. QED
        BY <4>1 DEF IInv, PlaceInv
    <3>4. CASE u # t /\ v = t
      <4>1. toRun[u][j] \in Callbacks /\ Kept(toRun[u][j]) /\ Taken(toRun[u][j])
        BY <2>1, <3>4, <1>1, <1>6 DEF Kept, Taken
      <4>2. QED
        BY <4>1 DEF IInv, PlaceInv
    <3>5. QED
      BY <3>1, <3>2, <3>3, <3>4
  <2>2. \A j, k \in DOMAIN callbacks' : callbacks'[j] = callbacks'[k] => j = k
    BY <1>3
  <2>3. QED
    BY <1>3, <2>1, <2>2 DEF IInv, OnceInv
<1>10. QED
  BY <1>4, <1>5, <1>8, <1>9 DEF IInv

\* The callback on its way is kept.
LEMMA KeepStep ==
    ASSUME IInv, NEW t \in Threads, Register(t), ~cancelled
    PROVE  IInv'
<1>1. /\ pc \in [Threads -> {"idle", "cancel", "register", "running"}]
      /\ registering \in [Threads -> SUBSET Callbacks] /\ callbacks \in Seq(Callbacks)
      /\ toRun \in [Threads -> Seq(Callbacks)]
  BY DEF IInv, TypeOK
<1>2. PICK c \in Callbacks : registering[t] = {c}
  BY DEF Register, IInv, ThreadInv
<1>3. /\ callbacks' = Append(callbacks, c) /\ mu' = NoThread
      /\ pc' = [pc EXCEPT ![t] = "idle"]
      /\ registering' = [registering EXCEPT ![t] = {}]
      /\ UNCHANGED <<cancelled, toRun, registered, ran>>
  BY <1>2 DEF Register, KeepCallback
<1>4. pc[t] = "register" /\ toRun[t] = <<>>
  BY DEF Register, IInv, ThreadInv
<1>5. TypeOK'
  <2>1. callbacks' \in Seq(Callbacks) /\ registering' \in [Threads -> SUBSET Callbacks]
    BY <1>1, <1>3
  <2>2. mu' \in Threads \cup {NoThread} /\ pc' \in [Threads -> {"idle", "cancel", "register", "running"}]
    BY <1>1, <1>3
  <2>3. QED
    BY <1>3, <2>1, <2>2 DEF IInv, TypeOK
<1>6. ThreadInv'
  <2>1. pc'[t] = "idle" /\ registering'[t] = {}
    BY <1>1, <1>3
  <2>2. \A u \in Threads : u # t => pc'[u] = pc[u] /\ registering'[u] = registering[u]
    BY <1>1, <1>3
  <2>3. \A u \in Threads : pc'[u] = "register" => \E d \in Callbacks : registering'[u] = {d}
    BY <2>1, <2>2 DEF IInv, ThreadInv
  <2>4. \A u \in Threads : pc'[u] # "register" => registering'[u] = {}
    BY <2>1, <2>2 DEF IInv, ThreadInv
  <2>5. (\A u \in Threads : pc[u] # "running" => toRun[u] = <<>>)'
    BY <1>3, <1>4, <2>2 DEF IInv, ThreadInv
  <2>6. QED
    BY <1>3, <2>3, <2>4, <2>5 DEF ThreadInv
<1>7. /\ DOMAIN callbacks' = (1 .. Len(callbacks)) \cup {Len(callbacks) + 1}
      /\ callbacks'[Len(callbacks) + 1] = c
      /\ \A k \in 1 .. Len(callbacks) : callbacks'[k] = callbacks[k]
      /\ DOMAIN callbacks = 1 .. Len(callbacks) /\ Len(callbacks) \in Nat
  BY <1>1, <1>3
<1>8. OnItsWay(c) /\ ~Kept(c) /\ ~Taken(c) /\ ran[c] = 0
  <2>1. OnItsWay(c)
    BY <1>2 DEF OnItsWay
  <2>2. QED
    BY <2>1 DEF IInv, PlaceInv
<1>9. \A d \in Callbacks : /\ OnItsWay(d)' <=> OnItsWay(d) /\ d # c
                           /\ Kept(d)' <=> Kept(d) \/ d = c
                           /\ Taken(d)' <=> Taken(d)
  <2>1. \A d \in Callbacks : OnItsWay(d)' <=> OnItsWay(d) /\ d # c
    <3>1. \A u \in Threads : u # t => c \notin registering[u]
      BY <1>2 DEF IInv, OnceInv
    <3>2. \A u \in Threads : u # t => registering'[u] = registering[u]
      BY <1>1, <1>3
    <3>3. registering'[t] = {}
      BY <1>1, <1>3
    <3>4. QED
      BY <1>2, <3>1, <3>2, <3>3 DEF OnItsWay
  <2>2. \A d \in Callbacks : Kept(d)' <=> Kept(d) \/ d = c
    BY <1>7 DEF Kept
  <2>3. \A d \in Callbacks : Taken(d)' <=> Taken(d)
    BY <1>3 DEF Taken
  <2>4. QED
    BY <2>1, <2>2, <2>3
<1>10. PlaceInv'
  BY <1>3, <1>8, <1>9 DEF IInv, PlaceInv
<1>11. OnceInv'
  <2>1. \A u, v \in Threads, d \in Callbacks :
            d \in registering'[u] /\ d \in registering'[v] => u = v
    BY <1>1, <1>3 DEF IInv, OnceInv
  <2>2. \A j, k \in DOMAIN callbacks' : callbacks'[j] = callbacks'[k] => j = k
    BY <1>7, <1>8 DEF IInv, OnceInv, Kept
  <2>3. QED
    BY <1>3, <2>1, <2>2 DEF IInv, OnceInv
<1>12. QED
  BY <1>5, <1>6, <1>10, <1>11 DEF IInv

\* The callback on its way is taken by its own thread.
LEMMA RunLateStep ==
    ASSUME IInv, NEW t \in Threads, Register(t), cancelled
    PROVE  IInv'
<1>1. /\ pc \in [Threads -> {"idle", "cancel", "register", "running"}]
      /\ registering \in [Threads -> SUBSET Callbacks]
      /\ toRun \in [Threads -> Seq(Callbacks)]
  BY DEF IInv, TypeOK
<1>2. PICK c \in Callbacks : registering[t] = {c}
  BY DEF Register, IInv, ThreadInv
<1>3. /\ toRun' = [toRun EXCEPT ![t] = <<c>>] /\ mu' = NoThread
      /\ pc' = [pc EXCEPT ![t] = "running"]
      /\ registering' = [registering EXCEPT ![t] = {}]
      /\ UNCHANGED <<cancelled, callbacks, registered, ran>>
  BY <1>2 DEF Register, KeepCallback
<1>4. pc[t] = "register" /\ toRun[t] = <<>>
  BY DEF Register, IInv, ThreadInv
<1>5. TypeOK'
  <2>1. toRun' \in [Threads -> Seq(Callbacks)] /\ registering' \in [Threads -> SUBSET Callbacks]
    BY <1>1, <1>3
  <2>2. mu' \in Threads \cup {NoThread} /\ pc' \in [Threads -> {"idle", "cancel", "register", "running"}]
    BY <1>1, <1>3
  <2>3. QED
    BY <1>3, <2>1, <2>2 DEF IInv, TypeOK
<1>6. /\ toRun'[t] = <<c>> /\ registering'[t] = {} /\ pc'[t] = "running"
      /\ \A u \in Threads : u # t => /\ toRun'[u] = toRun[u]
                                    /\ registering'[u] = registering[u]
                                    /\ pc'[u] = pc[u]
  BY <1>1, <1>3
<1>7. ThreadInv'
  <2>1. \A u \in Threads : pc'[u] = "register" => \E d \in Callbacks : registering'[u] = {d}
    BY <1>6 DEF IInv, ThreadInv
  <2>2. \A u \in Threads : pc'[u] # "register" => registering'[u] = {}
    BY <1>6 DEF IInv, ThreadInv
  <2>3. \A u \in Threads : pc'[u] # "running" => toRun'[u] = <<>>
    BY <1>6 DEF IInv, ThreadInv
  <2>4. QED
    BY <1>3, <2>1, <2>2, <2>3 DEF IInv, ThreadInv
<1>8. OnItsWay(c) /\ ~Kept(c) /\ ~Taken(c) /\ ran[c] = 0
  <2>1. OnItsWay(c)
    BY <1>2 DEF OnItsWay
  <2>2. QED
    BY <2>1 DEF IInv, PlaceInv
<1>9. \A d \in Callbacks : /\ OnItsWay(d)' <=> OnItsWay(d) /\ d # c
                           /\ Kept(d)' <=> Kept(d)
                           /\ Taken(d)' <=> Taken(d) \/ d = c
  <2>1. \A d \in Callbacks : OnItsWay(d)' <=> OnItsWay(d) /\ d # c
    <3>1. \A u \in Threads : u # t => c \notin registering[u]
      BY <1>2 DEF IInv, OnceInv
    <3>2. QED
      BY <1>2, <1>6, <3>1 DEF OnItsWay
  <2>2. \A d \in Callbacks : Kept(d)' <=> Kept(d)
    BY <1>3 DEF Kept
  <2>3. \A d \in Callbacks : Taken(d)' <=> Taken(d) \/ d = c
    BY <1>4, <1>6 DEF Taken
  <2>4. QED
    BY <2>1, <2>2, <2>3
<1>10. PlaceInv'
  BY <1>3, <1>8, <1>9 DEF IInv, PlaceInv
<1>11. OnceInv'
  <2>1. \A u, v \in Threads, d \in Callbacks :
            d \in registering'[u] /\ d \in registering'[v] => u = v
    BY <1>6 DEF IInv, OnceInv
  <2>2. \A u, v \in Threads : \A j \in DOMAIN toRun'[u], k \in DOMAIN toRun'[v] :
           toRun'[u][j] = toRun'[v][k] => u = v /\ j = k
    BY <1>6, <1>8 DEF IInv, OnceInv, Taken
  <2>3. QED
    BY <1>3, <2>1, <2>2 DEF IInv, OnceInv
<1>12. QED
  BY <1>5, <1>7, <1>10, <1>11 DEF IInv

\* The first callback a thread has taken is run, and is in no place after.
LEMMA RunCallbackStep ==
    ASSUME IInv, NEW t \in Threads, RunCallback(t)
    PROVE  IInv'
<1>0. toRun[t] \in Seq(Callbacks) /\ toRun[t] # <<>>
  BY DEF RunCallback, IInv, TypeOK
<1>14. PICK c \in Callbacks : c = Head(toRun[t])
  BY <1>0
<1>1. /\ toRun \in [Threads -> Seq(Callbacks)] /\ ran \in [Callbacks -> 0 .. 1]
  BY DEF IInv, TypeOK
<1>2. /\ toRun[t] # <<>> /\ pc[t] = "running"
      /\ ran' = [ran EXCEPT ![c] = @ + 1]
      /\ toRun' = [toRun EXCEPT ![t] = Tail(@)]
      /\ UNCHANGED <<cancelled, callbacks, mu, pc, registering, registered>>
  BY <1>14 DEF RunCallback
<1>3. toRun[t] \in Seq(Callbacks) /\ Len(toRun[t]) \in Nat /\ Len(toRun[t]) > 0
  BY <1>1, <1>2
<1>4. c \in Callbacks /\ toRun[t][1] = c /\ 1 \in DOMAIN toRun[t]
  BY <1>14, <1>3
<1>5. ~OnItsWay(c) /\ ~Kept(c) /\ Taken(c) /\ ran[c] = 0
  <2>1. Taken(c)
    BY <1>4 DEF Taken
  <2>2. QED
    BY <1>4, <2>1 DEF IInv, PlaceInv
<1>6. ran'[c] = 1 /\ \A d \in Callbacks : d # c => ran'[d] = ran[d]
  BY <1>1, <1>2, <1>4, <1>5
<1>7. /\ DOMAIN toRun'[t] = 1 .. (Len(toRun[t]) - 1)
      /\ \A k \in 1 .. (Len(toRun[t]) - 1) : toRun'[t][k] = toRun[t][k + 1]
      /\ toRun'[t] \in Seq(Callbacks)
      /\ DOMAIN toRun[t] = 1 .. Len(toRun[t])
      /\ \A u \in Threads : u # t => toRun'[u] = toRun[u]
  <2>1. toRun'[t] = Tail(toRun[t]) /\ \A u \in Threads : u # t => toRun'[u] = toRun[u]
    BY <1>1, <1>2
  <2>2. QED
    BY <1>3, <2>1
<1>8. TypeOK'
  <2>1. ran' \in [Callbacks -> 0 .. 1]
    <3>1. ran' = [ran EXCEPT ![c] = 1]
      BY <1>1, <1>2, <1>4, <1>5
    <3>2. QED
      BY <1>1, <3>1
  <2>2. toRun' \in [Threads -> Seq(Callbacks)]
    BY <1>1, <1>2, <1>7
  <2>3. QED
    BY <1>2, <2>1, <2>2 DEF IInv, TypeOK
<1>9. ThreadInv'
  <2>1. \A u \in Threads : pc[u] # "running" => toRun'[u] = <<>>
    BY <1>2, <1>7 DEF IInv, ThreadInv
  <2>2. QED
    BY <1>2, <2>1 DEF IInv, ThreadInv
<1>10. OnceInv'
  <2>1. ASSUME NEW u \in Threads, NEW v \in Threads,
               NEW j \in DOMAIN toRun'[u], NEW k \in DOMAIN toRun'[v],
               toRun'[u][j] = toRun'[v][k]
        PROVE  u = v /\ j = k
    <3> DEFINE J == IF u = t THEN j + 1 ELSE j
               K == IF v = t THEN k + 1 ELSE k
    <3>1. J \in DOMAIN toRun[u] /\ toRun[u][J] = toRun'[u][j]
      <4>1. CASE u = t
        BY <2>1, <4>1, <1>3, <1>7
      <4>2. CASE u # t
        BY <2>1, <4>2, <1>7
      <4>3. QED
        BY <4>1, <4>2
    <3>2. K \in DOMAIN toRun[v] /\ toRun[v][K] = toRun'[v][k]
      <4>1. CASE v = t
        BY <2>1, <4>1, <1>3, <1>7
      <4>2. CASE v # t
        BY <2>1, <4>2, <1>7
      <4>3. QED
        BY <4>1, <4>2
    <3>3. u = v /\ J = K
      <4> HIDE DEF J, K
      <4> QED
        BY <2>1, <3>1, <3>2 DEF IInv, OnceInv
    <3>4. j \in Int /\ k \in Int
      <4>1. \A s \in Seq(Callbacks) : \A i \in DOMAIN s : i \in Int
        OBVIOUS
      <4>2. toRun'[u] \in Seq(Callbacks) /\ toRun'[v] \in Seq(Callbacks)
        BY <1>1, <1>7
      <4>3. QED
        BY <4>1, <4>2
    <3>5. QED
      BY <3>3, <3>4
  <2>2. QED
    BY <1>2, <2>1 DEF IInv, OnceInv
<1>11. \A d \in Callbacks : /\ OnItsWay(d)' <=> OnItsWay(d)
                            /\ Kept(d)' <=> Kept(d)
                            /\ Taken(d)' <=> Taken(d) /\ d # c
  <2>1. \A d \in Callbacks : (OnItsWay(d)' <=> OnItsWay(d)) /\ (Kept(d)' <=> Kept(d))
    BY <1>2 DEF OnItsWay, Kept
  <2>2. ASSUME NEW d \in Callbacks, Taken(d)'
        PROVE  Taken(d) /\ d # c
    <3>1. PICK u \in Threads : \E k \in DOMAIN toRun'[u] : toRun'[u][k] = d
      BY <2>2 DEF Taken
    <3>2. PICK k \in DOMAIN toRun'[u] : toRun'[u][k] = d
      BY <3>1
    <3>3. CASE u # t
      <4>1. k \in DOMAIN toRun[u] /\ toRun[u][k] = d
        BY <3>2, <3>3, <1>7
      <4>2. d # c
        BY <3>3, <4>1, <1>4 DEF IInv, OnceInv
      <4>3. QED
        BY <4>1, <4>2 DEF Taken
    <3>4. CASE u = t
      <4>1. k + 1 \in DOMAIN toRun[t] /\ toRun[t][k + 1] = d /\ k + 1 # 1
        BY <3>2, <3>4, <1>3, <1>7
      <4>2. d # c
        BY <4>1, <1>4 DEF IInv, OnceInv
      <4>3. QED
        BY <4>1, <4>2 DEF Taken
    <3>5. QED
      BY <3>3, <3>4
  <2>3. ASSUME NEW d \in Callbacks, Taken(d), d # c
        PROVE  Taken(d)'
    <3>1. PICK u \in Threads : \E k \in DOMAIN toRun[u] : toRun[u][k] = d
      BY <2>3 DEF Taken
    <3>2. PICK k \in DOMAIN toRun[u] : toRun[u][k] = d
      BY <3>1
    <3>3. CASE u # t
      BY <3>2, <3>3, <1>7 DEF Taken
    <3>4. CASE u = t
      <4>1. k \in 1 .. Len(toRun[t]) /\ k # 1
        BY <2>3, <3>2, <3>4, <1>4, <1>7
      <4>2. k - 1 \in DOMAIN toRun'[t] /\ (k - 1) + 1 = k
        BY <4>1, <1>3, <1>7
      <4>3. toRun'[t][k - 1] = d
        BY <3>2, <3>4, <4>2, <1>7
      <4>4. QED
        BY <4>2, <4>3 DEF Taken
    <3>5. QED
      BY <3>3, <3>4
  <2>4. QED
    BY <2>1, <2>2, <2>3
<1>12. PlaceInv'
  <2>1. ASSUME NEW d \in Callbacks, d # c
        PROVE  /\ d \in registered' <=> OnItsWay(d)' \/ Kept(d)' \/ Taken(d)' \/ ran'[d] = 1
               /\ OnItsWay(d)' => ~Kept(d)' /\ ~Taken(d)' /\ ran'[d] = 0
               /\ Kept(d)' => ~Taken(d)' /\ ran'[d] = 0
               /\ Taken(d)' => ran'[d] = 0
    BY <2>1, <1>2, <1>6, <1>11 DEF IInv, PlaceInv
  <2>2. c \in registered' /\ ran'[c] = 1 /\ ~OnItsWay(c)' /\ ~Kept(c)' /\ ~Taken(c)'
    <3>1. c \in registered
      BY <1>4, <1>5 DEF IInv, PlaceInv
    <3>2. ~OnItsWay(c)' /\ ~Kept(c)' /\ ~Taken(c)'
      BY <1>4, <1>5, <1>11
    <3>3. QED
      BY <1>2, <1>6, <3>1, <3>2
  <2>3. ASSUME NEW d \in Callbacks, d = c
        PROVE  /\ d \in registered' <=> OnItsWay(d)' \/ Kept(d)' \/ Taken(d)' \/ ran'[d] = 1
               /\ OnItsWay(d)' => ~Kept(d)' /\ ~Taken(d)' /\ ran'[d] = 0
               /\ Kept(d)' => ~Taken(d)' /\ ran'[d] = 0
               /\ Taken(d)' => ran'[d] = 0
    <3>1. ~OnItsWay(d)' /\ ~Kept(d)' /\ ~Taken(d)'
      BY <2>2, <2>3
    <3>2. d \in registered' /\ ran'[d] = 1
      BY <2>2, <2>3
    <3>3. QED
      BY <3>1, <3>2
  <2>4. QED
    BY <2>1, <2>3 DEF PlaceInv
<1>13. QED
  BY <1>8, <1>9, <1>10, <1>12 DEF IInv

LEMMA NextStep == IInv /\ [Next]_vars => IInv'
<1> SUFFICES ASSUME IInv, [Next]_vars PROVE IInv'
  OBVIOUS
<1>1. ASSUME NEW t \in Threads, NEW c \in Callbacks, EnterRegister(t, c)
      PROVE  IInv'
  BY <1>1, EnterRegisterStep
<1>2. ASSUME NEW t \in Threads,
             \/ EnterCancel(t) \/ CancelOnce(t) \/ CancelAgain(t)
             \/ Register(t) \/ RunCallback(t) \/ ReturnFromRun(t)
      PROVE  IInv'
  BY <1>2, EnterCancelStep, CancelOnceStep, CancelAgainStep, KeepStep, RunLateStep,
     RunCallbackStep, ReturnFromRunStep
<1>3. CASE UNCHANGED vars
  <2>1. TypeOK' /\ ThreadInv'
    BY <1>3 DEF vars, IInv, TypeOK, ThreadInv
  <2>2. QED
    BY <1>3, <2>1, NothingMoves DEF vars
<1>4. QED
  BY <1>1, <1>2, <1>3 DEF Next

THEOREM Invariance == Spec => []IInv
BY InitIInv, NextStep, PTL DEF Spec

\* The variables keep their types; in particular no callback runs twice.
THEOREM TypeCorrect == Spec => []TypeOK
<1>1. IInv => TypeOK
  BY DEF IInv
<1>2. QED
  BY <1>1, Invariance, PTL

-----------------------------------------------------------------------------
\* From places to counts.

LEMMA CountOfOne ==
    ASSUME NEW S, \A x, y \in S : x = y
    PROVE  Cardinality(S) = IF S = {} THEN 0 ELSE 1
<1>1. CASE S = {}
  BY <1>1, FS_EmptySet
<1>2. CASE S # {}
  <2>1. PICK x \in S : TRUE
    BY <1>2
  <2>2. S = {x}
    BY <2>1
  <2>3. Cardinality({x}) = 1
    BY FS_Singleton
  <2>4. QED
    BY <1>2, <2>2, <2>3
<1>3. QED
  BY <1>1, <1>2

\* A list without repetition is not longer than the set of callbacks.
LEMMA ListFits ==
    ASSUME NEW s \in Seq(Callbacks), \A j, k \in DOMAIN s : s[j] = s[k] => j = k
    PROVE  Len(s) <= Cardinality(Callbacks)
<1>1. Len(s) \in Nat /\ s \in [1 .. Len(s) -> Callbacks]
  OBVIOUS
<1>2. IsFiniteSet(Callbacks) /\ Cardinality(Callbacks) \in Nat
  BY CallbacksAssumption, FS_CardinalityType
<1>3. IsFiniteSet(1 .. Len(s)) /\ Cardinality(1 .. Len(s)) = Len(s)
  BY <1>1, FS_Interval
<1>4. ~(Cardinality(Callbacks) < Cardinality(1 .. Len(s)))
  <2> SUFFICES ASSUME Cardinality(Callbacks) < Cardinality(1 .. Len(s)) PROVE FALSE
    OBVIOUS
  <2>1. \E j, k \in 1 .. Len(s) : j # k /\ s[j] = s[k]
    BY <1>1, <1>2, <1>3, FS_PigeonHole
  <2>2. QED
    BY <1>1, <2>1
<1>5. QED
  BY <1>1, <1>2, <1>3, <1>4

\* The race of Cancel and RegisterCallback loses no callback and runs none twice,
\* and a cancelled request keeps none.
THEOREM CallbacksConserved == Spec => []CallbackInOnePlace
<1>1. IInv => CallbackInOnePlace
  <2> SUFFICES ASSUME IInv PROVE CallbackInOnePlace
    OBVIOUS
  <2>1. ASSUME NEW c \in registered
        PROVE  Cardinality({t \in Threads : c \in registering[t]})
               + Cardinality({k \in DOMAIN callbacks : callbacks[k] = c})
               + Cardinality({p \in Threads \X (1 .. Cardinality(Callbacks)) :
                                p[2] \in DOMAIN toRun[p[1]] /\ toRun[p[1]][p[2]] = c})
               + ran[c] = 1
    <3> DEFINE In    == {t \in Threads : c \in registering[t]}
               At    == {k \in DOMAIN callbacks : callbacks[k] = c}
               Hands == {p \in Threads \X (1 .. Cardinality(Callbacks)) :
                           p[2] \in DOMAIN toRun[p[1]] /\ toRun[p[1]][p[2]] = c}
    <3>1. c \in Callbacks /\ ran[c] \in 0 .. 1 /\ toRun \in [Threads -> Seq(Callbacks)]
      BY <2>1 DEF IInv, TypeOK
    <3>2. Cardinality(In) = IF OnItsWay(c) THEN 1 ELSE 0
      <4>1. \A x, y \in In : x = y
        BY <3>1 DEF IInv, OnceInv
      <4>2. In = {} <=> ~OnItsWay(c)
        BY DEF OnItsWay
      <4>3. QED
        BY <4>1, <4>2, CountOfOne
    <3>3. Cardinality(At) = IF Kept(c) THEN 1 ELSE 0
      <4>1. \A x, y \in At : x = y
        BY DEF IInv, OnceInv
      <4>2. At = {} <=> ~Kept(c)
        BY DEF Kept
      <4>3. QED
        BY <4>1, <4>2, CountOfOne
    <3>4. Cardinality(Hands) = IF Taken(c) THEN 1 ELSE 0
      <4>1. ASSUME NEW x \in Hands, NEW y \in Hands
            PROVE  x = y
        <5>1. x[1] = y[1] /\ x[2] = y[2]
          BY DEF IInv, OnceInv
        <5>2. x = <<x[1], x[2]>> /\ y = <<y[1], y[2]>>
          OBVIOUS
        <5>3. QED
          BY <5>1, <5>2
      <4>2. ASSUME Taken(c)
            PROVE  Hands # {}
        <5>1. PICK t \in Threads : \E k \in DOMAIN toRun[t] : toRun[t][k] = c
          BY <4>2 DEF Taken
        <5>2. PICK k \in DOMAIN toRun[t] : toRun[t][k] = c
          BY <5>1
        <5>3. toRun[t] \in Seq(Callbacks) /\ \A i, j \in DOMAIN toRun[t] : toRun[t][i] = toRun[t][j] => i = j
          BY <3>1 DEF IInv, OnceInv
        <5>4. Len(toRun[t]) <= Cardinality(Callbacks)
          BY <5>3, ListFits
        <5>5. Len(toRun[t]) \in Nat /\ k \in 1 .. Len(toRun[t])
          BY <5>2, <5>3
        <5>6. Cardinality(Callbacks) \in Nat
          BY CallbacksAssumption, FS_CardinalityType
        <5>7. k \in 1 .. Cardinality(Callbacks)
          BY <5>4, <5>5, <5>6
        <5>8. <<t, k>> \in Hands
          BY <5>2, <5>7
        <5>9. QED
          BY <5>8
      <4>3. ASSUME Hands # {}
            PROVE  Taken(c)
        BY <4>3 DEF Taken
      <4>4. QED
        <5> HIDE DEF Hands
        <5> QED
          BY <4>1, <4>2, <4>3, CountOfOne
    <3> HIDE DEF In, At, Hands
    <3>5. Cardinality(In) + Cardinality(At) + Cardinality(Hands) + ran[c] = 1
      <4>1. CASE OnItsWay(c)
        <5>1. ~Kept(c) /\ ~Taken(c) /\ ran[c] = 0
          BY <3>1, <4>1 DEF IInv, PlaceInv
        <5>2. QED
          BY <3>2, <3>3, <3>4, <4>1, <5>1
      <4>2. CASE Kept(c)
        <5>1. ~OnItsWay(c) /\ ~Taken(c) /\ ran[c] = 0
          BY <3>1, <4>2 DEF IInv, PlaceInv
        <5>2. QED
          BY <3>2, <3>3, <3>4, <4>2, <5>1
      <4>3. CASE Taken(c)
        <5>1. ~OnItsWay(c) /\ ~Kept(c) /\ ran[c] = 0
          BY <3>1, <4>3 DEF IInv, PlaceInv
        <5>2. QED
          BY <3>2, <3>3, <3>4, <4>3, <5>1
      <4>4. CASE ~OnItsWay(c) /\ ~Kept(c) /\ ~Taken(c)
        <5>1. ran[c] = 1
          BY <2>1, <3>1, <4>4 DEF IInv, PlaceInv
        <5>2. QED
          BY <3>2, <3>3, <3>4, <4>4, <5>1
      <4>5. QED
        BY <4>1, <4>2, <4>3, <4>4
    <3>6. QED
      BY <3>5 DEF In, At, Hands
  <2>2. cancelled => callbacks = <<>>
    BY DEF IInv, ThreadInv
  <2>3. QED
    BY <2>1, <2>2 DEF CallbackInOnePlace
<1>2. QED
  BY <1>1, Invariance, PTL

-----------------------------------------------------------------------------
(* Nobody waits for ever.                                                  *)

\* The mutex is held by the thread in a critical section, and by no other.
MutexInv == \A t \in Threads : mu = t <=> pc[t] \in {"cancel", "register"}

LEMMA MutexStep ==
    ASSUME TypeOK, MutexInv, [Next]_vars
    PROVE  MutexInv'
<1> USE NoThreadAssumption DEF TypeOK, MutexInv
<1>1. ASSUME NEW t \in Threads, EnterCancel(t)
      PROVE  MutexInv'
  BY <1>1 DEF EnterCancel
<1>2. ASSUME NEW t \in Threads, NEW c \in Callbacks, EnterRegister(t, c)
      PROVE  MutexInv'
  BY <1>2 DEF EnterRegister
<1>3. ASSUME NEW t \in Threads, CancelOnce(t)
      PROVE  MutexInv'
  BY <1>3 DEF CancelOnce, MutexAfter
<1>4. ASSUME NEW t \in Threads, CancelAgain(t)
      PROVE  MutexInv'
  BY <1>4 DEF CancelAgain
<1>5. ASSUME NEW t \in Threads, Register(t)
      PROVE  MutexInv'
  <2>1. mu' = NoThread /\ \E place \in {"idle", "running"} : pc' = [pc EXCEPT ![t] = place]
    BY <1>5 DEF Register
  <2>2. QED
    BY <1>5, <2>1 DEF Register
<1>6. ASSUME NEW t \in Threads, RunCallback(t)
      PROVE  MutexInv'
  BY <1>6 DEF RunCallback
<1>7. ASSUME NEW t \in Threads, ReturnFromRun(t)
      PROVE  MutexInv'
  BY <1>7 DEF ReturnFromRun
<1>8. CASE UNCHANGED vars
  BY <1>8 DEF vars
<1>9. QED
  BY <1>1, <1>2, <1>3, <1>4, <1>5, <1>6, <1>7, <1>8 DEF Next

\* A thread inside the request can go on, or the one it waits for can: Cancel and
\* RegisterCallback run callbacks with the mutex released, whatever the number of
\* threads and callbacks.
THEOREM NoDeadlock == Spec => []NeverStuck
<1>1. Init => MutexInv
  BY NoThreadAssumption DEF Init, MutexInv
<1>2. IInv /\ MutexInv /\ [Next]_vars => MutexInv'
  BY MutexStep DEF IInv
<1>3. IInv /\ MutexInv => NeverStuck
  <2> SUFFICES ASSUME IInv, MutexInv, NEW t \in Threads, pc[t] # "idle"
               PROVE  \E u \in Threads :
                        \/ pc[u] \in {"cancel", "register"}
                        \/ pc[u] = "running" /\ (toRun[u] = <<>> \/ mu = NoThread)
    BY DEF NeverStuck
  <2>1. CASE mu = NoThread
    BY <2>1 DEF IInv, TypeOK
  <2>2. CASE mu \in Threads
    BY <2>2 DEF MutexInv
  <2>3. QED
    BY <2>1, <2>2 DEF IInv, TypeOK
<1>4. QED
  BY <1>1, <1>2, <1>3, Invariance, PTL DEF Spec
=============================================================================
