---------------------------- MODULE MailModelProofs ----------------------------
(***************************************************************************)
(* Proofs that the git tools bring HEAD home, leave the user's branches to *)
(* the user, lose no patch, land what they finalize and keep the order of  *)
(* what they reroll, for every repository, any number of workers and of    *)
(* calls.                                                                  *)
(*                                                                         *)
(* Where HEAD is does not depend on what a commit consists of: IInv says   *)
(* nothing of tips, and of a call only that it is a record.  SInv, on top  *)
(* of it, is about the commits: what is on the branches, what a call has   *)
(* listed, and how far each git_finalize_series has come.                  *)
(***************************************************************************)
EXTENDS MailModel, FiniteSetTheorems, SequenceTheorems, TLAPS

\* A verification that has HEAD off its branch.
Walking(w) == call[w].job.tool = "verify" /\ call[w].pc \in {"walk", "test"}

ShapeInv ==
    /\ DOMAIN call = Callers
    /\ \A w \in Callers : DOMAIN call[w] = {"pc", "job", "from", "onto", "list"}
    /\ \A w \in Callers : call[w].job.tool = "stage" => call[w].job.series \in Series
    /\ DOMAIN tip \subseteq Branches
    /\ head \in Branches \cup {Detached}
    /\ rebase \in Branches \cup {None}

\* Only calls at work can have had HEAD moved under them.
MovedInv == \A w \in moved : call[w].pc \notin {"idle", "guard"}

\* Where a call counts on HEAD to be where its guard saw it, and where on the branch
\* it found itself on.
SeriesPlaces == {"start", "commit", "fixup", "rebase"}
MergePlaces  == {"checkout", "merge", "delete"}

\* Unless another call has moved HEAD, each is a series.
OnSeries(w) == call[w].pc \in SeriesPlaces /\ call[w].job.tool # "stage" => head \in Series
OfSeries(w) == call[w].pc \in MergePlaces => call[w].from \in Series
StartInv    == \A w \in Callers \ moved : OnSeries(w) /\ OfSeries(w)

\* It knows the branch to return to, and nothing but it and a rebase detaches HEAD.
ReturnInv == \A w \in Callers : Walking(w) => call[w].from # Detached \/ slipped
HeadInv   == head = Detached => slipped \/ rebase # None \/ \E w \in Callers : Walking(w)

IInv == ShapeInv /\ MovedInv /\ StartInv /\ ReturnInv /\ HeadInv

-----------------------------------------------------------------------------
LEMMA InitIInv == Init => IInv
<1> SUFFICES ASSUME Init PROVE IInv
  OBVIOUS
<1>1. call = [w \in Callers |-> Idle] /\ moved = {} /\ rebase = None
  BY DEF Init
<1>2. head \in Branches /\ DOMAIN tip \subseteq Branches
  <2> DEFINE user == [b \in Bases |-> IF b = Main THEN <<>> ELSE <<New(1)>>]
  <2>1. CASE tip = user /\ head \in Bases
    BY <2>1 DEF Branches
  <2>2. ASSUME NEW s \in Series, NEW c, tip = With(user, s, c), head = s
        PROVE  head \in Branches /\ DOMAIN tip \subseteq Branches
    BY <2>2 DEF Branches, With
  <2>3. QED
    BY <2>1, <2>2 DEF Init
<1>3. head # Detached
  BY <1>2, NamesAssumption
<1>4. QED
  BY <1>1, <1>2, <1>3 DEF IInv, ShapeInv, MovedInv, StartInv, OnSeries, OfSeries,
        SeriesPlaces, MergePlaces, ReturnInv, HeadInv, Walking, Idle

-----------------------------------------------------------------------------
\* What a step of w may do to HEAD and to its call: it is all the invariant needs.
OthersStay(w)    == \A v \in Callers \ {w} : call'[v] = call[v]
StartsOnSeries(w) == w \notin moved => OnSeries(w)' /\ OfSeries(w)'
KnowsTheWay(w)   == Walking(w)' => call'[w].from # Detached \/ slipped'
Detaches(w)      ==
    head' = Detached =>
        \/ slipped' \/ rebase' # None \/ Walking(w)'
        \/ (head = Detached /\ rebase = None /\ ~Walking(w))

LEMMA StepOfCall ==
    ASSUME IInv, NEW w \in Callers, Observe(w), ShapeInv', OthersStay(w),
           slipped => slipped', StartsOnSeries(w), KnowsTheWay(w), Detaches(w)
    PROVE  IInv'
<1>1. MovedInv'
  BY DEF Observe, MovedInv
<1>2. StartInv'
  <2> SUFFICES ASSUME NEW v \in Callers, v \notin moved'
               PROVE  OnSeries(v)' /\ OfSeries(v)'
    BY DEF StartInv
  <2>1. CASE call'[v].pc \in {"idle", "guard"}
    BY <2>1 DEF OnSeries, OfSeries, SeriesPlaces, MergePlaces
  <2>2. CASE v = w /\ call'[v].pc \notin {"idle", "guard"}
    <3>1. w \notin moved
      BY <2>2 DEF Observe
    <3>2. QED
      BY <2>2, <3>1 DEF StartsOnSeries
  <2>3. CASE v # w /\ call'[v].pc \notin {"idle", "guard"}
    <3>1. v \notin moved /\ head' = head /\ call'[v] = call[v]
      BY <2>3 DEF Observe, OthersStay
    <3>2. QED
      BY <3>1 DEF IInv, StartInv, OnSeries, OfSeries
  <2>4. QED
    BY <2>1, <2>2, <2>3
<1>3. \A v \in Callers \ {w} : Walking(v)' <=> Walking(v)
  BY DEF Walking, OthersStay
<1>4. ReturnInv'
  BY <1>3 DEF IInv, ReturnInv, OthersStay, KnowsTheWay
<1>5. HeadInv'
  BY <1>3 DEF IInv, HeadInv, Detaches
<1>6. QED
  BY <1>1, <1>2, <1>4, <1>5 DEF IInv

\* A call that goes to another place, and to one in which it is off its branch
\* only from one in which it was.
LEMMA GotoEffect ==
    ASSUME IInv, NEW w \in Callers, NEW place, Goto(w, place)
    PROVE  /\ DOMAIN call' = Callers
           /\ \A v \in Callers : DOMAIN call'[v] = {"pc", "job", "from", "onto", "list"}
           /\ \A v \in Callers \ {w} : call'[v] = call[v]
           /\ call'[w].pc = place /\ call'[w].job = call[w].job /\ call'[w].from = call[w].from
BY DEF IInv, ShapeInv, Goto

LEMMA ReturnEffect ==
    ASSUME IInv, NEW w \in Callers, Return(w)
    PROVE  /\ DOMAIN call' = Callers
           /\ \A v \in Callers : DOMAIN call'[v] = {"pc", "job", "from", "onto", "list"}
           /\ \A v \in Callers \ {w} : call'[v] = call[v]
           /\ call'[w].pc = "idle" /\ call'[w].job.tool = "write"
BY DEF IInv, ShapeInv, Return, Idle

\* A call counts on a series only where it has done so before.
Allowed(w, place) ==
    /\ place \in SeriesPlaces => call[w].pc \in SeriesPlaces /\ call[w].job.tool # "stage"
    /\ place \in MergePlaces => call[w].pc \in MergePlaces

LEMMA GotoOnSeries ==
    ASSUME IInv, NEW w \in Callers, NEW place, Goto(w, place), Allowed(w, place),
           head' = head \/ place \notin SeriesPlaces
    PROVE  StartsOnSeries(w)
<1> SUFFICES ASSUME w \notin moved PROVE OnSeries(w)' /\ OfSeries(w)'
  BY DEF StartsOnSeries
<1>1. OnSeries(w) /\ OfSeries(w)
  BY DEF IInv, StartInv
<1>2. call'[w].pc = place /\ call'[w].job = call[w].job /\ call'[w].from = call[w].from
  BY GotoEffect
<1>3. QED
  BY <1>1, <1>2 DEF OnSeries, OfSeries, Allowed

\* What returns, or goes where no call counts on a series, is free to move HEAD.
LEMMA AwayFromSeries ==
    ASSUME NEW w \in Callers, call'[w].pc \notin SeriesPlaces \cup MergePlaces
    PROVE  StartsOnSeries(w)
BY DEF StartsOnSeries, OnSeries, OfSeries

LEMMA ReturnOnSeries ==
    ASSUME IInv, NEW w \in Callers, Return(w)
    PROVE  StartsOnSeries(w)
BY ReturnEffect, AwayFromSeries DEF SeriesPlaces, MergePlaces

\* A step that leaves HEAD, the branches and a rebase alone.
LEMMA HeadStays ==
    ASSUME IInv, NEW w \in Callers, Observe(w),
           UNCHANGED <<head, rebase>>, DOMAIN tip' \subseteq Branches,
           slipped => slipped', ~Walking(w),
           \/ Return(w)
           \/ \E place : /\ Goto(w, place) /\ Allowed(w, place)
                         /\ call[w].job.tool = "verify" => place \notin {"walk", "test"}
    PROVE  IInv'
<1>0. Detaches(w)
  BY DEF Detaches
<1>1. CASE Return(w)
  <2>1. ShapeInv'
    BY <1>1, ReturnEffect DEF IInv, ShapeInv
  <2>2. ~Walking(w)'
    BY <1>1, ReturnEffect DEF Walking
  <2>3. StartsOnSeries(w) /\ OthersStay(w) /\ KnowsTheWay(w)
    BY <1>1, <2>2, ReturnEffect, ReturnOnSeries DEF OthersStay, KnowsTheWay
  <2>4. QED
    BY <2>1, <2>2, <2>3, <1>0, StepOfCall
<1>2. ASSUME NEW place, Goto(w, place), Allowed(w, place),
             call[w].job.tool = "verify" => place \notin {"walk", "test"}
      PROVE  IInv'
  <2>1. ShapeInv'
    BY <1>2, GotoEffect DEF IInv, ShapeInv
  <2>2. ~Walking(w)'
    BY <1>2, GotoEffect DEF Walking
  <2>3. StartsOnSeries(w) /\ OthersStay(w) /\ KnowsTheWay(w)
    BY <1>2, <2>2, GotoEffect, GotoOnSeries DEF OthersStay, KnowsTheWay
  <2>4. QED
    BY <2>1, <2>2, <2>3, <1>0, StepOfCall
<1>3. QED
  BY <1>1, <1>2

-----------------------------------------------------------------------------
\* HEAD is on a branch before the repository names are mixed up with "HEAD".
LEMMA BranchesAreNamed ==
    ASSUME NEW b \in Branches
    PROVE  b # Detached /\ b # None
BY NamesAssumption

LEMMA SeriesAreBranches == Series \subseteq Branches
BY DEF Branches

LEMMA CallStep ==
    ASSUME IInv, NEW w \in Callers, NEW j \in Job, Call(w, j), Observe(w)
    PROVE  IInv'
<1>1. call[w].pc = "idle" /\ call[w].job.tool = "write"
  BY DEF Call, Idle
<1>2. /\ DOMAIN call' = Callers
      /\ \A v \in Callers : DOMAIN call'[v] = {"pc", "job", "from", "onto", "list"}
      /\ \A v \in Callers \ {w} : call'[v] = call[v]
      /\ call'[w].job = j /\ call'[w].pc = IF Protected(j.tool) THEN "guard" ELSE "start"
  BY DEF Call, IInv, ShapeInv
<1>3. j.tool = "stage" => j.series \in Series
  BY DEF Job, Asks
<1>4. call'[w].pc = "guard" \/ (call'[w].pc = "start" /\ j.tool = "stage")
  BY <1>2 DEF Protected
<1>5. UNCHANGED <<tip, head, rebase, slipped>>
  BY DEF Call, repo
<1>6. ShapeInv'
  BY <1>2, <1>3, <1>5 DEF IInv, ShapeInv
<1>7. ~Walking(w) /\ ~Walking(w)'
  BY <1>1, <1>2, <1>4 DEF Walking
<1>8. StartsOnSeries(w)
  BY <1>2, <1>4 DEF StartsOnSeries, OnSeries, OfSeries, SeriesPlaces, MergePlaces
<1>9. OthersStay(w) /\ KnowsTheWay(w) /\ Detaches(w)
  BY <1>2, <1>4, <1>5, <1>7 DEF OthersStay, KnowsTheWay, Detaches
<1>10. QED
  BY <1>5, <1>6, <1>8, <1>9, StepOfCall

LEMMA GuardStep ==
    ASSUME IInv, NEW w \in Callers, Guard(w), Observe(w)
    PROVE  IInv'
<1>1. UNCHANGED <<tip, head, rebase, slipped>> /\ call[w].pc = "guard" /\ ~Walking(w)
  BY DEF Guard, repo, Walking
<1>2. CASE ~OnStaging
  BY <1>1, <1>2, HeadStays DEF Guard, IInv, ShapeInv
<1>3. CASE OnStaging
  <2>1. Goto(w, "start")
    BY <1>3 DEF Guard
  <2>2. ShapeInv'
    BY <1>1, <2>1, GotoEffect DEF IInv, ShapeInv
  <2>3. ~Walking(w)' /\ w \notin moved
    BY <1>1, <2>1, GotoEffect DEF Walking, IInv, MovedInv
  <2>4. head \in Series /\ OthersStay(w)
    BY <1>3, <2>1, GotoEffect DEF OnStaging, OthersStay
  <2>5. StartsOnSeries(w)
    BY <1>1, <2>1, <2>4, GotoEffect
       DEF StartsOnSeries, OnSeries, OfSeries, SeriesPlaces, MergePlaces
  <2>6. KnowsTheWay(w) /\ Detaches(w)
    BY <1>1, <2>3, <2>4 DEF KnowsTheWay, Detaches
  <2>7. QED
    BY <1>1, <2>2, <2>4, <2>5, <2>6, StepOfCall
<1>4. QED
  BY <1>2, <1>3

\* The steps of the tools that write, stage, commit and record.
LEMMA PlainStep ==
    ASSUME IInv, NEW w \in Callers, Observe(w),
           Edit(w) \/ RecordBase(w) \/ AddAll(w) \/ UnsetBase(w)
    PROVE  IInv'
<1>1. UNCHANGED <<tip, head, rebase, slipped>> /\ ~Walking(w)
  BY DEF Edit, RecordBase, AddAll, UnsetBase, At, Asked, Walking
<1>2. Return(w) \/ (Goto(w, "commit") /\ Allowed(w, "commit") /\ call[w].job.tool = "commit")
  BY DEF Edit, RecordBase, AddAll, UnsetBase, At, Asked, Allowed, SeriesPlaces, MergePlaces
<1>3. DOMAIN tip' \subseteq Branches
  BY <1>1 DEF IInv, ShapeInv
<1>4. QED
  BY <1>1, <1>2, <1>3, HeadStays

\* The steps that move a branch along, with HEAD where it is: the branches there
\* are stay the same, or one is deleted.
LEMMA AdvanceKeeps ==
    ASSUME NEW c, Advance(c)
    PROVE  DOMAIN tip' = DOMAIN tip /\ head' = head
BY DEF Advance

LEMMA CommitPatchStep ==
    ASSUME IInv, NEW w \in Callers, Observe(w), CommitPatch(w)
    PROVE  IInv'
<1>1. DOMAIN tip' = DOMAIN tip /\ UNCHANGED <<head, rebase, slipped>>
  BY AdvanceKeeps DEF CommitPatch
<1>2. Return(w) /\ ~Walking(w) /\ DOMAIN tip' \subseteq Branches
  BY <1>1 DEF CommitPatch, At, Asked, Walking, IInv, ShapeInv
<1>3. QED
  BY <1>1, <1>2, HeadStays

LEMMA FixupStep ==
    ASSUME IInv, NEW w \in Callers, Observe(w), Fixup(w)
    PROVE  IInv'
<1>1. DOMAIN tip' = DOMAIN tip /\ UNCHANGED <<head, rebase, slipped>>
  BY AdvanceKeeps DEF Fixup
<1>2. ~Walking(w) /\ call[w].job.tool # "verify" /\ DOMAIN tip' \subseteq Branches
  BY <1>1 DEF Fixup, At, Asked, Walking, IInv, ShapeInv
<1>3. Return(w) \/ (Goto(w, "rebase") /\ Allowed(w, "rebase"))
  BY DEF Fixup, At, Asked, Allowed, SeriesPlaces, MergePlaces
<1>4. QED
  BY <1>1, <1>2, <1>3, HeadStays

LEMMA MergeStep ==
    ASSUME IInv, NEW w \in Callers, Observe(w), Merge(w)
    PROVE  IInv'
<1>1. DOMAIN tip' = DOMAIN tip /\ UNCHANGED <<head, rebase, slipped>>
  BY AdvanceKeeps DEF Merge
<1>2. ~Walking(w) /\ call[w].job.tool # "verify" /\ DOMAIN tip' \subseteq Branches
  BY <1>1 DEF Merge, At, Asked, Walking, IInv, ShapeInv
<1>3. Return(w) \/ (Goto(w, "delete") /\ Allowed(w, "delete"))
  BY DEF Merge, At, Asked, Allowed, SeriesPlaces, MergePlaces
<1>4. QED
  BY <1>1, <1>2, <1>3, HeadStays

LEMMA DeleteBranchStep ==
    ASSUME IInv, NEW w \in Callers, Observe(w), DeleteBranch(w)
    PROVE  IInv'
<1>1. DOMAIN tip' \subseteq DOMAIN tip
  BY DEF DeleteBranch
<1>2. /\ UNCHANGED <<head, rebase>> /\ (slipped => slipped')
      /\ Goto(w, "unset") /\ Allowed(w, "unset")
  BY DEF DeleteBranch, Allowed, SeriesPlaces, MergePlaces
<1>3. ~Walking(w) /\ call[w].job.tool # "verify" /\ DOMAIN tip' \subseteq Branches
  BY <1>1 DEF DeleteBranch, At, Asked, Walking, IInv, ShapeInv
<1>4. QED
  BY <1>2, <1>3, HeadStays

\* A call that sets out has a branch, a target or a list as well as a place.
SetsOut(w, places) ==
    /\ DOMAIN call' = Callers
    /\ \A v \in Callers : DOMAIN call'[v] = {"pc", "job", "from", "onto", "list"}
    /\ \A v \in Callers \ {w} : call'[v] = call[v]
    /\ call'[w].pc \in places /\ call'[w].job = call[w].job

LEMMA SetOut ==
    ASSUME IInv, NEW w \in Callers, Observe(w), UNCHANGED <<tip, head, rebase>>,
           slipped => slipped', ~Walking(w), StartsOnSeries(w),
           SetsOut(w, {"branch", "checkout", "fixup"})
    PROVE  IInv'
<1>1. ShapeInv'
  BY DEF IInv, ShapeInv, SetsOut
<1>2. KnowsTheWay(w) /\ OthersStay(w) /\ Detaches(w)
  BY DEF SetsOut, KnowsTheWay, OthersStay, Detaches, Walking
<1>3. QED
  BY <1>1, <1>2, StepOfCall

LEMMA StatusStep ==
    ASSUME IInv, NEW w \in Callers, Observe(w), Status(w)
    PROVE  IInv'
<1>1. UNCHANGED <<tip, head, rebase, slipped>> /\ ~Walking(w) /\ DOMAIN tip' \subseteq Branches
  BY DEF Status, repo, At, Asked, Walking, IInv, ShapeInv
<1>2. CASE Return(w)
  BY <1>1, <1>2, HeadStays
<1>3. CASE ~Return(w)
  <2>1. PICK x : call' = [call EXCEPT ![w].pc = "branch", ![w].onto = x]
    BY <1>3 DEF Status
  <2>2. SetsOut(w, {"branch", "checkout", "fixup"})
    BY <2>1 DEF SetsOut, IInv, ShapeInv
  <2>3. StartsOnSeries(w)
    BY <2>1, AwayFromSeries DEF SeriesPlaces, MergePlaces, IInv, ShapeInv
  <2>4. QED
    BY <1>1, <2>2, <2>3, SetOut
<1>4. QED
  BY <1>2, <1>3

LEMMA FindTargetStep ==
    ASSUME IInv, NEW w \in Callers, Observe(w), FindTarget(w)
    PROVE  IInv'
<1>1. /\ UNCHANGED <<tip, head, rebase>> /\ (slipped => slipped')
      /\ ~Walking(w) /\ call[w].pc = "start" /\ call[w].job.tool # "stage"
      /\ DOMAIN tip' \subseteq Branches
  BY DEF FindTarget, repo, At, Asked, Walking, IInv, ShapeInv
<1>2. CASE Return(w)
  BY <1>1, <1>2, HeadStays
<1>3. CASE ~Return(w)
  <2>1. PICK x : call' = [call EXCEPT ![w].pc = "checkout", ![w].from = head, ![w].onto = x]
    BY <1>3 DEF FindTarget
  <2>2. SetsOut(w, {"branch", "checkout", "fixup"})
    BY <2>1 DEF SetsOut, IInv, ShapeInv
  <2>3. StartsOnSeries(w)
    <3>1. w \notin moved => head \in Series
      BY <1>1 DEF IInv, StartInv, OnSeries, SeriesPlaces
    <3>2. call'[w].pc = "checkout" /\ call'[w].from = head
      BY <2>1 DEF IInv, ShapeInv
    <3>3. QED
      BY <3>1, <3>2 DEF StartsOnSeries, OnSeries, OfSeries, SeriesPlaces
  <2>4. QED
    BY <1>1, <2>2, <2>3, SetOut
<1>4. QED
  BY <1>2, <1>3

LEMMA FindPatchStep ==
    ASSUME IInv, NEW w \in Callers, Observe(w), FindPatch(w)
    PROVE  IInv'
<1>1. /\ UNCHANGED <<tip, head, rebase, slipped>>
      /\ ~Walking(w) /\ call[w].pc = "start" /\ call[w].job.tool # "stage"
      /\ DOMAIN tip' \subseteq Branches
  BY DEF FindPatch, At, Asked, Walking, IInv, ShapeInv
<1>2. CASE Return(w)
  BY <1>1, <1>2, HeadStays
<1>3. CASE ~Return(w)
  <2>1. PICK x, y : call' = [call EXCEPT ![w].pc = "fixup", ![w].onto = x, ![w].list = y]
    BY <1>3 DEF FindPatch
  <2>2. SetsOut(w, {"branch", "checkout", "fixup"})
    BY <2>1 DEF SetsOut, IInv, ShapeInv
  <2>3. StartsOnSeries(w)
    <3>1. w \notin moved => head \in Series
      BY <1>1 DEF IInv, StartInv, OnSeries, SeriesPlaces
    <3>2. call'[w].pc = "fixup" /\ head' = head
      BY <1>1, <2>1 DEF IInv, ShapeInv
    <3>3. QED
      BY <3>1, <3>2 DEF StartsOnSeries, OnSeries, OfSeries, MergePlaces
  <2>4. QED
    BY <1>1, <2>2, <2>3, SetOut
<1>4. QED
  BY <1>2, <1>3

\* A new series: HEAD goes to its branch.
LEMMA BranchStep ==
    ASSUME IInv, NEW w \in Callers, Observe(w), Branch(w)
    PROVE  IInv'
<1>1. /\ call[w].job.tool = "stage" /\ ~Walking(w) /\ UNCHANGED <<rebase, slipped>>
      /\ call[w].job.series \in Series
  BY DEF Branch, At, Asked, Walking, IInv, ShapeInv
<1>2. CASE UNCHANGED <<tip, head>> /\ Return(w)
  BY <1>1, <1>2, HeadStays DEF IInv, ShapeInv
<1>3. ASSUME NEW c, tip' = With(tip, call[w].job.series, c), head' = call[w].job.series,
             Goto(w, "record")
      PROVE  IInv'
  <2>1. DOMAIN tip' \subseteq Branches /\ head' \in Branches
    BY <1>1, <1>3, SeriesAreBranches DEF With, IInv, ShapeInv
  <2>2. head' # Detached
    BY <2>1, BranchesAreNamed
  <2>3. ShapeInv'
    BY <1>1, <1>3, <2>1, GotoEffect DEF IInv, ShapeInv
  <2>4. StartsOnSeries(w) /\ KnowsTheWay(w) /\ OthersStay(w) /\ Detaches(w)
    BY <1>1, <1>3, <2>2, GotoEffect, AwayFromSeries
       DEF KnowsTheWay, OthersStay, Detaches, Walking, SeriesPlaces, MergePlaces
  <2>5. QED
    BY <1>1, <2>3, <2>4, StepOfCall
<1>4. QED
  BY <1>2, <1>3 DEF Branch, Asked

LEMMA CheckoutEffect ==
    ASSUME IInv, NEW b, CheckoutBranch(b)
    PROVE  /\ head' \in Branches \cup {Detached}
           /\ b # Detached => head' # Detached
           /\ b = Detached => head' = head
<1>1. b \in Branches \cup {Detached} /\ head \in Branches \cup {Detached}
  BY DEF CheckoutBranch, Known, IInv, ShapeInv
<1>2. head' = IF b = Detached THEN head ELSE b
  BY DEF CheckoutBranch
<1>3. QED
  BY <1>1, <1>2

LEMMA CheckoutTargetStep ==
    ASSUME IInv, NEW w \in Callers, Observe(w), CheckoutTarget(w)
    PROVE  IInv'
<1>1. /\ ~Walking(w) /\ call[w].job.tool = "finalize" /\ Goto(w, "merge")
      /\ UNCHANGED <<tip, rebase>> /\ (slipped => slipped')
  BY DEF CheckoutTarget, At, Asked, Walking
<1>2. /\ head' \in Branches \cup {Detached}
      /\ slipped' \/ (head' = Detached => head = Detached)
  <2>1. CASE CheckoutFails(w, Onto(w)) /\ slipped' = TRUE
    BY <2>1 DEF CheckoutFails, IInv, ShapeInv
  <2>2. CASE CheckoutBranch(Onto(w))
    BY <2>2, CheckoutEffect
  <2>3. QED
    BY <2>1, <2>2 DEF CheckoutTarget
<1>3. ShapeInv'
  BY <1>1, <1>2, GotoEffect DEF IInv, ShapeInv
<1>4. KnowsTheWay(w) /\ OthersStay(w) /\ ~Walking(w)'
  BY <1>1, GotoEffect DEF KnowsTheWay, OthersStay, Walking
<1>5. Detaches(w)
  BY <1>1, <1>2 DEF Detaches
<1>6. StartsOnSeries(w)
  BY <1>1, GotoOnSeries DEF CheckoutTarget, At, Allowed, SeriesPlaces, MergePlaces
<1>7. QED
  BY <1>1, <1>3, <1>4, <1>5, <1>6, StepOfCall

-----------------------------------------------------------------------------
\* A verification: it sets out from a branch, unless HEAD was moved, ...
LEMMA ListSeriesStep ==
    ASSUME IInv, NEW w \in Callers, Observe(w), ListSeries(w)
    PROVE  IInv'
<1>1. /\ call[w].job.tool = "verify" /\ call[w].pc = "start" /\ ~Walking(w)
      /\ UNCHANGED <<tip, head, rebase>> /\ (slipped => slipped') /\ (w \in moved => slipped')
      /\ DOMAIN tip' \subseteq Branches
  BY DEF ListSeries, repo, At, Asked, Walking, IInv, ShapeInv
<1>2. CASE Return(w)
  BY <1>1, <1>2, HeadStays
<1>3. CASE ~Return(w)
  <2>1. PICK x : call' = [call EXCEPT ![w].pc = "walk", ![w].from = head, ![w].list = x]
    BY <1>3 DEF ListSeries
  <2>2. SetsOut(w, {"walk"}) /\ call'[w].from = head
    BY <2>1 DEF SetsOut, IInv, ShapeInv
  <2>3. ShapeInv'
    BY <1>1, <2>2 DEF IInv, ShapeInv, SetsOut
  <2>4. w \notin moved => head # Detached
    BY <1>1, SeriesAreBranches, BranchesAreNamed DEF IInv, StartInv, OnSeries, SeriesPlaces
  <2>5. KnowsTheWay(w)
    BY <1>1, <2>2, <2>4 DEF KnowsTheWay
  <2>6. StartsOnSeries(w) /\ OthersStay(w) /\ Detaches(w)
    BY <1>1, <2>2, AwayFromSeries DEF OthersStay, Detaches, SetsOut, SeriesPlaces, MergePlaces
  <2>7. QED
    BY <1>1, <2>3, <2>5, <2>6, StepOfCall
<1>4. QED
  BY <1>2, <1>3

\* ... walks, which is what detaches HEAD, ...
LEMMA WalkStep ==
    ASSUME IInv, NEW w \in Callers, Observe(w), CheckoutPatch(w) \/ Test(w)
    PROVE  IInv'
<1>1. /\ Walking(w) /\ UNCHANGED <<tip, rebase, slipped>>
      /\ head' \in Branches \cup {Detached}
  BY DEF CheckoutPatch, Test, At, Asked, Walking, IInv, ShapeInv
<1>2. SetsOut(w, {"walk", "test"}) /\ call'[w].from = call[w].from
  <2>1. CASE Test(w)
    <3>1. Goto(w, "walk")
      BY <2>1 DEF Test
    <3>2. QED
      BY <3>1, GotoEffect DEF SetsOut
  <2>2. CASE CheckoutPatch(w)
    <3>1. call[w].pc = "walk"
      BY <2>2 DEF CheckoutPatch, At
    <3>2. \/ call' = [call EXCEPT ![w].list = Tail(@), ![w].pc = "test"]
          \/ call' = [call EXCEPT ![w].list = Tail(@)]
      BY <2>2 DEF CheckoutPatch
    <3>3. QED
      BY <3>1, <3>2 DEF SetsOut, IInv, ShapeInv
  <2>3. QED
    BY <2>1, <2>2
<1>3. ShapeInv'
  BY <1>1, <1>2 DEF IInv, ShapeInv, SetsOut
<1>4. Walking(w)'
  BY <1>1, <1>2 DEF Walking, SetsOut
<1>5. KnowsTheWay(w)
  BY <1>1, <1>2 DEF KnowsTheWay, IInv, ReturnInv
<1>6. StartsOnSeries(w) /\ OthersStay(w) /\ Detaches(w)
  BY <1>2, <1>4, AwayFromSeries DEF OthersStay, Detaches, SetsOut, SeriesPlaces, MergePlaces
<1>7. QED
  BY <1>1, <1>3, <1>5, <1>6, StepOfCall

\* ... and goes back.
LEMMA ReturnToBranchStep ==
    ASSUME IInv, NEW w \in Callers, Observe(w), ReturnToBranch(w)
    PROVE  IInv'
<1>1. /\ Walking(w) /\ Return(w) /\ UNCHANGED <<tip, rebase>> /\ (slipped => slipped')
  BY DEF ReturnToBranch, At, Asked, Walking
<1>2. head' \in Branches \cup {Detached} /\ (slipped' \/ head' # Detached)
  <2>1. CASE CheckoutFails(w, OriginalBranch(w)) /\ slipped' = TRUE
    BY <2>1 DEF CheckoutFails, IInv, ShapeInv
  <2>2. CASE CheckoutBranch(OriginalBranch(w)) /\ UNCHANGED slipped
    <3>1. call[w].from # Detached \/ slipped
      BY <1>1 DEF IInv, ReturnInv
    <3>2. QED
      BY <2>2, <3>1, CheckoutEffect DEF OriginalBranch, From
  <2>3. QED
    BY <2>1, <2>2 DEF ReturnToBranch
<1>3. ShapeInv'
  BY <1>1, <1>2, ReturnEffect DEF IInv, ShapeInv
<1>4. StartsOnSeries(w) /\ KnowsTheWay(w) /\ OthersStay(w)
  BY <1>1, ReturnEffect, ReturnOnSeries DEF KnowsTheWay, OthersStay, Walking
<1>5. Detaches(w)
  BY <1>2 DEF Detaches
<1>6. QED
  BY <1>1, <1>3, <1>4, <1>5, StepOfCall

\* A rebase that stops remembers the branch HEAD was on.
LEMMA RebaseStep ==
    ASSUME IInv, NEW w \in Callers, Observe(w), Rebase(w)
    PROVE  IInv'
<1>1. /\ ~Walking(w) /\ Return(w) /\ UNCHANGED slipped
  BY DEF Rebase, At, Asked, Walking
<1>2. CASE Advance(Rebased(Onto(w))) /\ UNCHANGED rebase
  <2>1. DOMAIN tip' \subseteq Branches /\ UNCHANGED <<head, rebase>>
    BY <1>2, AdvanceKeeps DEF IInv, ShapeInv
  <2>2. QED
    BY <1>1, <2>1, HeadStays
<1>3. CASE UNCHANGED <<tip, head, rebase>>
  <2>1. DOMAIN tip' \subseteq Branches
    BY <1>3 DEF IInv, ShapeInv
  <2>2. QED
    BY <1>1, <1>3, <2>1, HeadStays
<1>4. CASE head # Detached /\ rebase' = head /\ head' = Detached /\ UNCHANGED tip
  <2>1. rebase' \in Branches /\ rebase' # None
    BY <1>4, BranchesAreNamed DEF IInv, ShapeInv
  <2>2. ShapeInv'
    BY <1>1, <1>4, <2>1, ReturnEffect DEF IInv, ShapeInv
  <2>3. StartsOnSeries(w) /\ KnowsTheWay(w) /\ OthersStay(w)
    BY <1>1, ReturnEffect, ReturnOnSeries DEF KnowsTheWay, OthersStay, Walking
  <2>4. Detaches(w)
    BY <2>1 DEF Detaches
  <2>5. QED
    BY <1>1, <2>2, <2>3, <2>4, StepOfCall
<1>5. QED
  BY <1>2, <1>3, <1>4 DEF Rebase

-----------------------------------------------------------------------------
\* The user, while no call is at work.
LEMMA UserStep ==
    ASSUME IInv, UNCHANGED <<call, moved, slipped>>, DOMAIN tip' \subseteq Branches,
           head' \in Branches \cup {Detached}, rebase' \in Branches \cup {None},
           AllIdle, head' = Detached => head = Detached /\ rebase = None
    PROVE  IInv'
<1>1. \A w \in Callers : call[w].pc = "idle"
  BY DEF AllIdle, Idle
<1>2. \A w \in Callers : ~Walking(w) /\ ~Walking(w)'
  BY <1>1 DEF Walking
<1>3. ShapeInv' /\ MovedInv'
  BY DEF IInv, ShapeInv, MovedInv
<1>4. StartInv' /\ ReturnInv'
  BY <1>1, <1>2 DEF StartInv, OnSeries, OfSeries, SeriesPlaces, MergePlaces, ReturnInv
<1>5. HeadInv'
  BY <1>2 DEF IInv, HeadInv
<1>6. QED
  BY <1>3, <1>4, <1>5 DEF IInv

LEMMA UserSteps ==
    ASSUME IInv, (\E b \in Branches : UserCheckout(b)) \/ UserCommit \/ UserCleans
    PROVE  IInv'
<1>1. ASSUME NEW b \in Branches, UserCheckout(b)
      PROVE  IInv'
  <2>1. UNCHANGED <<call, moved, slipped, tip, rebase>> /\ AllIdle
    BY <1>1 DEF UserCheckout, seen
  <2>2. head' \in Branches /\ head' # Detached
    BY <1>1, BranchesAreNamed DEF UserCheckout, CheckoutBranch
  <2>3. QED
    BY <2>1, <2>2, UserStep DEF IInv, ShapeInv
<1>2. CASE UserCommit
  <2>1. UNCHANGED <<call, moved, slipped, rebase>> /\ AllIdle /\ head \in Branches
    BY <1>2 DEF UserCommit, seen, Branches
  <2>2. DOMAIN tip' = DOMAIN tip /\ head' = head /\ head # Detached
    BY <1>2, <2>1, AdvanceKeeps, BranchesAreNamed DEF UserCommit
  <2>3. QED
    BY <2>1, <2>2, UserStep DEF IInv, ShapeInv
<1>3. CASE UserCleans
  <2>1. UNCHANGED <<call, moved, slipped, tip>> /\ AllIdle /\ rebase' = None
        /\ head' = IF rebase = None THEN head ELSE rebase
    BY <1>3 DEF UserCleans, seen
  <2>2. rebase # None => rebase \in Branches /\ rebase # Detached
    BY BranchesAreNamed DEF IInv, ShapeInv
  <2>3. head' \in Branches \cup {Detached} /\ (head' = Detached => head = Detached /\ rebase = None)
    BY <2>1, <2>2 DEF IInv, ShapeInv
  <2>4. QED
    BY <2>1, <2>3, UserStep DEF IInv, ShapeInv
<1>4. QED
  BY <1>1, <1>2, <1>3

LEMMA SameCalls ==
    ASSUME IInv, UNCHANGED <<call, moved, slipped, tip, head, rebase>>
    PROVE  IInv'
BY DEF IInv, ShapeInv, MovedInv, StartInv, OnSeries, OfSeries, ReturnInv, HeadInv, Walking

LEMMA NextStep == IInv /\ [Next]_vars => IInv'
<1> SUFFICES ASSUME IInv, [Next]_vars PROVE IInv'
  OBVIOUS
<1>1. ASSUME NEW w \in Callers, Step(w), Observe(w)
      PROVE  IInv'
  <2>1. ASSUME NEW j \in Job, Call(w, j)
        PROVE  IInv'
    BY <1>1, <2>1, CallStep
  <2>2. CASE \/ Guard(w) \/ Edit(w) \/ Status(w) \/ Branch(w) \/ RecordBase(w)
             \/ AddAll(w) \/ CommitPatch(w)
    BY <1>1, <2>2, GuardStep, PlainStep, StatusStep, BranchStep, CommitPatchStep
  <2>3. CASE \/ FindTarget(w) \/ CheckoutTarget(w) \/ Merge(w) \/ DeleteBranch(w) \/ UnsetBase(w)
    BY <1>1, <2>3, FindTargetStep, CheckoutTargetStep, MergeStep, DeleteBranchStep, PlainStep
  <2>4. CASE \/ ListSeries(w) \/ CheckoutPatch(w) \/ Test(w) \/ ReturnToBranch(w)
             \/ FindPatch(w) \/ Fixup(w) \/ Rebase(w)
    BY <1>1, <2>4, ListSeriesStep, WalkStep, ReturnToBranchStep, FindPatchStep, FixupStep, RebaseStep
  <2>5. QED
    BY <1>1, <2>1, <2>2, <2>3, <2>4 DEF Step
<1>2. CASE (\E b \in Branches : UserCheckout(b)) \/ UserCommit \/ UserCleans
  BY <1>2, UserSteps
<1>3. CASE Cancel \/ UNCHANGED vars
  BY <1>3, SameCalls DEF Cancel, vars, repo, seen
<1>4. QED
  BY <1>1, <1>2, <1>3 DEF Next

THEOREM Invariance == Spec => []IInv
BY InitIInv, NextStep, PTL DEF Spec

\* Between calls HEAD is on a branch, whatever was verified, finalized or rerolled
\* side by side, unless a rebase stopped or a failure was overlooked.
THEOREM HeadComesHome == Spec => []AtHome
<1>1. IInv => AtHome
  BY DEF IInv, HeadInv, AtHome, AllIdle, Idle, Walking
<1>2. QED
  BY <1>1, Invariance, PTL

-----------------------------------------------------------------------------
\* What a step may do to a branch of the user: nothing, or put it where a whole
\* series is that goes on from it.
Stays(b) == b \in DOMAIN tip' /\ tip'[b] = tip[b]
Merged(b) ==
    \E s \in Series \cap DOMAIN tip :
        tip' = [tip EXCEPT ![b] = tip[s]] /\ IsPrefix(tip[b], tip[s])

LEMMA SeriesAreNotBases == ASSUME NEW b \in Bases PROVE b \notin Series
BY BranchesAssumption

\* HEAD on a series moves that series only.
LEMMA AdvanceOnSeries ==
    ASSUME NEW c, Advance(c), head \in Series, NEW b \in Bases \cap DOMAIN tip
    PROVE  Stays(b)
<1>1. b # head
  BY SeriesAreNotBases
<1>2. QED
  BY <1>1 DEF Advance, Stays

\* A call under which HEAD was moved changes no branch, or the step is stale.
LEMMA MovedCalls ==
    ASSUME NEW w \in Callers, w \in moved, Observe(w), NEW b \in DOMAIN tip
    PROVE  stale' \/ Stays(b)
<1>1. CASE tip' = tip
  BY <1>1 DEF Stays
<1>2. CASE tip' # tip
  BY <1>2 DEF Observe
<1>3. QED
  BY <1>1, <1>2

LEMMA MergeMoves ==
    ASSUME IInv, NEW w \in Callers, Merge(w), w \notin moved, NEW b \in Bases \cap DOMAIN tip
    PROVE  Stays(b) \/ Merged(b)
<1>1. From(w) \in Series
  BY DEF Merge, At, IInv, StartInv, OfSeries, MergePlaces, From
<1>2. From(w) # Detached
  BY <1>1, SeriesAreBranches, BranchesAreNamed
<1>3. CASE UNCHANGED tip
  BY <1>3 DEF Stays
<1>4. ASSUME Advance(Cur)
      PROVE  Stays(b)
  BY <1>4 DEF Advance, Cur, Stays
<1>5. ASSUME Advance(CommitOf(From(w))), Known(From(w)), IsPrefix(Cur, CommitOf(From(w)))
      PROVE  Stays(b) \/ Merged(b)
  <2>1. From(w) \in Series \cap DOMAIN tip /\ CommitOf(From(w)) = tip[From(w)]
    BY <1>1, <1>2, <1>5 DEF Known, CommitOf
  <2>2. CASE b = head /\ head # Detached
    <3>1. tip' = [tip EXCEPT ![b] = tip[From(w)]]
      BY <1>5, <2>1, <2>2 DEF Advance
    <3>2. IsPrefix(tip[b], tip[From(w)])
      BY <1>5, <2>1, <2>2 DEF Cur
    <3>3. QED
      BY <2>1, <3>1, <3>2 DEF Merged
  <2>3. CASE b # head \/ head = Detached
    BY <1>5, <2>3 DEF Advance, Stays
  <2>4. QED
    BY <2>2, <2>3
<1>6. \/ UNCHANGED tip
      \/ Advance(Cur)
      \/ Advance(CommitOf(From(w))) /\ Known(From(w)) /\ IsPrefix(Cur, CommitOf(From(w)))
  BY DEF Merge, FastForward
<1>7. QED
  BY <1>3, <1>4, <1>5, <1>6

LEMMA StepMoves ==
    ASSUME IInv, NEW w \in Callers, Step(w), Observe(w), NEW b \in Bases \cap DOMAIN tip
    PROVE  stale' \/ Stays(b) \/ Merged(b)
<1>1. CASE w \in moved
  BY <1>1, MovedCalls
<1>2. CASE UNCHANGED tip
  BY <1>2 DEF Stays
<1>3. CASE Branch(w)
  <2>1. call[w].job.series \in Series
    BY <1>3 DEF Branch, At, Asked, IInv, ShapeInv
  <2>2. b # call[w].job.series
    BY <2>1, SeriesAreNotBases
  <2>3. QED
    BY <1>3, <2>2 DEF Branch, Asked, With, Stays
<1>4. CASE w \notin moved /\ (CommitPatch(w) \/ Fixup(w) \/ Rebase(w))
  <2>1. head \in Series
    BY <1>4 DEF CommitPatch, Fixup, Rebase, At, Asked, IInv, StartInv, OnSeries, SeriesPlaces
  <2>2. UNCHANGED tip \/ \E c : Advance(c)
    BY <1>4 DEF CommitPatch, Fixup, Rebase
  <2>3. QED
    BY <1>2, <2>1, <2>2, AdvanceOnSeries
<1>5. CASE w \notin moved /\ Merge(w)
  BY <1>5, MergeMoves
<1>6. CASE w \notin moved /\ DeleteBranch(w)
  <2>1. From(w) \in Series
    BY <1>6 DEF DeleteBranch, At, IInv, StartInv, OfSeries, MergePlaces, From
  <2>2. b # From(w)
    BY <2>1, SeriesAreNotBases
  <2>3. QED
    BY <1>6, <2>2 DEF DeleteBranch, Stays
<1>7. \/ UNCHANGED tip \/ Branch(w) \/ CommitPatch(w) \/ Fixup(w) \/ Rebase(w)
      \/ Merge(w) \/ DeleteBranch(w)
  BY DEF Step, Call, Guard, Edit, Status, RecordBase, AddAll, FindPatch, FindTarget,
         CheckoutTarget, UnsetBase, ListSeries, CheckoutPatch, Test, ReturnToBranch, repo
<1>8. QED
  BY <1>1, <1>2, <1>3, <1>4, <1>5, <1>6, <1>7

\* The user's branches are written to by the user, and by git_finalize_series, which
\* puts them where a whole series is, unless a call acts after HEAD was moved
\* from under it: the guard of CheckStagingBranch is enough for all six tools.
THEOREM BasesAreTheUsers == Spec => BaseMovesByMerge
<1> DEFINE Moves == \A b \in Bases \cap DOMAIN tip :
         \/ stale' \/ AllIdle
         \/ b \in DOMAIN tip' /\ tip'[b] = tip[b]
         \/ \E s \in Series \cap DOMAIN tip :
              tip' = [tip EXCEPT ![b] = tip[s]] /\ IsPrefix(tip[b], tip[s])
<1>1. IInv /\ [Next]_vars => [Moves]_vars
  <2> SUFFICES ASSUME IInv, Next, NEW b \in Bases \cap DOMAIN tip
               PROVE  stale' \/ AllIdle \/ Stays(b) \/ Merged(b)
    BY DEF Stays, Merged
  <2>1. ASSUME NEW w \in Callers, Step(w), Observe(w)
        PROVE  stale' \/ Stays(b) \/ Merged(b)
    BY <2>1, StepMoves
  <2>2. CASE Cancel
    BY <2>2 DEF Cancel, repo, Stays
  <2>3. CASE (\E c \in Branches : UserCheckout(c)) \/ UserCommit \/ UserCleans
    BY <2>3 DEF UserCheckout, UserCommit, UserCleans
  <2>4. QED
    BY <2>1, <2>2, <2>3 DEF Next
<1>2. QED
  BY <1>1, Invariance, PTL DEF Spec, BaseMovesByMerge

-----------------------------------------------------------------------------
Rank(I, i)   == Cardinality({j \in I : j <= i})
Ranked(I, k) == CHOOSE i \in I : Rank(I, i) = k

\* A number of a finite set has a rank, and a greater one a greater rank.
LEMMA RankLess ==
    ASSUME NEW I \in SUBSET Int, IsFiniteSet(I), NEW i \in I
    PROVE  /\ Rank(I, i) \in 1..Cardinality(I)
           /\ \A j \in I : i < j => Rank(I, i) < Rank(I, j)
<1> DEFINE Upto(k) == {j \in I : j <= k}
<1>1. Cardinality(I) \in Nat
    BY FS_CardinalityType
<1>2. \A k \in I : IsFiniteSet(Upto(k)) /\ Cardinality(Upto(k)) \in Nat
                   /\ Cardinality(Upto(k)) <= Cardinality(I)
    BY FS_Subset, FS_CardinalityType
<1>3. \A k \in I : k \in Upto(k)
    OBVIOUS
<1>4. \A k \in I : Cardinality(Upto(k)) # 0
    BY <1>2, <1>3, FS_EmptySet
<1>5. ASSUME NEW j \in I, i < j
      PROVE  Cardinality(Upto(i)) < Cardinality(Upto(j))
    <2>1. \A k \in I : k <= i => k <= j
        BY <1>5
    <2>2. ~(j <= i)
        BY <1>5
    <2>3. Upto(i) \subseteq Upto(j) /\ j \notin Upto(i)
        BY <2>1, <2>2
    <2> HIDE DEF Upto
    <2>4. Cardinality(Upto(i)) <= Cardinality(Upto(j)) /\ Cardinality(Upto(i)) # Cardinality(Upto(j))
        BY <1>2, <1>3, <2>3, FS_Subset
    <2> QED BY <1>2, <2>4
<1> HIDE DEF Upto
<1> QED BY <1>1, <1>2, <1>4, <1>5 DEF Rank, Upto

\* The ranks of a finite set of numbers are 1 .. its cardinality, in their order.
LEMMA Ranks ==
    ASSUME NEW I \in SUBSET Int, IsFiniteSet(I)
    PROVE  /\ Cardinality(I) \in Nat
           /\ \A i \in I : Rank(I, i) \in 1..Cardinality(I) /\ Ranked(I, Rank(I, i)) = i
           /\ \A i, j \in I : i < j <=> Rank(I, i) < Rank(I, j)
           /\ \A k \in 1..Cardinality(I) : Ranked(I, k) \in I /\ Rank(I, Ranked(I, k)) = k
<1> DEFINE f == [i \in I |-> Rank(I, i)]
<1>1. Cardinality(I) \in Nat
    BY FS_CardinalityType
<1>2. \A i \in I : Rank(I, i) \in 1..Cardinality(I)
    BY RankLess
<1>3. ASSUME NEW i \in I, NEW j \in I
      PROVE  /\ i < j <=> Rank(I, i) < Rank(I, j)
             /\ Rank(I, i) = Rank(I, j) => i = j
    <2>1. /\ i < j => Rank(I, i) < Rank(I, j)
          /\ j < i => Rank(I, j) < Rank(I, i)
        BY RankLess
    <2>2. i \in Int /\ j \in Int /\ Rank(I, i) \in Int /\ Rank(I, j) \in Int
        BY <1>2
    <2> QED BY <2>1, <2>2
<1>4. f \in Surjection(I, 1..Cardinality(I))
    <2>1. f \in Injection(I, 1..Cardinality(I))
        BY <1>2, <1>3 DEF Injection, IsInjective
    <2>2. IsFiniteSet(1..Cardinality(I)) /\ Cardinality(1..Cardinality(I)) = Cardinality(I)
        BY <1>1, FS_Interval
    <2> QED BY <2>1, <2>2, FS_Injection
<1>5. \A k \in 1..Cardinality(I) : \E i \in I : Rank(I, i) = k
    BY <1>4 DEF Surjection
<1>6. \A k \in 1..Cardinality(I) : Ranked(I, k) \in I /\ Rank(I, Ranked(I, k)) = k
    BY <1>5 DEF Ranked
<1>7. \A i \in I : Ranked(I, Rank(I, i)) = i
    BY <1>2, <1>3, <1>6
<1> QED BY <1>1, <1>2, <1>3, <1>6, <1>7

\* A patch, whatever its number is and however often it was amended.
AnyPatch == [id : Nat, rev : Nat, fix : BOOLEAN]

\* Kept keeps what is at the places.
LEMMA KeptFacts ==
    ASSUME NEW S, NEW list \in Seq(S), NEW I \in SUBSET (1 .. Len(list))
    PROVE  /\ Kept(list, I) \in Seq(S)
           /\ ToSet(Kept(list, I)) = {list[i] : i \in I}
<1> DEFINE n == Cardinality(I)
           kept == Kept(list, I)
<1>1. IsFiniteSet(I) /\ I \in SUBSET Int
  <2>1. Len(list) \in Nat
    BY LenProperties
  <2>2. IsFiniteSet(1 .. Len(list)) /\ I \in SUBSET Int
    BY <2>1, FS_Interval
  <2>3. QED
    BY <2>2, FS_Subset
<1>2. /\ n \in Nat
      /\ \A i \in I : Rank(I, i) \in 1 .. n /\ Ranked(I, Rank(I, i)) = i
      /\ \A k \in 1 .. n : Ranked(I, k) \in I
  BY <1>1, Ranks
<1>3. kept = [k \in 1 .. n |-> list[Ranked(I, k)]]
  BY DEF Kept, Rank, Ranked
<1>4. \A i \in I : list[i] \in S
  BY ElementOfSeq
<1> HIDE DEF n, kept
<1>5. kept \in Seq(S)
  <2>1. \A k \in 1 .. n : list[Ranked(I, k)] \in S
    BY <1>2, <1>4
  <2>2. QED
    BY <1>2, <1>3, <2>1, IsASeq
<1>6. ToSet(kept) = {list[i] : i \in I}
  BY <1>2, <1>3 DEF ToSet
<1>7. QED
  BY <1>5, <1>6 DEF kept

\* Sequences that agree up to the end of the first.
LEMMA PrefixIff ==
    ASSUME NEW S, NEW c \in Seq(S), NEW d \in Seq(S)
    PROVE  IsPrefix(c, d) <=> Len(c) <= Len(d) /\ \A i \in 1 .. Len(c) : c[i] = d[i]
<1>1. Len(c) \in Nat /\ Len(d) \in Nat /\ \A i \in 1 .. Len(c) : c[i] \in S
  BY LenProperties, ElementOfSeq
<1>2. SUFFICES ASSUME Len(c) <= Len(d)
               PROVE  SubSeq(c, 1, Len(c)) = SubSeq(d, 1, Len(c)) <=> \A i \in 1 .. Len(c) : c[i] = d[i]
  BY DEF IsPrefix
<1>3. SubSeq(c, 1, Len(c)) = c
  BY SubSeqFull
<1>4. \A i \in 1 .. Len(c) : d[i] \in S
  <2>1. \A i \in 1 .. Len(d) : d[i] \in S
    BY ElementOfSeq
  <2>2. QED
    BY <1>1, <1>2, <2>1
<1>5. /\ SubSeq(d, 1, Len(c)) \in Seq(S) /\ Len(SubSeq(d, 1, Len(c))) = Len(c)
      /\ \A i \in 1 .. Len(c) : SubSeq(d, 1, Len(c))[i] = d[i]
  BY <1>1, <1>4, SubSeqProperties
<1>6. QED
  BY <1>3, <1>5, SeqEqual

LEMMA PrefixOrder ==
    ASSUME NEW S, NEW c \in Seq(S), NEW d \in Seq(S), NEW e \in Seq(S)
    PROVE  IsPrefix(c, c) /\ (IsPrefix(c, d) /\ IsPrefix(d, e) => IsPrefix(c, e))
<1>1. Len(c) \in Nat /\ Len(d) \in Nat /\ Len(e) \in Nat
  BY LenProperties
<1>2. QED
  BY <1>1, PrefixIff

\* What c shares with d: as many patches as the number says are the same.
LEMMA SharedFacts ==
    ASSUME NEW S, NEW c \in Seq(S), NEW d \in Seq(S)
    PROVE  /\ Shared(c, d) \in 0 .. Len(c)
           /\ \A i \in 1 .. Shared(c, d) : i \in 1 .. Len(d) /\ c[i] = d[i]
<1> DEFINE I == {i \in 1 .. Len(c) : IsPrefix(SubSeq(c, 1, i), d)}
           n == Cardinality(I)
<1>1. Len(c) \in Nat /\ Len(d) \in Nat
  BY LenProperties
<1>2. \A i \in 1 .. Len(c) : /\ SubSeq(c, 1, i) \in Seq(S) /\ Len(SubSeq(c, 1, i)) = i
                             /\ \A j \in 1 .. i : SubSeq(c, 1, i)[j] = c[j]
  <2> TAKE i \in 1 .. Len(c)
  <2>1. \A j \in 1 .. Len(c) : c[j] \in S
    BY ElementOfSeq
  <2>2. i \in Int /\ 1 <= i /\ \A j \in 1 .. i : c[j] \in S
    BY <1>1, <2>1
  <2>3. QED
    BY <2>2, SubSeqProperties
<1>3. \A i \in 1 .. Len(c) : i \in I <=> i <= Len(d) /\ \A j \in 1 .. i : c[j] = d[j]
  <2> TAKE i \in 1 .. Len(c)
  <2> DEFINE s == SubSeq(c, 1, i)
  <2>1. s \in Seq(S) /\ Len(s) = i /\ \A j \in 1 .. i : s[j] = c[j]
    BY <1>2
  <2>2. i \in I <=> IsPrefix(s, d)
    OBVIOUS
  <2> HIDE DEF I, n, s
  <2>3. IsPrefix(s, d) <=> Len(s) <= Len(d) /\ \A j \in 1 .. Len(s) : s[j] = d[j]
    BY <2>1, PrefixIff
  <2>4. QED
    BY <2>1, <2>2, <2>3
<1> HIDE DEF I
<1>4. IsFiniteSet(1 .. Len(c)) /\ Cardinality(1 .. Len(c)) = Len(c)
  <2> DEFINE top == Len(c)
  <2>1. top \in Nat
    BY <1>1
  <2> HIDE DEF top
  <2>2. IsFiniteSet(1 .. top) /\ Cardinality(1 .. top) = top
    BY <2>1, FS_Interval
  <2>3. QED
    BY <2>2 DEF top
<1>5. n \in 0 .. Len(c)
  <2>1. IsFiniteSet(I) /\ n <= Len(c)
    BY <1>4, FS_Subset DEF I
  <2>2. QED
    BY <1>1, <2>1, FS_CardinalityType
<1>6. ASSUME NEW i \in 1 .. Len(c), i <= n
      PROVE  i \in I
  <2>1. SUFFICES ASSUME i \notin I PROVE FALSE
    OBVIOUS
  <2>2. I \subseteq 1 .. (i - 1)
    <3> SUFFICES ASSUME NEW k \in 1 .. Len(c), k \in I, ~(k < i) PROVE FALSE
      BY <1>1 DEF I
    <3>1. k <= Len(d) /\ \A j \in 1 .. k : c[j] = d[j]
      BY <1>3
    <3>2. i <= Len(d) /\ \A j \in 1 .. i : c[j] = d[j]
      BY <1>1, <3>1
    <3>3. QED
      BY <1>3, <2>1, <3>2
  <2>3. IsFiniteSet(1 .. (i - 1)) /\ Cardinality(1 .. (i - 1)) = i - 1
    BY FS_Interval
  <2>4. n <= i - 1
    BY <2>2, <2>3, FS_Subset
  <2>5. QED
    BY <1>5, <1>6, <2>4
<1>7. \A i \in 1 .. n : i \in 1 .. Len(d) /\ c[i] = d[i]
  <2> TAKE i \in 1 .. n
  <2>1. i \in 1 .. Len(c) /\ i <= n
    BY <1>1, <1>5
  <2>2. i \in I
    BY <1>6, <2>1
  <2>3. QED
    BY <1>3, <2>1, <2>2
<1>8. Shared(c, d) = n
  BY DEF Shared, I
<1> HIDE DEF n
<1>9. QED
  BY <1>5, <1>7, <1>8

\* The ids of a sequence of patches.
LEMMA IdsFacts ==
    ASSUME NEW c \in Seq(AnyPatch)
    PROVE  Ids(c) = {c[i].id : i \in 1 .. Len(c)}
BY LenProperties DEF Ids, ToSet

LEMMA ConcatIds ==
    ASSUME NEW c \in Seq(AnyPatch), NEW d \in Seq(AnyPatch)
    PROVE  Ids(c \o d) = Ids(c) \cup Ids(d)
<1>1. Range(c \o d) = Range(c) \cup Range(d)
  BY RangeConcatenation
<1>2. ToSet(c \o d) = ToSet(c) \cup ToSet(d)
  BY <1>1 DEF Range, ToSet
<1>3. QED
  BY <1>2 DEF Ids

LEMMA AppendIds ==
    ASSUME NEW c \in Seq(AnyPatch), NEW p \in AnyPatch
    PROVE  Append(c, p) \in Seq(AnyPatch) /\ Ids(Append(c, p)) = Ids(c) \cup {p.id}
<1>1. Append(c, p) = c \o <<p>> /\ <<p>> \in Seq(AnyPatch) /\ Append(c, p) \in Seq(AnyPatch)
  BY AppendIsConcat, AppendProperties
<1>2. Ids(<<p>>) = {p.id}
  BY DEF Ids, ToSet
<1>3. QED
  BY <1>1, <1>2, ConcatIds

LEMMA PrefixIds ==
    ASSUME NEW c \in Seq(AnyPatch), NEW d \in Seq(AnyPatch), IsPrefix(c, d)
    PROVE  Ids(c) \subseteq Ids(d)
<1>1. Len(c) \in Nat /\ Len(d) \in Nat /\ Len(c) <= Len(d) /\ \A i \in 1 .. Len(c) : c[i] = d[i]
  BY PrefixIff, LenProperties
<1>2. \A i \in 1 .. Len(c) : i \in 1 .. Len(d)
  BY <1>1
<1>3. QED
  BY <1>1, <1>2, IdsFacts

\* An autosquash keeps what does not only amend another patch, as amended.
Amends(part, i, j) == part[i].fix /\ ~part[j].fix /\ part[i].id = part[j].id
Amended(part, j) ==
    [part[j] EXCEPT !.rev = @ + Cardinality({i \in DOMAIN part : Amends(part, i, j)})]
AllAmended(part) == [j \in 1 .. Len(part) |-> Amended(part, j)]
Staying(part) == {i \in 1 .. Len(part) : ~\E j \in 1 .. Len(part) : Amends(part, i, j)}

LEMMA SquashIs ==
    ASSUME NEW part \in Seq(AnyPatch)
    PROVE  /\ Squash(part) = Kept(AllAmended(part), Staying(part))
           /\ AllAmended(part) \in Seq(AnyPatch) /\ Len(AllAmended(part)) = Len(part)
           /\ \A j \in 1 .. Len(part) : /\ AllAmended(part)[j].id = part[j].id
                                       /\ AllAmended(part)[j].fix = part[j].fix
           /\ Staying(part) \in SUBSET (1 .. Len(part))
<1> DEFINE D == 1 .. Len(part)
<1>1. Len(part) \in Nat /\ DOMAIN part = D /\ \A j \in D : part[j] \in AnyPatch
  BY LenProperties, ElementOfSeq
<1>2. Squash(part) = Kept(AllAmended(part), Staying(part))
  BY <1>1 DEF Squash, AllAmended, Amended, Amends, Staying
<1>3. \A j \in D : /\ Amended(part, j) \in AnyPatch
                  /\ Amended(part, j).id = part[j].id /\ Amended(part, j).fix = part[j].fix
  <2> TAKE j \in D
  <2> DEFINE A == {i \in D : Amends(part, i, j)}
  <2>1. Cardinality(A) \in Nat
    <3>1. IsFiniteSet(D)
      BY <1>1, FS_Interval
    <3>2. IsFiniteSet(A)
      BY <3>1, FS_Subset
    <3>3. QED
      BY <3>2, FS_CardinalityType
  <2>2. Amended(part, j) = [part[j] EXCEPT !.rev = @ + Cardinality(A)]
    BY <1>1 DEF Amended
  <2> DEFINE p == part[j]
             n == Cardinality(A)
  <2>3. p \in AnyPatch /\ n \in Nat /\ Amended(part, j) = [p EXCEPT !.rev = @ + n]
    BY <1>1, <2>1, <2>2
  <2> HIDE DEF A, p, n
  <2>4. PICK i \in Nat, r \in Nat, f \in BOOLEAN : p = [id |-> i, rev |-> r, fix |-> f]
    BY <2>3 DEF AnyPatch
  <2>5. Amended(part, j) = [id |-> i, rev |-> r + n, fix |-> f] /\ r + n \in Nat
    BY <2>3, <2>4
  <2>6. Amended(part, j) \in AnyPatch
    BY <2>5 DEF AnyPatch
  <2>7. Amended(part, j).id = p.id /\ Amended(part, j).fix = p.fix
    BY <2>4, <2>5
  <2>8. QED
    BY <2>6, <2>7 DEF p
<1>4. AllAmended(part) \in Seq(AnyPatch) /\ Len(AllAmended(part)) = Len(part)
  <2>1. AllAmended(part) \in Seq(AnyPatch)
    BY <1>1, <1>3, IsASeq DEF AllAmended
  <2>2. DOMAIN AllAmended(part) = 1 .. Len(part)
    BY DEF AllAmended
  <2>3. QED
    BY <1>1, <2>1, <2>2, LenProperties
<1>5. QED
  BY <1>2, <1>3, <1>4 DEF AllAmended, Staying

\* An amendment is dropped only for the patch it amends: no id is lost.
LEMMA SquashFacts ==
    ASSUME NEW part \in Seq(AnyPatch)
    PROVE  Squash(part) \in Seq(AnyPatch) /\ Ids(Squash(part)) = Ids(part)
<1> DEFINE list == AllAmended(part)
           I == Staying(part)
<1>1. /\ Squash(part) = Kept(list, I)
      /\ list \in Seq(AnyPatch) /\ Len(list) = Len(part)
      /\ \A j \in 1 .. Len(part) : list[j].id = part[j].id
      /\ I \in SUBSET (1 .. Len(part))
  BY SquashIs
<1>2. \A i \in 1 .. Len(part) : \E k \in I : part[k].id = part[i].id
  BY DEF Staying, Amends
<1> HIDE DEF list, I
<1>3. Kept(list, I) \in Seq(AnyPatch) /\ ToSet(Kept(list, I)) = {list[i] : i \in I}
  BY <1>1, KeptFacts
<1>4. Ids(Squash(part)) = {part[i].id : i \in I}
  <2>1. \A q \in ToSet(Kept(list, I)) : \E i \in I : q.id = part[i].id
    BY <1>1, <1>3
  <2>2. \A i \in I : \E q \in ToSet(Kept(list, I)) : q.id = part[i].id
    BY <1>1, <1>3
  <2>3. QED
    BY <1>1, <2>1, <2>2 DEF Ids
<1>5. Ids(part) = {part[i].id : i \in 1 .. Len(part)}
  BY IdsFacts
<1>6. {part[i].id : i \in I} = {part[i].id : i \in 1 .. Len(part)}
  BY <1>1, <1>2
<1>7. Squash(part) \in Seq(AnyPatch)
  BY <1>1, <1>3
<1>8. QED
  BY <1>4, <1>5, <1>6, <1>7

\* A rebase loses no id of the branch.
LEMMA RebasedFacts ==
    ASSUME NEW b, Cur \in Seq(AnyPatch), CommitOf(b) \in Seq(AnyPatch)
    PROVE  Rebased(b) \in Seq(AnyPatch) /\ Ids(Cur) \subseteq Ids(Rebased(b))
<1> DEFINE c == Cur
           new == CommitOf(b)
           m == Shared(c, new)
           part == Beyond(c, new)
           miss == Missing(part, new)
<1> HIDE DEF c, new
<1>1. c \in Seq(AnyPatch) /\ new \in Seq(AnyPatch)
  BY DEF c, new
<1>2. /\ Len(c) \in Nat /\ m \in 0 .. Len(c) /\ DOMAIN new = 1 .. Len(new)
      /\ \A i \in 1 .. m : i \in 1 .. Len(new) /\ c[i] = new[i]
  <2>1. m \in 0 .. Len(c) /\ \A i \in 1 .. m : i \in 1 .. Len(new) /\ c[i] = new[i]
    BY <1>1, SharedFacts
  <2> HIDE DEF m
  <2>2. QED
    BY <1>1, <2>1, LenProperties
<1>3. part = SubSeq(c, m + 1, Len(c))
  BY DEF Beyond
<1> HIDE DEF m, part, miss
<1>4. /\ part \in Seq(AnyPatch) /\ Len(part) = Len(c) - m
      /\ \A i \in 1 .. Len(c) - m : part[i] = c[m + i]
  <2>1. \A i \in m + 1 .. Len(c) : c[i] \in AnyPatch
    BY <1>1, <1>2, ElementOfSeq
  <2>2. QED
    BY <1>2, <1>3, <2>1, SubSeqProperties
<1>5. miss = Kept(part, {i \in 1 .. Len(part) : part[i] \notin ToSet(new)})
  BY <1>4, LenProperties DEF miss, Missing
<1>6. miss \in Seq(AnyPatch) /\ ToSet(miss) = {part[i] : i \in {i \in 1 .. Len(part) : part[i] \notin ToSet(new)}}
  BY <1>4, <1>5, KeptFacts
<1>7. Squash(miss) \in Seq(AnyPatch) /\ Ids(Squash(miss)) = Ids(miss)
  BY <1>6, SquashFacts
<1>8. Rebased(b) = new \o Squash(miss)
  BY DEF Rebased, c, new, miss, part
<1>9. Rebased(b) \in Seq(AnyPatch) /\ Ids(Rebased(b)) = Ids(new) \cup Ids(miss)
  BY <1>1, <1>7, <1>8, ConcatIds, ConcatProperties
<1>10. ASSUME NEW i \in 1 .. Len(c)
       PROVE  c[i].id \in Ids(new) \cup Ids(miss)
  <2>1. CASE c[i] \in ToSet(new)
    BY <2>1 DEF Ids
  <2>2. CASE c[i] \notin ToSet(new)
    <3>1. ~(i <= m)
      BY <1>2, <2>2 DEF ToSet
    <3>2. i - m \in 1 .. Len(part) /\ m + (i - m) = i
      BY <1>2, <1>4, <3>1
    <3>3. part[i - m] = c[i]
      BY <1>4, <3>2
    <3>4. c[i] \in ToSet(miss)
      BY <1>6, <2>2, <3>2, <3>3
    <3>5. QED
      BY <3>4 DEF Ids
  <2>3. QED
    BY <2>1, <2>2
<1>11. Ids(c) \subseteq Ids(new) \cup Ids(miss)
  BY <1>1, <1>10, IdsFacts
<1>12. QED
  BY <1>9, <1>11 DEF c

-----------------------------------------------------------------------------
\* The numbers of a set, each once and in their order.
Enumerates(f, n, I) ==
    /\ f \in [1 .. n -> I]
    /\ \A i \in I : \E k \in 1 .. n : f[k] = i
    /\ \A j, k \in 1 .. n : j < k => f[j] < f[k]

\* They are its numbers by rank.
LEMMA Enumeration ==
    ASSUME NEW n \in Nat, NEW I \in SUBSET Int, NEW f, Enumerates(f, n, I)
    PROVE  IsFiniteSet(I) /\ Cardinality(I) = n /\ \A k \in 1 .. n : Ranked(I, k) = f[k]
<1>1. /\ f \in [1 .. n -> I]
      /\ \A i \in I : \E k \in 1 .. n : f[k] = i
      /\ \A j, k \in 1 .. n : j < k => f[j] < f[k]
  BY DEF Enumerates
<1>2. \A j, k \in 1 .. n : f[j] \in Int /\ (f[j] <= f[k] <=> j <= k)
  <2> TAKE j, k \in 1 .. n
  <2>1. f[j] \in I /\ f[k] \in I
    BY <1>1
  <2>1a. f[j] \in Int /\ f[k] \in Int /\ j \in Int /\ k \in Int
    <3>1. \A i \in I : i \in Int
      OBVIOUS
    <3>2. j \in Int /\ k \in Int
      OBVIOUS
    <3>3. QED
      BY <2>1, <3>1, <3>2
  <2>2. (j < k => f[j] < f[k]) /\ (k < j => f[k] < f[j])
    BY <1>1
  <2>3. QED
    BY <2>1a, <2>2
<1>3. \A m \in 1 .. n : IsFiniteSet(1 .. m) /\ Cardinality(1 .. m) = m
  BY FS_Interval
<1>4. IsFiniteSet(1 .. n) /\ Cardinality(1 .. n) = n
  BY FS_Interval
<1>5. IsFiniteSet(I) /\ Cardinality(I) = n
  <2>1. \A j, k \in 1 .. n : f[j] = f[k] => j = k
    BY <1>2
  <2>2. f \in Bijection(1 .. n, I)
    BY <1>1, <2>1 DEF Bijection, Injection, Surjection, IsInjective
  <2>3. QED
    BY <1>4, <2>2, FS_Bijection DEF ExistsBijection
<1>6. ASSUME NEW k \in 1 .. n
      PROVE  Ranked(I, k) = f[k]
  <2> DEFINE J == {i \in I : i <= f[k]}
             g == [j \in 1 .. k |-> f[j]]
  <2>1. \A j \in 1 .. k : j \in 1 .. n
    OBVIOUS
  <2>2. g \in [1 .. k -> J]
    <3>1. \A j \in 1 .. k : f[j] \in I /\ f[j] <= f[k]
      BY <1>1, <1>2, <2>1
    <3>2. QED
      BY <3>1
  <2>3. \A i \in J : \E j \in 1 .. k : g[j] = i
    <3> TAKE i \in J
    <3>1. PICK j \in 1 .. n : f[j] = i
      BY <1>1
    <3>2. j \in 1 .. k
      BY <1>2, <3>1
    <3>3. QED
      BY <3>1, <3>2
  <2>4. \A i, j \in 1 .. k : g[i] = g[j] => i = j
    BY <1>2, <2>1
  <2>5. g \in Bijection(1 .. k, J)
    BY <2>2, <2>3, <2>4 DEF Bijection, Injection, Surjection, IsInjective
  <2> HIDE DEF g, J
  <2>6. Cardinality(J) = k
    BY <1>3, <2>5, FS_Bijection DEF ExistsBijection
  <2>7. Rank(I, f[k]) = k
    BY <2>6 DEF Rank, J
  <2>8. f[k] \in I
    BY <1>1
  <2>9. QED
    BY <1>5, <2>7, <2>8, Ranks
<1>7. QED
  BY <1>5, <1>6

LEMMA RankedEnumerates ==
    ASSUME NEW I \in SUBSET Int, IsFiniteSet(I)
    PROVE  /\ Cardinality(I) \in Nat
           /\ Enumerates([k \in 1 .. Cardinality(I) |-> Ranked(I, k)], Cardinality(I), I)
<1> DEFINE n == Cardinality(I)
<1>1. /\ n \in Nat
      /\ \A i \in I : Rank(I, i) \in 1 .. n /\ Ranked(I, Rank(I, i)) = i
      /\ \A i, j \in I : i < j <=> Rank(I, i) < Rank(I, j)
      /\ \A k \in 1 .. n : Ranked(I, k) \in I /\ Rank(I, Ranked(I, k)) = k
  BY Ranks
<1> HIDE DEF n
<1>2. \A j, k \in 1 .. n : j < k => Ranked(I, j) < Ranked(I, k)
  BY <1>1
<1>3. Enumerates([k \in 1 .. n |-> Ranked(I, k)], n, I)
  BY <1>1, <1>2 DEF Enumerates
<1>4. QED
  BY <1>1, <1>3 DEF n

\* What is kept, by an enumeration.
LEMMA KeptIs ==
    ASSUME NEW n \in Nat, NEW I \in SUBSET Int, NEW f, Enumerates(f, n, I), NEW list
    PROVE  Kept(list, I) = [k \in 1 .. n |-> list[f[k]]]
<1>1. Cardinality(I) = n /\ \A k \in 1 .. n : Ranked(I, k) = f[k]
  BY Enumeration
<1>2. Kept(list, I) = [k \in 1 .. Cardinality(I) |-> list[Ranked(I, k)]]
  BY DEF Kept, Rank, Ranked
<1>3. QED
  BY <1>1, <1>2

LEMMA PlacesFinite ==
    ASSUME NEW n \in Nat, NEW I \in SUBSET (1 .. n)
    PROVE  IsFiniteSet(I) /\ I \in SUBSET Int
<1>1. IsFiniteSet(1 .. n) /\ I \in SUBSET Int
  BY FS_Interval
<1>2. QED
  BY <1>1, FS_Subset

\* All of it, and nothing of it.
LEMMA KeptAll ==
    ASSUME NEW S, NEW s \in Seq(S)
    PROVE  Kept(s, 1 .. Len(s)) = s /\ Kept(s, {}) = <<>>
<1> DEFINE n == Len(s)
<1>1. n \in Nat /\ s \in [1 .. n -> S]
  BY LenProperties
<1> HIDE DEF n
<1>2. Enumerates([k \in 1 .. n |-> k], n, 1 .. n) /\ 1 .. n \in SUBSET Int
  BY <1>1 DEF Enumerates
<1>3. Kept(s, 1 .. n) = [k \in 1 .. n |-> s[[i \in 1 .. n |-> i][k]]]
  BY <1>1, <1>2, KeptIs
<1>4. Kept(s, 1 .. n) = s
  BY <1>1, <1>3
<1>5. Kept(s, {}) = <<>>
  <2>1. Cardinality({}) = 0
    BY FS_EmptySet
  <2>2. Kept(s, {}) = [k \in 1 .. 0 |-> s[Ranked({}, k)]]
    BY <2>1 DEF Kept, Rank, Ranked
  <2>3. 1 .. 0 = {}
    OBVIOUS
  <2>4. QED
    BY <2>2, <2>3
<1>6. QED
  BY <1>4, <1>5 DEF n

\* What is kept of what is kept.
LEMMA KeptTwice ==
    ASSUME NEW S, NEW s \in Seq(S), NEW I \in SUBSET (1 .. Len(s)), NEW J \in SUBSET (1 .. Cardinality(I))
    PROVE  Kept(Kept(s, I), J) = Kept(s, {Ranked(I, j) : j \in J})
<1> DEFINE n == Cardinality(I)
           m == Cardinality(J)
           K == {Ranked(I, j) : j \in J}
           h == [k \in 1 .. m |-> Ranked(I, Ranked(J, k))]
<1>1. IsFiniteSet(I) /\ I \in SUBSET Int
  <2>1. Len(s) \in Nat
    BY LenProperties
  <2>2. QED
    BY <2>1, PlacesFinite
<1>2. /\ n \in Nat
      /\ \A k \in 1 .. n : Ranked(I, k) \in I /\ Rank(I, Ranked(I, k)) = k
      /\ \A i, j \in I : i < j <=> Rank(I, i) < Rank(I, j)
  BY <1>1, Ranks
<1>3. IsFiniteSet(J) /\ J \in SUBSET Int /\ J \subseteq 1 .. n
  <2> HIDE DEF n
  <2>1. J \in SUBSET (1 .. n)
    BY DEF n
  <2>2. QED
    BY <1>2, <2>1, PlacesFinite
<1>4. /\ m \in Nat
      /\ \A j \in J : Rank(J, j) \in 1 .. m /\ Ranked(J, Rank(J, j)) = j
      /\ \A k \in 1 .. m : Ranked(J, k) \in J /\ Rank(J, Ranked(J, k)) = k
      /\ \A i, j \in J : i < j <=> Rank(J, i) < Rank(J, j)
  BY <1>3, Ranks
<1>5. Kept(s, I) = [k \in 1 .. n |-> s[Ranked(I, k)]]
  BY DEF Kept, Rank, Ranked
<1>6. Kept(Kept(s, I), J) = [k \in 1 .. m |-> Kept(s, I)[Ranked(J, k)]]
  BY DEF Kept, Rank, Ranked
<1> HIDE DEF n, m
<1>7. Enumerates(h, m, K) /\ K \in SUBSET Int
  <2>1. \A k \in 1 .. m : Ranked(J, k) \in J /\ Ranked(J, k) \in 1 .. n
    BY <1>3, <1>4
  <2>2. h \in [1 .. m -> K]
    BY <2>1
  <2>3. \A i \in K : \E k \in 1 .. m : h[k] = i
    <3> TAKE i \in K
    <3>1. PICK j \in J : i = Ranked(I, j)
      OBVIOUS
    <3>2. Rank(J, j) \in 1 .. m /\ Ranked(J, Rank(J, j)) = j
      BY <1>4
    <3>3. h[Rank(J, j)] = i
      BY <3>1, <3>2
    <3>4. QED
      BY <3>2, <3>3
  <2>4. ASSUME NEW j \in 1 .. m, NEW k \in 1 .. m, j < k
        PROVE  h[j] < h[k]
    <3>1. Ranked(J, j) < Ranked(J, k)
      BY <1>4, <2>1, <2>4
    <3>2. Ranked(I, Ranked(J, j)) < Ranked(I, Ranked(J, k))
      BY <1>2, <2>1, <3>1
    <3>3. QED
      BY <3>2
  <2>5. K \in SUBSET Int
    BY <1>1, <1>2, <1>3
  <2>6. QED
    BY <2>2, <2>3, <2>4, <2>5 DEF Enumerates
<1>8. Kept(s, K) = [k \in 1 .. m |-> s[h[k]]]
  <2> HIDE DEF h, K
  <2>1. QED
    BY <1>4, <1>7, KeptIs
<1>9. \A k \in 1 .. m : Kept(s, I)[Ranked(J, k)] = s[h[k]]
  BY <1>3, <1>4, <1>5
<1>10. QED
  BY <1>6, <1>8, <1>9

\* The places I of a sequence of n, and the places J of what follows it.
Beside(n, I, J) == I \cup {n + j : j \in J}

\* What is kept of two sequences.
LEMMA KeptConcat ==
    ASSUME NEW S, NEW s \in Seq(S), NEW t \in Seq(S), NEW I \in SUBSET (1 .. Len(s)),
           NEW J \in SUBSET (1 .. Len(t))
    PROVE  Kept(s \o t, Beside(Len(s), I, J)) = Kept(s, I) \o Kept(t, J)
<1> DEFINE l == Len(s)
           n == Cardinality(I)
           m == Cardinality(J)
           K == I \cup {l + j : j \in J}
           h == [k \in 1 .. n + m |-> IF k <= n THEN Ranked(I, k) ELSE l + Ranked(J, k - n)]
<1>1. l \in Nat /\ Len(t) \in Nat
  BY LenProperties
<1>2. IsFiniteSet(I) /\ I \in SUBSET Int /\ IsFiniteSet(J) /\ J \in SUBSET Int
  BY <1>1, PlacesFinite
<1>3. /\ n \in Nat
      /\ \A i \in I : Rank(I, i) \in 1 .. n /\ Ranked(I, Rank(I, i)) = i
      /\ \A k \in 1 .. n : Ranked(I, k) \in I /\ Rank(I, Ranked(I, k)) = k
      /\ \A i, j \in I : i < j <=> Rank(I, i) < Rank(I, j)
  BY <1>2, Ranks
<1>4. /\ m \in Nat
      /\ \A j \in J : Rank(J, j) \in 1 .. m /\ Ranked(J, Rank(J, j)) = j
      /\ \A k \in 1 .. m : Ranked(J, k) \in J /\ Rank(J, Ranked(J, k)) = k
      /\ \A i, j \in J : i < j <=> Rank(J, i) < Rank(J, j)
  BY <1>2, Ranks
<1>5. /\ Kept(s, I) = [k \in 1 .. n |-> s[Ranked(I, k)]]
      /\ Kept(t, J) = [k \in 1 .. m |-> t[Ranked(J, k)]]
  BY DEF Kept, Rank, Ranked
<1>6. \A i \in I : i \in 1 .. l
  OBVIOUS
<1>7. \A j \in J : j \in 1 .. Len(t)
  OBVIOUS
<1> HIDE DEF n, m, l
<1>8. Enumerates(h, n + m, K) /\ K \in SUBSET Int /\ n + m \in Nat
  <2>1. \A k \in 1 .. n + m : \/ k \in 1 .. n /\ h[k] = Ranked(I, k) /\ h[k] \in I
                              \/ k - n \in 1 .. m /\ ~(k <= n) /\ h[k] = l + Ranked(J, k - n)
                                 /\ Ranked(J, k - n) \in J
    <3> TAKE k \in 1 .. n + m
    <3>1. CASE k <= n
      BY <1>3, <1>4, <3>1
    <3>2. CASE ~(k <= n)
      <4>1. k - n \in 1 .. m
        BY <1>3, <1>4, <3>2
      <4>2. QED
        BY <1>4, <3>2, <4>1
    <3>3. QED
      BY <3>1, <3>2
  <2>2. h \in [1 .. n + m -> K]
    BY <2>1
  <2>3. \A i \in K : \E k \in 1 .. n + m : h[k] = i
    <3> TAKE i \in K
    <3>1. CASE i \in I
      <4>1. Rank(I, i) \in 1 .. n /\ Ranked(I, Rank(I, i)) = i
        BY <1>3, <3>1
      <4>2. Rank(I, i) \in 1 .. n + m /\ Rank(I, i) <= n
        BY <1>3, <1>4, <4>1
      <4>3. QED
        BY <4>1, <4>2
    <3>2. ASSUME NEW j \in J, i = l + j
          PROVE  \E k \in 1 .. n + m : h[k] = i
      <4>1. Rank(J, j) \in 1 .. m /\ Ranked(J, Rank(J, j)) = j
        BY <1>4
      <4>2. n + Rank(J, j) \in 1 .. n + m /\ ~(n + Rank(J, j) <= n) /\ (n + Rank(J, j)) - n = Rank(J, j)
        BY <1>3, <1>4, <4>1
      <4>3. h[n + Rank(J, j)] = i
        BY <3>2, <4>1, <4>2
      <4>4. QED
        BY <4>2, <4>3
    <3>3. QED
      BY <3>1, <3>2
  <2>4. ASSUME NEW j \in 1 .. n + m, NEW k \in 1 .. n + m, j < k
        PROVE  h[j] < h[k]
    <3>1. CASE j \in 1 .. n /\ k \in 1 .. n
      <4>1. Ranked(I, j) < Ranked(I, k)
        BY <1>3, <2>4, <3>1
      <4>2. QED
        BY <2>1, <3>1, <4>1
    <3>2. CASE j \in 1 .. n /\ ~(k <= n)
      <4>1. h[j] \in I
        BY <2>1, <3>2
      <4>1a. h[j] \in 1 .. l
        BY <1>6, <4>1
      <4>1b. h[k] = l + Ranked(J, k - n) /\ Ranked(J, k - n) \in J
        BY <1>3, <2>1, <3>2
      <4>2. Ranked(J, k - n) \in 1 .. Len(t)
        BY <1>7, <4>1b
      <4>3. QED
        BY <1>1, <4>1a, <4>1b, <4>2
    <3>3. CASE ~(j <= n) /\ ~(k <= n)
      <4>1. /\ j - n \in 1 .. m /\ k - n \in 1 .. m /\ j - n < k - n
            /\ h[j] = l + Ranked(J, j - n) /\ h[k] = l + Ranked(J, k - n)
        BY <1>3, <1>4, <2>1, <2>4, <3>3
      <4>2. Ranked(J, j - n) < Ranked(J, k - n)
        BY <1>4, <4>1
      <4>3. Ranked(J, j - n) \in Int /\ Ranked(J, k - n) \in Int
        BY <1>2, <1>4, <4>1
      <4>4. QED
        BY <1>1, <4>1, <4>2, <4>3
    <3>4. QED
      BY <1>3, <1>4, <2>4, <3>1, <3>2, <3>3
  <2>5. K \in SUBSET Int
    <3>1. \A j \in J : l + j \in Int
      BY <1>1, <1>2
    <3>2. QED
      BY <1>2, <3>1
  <2>6. QED
    BY <1>3, <1>4, <2>2, <2>3, <2>4, <2>5 DEF Enumerates
<1> HIDE DEF K
<1>9. Kept(s \o t, K) = [k \in 1 .. n + m |-> (s \o t)[h[k]]]
  <2> DEFINE c == s \o t
             p == n + m
  <2>1. Enumerates(h, p, K) /\ K \in SUBSET Int /\ p \in Nat
    BY <1>8
  <2> HIDE DEF h, c, p
  <2>2. Kept(c, K) = [k \in 1 .. p |-> c[h[k]]]
    BY <2>1, KeptIs
  <2>3. QED
    BY <2>2 DEF c, p
<1>10. /\ Kept(s, I) \in Seq(S) /\ Kept(t, J) \in Seq(S)
       /\ Len(Kept(s, I)) = n /\ Len(Kept(t, J)) = m
  <2>1. Kept(s, I) \in Seq(S) /\ Kept(t, J) \in Seq(S)
    BY KeptFacts
  <2>2. DOMAIN Kept(s, I) = 1 .. n /\ DOMAIN Kept(t, J) = 1 .. m
    BY <1>5
  <2>3. QED
    BY <1>3, <1>4, <2>1, <2>2, LenProperties
<1>11. \A i \in 1 .. l + Len(t) : (s \o t)[i] = IF i <= l THEN s[i] ELSE t[i - l]
  BY ConcatProperties DEF l
<1>12. ASSUME NEW k \in 1 .. n + m
       PROVE  (s \o t)[h[k]] = (Kept(s, I) \o Kept(t, J))[k]
  <2>1. (Kept(s, I) \o Kept(t, J))[k] = IF k <= n THEN Kept(s, I)[k] ELSE Kept(t, J)[k - n]
    BY <1>10, ConcatProperties
  <2>2. CASE k <= n
    <3>1. k \in 1 .. n /\ h[k] = Ranked(I, k)
      BY <1>3, <1>4, <2>2
    <3>1a. Ranked(I, k) \in 1 .. l
      BY <1>3, <1>6, <3>1
    <3> DEFINE r == Ranked(I, k)
    <3> HIDE DEF r
    <3>1b. r \in 1 .. l + Len(t) /\ r <= l
      BY <1>1, <3>1a DEF r
    <3>2. (s \o t)[h[k]] = s[Ranked(I, k)]
      BY <1>11, <3>1, <3>1b DEF r
    <3>3. QED
      BY <1>5, <2>1, <2>2, <3>1, <3>2
  <2>3. CASE ~(k <= n)
    <3>1. k - n \in 1 .. m /\ h[k] = l + Ranked(J, k - n)
      BY <1>3, <1>4, <2>3
    <3>2. Ranked(J, k - n) \in 1 .. Len(t)
      BY <1>4, <1>7, <3>1
    <3> DEFINE r == Ranked(J, k - n)
    <3> HIDE DEF r
    <3>3. l + r \in 1 .. l + Len(t) /\ ~(l + r <= l) /\ (l + r) - l = r
      BY <1>1, <3>2 DEF r
    <3>4. (s \o t)[l + r] = t[r]
      BY <1>11, <3>3
    <3>5. QED
      BY <1>5, <2>1, <2>3, <3>1, <3>4 DEF r
  <2>4. QED
    BY <2>2, <2>3
<1>13. /\ Kept(s, I) \o Kept(t, J) \in Seq(S)
       /\ Len(Kept(s, I) \o Kept(t, J)) = n + m
  BY <1>10, ConcatProperties
<1> HIDE DEF h
<1>14. Kept(s \o t, K) = Kept(s, I) \o Kept(t, J)
  <2> DEFINE c == Kept(s, I) \o Kept(t, J)
  <2>1. c \in [1 .. n + m -> S]
    BY <1>13, LenProperties
  <2> HIDE DEF c
  <2>2. \A k \in 1 .. n + m : (s \o t)[h[k]] = c[k]
    BY <1>12 DEF c
  <2>3. QED
    BY <1>9, <2>1, <2>2 DEF c
<1>15. QED
  BY <1>14 DEF K, l, Beside

-----------------------------------------------------------------------------
\* The patches of a commit that are patches of their own, and their ids.
Whole(c) == {i \in 1 .. Len(c) : ~c[i].fix}
IdsOf(s) == [k \in DOMAIN s |-> s[k].id]

LEMMA OrderIs ==
    ASSUME NEW c \in Seq(AnyPatch)
    PROVE  Order(c) = IdsOf(Kept(c, Whole(c))) /\ Whole(c) \in SUBSET (1 .. Len(c))
BY LenProperties DEF Order, IdsOf, Whole

LEMMA IdsOfFacts ==
    ASSUME NEW s \in Seq(AnyPatch)
    PROVE  IdsOf(s) \in Seq(Nat) /\ Len(IdsOf(s)) = Len(s) /\ \A k \in 1 .. Len(s) : IdsOf(s)[k] = s[k].id
<1>1. Len(s) \in Nat /\ DOMAIN s = 1 .. Len(s) /\ \A k \in 1 .. Len(s) : s[k] \in AnyPatch
  BY LenProperties, ElementOfSeq
<1> DEFINE n == Len(s)
           Id(k) == s[k].id
<1>2. n \in Nat /\ \A k \in 1 .. n : Id(k) \in Nat
  BY <1>1 DEF AnyPatch
<1>3. IdsOf(s) = [k \in 1 .. n |-> Id(k)]
  BY <1>1 DEF IdsOf
<1> HIDE DEF Id, n
<1>4. IdsOf(s) \in Seq(Nat) /\ DOMAIN IdsOf(s) = 1 .. n
  BY <1>2, <1>3, IsASeq
<1>5. Len(IdsOf(s)) = n
  BY <1>2, <1>4, LenProperties
<1>6. QED
  BY <1>3, <1>4, <1>5 DEF Id, n

LEMMA IdsOfConcat ==
    ASSUME NEW s \in Seq(AnyPatch), NEW t \in Seq(AnyPatch)
    PROVE  IdsOf(s \o t) = IdsOf(s) \o IdsOf(t)
<1> DEFINE c == s \o t
           d == IdsOf(s) \o IdsOf(t)
<1>1. Len(s) \in Nat /\ Len(t) \in Nat
  BY LenProperties
<1>2. /\ c \in Seq(AnyPatch) /\ Len(c) = Len(s) + Len(t)
      /\ \A i \in 1 .. Len(s) + Len(t) : c[i] = IF i <= Len(s) THEN s[i] ELSE t[i - Len(s)]
  BY ConcatProperties
<1>3. /\ IdsOf(s) \in Seq(Nat) /\ Len(IdsOf(s)) = Len(s) /\ \A k \in 1 .. Len(s) : IdsOf(s)[k] = s[k].id
      /\ IdsOf(t) \in Seq(Nat) /\ Len(IdsOf(t)) = Len(t) /\ \A k \in 1 .. Len(t) : IdsOf(t)[k] = t[k].id
  BY IdsOfFacts
<1>4. /\ d \in Seq(Nat) /\ Len(d) = Len(s) + Len(t)
      /\ \A i \in 1 .. Len(s) + Len(t) : d[i] = IF i <= Len(s) THEN IdsOf(s)[i] ELSE IdsOf(t)[i - Len(s)]
  BY <1>3, ConcatProperties
<1> HIDE DEF c, d
<1>5. IdsOf(c) \in Seq(Nat) /\ Len(IdsOf(c)) = Len(c) /\ \A k \in 1 .. Len(c) : IdsOf(c)[k] = c[k].id
  BY <1>2, IdsOfFacts
<1>6. ASSUME NEW i \in 1 .. Len(s) + Len(t)
      PROVE  IdsOf(c)[i] = d[i]
  <2>1. CASE i <= Len(s)
    <3>1. i \in 1 .. Len(s)
      BY <1>1, <2>1
    <3>2. QED
      BY <1>2, <1>3, <1>4, <1>5, <2>1, <3>1
  <2>2. CASE ~(i <= Len(s))
    <3>1. i - Len(s) \in 1 .. Len(t)
      BY <1>1, <2>2
    <3>2. QED
      BY <1>2, <1>3, <1>4, <1>5, <2>2, <3>1
  <2>3. QED
    BY <2>1, <2>2
<1>7. IdsOf(c) = d
  BY <1>2, <1>4, <1>5, <1>6, SeqEqual
<1>8. QED
  BY <1>7 DEF c, d

LEMMA OrderConcat ==
    ASSUME NEW s \in Seq(AnyPatch), NEW t \in Seq(AnyPatch)
    PROVE  Order(s \o t) = Order(s) \o Order(t)
<1> DEFINE c == s \o t
<1>1. Len(s) \in Nat /\ Len(t) \in Nat
  BY LenProperties
<1>2. /\ c \in Seq(AnyPatch) /\ Len(c) = Len(s) + Len(t)
      /\ \A i \in 1 .. Len(s) + Len(t) : c[i] = IF i <= Len(s) THEN s[i] ELSE t[i - Len(s)]
  BY ConcatProperties
<1> HIDE DEF c
<1>3. Whole(c) = Whole(s) \cup {Len(s) + j : j \in Whole(t)}
  <2>1. ASSUME NEW i \in Whole(c)
        PROVE  i \in Whole(s) \cup {Len(s) + j : j \in Whole(t)}
    <3>1. i \in 1 .. Len(s) + Len(t) /\ ~c[i].fix
      BY <1>2 DEF Whole
    <3>2. CASE i <= Len(s)
      <4>1. i \in 1 .. Len(s) /\ ~s[i].fix
        BY <1>1, <1>2, <3>1, <3>2
      <4>2. QED
        BY <4>1 DEF Whole
    <3>3. CASE ~(i <= Len(s))
      <4>1. i - Len(s) \in 1 .. Len(t) /\ ~t[i - Len(s)].fix /\ Len(s) + (i - Len(s)) = i
        BY <1>1, <1>2, <3>1, <3>3
      <4>2. i - Len(s) \in Whole(t)
        BY <4>1 DEF Whole
      <4>3. QED
        BY <4>1, <4>2
    <3>4. QED
      BY <3>2, <3>3
  <2>2. ASSUME NEW i \in Whole(s)
        PROVE  i \in Whole(c)
    <3>1. i \in 1 .. Len(s) + Len(t) /\ i <= Len(s) /\ ~s[i].fix
      BY <1>1 DEF Whole
    <3>2. c[i] = s[i]
      BY <1>2, <3>1
    <3>3. QED
      BY <1>2, <3>1, <3>2 DEF Whole
  <2>3. ASSUME NEW j \in Whole(t)
        PROVE  Len(s) + j \in Whole(c)
    <3>1. /\ Len(s) + j \in 1 .. Len(s) + Len(t) /\ ~(Len(s) + j <= Len(s)) /\ (Len(s) + j) - Len(s) = j
          /\ ~t[j].fix
      BY <1>1 DEF Whole
    <3>2. c[Len(s) + j] = t[j]
      BY <1>2, <3>1
    <3>3. QED
      BY <1>2, <3>1, <3>2 DEF Whole
  <2>4. QED
    BY <2>1, <2>2, <2>3
<1>4. /\ Order(s) = IdsOf(Kept(s, Whole(s))) /\ Whole(s) \in SUBSET (1 .. Len(s))
      /\ Order(t) = IdsOf(Kept(t, Whole(t))) /\ Whole(t) \in SUBSET (1 .. Len(t))
      /\ Order(c) = IdsOf(Kept(c, Whole(c)))
  BY <1>2, OrderIs
<1>5. Kept(c, Whole(c)) = Kept(s, Whole(s)) \o Kept(t, Whole(t))
  <2>1. \A I \in SUBSET (1 .. Len(s)), J \in SUBSET (1 .. Len(t)) :
           Kept(s \o t, Beside(Len(s), I, J)) = Kept(s, I) \o Kept(t, J)
    BY KeptConcat
  <2>2. Kept(s \o t, Beside(Len(s), Whole(s), Whole(t))) = Kept(s, Whole(s)) \o Kept(t, Whole(t))
    BY <1>4, <2>1
  <2>3. QED
    BY <1>3, <2>2 DEF c, Beside
<1>6. Kept(s, Whole(s)) \in Seq(AnyPatch) /\ Kept(t, Whole(t)) \in Seq(AnyPatch)
  BY <1>4, KeptFacts
<1>7. QED
  BY <1>4, <1>5, <1>6, IdsOfConcat DEF c

\* What leaves all the patches of their own there leaves their order.
LEMMA OrderKept ==
    ASSUME NEW s \in Seq(AnyPatch), NEW I \in SUBSET (1 .. Len(s)), Whole(s) \subseteq I
    PROVE  Order(Kept(s, I)) = Order(s)
<1> DEFINE k == Kept(s, I)
           n == Cardinality(I)
<1>1. Len(s) \in Nat
  BY LenProperties
<1>2. IsFiniteSet(I) /\ I \in SUBSET Int
  BY <1>1, PlacesFinite
<1>3. /\ n \in Nat
      /\ \A i \in I : Rank(I, i) \in 1 .. n /\ Ranked(I, Rank(I, i)) = i
      /\ \A j \in 1 .. n : Ranked(I, j) \in I
  BY <1>2, Ranks
<1>4. k = [j \in 1 .. n |-> s[Ranked(I, j)]]
  BY DEF Kept, Rank, Ranked
<1>5. k \in Seq(AnyPatch)
  BY KeptFacts
<1> HIDE DEF k, n
<1>6. Len(k) = n
  <2>1. DOMAIN k = 1 .. n
    BY <1>4
  <2>2. QED
    BY <1>3, <1>5, <2>1, LenProperties
<1>7. Whole(k) = {j \in 1 .. n : Ranked(I, j) \in Whole(s)}
  BY <1>3, <1>4, <1>6 DEF Whole
<1>8. {Ranked(I, j) : j \in Whole(k)} = Whole(s)
  <2>1. \A i \in Whole(s) : Rank(I, i) \in Whole(k) /\ Ranked(I, Rank(I, i)) = i
    BY <1>3, <1>7
  <2>2. QED
    BY <1>7, <2>1
<1>9. Kept(k, Whole(k)) = Kept(s, Whole(s))
  <2>1. Whole(k) \in SUBSET (1 .. Cardinality(I))
    BY <1>7 DEF n
  <2>2. Kept(Kept(s, I), Whole(k)) = Kept(s, {Ranked(I, j) : j \in Whole(k)})
    BY <2>1, KeptTwice
  <2>3. QED
    BY <1>8, <2>2 DEF k
<1>10. Order(k) = IdsOf(Kept(k, Whole(k))) /\ Order(s) = IdsOf(Kept(s, Whole(s)))
  BY <1>5, OrderIs
<1>11. QED
  BY <1>9, <1>10 DEF k

\* Nor does how often they were amended matter.
LEMMA OrderOfEqual ==
    ASSUME NEW s \in Seq(AnyPatch), NEW t \in Seq(AnyPatch), Len(s) = Len(t),
           \A i \in 1 .. Len(s) : s[i].id = t[i].id /\ s[i].fix = t[i].fix
    PROVE  Order(s) = Order(t) /\ Whole(s) = Whole(t)
<1> DEFINE W == Whole(s)
           n == Cardinality(W)
<1>1. Whole(t) = W /\ Len(s) \in Nat
  BY LenProperties DEF Whole
<1>2. Order(s) = IdsOf(Kept(s, W)) /\ W \in SUBSET (1 .. Len(s)) /\ Order(t) = IdsOf(Kept(t, W))
  BY <1>1, OrderIs
<1> HIDE DEF W
<1>3. IsFiniteSet(W) /\ W \in SUBSET Int
  BY <1>1, <1>2, PlacesFinite
<1>4. \A k \in 1 .. n : Ranked(W, k) \in 1 .. Len(s)
  BY <1>2, <1>3, Ranks
<1>5. Kept(s, W) = [k \in 1 .. n |-> s[Ranked(W, k)]] /\ Kept(t, W) = [k \in 1 .. n |-> t[Ranked(W, k)]]
  BY DEF Kept, Rank, Ranked
<1> HIDE DEF n
<1>6. /\ IdsOf(Kept(s, W)) = [k \in 1 .. n |-> s[Ranked(W, k)].id]
      /\ IdsOf(Kept(t, W)) = [k \in 1 .. n |-> t[Ranked(W, k)].id]
  BY <1>5 DEF IdsOf
<1>7. \A k \in 1 .. n : s[Ranked(W, k)].id = t[Ranked(W, k)].id
  BY <1>4
<1>8. QED
  BY <1>1, <1>2, <1>6, <1>7 DEF W

\* A squash leaves the patches and their order, and no amendment of one of them.
LEMMA SquashOrder ==
    ASSUME NEW part \in Seq(AnyPatch)
    PROVE  /\ Order(Squash(part)) = Order(part)
           /\ \A p \in ToSet(Squash(part)), i \in 1 .. Len(part) :
                p.fix /\ ~part[i].fix => p.id # part[i].id
<1> DEFINE list == AllAmended(part)
           I == Staying(part)
<1>1. /\ Squash(part) = Kept(list, I)
      /\ list \in Seq(AnyPatch) /\ Len(list) = Len(part)
      /\ \A j \in 1 .. Len(part) : list[j].id = part[j].id /\ list[j].fix = part[j].fix
      /\ I \in SUBSET (1 .. Len(part))
  BY SquashIs
<1>2. /\ Whole(part) \subseteq I
      /\ \A j \in I, i \in 1 .. Len(part) : part[j].fix /\ ~part[i].fix => part[j].id # part[i].id
  BY DEF Whole, Staying, Amends
<1> HIDE DEF list, I
<1>3. Order(list) = Order(part) /\ Whole(list) = Whole(part)
  BY <1>1, OrderOfEqual
<1>4. Order(Kept(list, I)) = Order(list)
  <2>1. I \in SUBSET (1 .. Len(list)) /\ Whole(list) \subseteq I
    BY <1>1, <1>2, <1>3
  <2>2. QED
    BY <1>1, <2>1, OrderKept
<1>5. ToSet(Kept(list, I)) = {list[i] : i \in I}
  BY <1>1, KeptFacts
<1>6. ASSUME NEW p \in ToSet(Squash(part)), NEW i \in 1 .. Len(part), p.fix, ~part[i].fix
      PROVE  p.id # part[i].id
  <2>1. PICK j \in I : p = list[j]
    BY <1>1, <1>5
  <2>2. j \in 1 .. Len(part) /\ p.id = part[j].id /\ part[j].fix
    BY <1>1, <1>6, <2>1
  <2>3. QED
    BY <1>2, <1>6, <2>2
<1>7. QED
  BY <1>1, <1>3, <1>4, <1>6

\* The ids in the order of a commit are those of its own patches.
LEMMA OrderFacts ==
    ASSUME NEW c \in Seq(AnyPatch)
    PROVE  /\ Order(c) \in Seq(Nat)
           /\ \A k \in 1 .. Len(Order(c)) : \E i \in Whole(c) : Order(c)[k] = c[i].id
<1> DEFINE kept == Kept(c, Whole(c))
<1>1. Order(c) = IdsOf(kept) /\ Whole(c) \in SUBSET (1 .. Len(c))
  BY OrderIs
<1>2. kept \in Seq(AnyPatch) /\ ToSet(kept) = {c[i] : i \in Whole(c)}
  BY <1>1, KeptFacts
<1> HIDE DEF kept
<1>3. /\ IdsOf(kept) \in Seq(Nat) /\ Len(IdsOf(kept)) = Len(kept)
      /\ \A k \in 1 .. Len(kept) : IdsOf(kept)[k] = kept[k].id
  BY <1>2, IdsOfFacts
<1>4. \A k \in 1 .. Len(kept) : kept[k] \in ToSet(kept)
  BY <1>2, LenProperties DEF ToSet
<1>5. QED
  BY <1>1, <1>2, <1>3, <1>4

\* Of two orders, the first of what is left out and the second of what is not.
LEMMA RestOfTwo ==
    ASSUME NEW s \in Seq(Nat), NEW t \in Seq(Nat), NEW ids,
           \A i \in 1 .. Len(s) : s[i] \in ids,
           \A i \in 1 .. Len(t) : t[i] \notin ids
    PROVE  Rest(s \o t, ids) = t
<1> DEFINE c == s \o t
           R == {i \in 1 .. Len(c) : c[i] \notin ids}
<1>1. Len(s) \in Nat /\ Len(t) \in Nat
  BY LenProperties
<1>2. /\ c \in Seq(Nat) /\ Len(c) = Len(s) + Len(t) /\ DOMAIN c = 1 .. Len(c)
      /\ \A i \in 1 .. Len(s) + Len(t) : c[i] = IF i <= Len(s) THEN s[i] ELSE t[i - Len(s)]
  BY ConcatProperties, LenProperties
<1> HIDE DEF c
<1>3. R = Beside(Len(s), {}, 1 .. Len(t))
  <2>1. ASSUME NEW i \in R
        PROVE  \E j \in 1 .. Len(t) : i = Len(s) + j
    <3>1. i \in 1 .. Len(s) + Len(t) /\ c[i] \notin ids
      BY <1>2
    <3>2. ~(i <= Len(s))
      <4> SUFFICES ASSUME i <= Len(s) PROVE FALSE
        OBVIOUS
      <4>1. i \in 1 .. Len(s) /\ c[i] = s[i]
        BY <1>1, <1>2, <3>1
      <4> QED BY <3>1, <4>1
    <3>3. i - Len(s) \in 1 .. Len(t) /\ i = Len(s) + (i - Len(s))
      BY <1>1, <3>1, <3>2
    <3>4. QED
      BY <3>3
  <2>2. ASSUME NEW j \in 1 .. Len(t)
        PROVE  Len(s) + j \in R
    <3>1. Len(s) + j \in 1 .. Len(s) + Len(t) /\ ~(Len(s) + j <= Len(s)) /\ (Len(s) + j) - Len(s) = j
      BY <1>1
    <3>2. c[Len(s) + j] = t[j]
      BY <1>2, <3>1
    <3>3. QED
      BY <1>2, <3>1, <3>2
  <2> HIDE DEF R
  <2>3. QED
    BY <2>1, <2>2 DEF Beside
<1>4. Rest(c, ids) = Kept(c, R)
  BY <1>2 DEF Rest
<1> HIDE DEF R
<1>5. \A I \in SUBSET (1 .. Len(s)), J \in SUBSET (1 .. Len(t)) :
         Kept(s \o t, Beside(Len(s), I, J)) = Kept(s, I) \o Kept(t, J)
  <2> DEFINE S == Nat
  <2>1. s \in Seq(S) /\ t \in Seq(S)
    OBVIOUS
  <2> HIDE DEF S
  <2>2. QED
    BY <2>1, KeptConcat
<1>6. Kept(s \o t, Beside(Len(s), {}, 1 .. Len(t))) = Kept(s, {}) \o Kept(t, 1 .. Len(t))
  <2>1. {} \in SUBSET (1 .. Len(s)) /\ 1 .. Len(t) \in SUBSET (1 .. Len(t))
    OBVIOUS
  <2>2. QED
    BY <1>5, <2>1
<1>7. Kept(s, {}) = <<>> /\ Kept(t, 1 .. Len(t)) = t
  BY KeptAll
<1>8. <<>> \o t = t
  BY ConcatEmptySeq
<1>9. QED
  BY <1>3, <1>4, <1>6, <1>7, <1>8 DEF c

\* A commit is what it shares with another, and what it has beyond.
LEMMA SharedAndBeyond ==
    ASSUME NEW c \in Seq(AnyPatch), NEW new \in Seq(AnyPatch)
    PROVE  \E p \in Seq(AnyPatch) : /\ c = p \o Beyond(c, new)
                                    /\ Beyond(c, new) \in Seq(AnyPatch)
                                    /\ \A i \in 1 .. Len(p) : p[i] \in ToSet(new)
<1> DEFINE m == Shared(c, new)
           p == SubSeq(c, 1, m)
           part == Beyond(c, new)
<1>1. Len(c) \in Nat /\ DOMAIN new = 1 .. Len(new) /\ \A i \in 1 .. Len(c) : c[i] \in AnyPatch
  BY LenProperties, ElementOfSeq
<1>2. m \in 0 .. Len(c) /\ \A i \in 1 .. m : i \in 1 .. Len(new) /\ c[i] = new[i]
  BY SharedFacts
<1>3. part = SubSeq(c, m + 1, Len(c))
  BY DEF Beyond
<1> HIDE DEF m, part, p
<1>4. p \in Seq(AnyPatch) /\ Len(p) = m /\ \A i \in 1 .. m : p[i] = c[i]
  <2>1. m \in Nat /\ \A i \in 1 .. m : c[i] \in AnyPatch
    BY <1>1, <1>2
  <2>2. QED
    BY <2>1, SubSeqProperties DEF p
<1>5. part \in Seq(AnyPatch) /\ Len(part) = Len(c) - m /\ \A i \in 1 .. Len(c) - m : part[i] = c[m + i]
  <2>1. \A i \in m + 1 .. Len(c) : c[i] \in AnyPatch
    BY <1>1, <1>2
  <2>2. QED
    BY <1>1, <1>2, <1>3, <2>1, SubSeqProperties
<1>6. c = p \o part
  <2> DEFINE d == p \o part
  <2>1. /\ d \in Seq(AnyPatch) /\ Len(d) = m + (Len(c) - m)
        /\ \A i \in 1 .. m + (Len(c) - m) : d[i] = IF i <= m THEN p[i] ELSE part[i - m]
    BY <1>4, <1>5, ConcatProperties
  <2> HIDE DEF d
  <2>2. Len(d) = Len(c)
    BY <1>1, <1>2, <2>1
  <2>3. ASSUME NEW i \in 1 .. Len(c)
        PROVE  d[i] = c[i]
    <3>1. i \in 1 .. m + (Len(c) - m)
      BY <1>1, <1>2
    <3>2. CASE i <= m
      BY <1>2, <1>4, <2>1, <3>1, <3>2
    <3>3. CASE ~(i <= m)
      <4>1. i - m \in 1 .. Len(c) - m /\ m + (i - m) = i
        BY <1>1, <1>2, <3>3
      <4>2. QED
        BY <1>5, <2>1, <3>1, <3>3, <4>1
    <3>4. QED
      BY <3>2, <3>3
  <2>4. QED
    BY <2>1, <2>2, <2>3, SeqEqual DEF d
<1>7. \A i \in 1 .. Len(p) : p[i] \in ToSet(new)
  BY <1>1, <1>2, <1>4 DEF ToSet
<1>8. QED
  BY <1>4, <1>5, <1>6, <1>7 DEF part

\* A reroll keeps the order of the patches the series has of its own, after
\* those of its base, and squashes what amends one of them.
LEMMA RebasedOrder ==
    ASSUME NEW b, Cur \in Seq(AnyPatch), CommitOf(b) \in Seq(AnyPatch),
           ~Reworked(Cur, CommitOf(b))
    PROVE  /\ Order(Rebased(b)) = Order(CommitOf(b)) \o Rest(Order(Cur), Ids(CommitOf(b)))
           /\ \A q \in Own(Cur, CommitOf(b)), p \in ToSet(Rebased(b)) : p.fix => p.id # q.id
           /\ IsPrefix(CommitOf(b), Rebased(b))
<1> DEFINE c == Cur
           new == CommitOf(b)
           part == Beyond(c, new)
           miss == Missing(part, new)
           I == {i \in 1 .. Len(part) : part[i] \notin ToSet(new)}
<1> HIDE DEF c, new
<1>1. c \in Seq(AnyPatch) /\ new \in Seq(AnyPatch) /\ ~Reworked(c, new)
  BY DEF c, new
<1> HIDE DEF part, I, miss
<1>2. PICK p \in Seq(AnyPatch) : /\ c = p \o part
                                 /\ part \in Seq(AnyPatch)
                                 /\ \A i \in 1 .. Len(p) : p[i] \in ToSet(new)
  BY <1>1, SharedAndBeyond DEF part
<1>3. Rebased(b) = new \o Squash(miss)
  BY DEF Rebased, c, new, miss, part
<1>4. Own(c, new) = {part[i] : i \in Whole(part)}
  BY <1>2, LenProperties DEF Own, part, ToSet, Whole
<1>5. \A q \in Own(c, new) : q.id \notin Ids(new)
  BY <1>1 DEF Reworked
<1>6. miss = Kept(part, I) /\ I \in SUBSET (1 .. Len(part))
  BY <1>2, LenProperties DEF miss, Missing, I
<1>7. Whole(part) \subseteq I
  <2>1. \A i \in Whole(part) : part[i].id \notin Ids(new)
    BY <1>4, <1>5
  <2>2. QED
    BY <2>1 DEF Ids, I, Whole
<1>8. miss \in Seq(AnyPatch) /\ ToSet(miss) = {part[i] : i \in I}
  BY <1>2, <1>6, KeptFacts
<1>9. Order(miss) = Order(part)
  BY <1>2, <1>6, <1>7, OrderKept
<1>10. /\ Squash(miss) \in Seq(AnyPatch) /\ Order(Squash(miss)) = Order(miss)
       /\ \A r \in ToSet(Squash(miss)), i \in 1 .. Len(miss) : r.fix /\ ~miss[i].fix => r.id # miss[i].id
  BY <1>8, SquashFacts, SquashOrder
<1>11. Order(c) = Order(p) \o Order(part)
  BY <1>2, OrderConcat
<1>12. Rest(Order(c), Ids(new)) = Order(part)
  <2>1. Order(p) \in Seq(Nat) /\ \A k \in 1 .. Len(Order(p)) : Order(p)[k] \in Ids(new)
    <3>1. \A i \in Whole(p) : p[i].id \in Ids(new)
      BY <1>2 DEF Whole, Ids
    <3>2. QED
      BY <3>1, OrderFacts
  <2>2. Order(part) \in Seq(Nat) /\ \A k \in 1 .. Len(Order(part)) : Order(part)[k] \notin Ids(new)
    <3>1. \A i \in Whole(part) : part[i].id \notin Ids(new)
      BY <1>4, <1>5
    <3>2. QED
      BY <1>2, <3>1, OrderFacts
  <2>3. QED
    BY <1>11, <2>1, <2>2, RestOfTwo
<1>13. Order(Rebased(b)) = Order(new) \o Rest(Order(c), Ids(new))
  <2>1. Order(new \o Squash(miss)) = Order(new) \o Order(Squash(miss))
    BY <1>1, <1>10, OrderConcat
  <2>2. QED
    BY <1>3, <1>9, <1>10, <1>12, <2>1
<1>14. ASSUME NEW q \in Own(c, new), NEW r \in ToSet(Rebased(b)), r.fix
       PROVE  r.id # q.id
  <2>1. r \in ToSet(new) \cup ToSet(Squash(miss))
    <3>1. Range(new \o Squash(miss)) = Range(new) \cup Range(Squash(miss))
      BY <1>1, <1>10, RangeConcatenation
    <3>2. QED
      BY <1>3, <3>1 DEF Range, ToSet
  <2>2. CASE r \in ToSet(new)
    BY <1>5, <2>2 DEF Ids
  <2>3. CASE r \in ToSet(Squash(miss))
    <3>1. PICK i \in Whole(part) : q = part[i]
      BY <1>4
    <3>2. q \in ToSet(miss) /\ ~q.fix
      BY <1>7, <1>8, <3>1 DEF Whole
    <3>3. PICK k \in 1 .. Len(miss) : q = miss[k]
      BY <1>8, <3>2, LenProperties DEF ToSet
    <3>4. QED
      BY <1>10, <1>14, <2>3, <3>2, <3>3
  <2>4. QED
    BY <2>1, <2>2, <2>3
<1>15. IsPrefix(new, Rebased(b))
  <2> PICK whole : whole = Rebased(b)
    OBVIOUS
  <2>1. /\ whole \in Seq(AnyPatch) /\ Len(whole) = Len(new) + Len(Squash(miss))
        /\ Len(new) \in Nat /\ Len(Squash(miss)) \in Nat
        /\ \A i \in 1 .. Len(whole) : i <= Len(new) => whole[i] = new[i]
    BY <1>1, <1>3, <1>10, ConcatProperties, LenProperties
  <2>2. Len(new) <= Len(whole) /\ \A i \in 1 .. Len(new) : i \in 1 .. Len(whole) /\ i <= Len(new)
    BY <2>1
  <2>3. IsPrefix(new, whole)
    BY <1>1, <2>1, <2>2, PrefixIff
  <2>4. QED
    BY <2>3
<1>16. QED
  BY <1>13, <1>14, <1>15 DEF c, new

-----------------------------------------------------------------------------
\* What the repository holds: commits, HEAD on a branch there is, and a rebase of one.
RepoInv ==
    /\ \A b \in DOMAIN tip : tip[b] \in Seq(AnyPatch)
    /\ at \in Seq(AnyPatch)
    /\ head \in DOMAIN tip \cup {Detached}
    /\ rebase \in DOMAIN tip \cup {None}
    /\ patches \in Nat

\* The commits before a call; a reroll has the one it amends.
ListOK(w) ==
    /\ call[w].list \in Seq(Seq(AnyPatch))
    /\ call[w].pc = "fixup" => Len(call[w].list) = 1 /\ call[w].list[1] # <<>>
    /\ call[w].job.tool = "reroll" => call[w].job.index \in Nat /\ 1 <= call[w].job.index
ListsInv == \A w \in Callers : ListOK(w)

\* A git_finalize_series that nobody has disturbed: it leaves its series for another
\* branch, which has the series once it is merged and has it alone in the end.
Landing(w) ==
    LET s == call[w].from
        b == call[w].onto
    IN /\ call[w].pc = "checkout" => s = head
       /\ call[w].pc \in {"checkout", "merge", "delete", "unset"} => s \in Series /\ b # s
       /\ call[w].pc \in {"merge", "delete"} => head # Detached
       /\ call[w].pc \in {"merge", "delete", "unset"} /\ ~slipped /\ b # Detached => head = b
       /\ call[w].pc = "delete" /\ ~slipped /\ b \in Bases =>
            stale \/ s \notin DOMAIN tip \/ IsPrefix(tip[s], tip[b])
       /\ call[w].pc = "unset" /\ ~slipped /\ b \in Bases =>
            stale \/ s \notin DOMAIN tip \/ rebase = s
LandInv == \A w \in Callers \ moved : Landing(w)

\* The ids of all patches on a branch.
Stored == UNION {Ids(tip[b]) : b \in DOMAIN tip}

SInv == RepoInv /\ ListsInv /\ LandInv /\ NoPatchLost

LEMMA InitSInv == Init => SInv
<1> SUFFICES ASSUME Init PROVE SInv
  OBVIOUS
<1> DEFINE user == [b \in Bases |-> IF b = Main THEN <<>> ELSE <<New(1)>>]
<1>1. New(1) \in AnyPatch /\ New(2) \in AnyPatch /\ New(3) \in AnyPatch
  BY DEF New, AnyPatch
<1>2. /\ DOMAIN user = Bases /\ \A b \in Bases : user[b] \in Seq(AnyPatch)
      /\ \A b \in Bases \ {Main} : 1 \in Ids(user[b])
  <2>1. <<>> \in Seq(AnyPatch) /\ <<New(1)>> \in Seq(AnyPatch)
    BY <1>1
  <2>2. 1 \in Ids(<<New(1)>>)
    BY DEF Ids, ToSet, New
  <2>3. QED
    BY <2>1, <2>2
<1>3. PICK other \in Bases : other # Main
  BY BasesAssumption, BranchesAssumption
<1>4. call = [w \in Callers |-> Idle] /\ moved = {} /\ rebase = None /\ at = <<>> /\ ~stale
  BY DEF Init
<1>5. ListsInv /\ LandInv
  BY <1>4, EmptySeq DEF ListsInv, ListOK, LandInv, Landing, Idle
<1> HIDE DEF user
<1>6. CASE tip = user /\ head \in Bases /\ patches = 1
  <2>1. RepoInv
    BY <1>2, <1>4, <1>6, EmptySeq DEF RepoInv
  <2>2. 1 .. patches \subseteq Stored
    BY <1>2, <1>3, <1>6 DEF Stored
  <2>3. QED
    BY <1>5, <2>1, <2>2 DEF SInv, NoPatchLost, Stored
<1>7. ASSUME NEW b \in Bases, NEW s \in Series,
             tip = With(user, s, user[b] \o <<New(2), New(3)>>), head = s, patches = 3
      PROVE  SInv
  <2> DEFINE c == user[b] \o <<New(2), New(3)>>
  <2>1. <<New(2), New(3)>> \in Seq(AnyPatch) /\ {2, 3} \subseteq Ids(<<New(2), New(3)>>)
    BY <1>1 DEF Ids, ToSet, New
  <2>2. c \in Seq(AnyPatch) /\ {2, 3} \subseteq Ids(c)
    <3>1. user[b] \in Seq(AnyPatch)
      BY <1>2
    <3>2. c \in Seq(AnyPatch) /\ Ids(c) = Ids(user[b]) \cup Ids(<<New(2), New(3)>>)
      BY <2>1, <3>1, ConcatProperties, ConcatIds
    <3>3. QED
      BY <2>1, <3>2
  <2> HIDE DEF c
  <2>3. tip = With(user, s, c)
    BY <1>7 DEF c
  <2>4. /\ DOMAIN tip = Bases \cup {s} /\ tip[s] = c
        /\ \A d \in Bases : d # s => tip[d] = user[d]
    BY <1>2, <2>3 DEF With
  <2>5. RepoInv
    BY <1>2, <1>4, <1>7, <2>2, <2>4, EmptySeq DEF RepoInv
  <2>6. other # s
    BY BranchesAssumption
  <2>7. 1 \in Stored /\ 2 \in Stored /\ 3 \in Stored
    BY <1>2, <1>3, <2>2, <2>4, <2>6 DEF Stored
  <2>8. 1 .. patches \subseteq Stored
    BY <1>7, <2>7
  <2>9. QED
    BY <1>5, <2>5, <2>8 DEF SInv, NoPatchLost, Stored
<1>8. QED
  BY <1>6, <1>7 DEF Init, user

\* The commit of HEAD, and of any branch there is.
LEMMA CommitType ==
    ASSUME RepoInv
    PROVE  Cur \in Seq(AnyPatch) /\ \A b : Known(b) => CommitOf(b) \in Seq(AnyPatch)
BY DEF RepoInv, Cur, Known, CommitOf

\* rev-list lists commits, and none of them is empty.
LEMMA CommitsFacts ==
    ASSUME RepoInv, NEW b, Known(b)
    PROVE  /\ Commits(b) \in Seq(Seq(AnyPatch)) /\ Len(Commits(b)) \in Nat
           /\ \A i \in 1 .. Len(Commits(b)) : Commits(b)[i] # <<>> /\ Commits(b)[i] \in Seq(AnyPatch)
<1> DEFINE c == Cur
           n == Shared(c, CommitOf(b))
<1>1. c \in Seq(AnyPatch) /\ CommitOf(b) \in Seq(AnyPatch)
  BY CommitType
<1> HIDE DEF c
<1>2. Len(c) \in Nat /\ n \in 0 .. Len(c) /\ \A i \in 1 .. Len(c) : c[i] \in AnyPatch
  BY <1>1, SharedFacts, LenProperties, ElementOfSeq
<1> DEFINE Upto(i) == SubSeq(c, 1, n + i)
           top == Len(c) - n
<1>3. Commits(b) = [i \in 1 .. top |-> Upto(i)]
  BY DEF Commits, c
<1> HIDE DEF n
<1>4. \A i \in 1 .. top : Upto(i) \in Seq(AnyPatch) /\ Upto(i) # <<>>
  <2> TAKE i \in 1 .. top
  <2> DEFINE m == n + i
  <2>1. m \in Int /\ 1 <= m /\ \A k \in 1 .. m : c[k] \in AnyPatch
    BY <1>2
  <2> HIDE DEF m
  <2>2. SubSeq(c, 1, m) \in Seq(AnyPatch) /\ Len(SubSeq(c, 1, m)) = m - 1 + 1
    BY <2>1, SubSeqProperties
  <2>3. SubSeq(c, 1, m) # <<>>
    <3>1. m - 1 + 1 # 0 /\ Len(<<>>) = 0
      BY <2>1
    <3>2. QED
      BY <2>2, <3>1
  <2>4. QED
    BY <2>2, <2>3 DEF m
<1> DEFINE S == Seq(AnyPatch)
<1>5. top \in Nat /\ \A i \in 1 .. top : Upto(i) \in S
  BY <1>2, <1>4
<1> HIDE DEF S, Upto, top
<1>6. [i \in 1 .. top |-> Upto(i)] \in Seq(S)
  BY <1>5, IsASeq
<1>7. Commits(b) \in Seq(S)
  BY <1>3, <1>6
<1>8. DOMAIN Commits(b) = 1 .. Len(Commits(b)) /\ Len(Commits(b)) \in Nat
  BY <1>7, LenProperties
<1>9. QED
  BY <1>3, <1>4, <1>7, <1>8 DEF S

-----------------------------------------------------------------------------
\* The branches stay where they are, whatever becomes of HEAD.
LEMMA TipsStay ==
    ASSUME SInv, stale => stale', UNCHANGED <<tip, patches>>, at' \in Seq(AnyPatch),
           head' \in DOMAIN tip \cup {Detached}, rebase' \in DOMAIN tip \cup {None}
    PROVE  RepoInv' /\ NoPatchLost'
BY DEF SInv, RepoInv, NoPatchLost

\* HEAD and its branch move to a commit with the patches it has, and a new one at most.
LEMMA TipAdvances ==
    ASSUME IInv, SInv, stale => stale', NEW c \in Seq(AnyPatch), Advance(c), UNCHANGED rebase,
           Ids(Cur) \subseteq Ids(c), patches' \in Nat,
           \/ stale' \/ patches' = patches
           \/ head # Detached /\ patches' = patches + 1 /\ patches' \in Ids(c)
    PROVE  RepoInv' /\ NoPatchLost'
<1>1. RepoInv
  BY DEF SInv
<1>2. DOMAIN tip' = DOMAIN tip /\ head' = head
  BY DEF Advance
<1>3. /\ at' \in Seq(AnyPatch)
      /\ \A b \in DOMAIN tip : /\ tip'[b] \in Seq(AnyPatch)
                               /\ Ids(tip[b]) \subseteq Ids(tip'[b])
                               /\ b = head => tip'[b] = c
  <2>1. CASE head = Detached
    <3>1. tip' = tip /\ at' = c
      BY <2>1 DEF Advance
    <3>2. Detached \notin DOMAIN tip
      BY NamesAssumption DEF IInv, ShapeInv
    <3>3. QED
      BY <1>1, <2>1, <3>1, <3>2 DEF RepoInv
  <2>2. CASE head # Detached
    <3>1. tip' = [tip EXCEPT ![head] = c] /\ at' = at /\ Cur = tip[head] /\ head \in DOMAIN tip
      BY <1>1, <2>2 DEF Advance, Cur, RepoInv
    <3>2. QED
      BY <1>1, <3>1 DEF RepoInv
  <2>3. QED
    BY <2>1, <2>2
<1>4. RepoInv'
  BY <1>1, <1>2, <1>3 DEF RepoInv
<1>5. Stored \subseteq Stored'
  BY <1>2, <1>3 DEF Stored
<1>6. NoPatchLost'
  <2>1. SUFFICES ASSUME ~stale' PROVE 1 .. patches' \subseteq Stored'
    BY DEF NoPatchLost, Stored
  <2>2. 1 .. patches \subseteq Stored /\ patches \in Nat
    BY <1>1, <2>1 DEF SInv, NoPatchLost, Stored, RepoInv
  <2>3. CASE patches' = patches
    BY <1>5, <2>2, <2>3
  <2>4. CASE head # Detached /\ patches' = patches + 1 /\ patches' \in Ids(c)
    <3>1. patches' \in Stored'
      BY <1>1, <1>2, <1>3, <2>4 DEF Stored, RepoInv
    <3>2. 1 .. patches' = 1 .. patches \cup {patches'}
      BY <2>2, <2>4
    <3>3. QED
      BY <1>5, <2>2, <3>1, <3>2
  <2>5. QED
    BY <2>1, <2>3, <2>4
<1>7. QED
  BY <1>4, <1>6

\* The step is the call's own, and forgets nothing that went wrong.
LEMMA OwnStep ==
    ASSUME IInv, NEW w \in Callers, Step(w)
    PROVE  OthersStay(w) /\ (slipped => slipped')
<1>1. DOMAIN call = Callers
  BY DEF IInv, ShapeInv
<1>2. ASSUME NEW j \in Job, Call(w, j)
      PROVE  OthersStay(w) /\ (slipped => slipped')
  BY <1>1, <1>2 DEF Call, OthersStay
<1>3. CASE Guard(w) \/ Edit(w) \/ Status(w) \/ Branch(w) \/ RecordBase(w) \/ AddAll(w) \/ CommitPatch(w)
  BY <1>1, <1>3 DEF Guard, Edit, Status, Branch, RecordBase, AddAll, CommitPatch, OthersStay, Goto, Return
<1>4. CASE FindTarget(w) \/ CheckoutTarget(w) \/ Merge(w) \/ DeleteBranch(w) \/ UnsetBase(w)
  <2>1. OthersStay(w)
    BY <1>1, <1>4 DEF FindTarget, CheckoutTarget, Merge, DeleteBranch, UnsetBase, OthersStay, Goto, Return
  <2>2. slipped => slipped'
    BY <1>4 DEF FindTarget, CheckoutTarget, Merge, DeleteBranch, UnsetBase
  <2>3. QED
    BY <2>1, <2>2
<1>5. CASE ListSeries(w) \/ CheckoutPatch(w) \/ Test(w) \/ ReturnToBranch(w)
  <2>1. OthersStay(w)
    BY <1>1, <1>5 DEF ListSeries, CheckoutPatch, Test, ReturnToBranch, OthersStay, Goto, Return
  <2>2. slipped => slipped'
    BY <1>5 DEF ListSeries, CheckoutPatch, Test, ReturnToBranch
  <2>3. QED
    BY <2>1, <2>2
<1>6. CASE FindPatch(w) \/ Fixup(w) \/ Rebase(w)
  BY <1>1, <1>6 DEF FindPatch, Fixup, Rebase, OthersStay, Goto, Return
<1>7. QED
  BY <1>2, <1>3, <1>4, <1>5, <1>6 DEF Step

\* A step of a call keeps the repository whole and every patch on a branch.  The
\* commands that change neither a branch nor HEAD, ...
LEMMA QuietCommands ==
    ASSUME SInv, NEW w \in Callers, Observe(w),
           \/ \E j \in Job : Call(w, j)
           \/ Guard(w) \/ Edit(w) \/ Status(w) \/ RecordBase(w) \/ AddAll(w)
           \/ FindTarget(w) \/ UnsetBase(w) \/ ListSeries(w) \/ Test(w) \/ FindPatch(w)
    PROVE  RepoInv' /\ NoPatchLost'
<1>1. UNCHANGED <<tip, patches, at, head, rebase>>
  BY DEF Call, Guard, Edit, Status, RecordBase, AddAll, FindTarget, UnsetBase, ListSeries, Test,
         FindPatch, repo, counts
<1>2. stale => stale'
  BY DEF Observe
<1>3. QED
  BY <1>1, <1>2, TipsStay DEF SInv, RepoInv

\* ... those that check out, ...
LEMMA CheckoutKeeps ==
    ASSUME RepoInv, NEW b, CheckoutBranch(b)
    PROVE  head' \in DOMAIN tip \cup {Detached} /\ at' \in Seq(AnyPatch)
BY EmptySeq DEF RepoInv, CheckoutBranch, Known

LEMMA Checkouts ==
    ASSUME SInv, NEW w \in Callers, Observe(w),
           CheckoutTarget(w) \/ CheckoutPatch(w) \/ ReturnToBranch(w)
    PROVE  RepoInv' /\ NoPatchLost'
<1>1. UNCHANGED <<tip, patches, rebase>>
  BY DEF CheckoutTarget, CheckoutPatch, ReturnToBranch, counts
<1>2. stale => stale'
  BY DEF Observe
<1>3. head' \in DOMAIN tip \cup {Detached} /\ at' \in Seq(AnyPatch)
  <2>1. CASE UNCHANGED <<head, at>>
    BY <2>1 DEF SInv, RepoInv
  <2>2. ASSUME NEW b, CheckoutBranch(b)
        PROVE  head' \in DOMAIN tip \cup {Detached} /\ at' \in Seq(AnyPatch)
    BY <2>2, CheckoutKeeps DEF SInv
  <2>3. CASE head' = Detached /\ at' = Head(call[w].list) /\ call[w].list # <<>>
    <3>1. call[w].list \in Seq(Seq(AnyPatch))
      BY DEF SInv, ListsInv, ListOK
    <3>2. Head(call[w].list) \in Seq(AnyPatch)
      BY <2>3, <3>1, HeadTailProperties
    <3>3. QED
      BY <2>3, <3>2
  <2>4. QED
    BY <2>1, <2>2, <2>3 DEF CheckoutTarget, CheckoutPatch, ReturnToBranch, CheckoutFails, List
<1>4. QED
  BY <1>1, <1>2, <1>3, TipsStay DEF SInv, RepoInv

\* ... git commit, ...
LEMMA CommitKeeps ==
    ASSUME IInv, SInv, NEW w \in Callers, Observe(w), CommitPatch(w)
    PROVE  RepoInv' /\ NoPatchLost'
<1>1. UNCHANGED rebase /\ (stale => stale') /\ RepoInv
  BY DEF CommitPatch, Observe, SInv
<1>2. CASE UNCHANGED <<patches, tip, head, at>>
  BY <1>1, <1>2, TipsStay DEF RepoInv
<1>3. CASE patches' = patches + 1 /\ Advance(Append(Cur, New(patches')))
  <2>1. New(patches') \in AnyPatch /\ New(patches').id = patches' /\ patches' \in Nat
    BY <1>1, <1>3 DEF New, AnyPatch, RepoInv
  <2>2. /\ Append(Cur, New(patches')) \in Seq(AnyPatch)
        /\ Ids(Append(Cur, New(patches'))) = Ids(Cur) \cup {patches'}
    BY <1>1, <2>1, AppendIds, CommitType
  <2>3. w \in moved => stale'
    <3>1. patches' # patches
      BY <1>1, <1>3 DEF RepoInv
    <3>2. QED
      BY <3>1 DEF Observe
  <2>4. w \notin moved => head \in Series
    BY DEF CommitPatch, At, Asked, IInv, StartInv, OnSeries, SeriesPlaces
  <2>5. stale' \/ head # Detached
    BY <2>3, <2>4, SeriesAreBranches, BranchesAreNamed
  <2>6. QED
    BY <1>1, <1>3, <2>1, <2>2, <2>5, TipAdvances
<1>4. QED
  BY <1>2, <1>3 DEF CommitPatch

LEMMA FixupKeeps ==
    ASSUME IInv, SInv, NEW w \in Callers, Observe(w), Fixup(w)
    PROVE  RepoInv' /\ NoPatchLost'
<1>1. UNCHANGED <<rebase, patches>> /\ (stale => stale') /\ RepoInv
  BY DEF Fixup, Observe, SInv, counts
<1>2. CASE UNCHANGED <<tip, head, at>>
  BY <1>1, <1>2, TipsStay DEF RepoInv
<1>3. CASE Advance(Append(Cur, [Last(List(w)[1]) EXCEPT !.fix = TRUE]))
  <2> DEFINE l == call[w].list
             p == Last(l[1])
  <2>1. l \in Seq(Seq(AnyPatch)) /\ Len(l) = 1 /\ l[1] # <<>>
    BY DEF SInv, ListsInv, ListOK, Fixup, At
  <2>2. l[1] \in Seq(AnyPatch) /\ l[1] # <<>>
    BY <2>1, ElementOfSeq
  <2> HIDE DEF l
  <2>3. Len(l[1]) \in Nat /\ Len(l[1]) # 0 /\ \A i \in 1 .. Len(l[1]) : l[1][i] \in AnyPatch
    BY <2>2, LenProperties, ElementOfSeq, EmptySeq
  <2>4. p \in AnyPatch
    BY <2>3 DEF Last
  <2> HIDE DEF p
  <2>5. [p EXCEPT !.fix = TRUE] \in AnyPatch
    BY <2>4 DEF AnyPatch
  <2>6. /\ Append(Cur, [p EXCEPT !.fix = TRUE]) \in Seq(AnyPatch)
        /\ Ids(Cur) \subseteq Ids(Append(Cur, [p EXCEPT !.fix = TRUE]))
    BY <1>1, <2>5, AppendIds, CommitType
  <2>7. Advance(Append(Cur, [p EXCEPT !.fix = TRUE])) /\ patches' \in Nat
    BY <1>1, <1>3 DEF p, l, List, RepoInv
  <2>8. QED
    BY <1>1, <2>6, <2>7, TipAdvances
<1>4. QED
  BY <1>2, <1>3 DEF Fixup

\* ... git merge, git branch -d of what HEAD has, ...
LEMMA MergeKeeps ==
    ASSUME IInv, SInv, NEW w \in Callers, Observe(w), Merge(w)
    PROVE  RepoInv' /\ NoPatchLost'
<1>1. UNCHANGED <<rebase, patches>> /\ (stale => stale') /\ RepoInv /\ patches' \in Nat
  BY DEF Merge, Observe, SInv, counts, RepoInv
<1>2. CASE UNCHANGED <<tip, head, at>>
  BY <1>1, <1>2, TipsStay DEF RepoInv
<1>3. CASE Advance(Cur)
  BY <1>1, <1>3, CommitType, TipAdvances
<1>4. CASE /\ Advance(CommitOf(From(w))) /\ Known(From(w)) /\ IsPrefix(Cur, CommitOf(From(w)))
  <2>1. Cur \in Seq(AnyPatch) /\ CommitOf(From(w)) \in Seq(AnyPatch)
    BY <1>1, <1>4, CommitType
  <2>2. Ids(Cur) \subseteq Ids(CommitOf(From(w)))
    BY <1>4, <2>1, PrefixIds
  <2>3. QED
    BY <1>1, <1>4, <2>1, <2>2, TipAdvances
<1>5. QED
  BY <1>2, <1>3, <1>4 DEF Merge, FastForward

LEMMA DeleteKeeps ==
    ASSUME IInv, SInv, NEW w \in Callers, Observe(w), DeleteBranch(w)
    PROVE  RepoInv' /\ NoPatchLost'
<1>1. UNCHANGED <<head, at, rebase, patches>> /\ (stale => stale') /\ RepoInv
  BY DEF DeleteBranch, Observe, SInv, counts
<1>2. CASE UNCHANGED tip
  BY <1>1, <1>2, TipsStay DEF RepoInv
<1>3. CASE /\ Deletable(From(w)) /\ rebase # From(w)
           /\ tip' = [b \in DOMAIN tip \ {From(w)} |-> tip[b]]
  <2> DEFINE s == From(w)
  <2>1. s \in DOMAIN tip /\ s # head /\ IsPrefix(tip[s], Cur)
    BY <1>3 DEF Deletable
  <2>2. RepoInv'
    BY <1>1, <1>3, <2>1 DEF RepoInv
  <2>3. stale' \/ Stored \subseteq Stored'
    <3>1. CASE w \in moved
      <4>1. DOMAIN tip' # DOMAIN tip
        BY <1>3, <2>1
      <4>2. QED
        BY <3>1, <4>1 DEF Observe
    <3>2. CASE w \notin moved
      <4>1. head \in DOMAIN tip /\ Cur = tip[head]
        BY <1>1, <3>2 DEF DeleteBranch, At, SInv, LandInv, Landing, RepoInv, Cur
      <4>2. Ids(tip[s]) \subseteq Ids(tip[head])
        BY <1>1, <2>1, <4>1, PrefixIds DEF RepoInv
      <4>3. \A b \in DOMAIN tip : b # s => b \in DOMAIN tip' /\ tip'[b] = tip[b]
        BY <1>3
      <4> HIDE DEF s
      <4>4. QED
        BY <2>1, <4>1, <4>2, <4>3 DEF Stored
    <3>3. QED
      BY <3>1, <3>2
  <2>4. QED
    BY <1>1, <2>2, <2>3 DEF SInv, NoPatchLost, Stored
<1>4. QED
  BY <1>2, <1>3 DEF DeleteBranch

\* ... and git rebase, which leaves out only what the new base has.
LEMMA RebaseKeeps ==
    ASSUME IInv, SInv, NEW w \in Callers, Observe(w), Rebase(w)
    PROVE  RepoInv' /\ NoPatchLost'
<1>1. UNCHANGED patches /\ (stale => stale') /\ RepoInv /\ patches' \in Nat
  BY DEF Rebase, Observe, SInv, counts, RepoInv
<1>2. CASE UNCHANGED <<tip, head, at, rebase>>
  BY <1>1, <1>2, TipsStay DEF RepoInv
<1>3. CASE Advance(Rebased(Onto(w))) /\ UNCHANGED rebase /\ Known(Onto(w))
  <2>1. Cur \in Seq(AnyPatch) /\ CommitOf(Onto(w)) \in Seq(AnyPatch)
    BY <1>1, <1>3, CommitType
  <2>2. Rebased(Onto(w)) \in Seq(AnyPatch) /\ Ids(Cur) \subseteq Ids(Rebased(Onto(w)))
    BY <2>1, RebasedFacts
  <2>3. QED
    BY <1>1, <1>3, <2>2, TipAdvances
<1>4. CASE /\ head # Detached /\ Known(Onto(w)) /\ UNCHANGED tip
           /\ rebase' = head /\ head' = Detached /\ at' = CommitOf(Onto(w))
  <2>1. at' \in Seq(AnyPatch) /\ head \in DOMAIN tip
    BY <1>1, <1>4, CommitType DEF RepoInv
  <2>2. QED
    BY <1>1, <1>4, <2>1, TipsStay
<1>5. QED
  BY <1>2, <1>3, <1>4 DEF Rebase

\* A new branch has a name of its own.
LEMMA BranchKeeps ==
    ASSUME SInv, NEW w \in Callers, Observe(w), Branch(w)
    PROVE  RepoInv' /\ NoPatchLost'
<1>1. UNCHANGED <<rebase, patches>> /\ (stale => stale') /\ RepoInv
  BY DEF Branch, Observe, SInv, counts
<1>2. CASE UNCHANGED <<tip, head, at>>
  BY <1>1, <1>2, TipsStay DEF RepoInv
<1>3. ASSUME NEW s, s \notin DOMAIN tip, Known(Onto(w)), tip' = With(tip, s, CommitOf(Onto(w))),
             head' = s, at' = <<>>
      PROVE  RepoInv' /\ NoPatchLost'
  <2>1. CommitOf(Onto(w)) \in Seq(AnyPatch)
    BY <1>1, <1>3, CommitType
  <2>2. /\ DOMAIN tip' = DOMAIN tip \cup {s} /\ tip'[s] = CommitOf(Onto(w))
        /\ \A b \in DOMAIN tip : tip'[b] = tip[b]
    BY <1>3 DEF With
  <2>3. RepoInv'
    BY <1>1, <1>3, <2>1, <2>2, EmptySeq DEF RepoInv
  <2>4. Stored \subseteq Stored'
    BY <2>2 DEF Stored
  <2>5. QED
    BY <1>1, <2>3, <2>4 DEF SInv, NoPatchLost, Stored
<1>4. QED
  BY <1>2, <1>3 DEF Branch

LEMMA StepKeeps ==
    ASSUME IInv, SInv, NEW w \in Callers, Step(w), Observe(w)
    PROVE  RepoInv' /\ NoPatchLost'
BY QuietCommands, Checkouts, CommitKeeps, FixupKeeps, MergeKeeps, DeleteKeeps, RebaseKeeps, BranchKeeps
   DEF Step

-----------------------------------------------------------------------------
\* The commits before a call.
LEMMA ListsStep ==
    ASSUME SInv, NEW w \in Callers, OthersStay(w), ListOK(w)'
    PROVE  ListsInv'
BY DEF SInv, ListsInv, ListOK, OthersStay

\* A place that no call of a reroll that has found its patch is in.
LEMMA SameList ==
    ASSUME SInv, NEW w \in Callers, call'[w].list = call[w].list, call'[w].job = call[w].job,
           call'[w].pc # "fixup"
    PROVE  ListOK(w)'
BY DEF SInv, ListsInv, ListOK

LEMMA ListsKeep ==
    ASSUME IInv, SInv, NEW w \in Callers, Step(w)
    PROVE  ListsInv'
<1>1. OthersStay(w)
  BY OwnStep
<1>2. DOMAIN call = Callers /\ DOMAIN call[w] = {"pc", "job", "from", "onto", "list"}
  BY DEF IInv, ShapeInv
<1>3. CASE Return(w)
  <2>1. call'[w] = Idle
    BY <1>2, <1>3 DEF Return
  <2>2. ListOK(w)'
    BY <2>1, EmptySeq DEF ListOK, Idle
  <2>3. QED
    BY <1>1, <2>2, ListsStep
<1>4. ASSUME NEW j \in Job, Call(w, j)
      PROVE  ListsInv'
  <2>1. call'[w].list = call[w].list /\ call'[w].pc # "fixup" /\ call'[w].job = j
    BY <1>2, <1>4 DEF Call
  <2>2. j.tool = "reroll" => j.index \in Nat /\ 1 <= j.index
    BY BoundsAssumption DEF Job, Asks
  <2>3. ListOK(w)'
    BY <2>1, <2>2 DEF SInv, ListsInv, ListOK
  <2>4. QED
    BY <1>1, <2>3, ListsStep
<1>5. ASSUME NEW place, Goto(w, place), place # "fixup"
      PROVE  ListsInv'
  <2>1. call'[w].list = call[w].list /\ call'[w].job = call[w].job /\ call'[w].pc # "fixup"
    BY <1>2, <1>5 DEF Goto
  <2>2. QED
    BY <1>1, <2>1, SameList, ListsStep
<1>6. CASE Status(w) \/ FindTarget(w)
  <2>1. CASE \E x : call' = [call EXCEPT ![w].pc = "branch", ![w].onto = x]
    <3>1. call'[w].list = call[w].list /\ call'[w].job = call[w].job /\ call'[w].pc # "fixup"
      BY <1>2, <2>1
    <3>2. QED
      BY <1>1, <3>1, SameList, ListsStep
  <2>2. CASE \E x, y : call' = [call EXCEPT ![w].pc = "checkout", ![w].from = x, ![w].onto = y]
    <3>1. call'[w].list = call[w].list /\ call'[w].job = call[w].job /\ call'[w].pc # "fixup"
      BY <1>2, <2>2
    <3>2. QED
      BY <1>1, <3>1, SameList, ListsStep
  <2>3. QED
    BY <1>3, <1>6, <2>1, <2>2 DEF Status, FindTarget
<1>7. CASE ListSeries(w)
  <2>1. ASSUME NEW b, Known(b),
               call' = [call EXCEPT ![w].pc = "walk", ![w].from = head, ![w].list = Commits(b)]
        PROVE  ListsInv'
    <3>1. Commits(b) \in Seq(Seq(AnyPatch))
      BY <2>1, CommitsFacts DEF SInv
    <3>2. call'[w].list = Commits(b) /\ call'[w].job = call[w].job /\ call'[w].pc = "walk"
      BY <1>2, <2>1
    <3>3. ListOK(w)'
      BY <3>1, <3>2 DEF ListOK, SInv, ListsInv
    <3>4. QED
      BY <1>1, <3>3, ListsStep
  <2>2. QED
    BY <1>3, <1>7, <2>1 DEF ListSeries
<1>8. CASE CheckoutPatch(w)
  <2>1. call[w].list \in Seq(Seq(AnyPatch)) /\ call[w].list # <<>> /\ call[w].pc = "walk"
    BY <1>8 DEF SInv, ListsInv, ListOK, CheckoutPatch, At, List
  <2>2. Tail(call[w].list) \in Seq(Seq(AnyPatch))
    BY <2>1, HeadTailProperties
  <2>3. call'[w].list = Tail(call[w].list) /\ call'[w].job = call[w].job /\ call'[w].pc # "fixup"
    BY <1>2, <1>8, <2>1 DEF CheckoutPatch
  <2>4. ListOK(w)'
    BY <2>2, <2>3 DEF ListOK, SInv, ListsInv
  <2>5. QED
    BY <1>1, <2>4, ListsStep
<1>9. CASE FindPatch(w)
  <2>1. ASSUME NEW b, Known(b), Asked(w).index <= Len(Commits(b)),
               call' = [call EXCEPT ![w].pc = "fixup", ![w].onto = b,
                                    ![w].list = <<Commits(b)[Asked(w).index]>>]
        PROVE  ListsInv'
    <3> DEFINE c == Commits(b)[Asked(w).index]
    <3>1. Len(Commits(b)) \in Nat
          /\ \A i \in 1 .. Len(Commits(b)) : Commits(b)[i] # <<>> /\ Commits(b)[i] \in Seq(AnyPatch)
      BY <2>1, CommitsFacts DEF SInv
    <3>2. Asked(w).index \in Nat /\ 1 <= Asked(w).index
      BY <1>9 DEF FindPatch, At, SInv, ListsInv, ListOK, Asked
    <3>3. c # <<>> /\ c \in Seq(AnyPatch)
      BY <2>1, <3>1, <3>2
    <3>4. call'[w].list = <<c>> /\ call'[w].job = call[w].job /\ call'[w].pc = "fixup"
      BY <1>2, <2>1
    <3> HIDE DEF c
    <3>5. <<c>> \in Seq(Seq(AnyPatch)) /\ Len(<<c>>) = 1 /\ <<c>>[1] = c
      BY <3>3
    <3>6. ListOK(w)'
      BY <3>3, <3>4, <3>5 DEF ListOK, SInv, ListsInv
    <3>7. QED
      BY <1>1, <3>6, ListsStep
  <2>2. QED
    BY <1>3, <1>9, <2>1 DEF FindPatch
<1>10. CASE \/ Guard(w) \/ Edit(w) \/ Branch(w) \/ RecordBase(w) \/ AddAll(w) \/ CommitPatch(w)
            \/ CheckoutTarget(w) \/ Merge(w) \/ DeleteBranch(w) \/ UnsetBase(w)
            \/ Test(w) \/ ReturnToBranch(w) \/ Fixup(w) \/ Rebase(w)
  <2>1. \/ Return(w) \/ Goto(w, "start") \/ Goto(w, "record") \/ Goto(w, "commit") \/ Goto(w, "merge")
        \/ Goto(w, "delete") \/ Goto(w, "unset") \/ Goto(w, "walk") \/ Goto(w, "rebase")
    BY <1>10 DEF Guard, Edit, Branch, RecordBase, AddAll, CommitPatch, CheckoutTarget, Merge,
                 DeleteBranch, UnsetBase, Test, ReturnToBranch, Fixup, Rebase
  <2>2. QED
    BY <1>3, <1>5, <2>1
<1>11. QED
  BY <1>4, <1>6, <1>7, <1>8, <1>9, <1>10 DEF Step

-----------------------------------------------------------------------------
\* While HEAD stays on a branch of the user, a call that is not stale adds to that
\* branch at most, and makes and moves no other; a rebase that has stopped is not ended.
Quiet ==
    /\ \/ stale' \/ head \notin Bases \/ head' # head
       \/ /\ head \in DOMAIN tip' /\ IsPrefix(tip[head], tip'[head])
          /\ \A s \in DOMAIN tip' \ {head} : s \in DOMAIN tip /\ tip'[s] = tip[s]
    /\ rebase # None => rebase' = rebase

LEMMA StepIsQuiet ==
    ASSUME IInv, SInv, NEW w \in Callers, Step(w), Observe(w)
    PROVE  Quiet
<1>1. rebase # None => rebase' = rebase
  BY DEF Step, Call, Guard, Edit, Status, Branch, RecordBase, AddAll, CommitPatch, FindTarget,
         CheckoutTarget, Merge, DeleteBranch, UnsetBase, ListSeries, CheckoutPatch, Test,
         ReturnToBranch, FindPatch, Fixup, Rebase, repo
<1>2. SUFFICES ASSUME ~stale', head \in Bases, head' = head
               PROVE  /\ head \in DOMAIN tip' /\ IsPrefix(tip[head], tip'[head])
                      /\ \A s \in DOMAIN tip' \ {head} : s \in DOMAIN tip /\ tip'[s] = tip[s]
  BY <1>1 DEF Quiet
<1>3. head # Detached /\ head \notin Series
  BY <1>2, BranchesAreNamed, SeriesAreNotBases DEF Branches
<1>4. head \in DOMAIN tip /\ tip[head] \in Seq(AnyPatch) /\ IsPrefix(tip[head], tip[head])
  BY <1>3, PrefixOrder DEF SInv, RepoInv
<1>5. CASE tip' = tip
  BY <1>4, <1>5
<1>6. CASE tip' # tip
  <2>1. w \notin moved
    BY <1>2, <1>6 DEF Observe
  <2>2. ~Branch(w)
    <3>1. SUFFICES ASSUME Branch(w) PROVE FALSE
      OBVIOUS
    <3>2. call[w].job.series \in Series
      BY <3>1 DEF Branch, At, Asked, IInv, ShapeInv
    <3>3. head' = call[w].job.series
      BY <1>6, <3>1 DEF Branch, Asked
    <3>4. QED
      BY <1>2, <1>3, <3>2, <3>3
  <2>3. ~CommitPatch(w) /\ ~Fixup(w) /\ ~Rebase(w)
    BY <1>3, <2>1 DEF CommitPatch, Fixup, Rebase, At, Asked, IInv, StartInv, OnSeries, SeriesPlaces
  <2>4. CASE Merge(w)
    <3>1. Cur = tip[head] /\ \A c : Advance(c) => tip' = [tip EXCEPT ![head] = c]
      BY <1>3 DEF Cur, Advance
    <3>2. tip' = [tip EXCEPT ![head] = Cur]
          \/ (tip' = [tip EXCEPT ![head] = CommitOf(From(w))] /\ IsPrefix(Cur, CommitOf(From(w))))
      BY <1>6, <2>4, <3>1 DEF Merge, FastForward
    <3>3. QED
      BY <1>4, <3>1, <3>2
  <2>5. CASE DeleteBranch(w)
    <3>1. tip' = [b \in DOMAIN tip \ {From(w)} |-> tip[b]] /\ From(w) # head
      BY <1>6, <2>5 DEF DeleteBranch, Deletable
    <3>2. QED
      BY <1>4, <3>1
  <2>6. \/ UNCHANGED tip \/ Branch(w) \/ CommitPatch(w) \/ Fixup(w) \/ Rebase(w)
        \/ Merge(w) \/ DeleteBranch(w)
    BY DEF Step, Call, Guard, Edit, Status, RecordBase, AddAll, FindPatch, FindTarget,
           CheckoutTarget, UnsetBase, ListSeries, CheckoutPatch, Test, ReturnToBranch, repo
  <2>7. QED
    BY <1>6, <2>2, <2>3, <2>4, <2>5, <2>6
<1>7. QED
  BY <1>5, <1>6

\* What a series that is being finalized needs of the others, it has of them.
LEMMA OthersLand ==
    ASSUME IInv, SInv, RepoInv', Quiet, stale => stale', slipped => slipped',
           NEW v \in Callers, v \notin moved, call'[v] = call[v], head' = head
    PROVE  Landing(v)'
<1> DEFINE s == call[v].from
           b == call[v].onto
           pc == call[v].pc
<1>1. Landing(v)
  BY DEF SInv, LandInv
<1>2. /\ pc = "checkout" => s = head
      /\ pc \in {"checkout", "merge", "delete", "unset"} => s \in Series /\ b # s
      /\ pc \in {"merge", "delete"} => head # Detached
      /\ pc \in {"merge", "delete", "unset"} /\ ~slipped /\ b # Detached => head = b
  BY <1>1 DEF Landing
<1>3. ASSUME pc \in {"delete", "unset"}, ~slipped', b \in Bases, ~stale', s \in DOMAIN tip'
      PROVE  /\ pc = "delete" => IsPrefix(tip'[s], tip'[b])
             /\ pc = "unset" => rebase' = s
  <2>1. b \in Branches /\ b # Detached /\ s \in Branches /\ s # None /\ b # s
    BY <1>2, <1>3, BranchesAreNamed DEF Branches
  <2>2. head = b
    BY <1>2, <1>3, <2>1
  <2>3. /\ b \in DOMAIN tip' /\ IsPrefix(tip[b], tip'[b])
        /\ s \in DOMAIN tip /\ tip'[s] = tip[s]
    BY <1>3, <2>1, <2>2 DEF Quiet
  <2>4. CASE pc = "delete"
    <3>1. IsPrefix(tip[s], tip[b])
      BY <1>1, <1>3, <2>3, <2>4 DEF Landing
    <3>2. tip[s] \in Seq(AnyPatch) /\ tip[b] \in Seq(AnyPatch) /\ tip'[b] \in Seq(AnyPatch)
      BY <2>1, <2>2, <2>3 DEF SInv, RepoInv
    <3>3. IsPrefix(tip[s], tip'[b])
      BY <2>3, <3>1, <3>2, PrefixOrder
    <3>4. QED
      BY <2>3, <2>4, <3>3
  <2>5. CASE pc = "unset"
    <3>1. rebase = s
      BY <1>1, <1>3, <2>3, <2>5 DEF Landing
    <3>2. QED
      BY <2>1, <2>5, <3>1 DEF Quiet
  <2>6. QED
    BY <1>3, <2>4, <2>5
<1> HIDE DEF s, b, pc
<1>4. call'[v].from = s /\ call'[v].onto = b /\ call'[v].pc = pc
  BY DEF s, b, pc
<1>5. QED
  BY <1>2, <1>3, <1>4 DEF Landing

LEMMA LandStep ==
    ASSUME IInv, SInv, RepoInv', NEW w \in Callers, Step(w), Observe(w),
           w \notin moved => Landing(w)'
    PROVE  LandInv'
<1>1. OthersStay(w) /\ (slipped => slipped') /\ (stale => stale') /\ Quiet
  BY OwnStep, StepIsQuiet DEF Observe
<1>2. SUFFICES ASSUME NEW v \in Callers, v \notin moved' PROVE Landing(v)'
  BY DEF LandInv
<1>3. CASE call'[v].pc \in {"idle", "guard"}
  BY <1>3 DEF Landing
<1>4. CASE call'[v].pc \notin {"idle", "guard"} /\ v = w
  BY <1>2, <1>4 DEF Observe
<1>5. CASE call'[v].pc \notin {"idle", "guard"} /\ v # w
  <2>1. v \notin moved /\ head' = head /\ call'[v] = call[v]
    BY <1>1, <1>2, <1>5 DEF Observe, OthersStay
  <2>2. QED
    BY <1>1, <2>1, OthersLand
<1>6. QED
  BY <1>3, <1>4, <1>5

\* The steps of git_finalize_series.
LEMMA FindTargetLands ==
    ASSUME IInv, SInv, NEW w \in Callers, FindTarget(w), w \notin moved
    PROVE  Landing(w)'
<1>1. DOMAIN call = Callers /\ DOMAIN call[w] = {"pc", "job", "from", "onto", "list"}
  BY DEF IInv, ShapeInv
<1>2. CASE Return(w)
  BY <1>1, <1>2 DEF Return, Landing, Idle
<1>3. CASE ~Return(w)
  <2>1. head \in Series /\ head' = head
    BY DEF FindTarget, At, Asked, IInv, StartInv, OnSeries, SeriesPlaces, repo
  <2>2. PICK x : x # head /\ call' = [call EXCEPT ![w].pc = "checkout", ![w].from = head, ![w].onto = x]
    BY <1>3 DEF FindTarget
  <2>3. call'[w].pc = "checkout" /\ call'[w].from = head /\ call'[w].onto = x
    BY <1>1, <2>2
  <2>4. QED
    BY <2>1, <2>2, <2>3 DEF Landing
<1>4. QED
  BY <1>2, <1>3

LEMMA CheckoutTargetLands ==
    ASSUME IInv, SInv, NEW w \in Callers, CheckoutTarget(w), w \notin moved
    PROVE  Landing(w)'
<1> DEFINE s == call[w].from
           b == call[w].onto
<1>1. DOMAIN call = Callers /\ DOMAIN call[w] = {"pc", "job", "from", "onto", "list"}
  BY DEF IInv, ShapeInv
<1>2. Landing(w) /\ call[w].pc = "checkout"
  BY DEF SInv, LandInv, CheckoutTarget, At
<1>3. s = head /\ s \in Series /\ b # s /\ head # Detached
  BY <1>2, SeriesAreBranches, BranchesAreNamed DEF Landing
<1>4. call'[w].pc = "merge" /\ call'[w].from = s /\ call'[w].onto = b
  BY <1>1 DEF CheckoutTarget, Goto
<1>5. head' # Detached /\ (~slipped' /\ b # Detached => head' = b)
  <2>1. CASE CheckoutBranch(b)
    BY <1>3, <2>1 DEF CheckoutBranch
  <2>2. CASE CheckoutFails(w, b) /\ slipped' = TRUE
    BY <1>3, <2>2 DEF CheckoutFails
  <2>3. QED
    BY <2>1, <2>2 DEF CheckoutTarget, Onto
<1> HIDE DEF s, b
<1>6. QED
  BY <1>3, <1>4, <1>5 DEF Landing

LEMMA MergeLands ==
    ASSUME IInv, SInv, RepoInv', NEW w \in Callers, Merge(w), w \notin moved
    PROVE  Landing(w)'
<1> DEFINE s == call[w].from
           b == call[w].onto
<1>1. DOMAIN call = Callers /\ DOMAIN call[w] = {"pc", "job", "from", "onto", "list"}
  BY DEF IInv, ShapeInv
<1>2. CASE Return(w)
  BY <1>1, <1>2 DEF Return, Landing, Idle
<1>3. CASE ~Return(w)
  <2>1. Landing(w) /\ call[w].pc = "merge" /\ RepoInv
    BY DEF SInv, LandInv, Merge, At
  <2>2. /\ s \in Series /\ b # s /\ head # Detached
        /\ ~slipped /\ b # Detached => head = b
    BY <2>1 DEF Landing
  <2>3. s # Detached
    BY <2>2, SeriesAreBranches, BranchesAreNamed
  <2>4. /\ Goto(w, "delete") /\ UNCHANGED slipped /\ Known(s) /\ FastForward(s)
        /\ Advance(IF IsPrefix(CommitOf(s), Cur) THEN Cur ELSE CommitOf(s))
    BY <1>3 DEF Merge, From, FastForward
  <2>5. s \in DOMAIN tip /\ CommitOf(s) = tip[s] /\ head \in DOMAIN tip /\ Cur = tip[head]
    BY <2>1, <2>2, <2>3, <2>4 DEF Known, CommitOf, RepoInv, Cur
  <2>6. /\ head' = head
        /\ tip' = [tip EXCEPT ![head] = IF IsPrefix(tip[s], tip[head]) THEN tip[head] ELSE tip[s]]
    BY <2>2, <2>4, <2>5 DEF Advance
  <2>7. ASSUME ~slipped, b # Detached
        PROVE  IsPrefix(tip'[s], tip'[b])
    <3>1. head = b /\ tip'[s] = tip[s] /\ tip[s] \in Seq(AnyPatch)
      BY <2>1, <2>2, <2>5, <2>6, <2>7 DEF RepoInv
    <3>2. IsPrefix(tip[s], tip[s])
      BY <3>1, PrefixOrder
    <3>3. QED
      BY <2>5, <2>6, <3>1, <3>2
  <2>8. call'[w].pc = "delete" /\ call'[w].from = s /\ call'[w].onto = b
    BY <1>1, <2>4 DEF Goto
  <2>9. b \in Bases => b # Detached
    BY BranchesAreNamed DEF Branches
  <2> HIDE DEF s, b
  <2>10. QED
    BY <2>2, <2>4, <2>6, <2>7, <2>8, <2>9 DEF Landing
<1>4. QED
  BY <1>2, <1>3

LEMMA DeleteLands ==
    ASSUME IInv, SInv, NEW w \in Callers, DeleteBranch(w), Observe(w), w \notin moved
    PROVE  Landing(w)'
<1> DEFINE s == call[w].from
           b == call[w].onto
<1>1. DOMAIN call = Callers /\ DOMAIN call[w] = {"pc", "job", "from", "onto", "list"}
  BY DEF IInv, ShapeInv
<1>2. Landing(w) /\ call[w].pc = "delete" /\ RepoInv
  BY DEF SInv, LandInv, DeleteBranch, At
<1>3. /\ s \in Series /\ b # s /\ head # Detached
      /\ ~slipped /\ b # Detached => head = b
  BY <1>2 DEF Landing
<1>4. /\ call'[w].pc = "unset" /\ call'[w].from = s /\ call'[w].onto = b
      /\ head' = head /\ rebase' = rebase /\ (slipped => slipped') /\ (stale => stale')
  <2>1. Goto(w, "unset") /\ head' = head /\ rebase' = rebase /\ (slipped => slipped')
    BY DEF DeleteBranch
  <2>2. QED
    BY <1>1, <2>1 DEF Goto, Observe
<1>5. ASSUME ~slipped', b \in Bases
      PROVE  stale' \/ s \notin DOMAIN tip' \/ rebase' = s
  <2>1. b # Detached /\ head = b /\ Cur = tip[b]
    BY <1>3, <1>4, <1>5, BranchesAreNamed DEF Branches, Cur
  <2>2. stale \/ s \notin DOMAIN tip \/ IsPrefix(tip[s], tip[b])
    BY <1>2, <1>4, <1>5 DEF Landing
  <2>3. CASE s \notin DOMAIN tip
    BY <2>3 DEF DeleteBranch
  <2>4. CASE s \in DOMAIN tip /\ IsPrefix(tip[s], tip[b])
    <3>1. Deletable(s)
      BY <1>3, <2>1, <2>4 DEF Deletable
    <3>2. QED
      BY <1>4, <1>5, <3>1 DEF DeleteBranch, From
  <2>5. QED
    BY <1>4, <2>2, <2>3, <2>4
<1> HIDE DEF s, b
<1>6. QED
  BY <1>3, <1>4, <1>5 DEF Landing

LEMMA StepSInv ==
    ASSUME IInv, SInv, NEW w \in Callers, Step(w), Observe(w)
    PROVE  SInv'
<1>1. RepoInv' /\ NoPatchLost' /\ ListsInv'
  BY StepKeeps, ListsKeep
<1>2. DOMAIN call = Callers /\ DOMAIN call[w] = {"pc", "job", "from", "onto", "list"}
  BY DEF IInv, ShapeInv
<1>3. ASSUME call'[w].pc \notin {"checkout", "merge", "delete", "unset"}
      PROVE  Landing(w)'
  BY <1>3 DEF Landing
<1>4. w \notin moved => Landing(w)'
  <2>1. CASE FindTarget(w) \/ CheckoutTarget(w) \/ Merge(w) \/ DeleteBranch(w)
    BY <1>1, <2>1, FindTargetLands, CheckoutTargetLands, MergeLands, DeleteLands
  <2>2. CASE Return(w)
    BY <1>2, <1>3, <2>2 DEF Return, Idle
  <2>3. ASSUME NEW j \in Job, Call(w, j)
        PROVE  Landing(w)'
    BY <1>2, <1>3, <2>3 DEF Call
  <2>4. CASE Goto(w, "start") \/ Goto(w, "record") \/ Goto(w, "commit") \/ Goto(w, "walk") \/ Goto(w, "rebase")
    BY <1>2, <1>3, <2>4 DEF Goto
  <2>5. CASE Status(w) /\ ~Return(w)
    <3>1. PICK x : call' = [call EXCEPT ![w].pc = "branch", ![w].onto = x]
      BY <2>5 DEF Status
    <3>2. QED
      BY <1>2, <1>3, <3>1
  <2>6. CASE ListSeries(w) /\ ~Return(w)
    <3>1. PICK x : call' = [call EXCEPT ![w].pc = "walk", ![w].from = head, ![w].list = x]
      BY <2>6 DEF ListSeries
    <3>2. QED
      BY <1>2, <1>3, <3>1
  <2>7. CASE CheckoutPatch(w)
    <3>1. call'[w].pc \in {"walk", "test"}
      BY <1>2, <2>7 DEF CheckoutPatch, At
    <3>2. QED
      BY <1>3, <3>1
  <2>8. CASE FindPatch(w) /\ ~Return(w)
    <3>1. PICK x, y : call' = [call EXCEPT ![w].pc = "fixup", ![w].onto = x, ![w].list = y]
      BY <2>8 DEF FindPatch
    <3>2. QED
      BY <1>2, <1>3, <3>1
  <2>9. CASE \/ Guard(w) \/ Edit(w) \/ Branch(w) \/ RecordBase(w) \/ AddAll(w) \/ CommitPatch(w)
             \/ UnsetBase(w) \/ Test(w) \/ ReturnToBranch(w) \/ Fixup(w) \/ Rebase(w)
    <3>1. \/ Return(w) \/ Goto(w, "start") \/ Goto(w, "record") \/ Goto(w, "commit")
          \/ Goto(w, "walk") \/ Goto(w, "rebase")
      BY <2>9 DEF Guard, Edit, Branch, RecordBase, AddAll, CommitPatch, UnsetBase, Test,
                  ReturnToBranch, Fixup, Rebase
    <3>2. QED
      BY <2>2, <2>4, <3>1
  <2>10. QED
    BY <2>1, <2>2, <2>3, <2>5, <2>6, <2>7, <2>8, <2>9 DEF Step
<1>5. QED
  BY <1>1, <1>4, LandStep DEF SInv

\* The user commits, and otherwise moves HEAD only.
LEMMA UserSInv ==
    ASSUME IInv, SInv, (\E b \in Branches : UserCheckout(b)) \/ UserCommit \/ UserCleans
    PROVE  SInv'
<1>1. AllIdle /\ UNCHANGED <<call, moved, stale, slipped>>
  BY DEF UserCheckout, UserCommit, UserCleans, seen
<1>2. ListsInv' /\ LandInv'
  <2>1. \A w \in Callers : call'[w].pc = "idle" /\ call'[w].list = <<>> /\ call'[w].job.tool = "write"
    BY <1>1 DEF AllIdle, Idle
  <2>2. ListsInv'
    BY <2>1, EmptySeq DEF ListsInv, ListOK
  <2>3. ASSUME NEW w \in Callers
        PROVE  Landing(w)'
    <3>1. call'[w].pc = "idle"
      BY <2>1
    <3>2. QED
      BY <3>1 DEF Landing
  <2>4. QED
    BY <2>2, <2>3 DEF LandInv
<1>3. RepoInv
  BY DEF SInv
<1>4. RepoInv' /\ NoPatchLost'
  <2>1. ASSUME NEW b \in Branches, UserCheckout(b)
        PROVE  RepoInv' /\ NoPatchLost'
    <3>1. UNCHANGED <<tip, rebase, patches>> /\ CheckoutBranch(b)
      BY <2>1 DEF UserCheckout, counts
    <3>2. QED
      BY <1>1, <1>3, <3>1, CheckoutKeeps, TipsStay DEF RepoInv
  <2>2. CASE UserCommit
    <3>1. /\ UNCHANGED rebase /\ patches' = patches + 1 /\ head # Detached
          /\ Advance(Append(Cur, New(patches')))
      BY <2>2, BranchesAreNamed DEF UserCommit, Branches
    <3>2. New(patches') \in AnyPatch /\ New(patches').id = patches' /\ patches' \in Nat
      BY <1>3, <3>1 DEF New, AnyPatch, RepoInv
    <3>3. /\ Append(Cur, New(patches')) \in Seq(AnyPatch)
          /\ Ids(Append(Cur, New(patches'))) = Ids(Cur) \cup {patches'}
      BY <1>3, <3>2, AppendIds, CommitType
    <3>4. QED
      BY <1>1, <3>1, <3>2, <3>3, TipAdvances
  <2>3. CASE UserCleans
    <3>1. UNCHANGED <<tip, patches>>
      BY <2>3 DEF UserCleans, counts
    <3>2. rebase' = None /\ at' \in Seq(AnyPatch) /\ head' \in DOMAIN tip \cup {Detached}
      <4>1. CASE rebase = None
        BY <1>3, <2>3, <4>1 DEF UserCleans, RepoInv
      <4>2. CASE rebase # None
        BY <1>3, <2>3, <4>2, EmptySeq DEF UserCleans, RepoInv
      <4>3. QED
        BY <4>1, <4>2
    <3>3. QED
      BY <1>1, <3>1, <3>2, TipsStay
  <2>4. QED
    BY <2>1, <2>2, <2>3
<1>5. QED
  BY <1>2, <1>4 DEF SInv

LEMMA SameRepository ==
    ASSUME SInv, UNCHANGED <<repo, call, patches, moved, stale, slipped>>
    PROVE  SInv'
<1>1. UNCHANGED <<tip, head, at, rebase, call, patches, moved, stale, slipped>>
  BY DEF repo
<1>2. RepoInv' /\ NoPatchLost'
  BY <1>1 DEF SInv, RepoInv, NoPatchLost
<1>3. ListsInv' /\ LandInv'
  BY <1>1 DEF SInv, ListsInv, ListOK, LandInv, Landing
<1>4. QED
  BY <1>2, <1>3 DEF SInv

LEMMA NextSInv == IInv /\ SInv /\ [Next]_vars => SInv'
<1> SUFFICES ASSUME IInv, SInv, [Next]_vars PROVE SInv'
  OBVIOUS
<1>1. ASSUME NEW w \in Callers, Step(w), Observe(w)
      PROVE  SInv'
  BY <1>1, StepSInv
<1>2. CASE (\E b \in Branches : UserCheckout(b)) \/ UserCommit \/ UserCleans
  BY <1>2, UserSInv
<1>3. CASE Cancel \/ UNCHANGED vars
  BY <1>3, SameRepository DEF Cancel, vars, seen, counts
<1>4. QED
  BY <1>1, <1>2, <1>3 DEF Next

\* The inductive invariant of the repository's contents.
THEOREM RepositoryInvariance == Spec => []SInv
BY InitSInv, NextSInv, Invariance, PTL DEF Spec

\* Whatever is staged, committed, rerolled, verified and finalized side by side, every
\* patch ever committed is on some branch, unless a call acts after another has moved
\* HEAD: git branch -d and git rebase --autosquash are the tools' only ways to
\* drop a commit, and what they drop another branch or another commit has.
THEOREM PatchesStay == Spec => []NoPatchLost
<1>1. SInv => NoPatchLost
  BY DEF SInv
<1>2. QED
  BY <1>1, RepositoryInvariance, PTL

\* git_finalize_series leaves HEAD on its target with the series merged into it and
\* the branch of the series gone, unless one of its git commands was refused, HEAD was
\* moved from under a call or a rebase of the series has stopped.
THEOREM SeriesLand == Spec => []FinalizeLands
<1>1. SInv => FinalizeLands
  <2> SUFFICES ASSUME SInv, NEW w \in Callers, call[w].pc = "unset", w \notin moved, ~stale,
                      ~slipped, Onto(w) # Detached, rebase # From(w)
               PROVE  head = Onto(w) /\ (Onto(w) \in Bases => From(w) \notin DOMAIN tip)
    BY DEF FinalizeLands
  <2>1. Landing(w)
    BY DEF SInv, LandInv
  <2>2. QED
    BY <2>1 DEF Landing, From, Onto
<1>2. QED
  BY <1>1, RepositoryInvariance, PTL

-----------------------------------------------------------------------------
\* Only a call's own git rebase ends a reroll there and moves a branch; it is the
\* branch HEAD is on, and moves to what the rebase makes of it.
LEMMA RerollEnds ==
    ASSUME IInv, SInv, Next, NEW w \in Callers, call[w].pc = "rebase", call'[w] = Idle, tip' # tip
    PROVE  /\ head \in DOMAIN tip /\ Cur = tip[head] /\ Known(Onto(w))
           /\ tip'[head] = Rebased(Onto(w))
<1>1. call'[w] # call[w] /\ call[w] # Idle
  BY DEF Idle
<1>2. PICK v \in Callers : Step(v)
  BY <1>1 DEF Next, Cancel, UserCheckout, UserCommit, UserCleans
<1>3. v = w
  BY <1>1, <1>2, OwnStep DEF OthersStay
<1>4. Rebase(w)
  BY <1>1, <1>2, <1>3 DEF Step, Call, Guard, Edit, Status, Branch, RecordBase, AddAll, CommitPatch,
       FindTarget, CheckoutTarget, Merge, DeleteBranch, UnsetBase, ListSeries, CheckoutPatch, Test,
       ReturnToBranch, FindPatch, Fixup, At
<1>5. Advance(Rebased(Onto(w))) /\ Known(Onto(w))
  BY <1>4 DEF Rebase
<1>6. head # Detached /\ tip' = [tip EXCEPT ![head] = Rebased(Onto(w))]
  BY <1>5 DEF Advance
<1>7. head \in DOMAIN tip
  BY <1>6 DEF SInv, RepoInv
<1>8. QED
  BY <1>5, <1>6, <1>7 DEF Cur

\* A reroll that has found its patch works with the base it was asked for, or main.
OntoInv ==
    \A w \in Callers : call[w].pc \in {"fixup", "rebase"} =>
        call[w].onto = IF call[w].job.base = None THEN Main ELSE call[w].job.base

\* Only FindPatch leads there, and nothing changes the base behind it.
LEMMA OntoStep == IInv /\ OntoInv /\ [Next]_vars => OntoInv'
<1> SUFFICES ASSUME IInv, OntoInv, [Next]_vars PROVE OntoInv'
  OBVIOUS
<1>1. CASE UNCHANGED call
  BY <1>1 DEF OntoInv
<1>2. ASSUME NEW w \in Callers, Step(w)
      PROVE  OntoInv'
  <2>1. OthersStay(w)
    BY <1>2, OwnStep
  <2>2. DOMAIN call = Callers /\ DOMAIN call[w] = {"pc", "job", "from", "onto", "list"}
    BY DEF IInv, ShapeInv
  <2>3. SUFFICES ASSUME call'[w].pc \in {"fixup", "rebase"}
                 PROVE  call'[w].onto = IF call'[w].job.base = None THEN Main ELSE call'[w].job.base
    BY <2>1 DEF OntoInv, OthersStay
  <2>4. CASE Return(w)
    BY <2>2, <2>3, <2>4 DEF Return, Idle
  <2>5. ASSUME NEW place, Goto(w, place), place \notin {"fixup", "rebase"}
        PROVE  FALSE
    BY <2>2, <2>3, <2>5 DEF Goto
  <2>6. CASE FindPatch(w) /\ ~Return(w)
    <3>1. PICK y : call' = [call EXCEPT ![w].pc = "fixup",
                              ![w].onto = IF Asked(w).base = None THEN Main ELSE Asked(w).base,
                              ![w].list = y]
      BY <2>6 DEF FindPatch
    <3>2. QED
      BY <2>2, <3>1 DEF Asked
  <2>7. CASE Fixup(w) /\ ~Return(w)
    <3>1. Goto(w, "rebase") /\ call[w].pc = "fixup"
      BY <2>7 DEF Fixup, At
    <3>2. call'[w].onto = call[w].onto /\ call'[w].job = call[w].job
      BY <2>2, <3>1 DEF Goto
    <3>3. QED
      BY <3>1, <3>2 DEF OntoInv
  <2>8. ASSUME NEW j \in Job, Call(w, j)
        PROVE  FALSE
    BY <2>2, <2>3, <2>8 DEF Call
  <2>9. ASSUME (Status(w) \/ FindTarget(w) \/ ListSeries(w) \/ CheckoutPatch(w)) /\ ~Return(w)
        PROVE  FALSE
    <3>1. CASE Status(w) \/ FindTarget(w)
      <4>1. \/ \E x : call' = [call EXCEPT ![w].pc = "branch", ![w].onto = x]
            \/ \E x, y : call' = [call EXCEPT ![w].pc = "checkout", ![w].from = x, ![w].onto = y]
        BY <2>9, <3>1 DEF Status, FindTarget
      <4>2. QED
        BY <2>2, <2>3, <4>1
    <3>2. CASE ListSeries(w)
      <4>1. PICK x : call' = [call EXCEPT ![w].pc = "walk", ![w].from = head, ![w].list = x]
        BY <2>9, <3>2 DEF ListSeries
      <4>2. QED
        BY <2>2, <2>3, <4>1
    <3>3. CASE CheckoutPatch(w)
      <4>1. call'[w].pc \in {"walk", "test"}
        BY <2>2, <2>9, <3>3 DEF CheckoutPatch, At
      <4>2. QED
        BY <2>3, <4>1
    <3>4. QED
      BY <2>9, <3>1, <3>2, <3>3
  <2>10. CASE \/ Guard(w) \/ Edit(w) \/ Branch(w) \/ RecordBase(w) \/ AddAll(w) \/ CommitPatch(w)
              \/ CheckoutTarget(w) \/ Merge(w) \/ DeleteBranch(w) \/ UnsetBase(w)
              \/ Test(w) \/ ReturnToBranch(w) \/ Rebase(w)
    <3>1. \/ Return(w) \/ Goto(w, "start") \/ Goto(w, "record") \/ Goto(w, "commit") \/ Goto(w, "merge")
          \/ Goto(w, "delete") \/ Goto(w, "unset") \/ Goto(w, "walk")
      BY <2>10 DEF Guard, Edit, Branch, RecordBase, AddAll, CommitPatch, CheckoutTarget, Merge,
                   DeleteBranch, UnsetBase, Test, ReturnToBranch, Rebase
    <3>2. QED
      BY <2>4, <2>5, <3>1
  <2>11. QED
    BY <1>2, <2>4, <2>6, <2>7, <2>8, <2>9, <2>10 DEF Step
<1>3. QED
  BY <1>1, <1>2 DEF Next, Cancel, UserCheckout, UserCommit, UserCleans, vars

\* It holds in every state.
LEMMA OntoInvariance == Spec => []OntoInv
<1>1. Init => OntoInv
  BY DEF Init, OntoInv, Idle
<1>2. QED
  BY <1>1, OntoStep, Invariance, PTL DEF Spec

\* A reroll of git_reroll_patch that succeeds leaves the series on top of its base with
\* the patches it has of its own, as many and in their order, and nothing that only
\* amends the one it was asked for, unless the recorded base is one it overlooks: what
\* rebase --autosquash does to a todo list, for every series, every base and every
\* number of amendments that are already there.
THEOREM SeriesKeepTheirPatches == Spec => RerollKeepsSeries
<1> DEFINE Keeps ==
       \A w \in Callers :
         LET new == CommitOf(BaseFor(Asked(w).base))
             old == tip[head]
             id  == Last(List(w)[1]).id
         IN (call[w].pc = "rebase" /\ call'[w] = Idle /\ tip' # tip /\ w \notin moved
                /\ ~BaseOverlooked(w) /\ ~Reworked(old, new)) =>
            /\ IsPrefix(new, tip'[head])
            /\ Order(tip'[head]) = Order(new) \o Rest(Order(old), Ids(new))
            /\ id \in {p.id : p \in Own(old, new)} =>
                 \A p \in ToSet(tip'[head]) : p.fix => p.id # id
<1>1. IInv /\ SInv /\ OntoInv /\ [Next]_vars => [Keeps]_vars
  <2> SUFFICES ASSUME IInv, SInv, OntoInv, Next, NEW w \in Callers, call[w].pc = "rebase",
                      call'[w] = Idle, tip' # tip, ~BaseOverlooked(w),
                      ~Reworked(tip[head], CommitOf(BaseFor(Asked(w).base)))
               PROVE  LET new == CommitOf(BaseFor(Asked(w).base)) IN
                      /\ IsPrefix(new, tip'[head])
                      /\ Order(tip'[head]) = Order(new) \o Rest(Order(tip[head]), Ids(new))
                      /\ \A q \in Own(tip[head], new), p \in ToSet(tip'[head]) :
                           p.fix => p.id # q.id
    OBVIOUS
  <2>0. BaseFor(Asked(w).base) = Onto(w)
    BY DEF OntoInv, BaseFor, BaseOverlooked, Asked, Onto
  <2>1. /\ head \in DOMAIN tip /\ Cur = tip[head] /\ Known(Onto(w))
        /\ tip'[head] = Rebased(Onto(w))
    BY RerollEnds
  <2>2. Cur \in Seq(AnyPatch) /\ CommitOf(Onto(w)) \in Seq(AnyPatch)
    BY <2>1, CommitType DEF SInv
  <2>3. ~Reworked(Cur, CommitOf(Onto(w)))
    BY <2>0, <2>1
  <2>4. /\ Order(Rebased(Onto(w))) =
             Order(CommitOf(Onto(w))) \o Rest(Order(Cur), Ids(CommitOf(Onto(w))))
        /\ \A q \in Own(Cur, CommitOf(Onto(w))), p \in ToSet(Rebased(Onto(w))) : p.fix => p.id # q.id
        /\ IsPrefix(CommitOf(Onto(w)), Rebased(Onto(w)))
    BY <2>2, <2>3, RebasedOrder
  <2>5. QED
    BY <2>0, <2>1, <2>4
<1>2. QED
  BY <1>1, Invariance, RepositoryInvariance, OntoInvariance, PTL DEF Spec, RerollKeepsSeries
=============================================================================
