------------------------------- MODULE MailModel -------------------------------
(***************************************************************************)
(* The mail model: the git tools of core/tool_executor.cpp and the guard   *)
(* that keeps the modifying tools on a staging branch.  The calls of a     *)
(* batch run at the same time, on one repository with one HEAD.            *)
(*                                                                         *)
(* A step is one git command that changes something, with the commands     *)
(* that only read before it.  A commit is the sequence of the patches up   *)
(* to it, so "is an ancestor of" is "is a prefix of".  What git does is    *)
(* external; it refuses what it would refuse, and it may refuse to touch   *)
(* a tree with changes, or a repository that another call has locked.      *)
(* Between batches the user may check out, commit, and clean up.           *)
(***************************************************************************)
EXTENDS Naturals, Sequences, FiniteSets, SequencesExt

CONSTANTS
    Callers,    \* the workers of the pool
    Bases,      \* the branches of the user
    Main,       \* "main"
    Series,     \* the branches slop/staging/*
    MaxPatches, \* bound: patches committed
    MaxCalls    \* bound: tool calls

ASSUME BranchesAssumption == Main \in Bases /\ Bases \cap Series = {}
\* Patch 1 is on another branch of the user.
ASSUME BasesAssumption == Bases # {Main}
ASSUME BoundsAssumption == MaxPatches \in Nat /\ MaxPatches >= 3 /\ MaxCalls \in Nat

Branches == Bases \cup Series
Detached == "HEAD"      \* what "git rev-parse --abbrev-ref HEAD" says then
None     == "none"
ASSUME NamesAssumption == {Detached, None} \cap Branches = {}

VARIABLES
    \* the repository
    tip,        \* the branches there are, and their commits
    head, at,   \* HEAD: a branch; or Detached, and the commit
    edits, staged,  \* the tree has changes, the index has
    rebase,     \* the branch whose rebase has stopped, or None
    base,       \* git config slop.basebranch, or None
    \* the batch
    cancelled,
    call,       \* of a worker: see CallState
    \* how many patches and calls there have been
    patches, calls,
    \* observed: the calls since whose guard another has moved HEAD; whether
    \* such a call has changed a branch or committed; whether one has read a
    \* branch name other than its guard's, or overlooked what git refused
    moved, stale, slipped

repo   == <<tip, head, at, edits, staged, rebase, base>>
counts == <<patches, calls>>
seen   == <<moved, stale, slipped>>
vars   == <<repo, cancelled, call, counts, seen>>

\* rev: how often it was amended; fix: a commit that amends the patch id.
Patch  == [id : 1 .. MaxPatches, rev : 0 .. MaxCalls, fix : BOOLEAN]
Commit == Seq(Patch)

Tools == {"write", "commit", "stage", "finalize", "verify", "reroll"}
\* base, target_branch, base_branch: None is the empty argument.
Asks(tools, series, bases, indexes) ==
    [tool : tools, series : series, base : bases, index : indexes]
Job == Asks({"write", "commit"}, {None}, {None}, {1})
       \cup Asks({"stage"}, Series, Bases \cup {None}, {1})
       \cup Asks({"finalize", "verify"}, {None}, Bases \cup {None}, {1})
       \cup Asks({"reroll"}, {None}, Bases \cup {None}, 1 .. MaxPatches)

Places == {"idle", "guard", "start", "branch", "record", "commit", "checkout", "merge",
           "delete", "unset", "walk", "test", "fixup", "rebase"}

\* Where the call is, what it was asked, the branch it found itself on, the
\* base it works with, and the commits it has before it.
CallState == [pc : Places, job : Job, from : Branches \cup {Detached},
              onto : Branches \cup {Detached}, list : Seq(Commit)]
Idle == [pc |-> "idle", job |-> [tool |-> "write", series |-> None, base |-> None, index |-> 1],
         from |-> Main, onto |-> Main,
         list |-> <<>>]

TypeOK ==
    /\ DOMAIN tip \in SUBSET Branches
    /\ \A b \in DOMAIN tip : tip[b] \in Commit
    /\ head \in DOMAIN tip \cup {Detached} /\ at \in Commit
    /\ edits \in BOOLEAN /\ staged \in BOOLEAN
    /\ rebase \in DOMAIN tip \cup {None}
    /\ base \in Branches \cup {Detached, None}
    /\ cancelled \in BOOLEAN
    /\ call \in [Callers -> CallState]
    /\ patches \in 0 .. MaxPatches /\ calls \in 0 .. MaxCalls
    /\ moved \subseteq Callers /\ stale \in BOOLEAN /\ slipped \in BOOLEAN

\* The branches, and s at c.
With(branches, s, c) == [b \in DOMAIN branches \cup {s} |-> IF b = s THEN c ELSE branches[b]]

New(id) == [id |-> id, rev |-> 0, fix |-> FALSE]

\* The other branches of the user are a patch ahead of main.  An earlier
\* session may have left a series of two patches on one of the user's.
Init ==
    /\ LET user == [b \in Bases |-> IF b = Main THEN <<>> ELSE <<New(1)>>] IN
       \/ tip = user /\ head \in Bases /\ base = None /\ patches = 1
       \/ \E b \in Bases, s \in Series :
            /\ tip = With(user, s, user[b] \o <<New(2), New(3)>>)
            /\ head = s /\ base = b /\ patches = 3
    /\ at = <<>> /\ edits = FALSE /\ staged = FALSE /\ rebase = None
    /\ cancelled = FALSE /\ call = [w \in Callers |-> Idle] /\ calls = 0
    /\ moved = {} /\ stale = FALSE /\ slipped = FALSE

-----------------------------------------------------------------------------
\* The repository.

Known(b)  == b \in DOMAIN tip \cup {Detached}
Cur       == IF head = Detached THEN at ELSE tip[head]
CommitOf(b) == IF b = Detached THEN Cur ELSE tip[b]
Dirty     == edits \/ staged

\* The length of what two commits share.
Shared(c, d) == Cardinality({i \in 1 .. Len(c) : IsPrefix(SubSeq(c, 1, i), d)})

\* rev-list --reverse b..HEAD
Commits(b) == [i \in 1 .. Len(Cur) - Shared(Cur, CommitOf(b)) |->
                 SubSeq(Cur, 1, Shared(Cur, CommitOf(b)) + i)]

\* HEAD moves to c, with its branch.
Advance(c) ==
    /\ tip' = IF head = Detached THEN tip ELSE [tip EXCEPT ![head] = c]
    /\ at' = IF head = Detached THEN c ELSE at
    /\ UNCHANGED head

\* git may refuse to touch what it would overwrite, or what is locked.
Busy(w) == \E v \in Callers \ {w} : call[v] # Idle
MayFail(w) == Dirty \/ Busy(w)

\* A stopped rebase whose conflict nobody has staged; git refuses to check
\* out, to merge and to commit then.
Unmerged == rebase # None /\ edits

\* "git checkout HEAD" changes nothing.
CheckoutBranch(b) ==
    /\ Known(b) /\ ~Unmerged
    /\ head' = IF b = Detached THEN head ELSE b
    /\ at' = IF b = Detached THEN at ELSE <<>>
CheckoutFails(w, b) ==
    /\ ~Known(b) \/ Unmerged \/ MayFail(w)
    /\ UNCHANGED <<head, at>>

-----------------------------------------------------------------------------
\* A call.

\* IsProtectedTool: all but the tool that makes the staging branch.
Protected(tool) == tool # "stage"

Asked(w) == call[w].job
From(w)  == call[w].from
Onto(w)  == call[w].onto
List(w)  == call[w].list

Goto(w, place) == call' = [call EXCEPT ![w].pc = place]
Return(w) == call' = [call EXCEPT ![w] = Idle]

Call(w, j) ==
    /\ call[w] = Idle /\ calls < MaxCalls /\ ~(cancelled /\ Busy(w))
    /\ calls' = calls + 1 /\ cancelled' = FALSE
    /\ call' = [call EXCEPT ![w].job = j,
                            ![w].pc = IF Protected(j.tool) THEN "guard" ELSE "start"]
    /\ UNCHANGED <<repo, patches, slipped>>

\* A faulty guard that knows the user's branches by name.
KnowsMain == head # Main
OnStaging == head \in Series

\* CheckStagingBranch
Guard(w) ==
    /\ call[w].pc = "guard"
    /\ IF OnStaging THEN Goto(w, "start") ELSE Return(w)
    /\ UNCHANGED <<repo, cancelled, counts, slipped>>

At(w, tool, place) == call[w].pc = place /\ Asked(w).tool = tool

\* write_file, apply_patch, execute_bash
Edit(w) ==
    /\ At(w, "write", "start") /\ Return(w)
    /\ edits' = TRUE
    /\ UNCHANGED <<tip, head, at, staged, rebase, base, cancelled, counts, slipped>>

\* git add .
StageAll == staged' = (staged \/ edits) /\ edits' = FALSE

\* GetBaseBranch
BaseFor(b) == IF b # None THEN b ELSE IF base # None THEN base ELSE Main

-----------------------------------------------------------------------------
\* git_branch_staging

\* The tree is clean; the current branch is the base unless one is given.
Status(w) ==
    /\ At(w, "stage", "start")
    /\ IF Dirty THEN Return(w)
       ELSE call' = [call EXCEPT ![w].pc = "branch",
                       ![w].onto = IF Asked(w).base = None THEN head ELSE Asked(w).base]
    /\ UNCHANGED <<repo, cancelled, counts, slipped>>

Branch(w) ==
    /\ At(w, "stage", "branch")
    /\ LET s == Asked(w).series IN
       \/ /\ Known(Onto(w)) /\ s \notin DOMAIN tip /\ ~Unmerged
          /\ tip' = With(tip, s, CommitOf(Onto(w)))
          /\ head' = s /\ at' = <<>> /\ Goto(w, "record")
       \/ /\ ~Known(Onto(w)) \/ s \in DOMAIN tip \/ Unmerged \/ MayFail(w)
          /\ UNCHANGED <<tip, head, at>> /\ Return(w)
    /\ UNCHANGED <<edits, staged, rebase, base, cancelled, counts, slipped>>

\* One base for all series of the repository.
RecordBase(w) ==
    /\ At(w, "stage", "record") /\ Return(w)
    /\ base' = Onto(w)
    /\ UNCHANGED <<tip, head, at, edits, staged, rebase, cancelled, counts, slipped>>

-----------------------------------------------------------------------------
\* git_commit_patch

AddAll(w) ==
    /\ At(w, "commit", "start")
    /\ \/ StageAll /\ Goto(w, "commit")
       \/ Busy(w) /\ Return(w) /\ UNCHANGED <<edits, staged>>
    /\ UNCHANGED <<tip, head, at, rebase, base, cancelled, counts, slipped>>

CommitPatch(w) ==
    /\ At(w, "commit", "commit") /\ Return(w)
    /\ \/ /\ staged /\ ~Unmerged /\ patches < MaxPatches
          /\ patches' = patches + 1 /\ staged' = FALSE
          /\ Advance(Append(Cur, New(patches')))
       \/ /\ ~staged \/ Unmerged \/ Busy(w)
          /\ UNCHANGED <<patches, staged, tip, head, at>>
    /\ UNCHANGED <<edits, rebase, base, cancelled, calls, slipped>>

-----------------------------------------------------------------------------
\* git_finalize_series

FindTarget(w) ==
    /\ At(w, "finalize", "start")
    /\ LET target == BaseFor(Asked(w).base) IN
       IF head = target THEN Return(w)
       ELSE call' = [call EXCEPT ![w].pc = "checkout", ![w].from = head, ![w].onto = target]
    /\ slipped' = (slipped \/ w \in moved)
    /\ UNCHANGED <<repo, cancelled, counts>>

\* Whether the checkout has failed is not looked at.
CheckoutTarget(w) ==
    /\ At(w, "finalize", "checkout") /\ Goto(w, "merge")
    /\ \/ CheckoutBranch(Onto(w)) /\ UNCHANGED slipped
       \/ CheckoutFails(w, Onto(w)) /\ slipped' = TRUE
    /\ UNCHANGED <<tip, edits, staged, rebase, base, cancelled, counts>>

\* A faulty merge that takes whatever the branch is.
Merges(b) == Known(b)
\* --ff-only, and "Already up to date".
FastForward(b) == Known(b) /\ (IsPrefix(Cur, CommitOf(b)) \/ IsPrefix(CommitOf(b), Cur))

Merge(w) ==
    /\ At(w, "finalize", "merge")
    /\ \/ /\ ~Unmerged /\ FastForward(From(w))
          /\ Advance(IF IsPrefix(CommitOf(From(w)), Cur) THEN Cur ELSE CommitOf(From(w)))
          /\ Goto(w, "delete")
       \/ /\ Unmerged \/ ~FastForward(From(w)) \/ MayFail(w)
          /\ Return(w) /\ UNCHANGED <<tip, head, at>>
    /\ UNCHANGED <<edits, staged, rebase, base, cancelled, counts, slipped>>

\* Faulty: only of what main has.
MergedInMain(b) == b \in DOMAIN tip \ {head} /\ Main \in DOMAIN tip /\ IsPrefix(tip[b], tip[Main])
\* branch -d refuses the branch it is on, and one that is not merged into it.
Deletable(b) == b \in DOMAIN tip \ {head} /\ IsPrefix(tip[b], Cur)

DeleteBranch(w) ==
    /\ At(w, "finalize", "delete") /\ Goto(w, "unset")
    /\ \/ /\ Deletable(From(w)) /\ rebase # From(w)
          /\ tip' = [b \in DOMAIN tip \ {From(w)} |-> tip[b]] /\ UNCHANGED slipped
       \/ /\ ~Deletable(From(w)) \/ rebase = From(w)
          /\ UNCHANGED <<tip, slipped>>
       \/ Busy(w) /\ slipped' = TRUE /\ UNCHANGED tip
    /\ UNCHANGED <<head, at, edits, staged, rebase, base, cancelled, counts>>

UnsetBase(w) ==
    /\ At(w, "finalize", "unset") /\ Return(w)
    /\ base' = None
    /\ UNCHANGED <<tip, head, at, edits, staged, rebase, cancelled, counts, slipped>>

-----------------------------------------------------------------------------
\* git_verify_series

ListSeries(w) ==
    /\ At(w, "verify", "start")
    /\ LET b == BaseFor(Asked(w).base) IN
       IF Known(b) /\ Commits(b) # <<>>
       THEN call' = [call EXCEPT ![w].pc = "walk", ![w].from = head, ![w].list = Commits(b)]
       ELSE Return(w)
    /\ slipped' = (slipped \/ w \in moved)
    /\ UNCHANGED <<repo, cancelled, counts>>

\* A commit that cannot be checked out is reported, and passed over.
CheckoutPatch(w) ==
    /\ At(w, "verify", "walk") /\ List(w) # <<>> /\ ~cancelled
    /\ \/ /\ ~Unmerged /\ head' = Detached /\ at' = Head(List(w))
          /\ call' = [call EXCEPT ![w].list = Tail(@), ![w].pc = "test"]
       \/ /\ Unmerged \/ MayFail(w)
          /\ call' = [call EXCEPT ![w].list = Tail(@)]
          /\ UNCHANGED <<head, at>>
    /\ UNCHANGED <<tip, edits, staged, rebase, base, cancelled, counts, slipped>>

\* The command may change files.
Test(w) ==
    /\ At(w, "verify", "test") /\ Goto(w, "walk")
    /\ edits' \in {edits, TRUE}
    /\ UNCHANGED <<tip, head, at, staged, rebase, base, cancelled, counts, slipped>>

\* A faulty return, that a cancellation skips.
StaysIfCancelled(w) == IF cancelled THEN Detached ELSE From(w)
OriginalBranch(w)   == From(w)

\* Nothing is left to verify, or nobody waits for it.
ReturnToBranch(w) ==
    /\ At(w, "verify", "walk") /\ (List(w) = <<>> \/ cancelled) /\ Return(w)
    /\ \/ CheckoutBranch(OriginalBranch(w)) /\ UNCHANGED slipped
       \/ CheckoutFails(w, OriginalBranch(w)) /\ slipped' = TRUE
    /\ UNCHANGED <<tip, edits, staged, rebase, base, cancelled, counts>>

-----------------------------------------------------------------------------
\* git_reroll_patch

\* Its base is main unless one is given.
FindPatch(w) ==
    /\ At(w, "reroll", "start")
    /\ LET b == IF Asked(w).base = None THEN Main ELSE Asked(w).base IN
       IF Known(b) /\ Asked(w).index <= Len(Commits(b))
       THEN \/ /\ StageAll
               /\ IF staged'
                  THEN call' = [call EXCEPT ![w].pc = "fixup", ![w].onto = b,
                                  ![w].list = <<Commits(b)[Asked(w).index]>>]
                  ELSE Return(w)
            \/ Busy(w) /\ Return(w) /\ UNCHANGED <<staged, edits>>
       ELSE Return(w) /\ UNCHANGED <<staged, edits>>
    /\ UNCHANGED <<tip, head, at, rebase, base, cancelled, counts, slipped>>

Fixup(w) ==
    /\ At(w, "reroll", "fixup")
    /\ \/ /\ staged /\ ~Unmerged
          /\ staged' = FALSE
          /\ Advance(Append(Cur, [Last(List(w)[1]) EXCEPT !.fix = TRUE]))
          /\ Goto(w, "rebase")
       \/ /\ ~staged \/ Unmerged \/ Busy(w)
          /\ Return(w) /\ UNCHANGED <<staged, tip, head, at>>
    /\ UNCHANGED <<edits, rebase, base, cancelled, counts, slipped>>

\* What list has at the places I, in order.
Kept(list, I) ==
    [k \in 1 .. Cardinality(I) |-> list[CHOOSE i \in I : Cardinality({j \in I : j <= i}) = k]]

\* Faulty: without --autosquash.
KeepsFixups(part) == part
\* --autosquash: each fixup goes into the patch it amends.
Squash(part) ==
    LET Amends(i, j) == part[i].fix /\ ~part[j].fix /\ part[i].id = part[j].id
        Amended(j) ==
          [part[j] EXCEPT !.rev = @ + Cardinality({i \in DOMAIN part : Amends(i, j)})]
    IN Kept([j \in DOMAIN part |-> Amended(j)],
            {i \in DOMAIN part : ~\E j \in DOMAIN part : Amends(i, j)})

\* What c has beyond what it shares with d.
Beyond(c, d) == SubSeq(c, Shared(c, d) + 1, Len(c))

\* git leaves out what the new base has as it is.
Missing(part, new) == Kept(part, {i \in DOMAIN part : part[i] \notin ToSet(new)})

\* HEAD's own patches, on top of b.
Rebased(b) ==
    LET new == CommitOf(b)
    IN new \o Squash(Missing(Beyond(Cur, new), new))

\* A conflict stops the rebase and leaves HEAD detached; the tool reports it.
Rebase(w) ==
    /\ At(w, "reroll", "rebase") /\ Return(w)
    /\ \/ /\ ~Dirty /\ rebase = None /\ Known(Onto(w))
          /\ Advance(Rebased(Onto(w)))
          /\ UNCHANGED <<rebase, edits>>
       \/ /\ ~Dirty /\ rebase = None /\ head # Detached /\ Known(Onto(w))
          /\ rebase' = head /\ head' = Detached /\ at' = CommitOf(Onto(w)) /\ edits' = TRUE
          /\ UNCHANGED tip
       \/ /\ rebase # None \/ ~Known(Onto(w)) \/ MayFail(w)
          /\ UNCHANGED <<tip, head, at, rebase, edits>>
    /\ UNCHANGED <<staged, base, cancelled, counts, slipped>>

-----------------------------------------------------------------------------
\* Esc.  Of these tools only git_verify_series looks.
Cancel ==
    /\ ~cancelled /\ \E w \in Callers : call[w].pc \in {"walk", "test"}
    /\ cancelled' = TRUE
    /\ UNCHANGED <<repo, call, counts, seen>>

AllIdle == \A w \in Callers : call[w] = Idle

UserCheckout(b) ==
    /\ AllIdle /\ ~Dirty /\ b \in DOMAIN tip /\ CheckoutBranch(b)
    /\ UNCHANGED <<tip, edits, staged, rebase, base, cancelled, call, counts, seen>>

UserCommit ==
    /\ AllIdle /\ ~Dirty /\ head \in Bases /\ patches < MaxPatches
    /\ patches' = patches + 1
    /\ Advance(Append(Cur, New(patches')))
    /\ UNCHANGED <<edits, staged, rebase, base, cancelled, call, calls, seen>>

\* rebase --abort, stash.
UserCleans ==
    /\ AllIdle /\ (Dirty \/ rebase # None)
    /\ edits' = FALSE /\ staged' = FALSE /\ rebase' = None
    /\ head' = IF rebase = None THEN head ELSE rebase
    /\ at' = IF rebase = None THEN at ELSE <<>>
    /\ UNCHANGED <<tip, base, cancelled, call, counts, seen>>

Step(w) ==
    \/ \E j \in Job : Call(w, j)
    \/ Guard(w) \/ Edit(w)
    \/ Status(w) \/ Branch(w) \/ RecordBase(w)
    \/ AddAll(w) \/ CommitPatch(w)
    \/ FindTarget(w) \/ CheckoutTarget(w) \/ Merge(w) \/ DeleteBranch(w) \/ UnsetBase(w)
    \/ ListSeries(w) \/ CheckoutPatch(w) \/ Test(w) \/ ReturnToBranch(w)
    \/ FindPatch(w) \/ Fixup(w) \/ Rebase(w)

\* moved and stale follow from the step.
Observe(w) ==
    /\ moved' = {v \in Callers : /\ call'[v].pc \notin {"idle", "guard"}
                                 /\ v \in moved \/ (v # w /\ head' # head)}
    /\ stale' = (stale \/ (w \in moved /\ <<tip', patches'>> # <<tip, patches>>))

Next ==
    \/ \E w \in Callers : Step(w) /\ Observe(w)
    \/ Cancel
    \/ \E b \in Branches : UserCheckout(b)
    \/ UserCommit \/ UserCleans

Spec == Init /\ [][Next]_vars

-----------------------------------------------------------------------------
\* No user's branch is ever written to: a branch the user has moves only to
\* where a whole series is (git_finalize_series), or by the user, unless a
\* call acts after another of its batch has moved HEAD from under it.
BaseMovesByMerge ==
    [][\A b \in Bases \cap DOMAIN tip :
         \/ stale' \/ AllIdle
         \/ b \in DOMAIN tip' /\ tip'[b] = tip[b]
         \/ \E s \in Series \cap DOMAIN tip :
              tip' = [tip EXCEPT ![b] = tip[s]] /\ IsPrefix(tip[b], tip[s])]_vars

\* Ids of the patches of a commit.
Ids(c) == {p.id : p \in ToSet(c)}

\* Whatever is staged, committed, rerolled, verified and finalized, every
\* patch ever committed is on some branch, unless a call acts after another
\* has moved HEAD.
NoPatchLost ==
    stale \/ 1 .. patches \subseteq UNION {Ids(tip[b]) : b \in DOMAIN tip}

\* Between calls HEAD is on a branch, as git_verify_series found it, unless
\* git_reroll_patch met a conflict or a failure has been overlooked.
AtHome == AllIdle /\ rebase = None /\ ~slipped => head # Detached

\* The ids of the patches of a commit, in order, without those that only amend one.
Order(c) ==
    LET whole == Kept(c, {i \in DOMAIN c : ~c[i].fix})
    IN [i \in DOMAIN whole |-> whole[i].id]

\* What is in one order and not in the other, in its order.
Rest(order, ids) == Kept(order, {i \in DOMAIN order : order[i] \notin ids})

\* The patches a series has of its own, and not where it parts from its base.
Own(c, new) == {p \in ToSet(Beyond(c, new)) : ~p.fix}

\* The base has one of them: an earlier reroll onto another base has amended it, or
\* moved it.
Reworked(c, new) == \E p \in Own(c, new) : p.id \in Ids(new)

\* No base is asked for, and the recorded one is not main: git_reroll_patch should
\* take it, "a centralized GetBaseBranch() helper" (docs/mail_model_impl.md:117) as the
\* other tools do, and takes main.
BaseOverlooked(w) == Asked(w).base = None /\ base \notin {None, Main}

\* A reroll that succeeds leaves the series on top of its base, the one asked for or
\* recorded, with as many patches and in the order they were ("a series of 3 patches
\* remains 3", docs/mail_model_impl.md:53), and none that only amends the one it was
\* asked for; unless the tool overlooks the base, and rewrites the patches of the
\* user's branch with the series, or the base has one of them in another form.  A
\* patch that an earlier reroll left unsquashed, or that a reroll at the same time has
\* put below the base, is not one of the series' own any more, and what amends it stays.
RerollKeepsSeries ==
    [][\A w \in Callers :
         LET new == CommitOf(BaseFor(Asked(w).base))
             old == tip[head]
             id  == Last(List(w)[1]).id
         IN (call[w].pc = "rebase" /\ call'[w] = Idle /\ tip' # tip /\ w \notin moved
                /\ ~BaseOverlooked(w) /\ ~Reworked(old, new)) =>
            /\ IsPrefix(new, tip'[head])
            /\ Order(tip'[head]) = Order(new) \o Rest(Order(old), Ids(new))
            /\ id \in {p.id : p \in Own(old, new)} =>
                 \A p \in ToSet(tip'[head]) : p.fix => p.id # id]_vars

\* When git_finalize_series says so, it has merged the series, deleted its
\* branch and left HEAD on the target, unless HEAD was moved by another call,
\* git refused something that was overlooked, the series was begun on no branch,
\* or a rebase of it has stopped, which keeps its branch.  A target that is a
\* series itself may be rerolled before the branch is deleted, and git then
\* keeps the branch, too.
FinalizeLands ==
    \A w \in Callers :
        (call[w].pc = "unset" /\ w \notin moved /\ ~stale /\ ~slipped
            /\ Onto(w) # Detached /\ rebase # From(w)) =>
            head = Onto(w) /\ (Onto(w) \in Bases => From(w) \notin DOMAIN tip)
=============================================================================
