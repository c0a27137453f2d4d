----------------------------- MODULE WorkspaceProofs -----------------------------
(***************************************************************************)
(* Proofs about Workspace, for any skills, sessions, notes, memos and      *)
(* workers: its types; no list repeats a skill; a batch does only what was *)
(* asked; a memo comes back; the first request of a turn shows the skills  *)
(* of the session it belongs to.                                           *)
(*                                                                         *)
(* The inductive invariant IInv says of the rows and of what each call has *)
(* read what the theorems say of the rows alone: a call writes what it has *)
(* read, and the row may have changed since.                               *)
(***************************************************************************)
EXTENDS Workspace, FiniteSetTheorems, SequenceTheorems, TLAPS

RowType == [skills : Seq(Names), pad : Seq(Notes)]
JobType == [call : Calls \cup {Idle.call}, at : {"begin", "write", "end"}, seen : RowType]

\* The calls of the batch that have not written yet.
Pending == {w \in Workers : jobs[w].at # "end"}
Asked(tool) == {jobs[w].call.arg : w \in {w \in Workers : jobs[w].call.tool = tool}}

\* The loop.
LoopInv ==
    /\ pc \in {"off", "loop", "prompt", "turn", "batch"} /\ session \in Sessions
    /\ mail \in BOOLEAN /\ message \in Text

\* No list repeats a skill: not a row's, nor the vector, nor what a call has read.
ListInv(list) == list \in Seq(Names) /\ IsInjective(list)
RowInv(row) == row \in RowType /\ ListInv(row.skills)
RowsInv ==
    /\ DOMAIN rows \subseteq Sessions
    /\ \A s \in DOMAIN rows : RowInv(rows[s])
VectorInv ==
    /\ ListInv(active)
    /\ pc = "prompt" => active = Here.skills

\* A skill is counted by a command or a call; a pending call has not counted yet.
SkillType == [own : BOOLEAN, count : Nat]
Registered(n) ==
    /\ DOMAIN skills \subseteq Names
    /\ \A name \in DOMAIN skills : skills[name] \in SkillType /\ skills[name].count <= n
RegistryInv ==
    /\ ops \in 0..MaxOps /\ Cardinality(Pending) <= ops
    /\ Registered(ops - Cardinality(Pending))

\* A call that has yet to write has read a row; between batches there is none.
JobsInv ==
    /\ jobs \in [Workers -> JobType] /\ before \in RowType
    /\ \A w \in Workers :
          /\ RowInv(jobs[w].seen)
          /\ jobs[w].at # "end" => jobs[w].call \in Calls
    /\ pc # "batch" => Pending = {}

\* What a batch has made of a row differs from the row before it by what was asked:
\* so does what each of its calls has read.
Follows(row) ==
    /\ Range(row.skills) \subseteq Range(before.skills) \cup Asked("activate")
    /\ Range(before.skills) \subseteq Range(row.skills) \cup Asked("deactivate")
    /\ Asked("update") = {} => IsPrefix(before.pad, row.pad)
BatchInv ==
    pc = "batch" =>
        /\ Follows(Here)
        /\ \A w \in Workers : jobs[w].at = "write" => Follows(jobs[w].seen)

\* The memos, and those the prompt shows.
TableInv ==
    /\ MemosTypeOK
    /\ \A id \in DOMAIN memos : memos[id] \in [tags : SUBSET Text, json : BOOLEAN]
PromptInv == pc = "turn" => prompt.memos = RelevantMemos(message)

IInv ==
    /\ LoopInv /\ RowsInv /\ VectorInv /\ RegistryInv
    /\ JobsInv /\ BatchInv /\ TableInv /\ PromptInv
\* The rank of a number in a set, and the number of a rank.
Rank(I, i)   == Cardinality({j \in I : j <= i})
Ranked(I, k) == CHOOSE i \in I : Rank(I, i) = k

\* A number of a finite set has a rank, and a greater one a greater rank.
LEMMA RankLess ==
    ASSUME NEW I \in SUBSET Int, IsFiniteSet(I), NEW i \in I
    PROVE  /\ Rank(I, i) \in 1..Cardinality(I)
           /\ \A j \in I : i < j => Rank(I, i) < Rank(I, j)
<1> DEFINE Upto(k) == {j \in I : j <= k}
<1>1. Cardinality(I) \in Nat
    BY FS_CardinalityType
<1>2. \A k \in I : IsFiniteSet(Upto(k)) /\ Cardinality(Upto(k)) \in Nat
                   /\ Cardinality(Upto(k)) <= Cardinality(I)
    BY FS_Subset, FS_CardinalityType
<1>3. \A k \in I : k \in Upto(k)
    OBVIOUS
<1>4. \A k \in I : Cardinality(Upto(k)) # 0
    BY <1>2, <1>3, FS_EmptySet
<1>5. ASSUME NEW j \in I, i < j
      PROVE  Cardinality(Upto(i)) < Cardinality(Upto(j))
    <2>1. \A k \in I : k <= i => k <= j
        BY <1>5
    <2>2. ~(j <= i)
        BY <1>5
    <2>3. Upto(i) \subseteq Upto(j) /\ j \notin Upto(i)
        BY <2>1, <2>2
    <2> HIDE DEF Upto
    <2>4. Cardinality(Upto(i)) <= Cardinality(Upto(j)) /\ Cardinality(Upto(i)) # Cardinality(Upto(j))
        BY <1>2, <1>3, <2>3, FS_Subset
    <2> QED BY <1>2, <2>4
<1> HIDE DEF Upto
<1> QED BY <1>1, <1>2, <1>4, <1>5 DEF Rank, Upto

\* The ranks of a finite set of numbers are 1 .. its cardinality, in their order.
LEMMA Ranks ==
    ASSUME NEW I \in SUBSET Int, IsFiniteSet(I)
    PROVE  /\ Cardinality(I) \in Nat
           /\ \A i \in I : Rank(I, i) \in 1..Cardinality(I) /\ Ranked(I, Rank(I, i)) = i
           /\ \A i, j \in I : i < j <=> Rank(I, i) < Rank(I, j)
           /\ \A k \in 1..Cardinality(I) : Ranked(I, k) \in I /\ Rank(I, Ranked(I, k)) = k
<1> DEFINE f == [i \in I |-> Rank(I, i)]
<1>1. Cardinality(I) \in Nat
    BY FS_CardinalityType
<1>2. \A i \in I : Rank(I, i) \in 1..Cardinality(I)
    BY RankLess
<1>3. ASSUME NEW i \in I, NEW j \in I
      PROVE  /\ i < j <=> Rank(I, i) < Rank(I, j)
             /\ Rank(I, i) = Rank(I, j) => i = j
    <2>1. /\ i < j => Rank(I, i) < Rank(I, j)
          /\ j < i => Rank(I, j) < Rank(I, i)
        BY RankLess
    <2>2. i \in Int /\ j \in Int /\ Rank(I, i) \in Int /\ Rank(I, j) \in Int
        BY <1>2
    <2> QED BY <2>1, <2>2
<1>4. f \in Surjection(I, 1..Cardinality(I))
    <2>1. f \in Injection(I, 1..Cardinality(I))
        BY <1>2, <1>3 DEF Injection, IsInjective
    <2>2. IsFiniteSet(1..Cardinality(I)) /\ Cardinality(1..Cardinality(I)) = Cardinality(I)
        BY <1>1, FS_Interval
    <2> QED BY <2>1, <2>2, FS_Injection
<1>5. \A k \in 1..Cardinality(I) : \E i \in I : Rank(I, i) = k
    BY <1>4 DEF Surjection
<1>6. \A k \in 1..Cardinality(I) : Ranked(I, k) \in I /\ Rank(I, Ranked(I, k)) = k
    BY <1>5 DEF Ranked
<1>7. \A i \in I : Ranked(I, Rank(I, i)) = i
    BY <1>2, <1>3, <1>6
<1> QED BY <1>1, <1>2, <1>3, <1>6, <1>7

\* Kept keeps what is at the places, and repeats nothing.
LEMMA KeptFacts ==
    ASSUME NEW S, NEW list \in Seq(S), NEW I \in SUBSET (1..Len(list))
    PROVE  /\ Kept(list, I) \in Seq(S)
           /\ Range(Kept(list, I)) = {list[i] : i \in I}
           /\ IsInjective(list) => IsInjective(Kept(list, I))
<1> DEFINE n == Cardinality(I)
           kept == Kept(list, I)
<1>1. IsFiniteSet(I) /\ I \in SUBSET Int
    <2>1. Len(list) \in Nat
        BY LenProperties
    <2>2. IsFiniteSet(1..Len(list)) /\ I \in SUBSET Int
        BY <2>1, FS_Interval
    <2> QED BY <2>2, FS_Subset
<1>2. /\ n \in Nat
      /\ \A i \in I : Rank(I, i) \in 1..n /\ Ranked(I, Rank(I, i)) = i
      /\ \A k \in 1..n : Ranked(I, k) \in I /\ Rank(I, Ranked(I, k)) = k
    BY <1>1, Ranks
<1>3. kept = [k \in 1..n |-> list[Ranked(I, k)]]
    BY DEF Kept, Rank, Ranked
<1>4. \A i \in I : list[i] \in S
    BY ElementOfSeq
<1> HIDE DEF n, kept
<1>5. kept \in Seq(S)
    <2>1. \A k \in 1..n : list[Ranked(I, k)] \in S
        BY <1>2, <1>4
    <2> QED BY <1>2, <1>3, <2>1, IsASeq
<1>6. Range(kept) = {list[i] : i \in I}
    BY <1>2, <1>3 DEF Range
<1>7. ASSUME IsInjective(list) PROVE IsInjective(kept)
    <2>1. \A i, j \in I : list[i] = list[j] => i = j
        BY <1>7, LenProperties DEF IsInjective
    <2>2. \A j, k \in 1..n : list[Ranked(I, j)] = list[Ranked(I, k)] => j = k
        BY <1>2, <2>1
    <2> QED BY <1>3, <2>2 DEF IsInjective
<1> QED BY <1>5, <1>6, <1>7 DEF kept
\* The least element of a finite set of numbers.
LEMMA MinFacts ==
    ASSUME NEW I \in SUBSET Int, IsFiniteSet(I), I # {}
    PROVE  Min(I) \in I /\ \A i \in I : Min(I) <= i
<1> DEFINE m == Ranked(I, 1)
<1>1. /\ Cardinality(I) \in Nat
      /\ \A i \in I : Rank(I, i) \in 1..Cardinality(I)
      /\ \A i, j \in I : i < j <=> Rank(I, i) < Rank(I, j)
      /\ \A k \in 1..Cardinality(I) : Ranked(I, k) \in I /\ Rank(I, Ranked(I, k)) = k
    BY Ranks
<1>2. 1 \in 1..Cardinality(I)
    <2>1. PICK i \in I : TRUE
        OBVIOUS
    <2>2. Rank(I, i) \in 1..Cardinality(I)
        BY <1>1
    <2> QED BY <1>1, <2>2
<1>3. m \in I /\ Rank(I, m) = 1
    BY <1>1, <1>2
<1>4. \A i \in I : m <= i
    <2> TAKE i \in I
    <2>1. ~(Rank(I, i) < Rank(I, m))
        BY <1>1, <1>3
    <2>2. ~(i < m) /\ i \in Int /\ m \in Int
        BY <1>1, <1>3, <2>1
    <2> QED BY <2>2
<1> QED BY <1>3, <1>4 DEF Min

\* An append lists one more.
LEMMA AppendFacts ==
    ASSUME NEW S, NEW list \in Seq(S), NEW x \in S
    PROVE  /\ Append(list, x) \in Seq(S)
           /\ Range(Append(list, x)) = Range(list) \cup {x}
           /\ IsInjective(list) /\ x \notin Range(list) => IsInjective(Append(list, x))
<1> DEFINE n == Len(list)
           more == Append(list, x)
<1>1. /\ n \in Nat /\ DOMAIN list = 1..n
      /\ more \in Seq(S) /\ DOMAIN more = 1..(n + 1)
      /\ \A i \in 1..n : more[i] = list[i]
      /\ more[n + 1] = x
    BY LenProperties, AppendProperties
<1>2. \A i \in 1..(n + 1) : i \in 1..n \/ i = n + 1
    BY <1>1
<1>3. 1..n \subseteq 1..(n + 1) /\ n + 1 \in 1..(n + 1)
    BY <1>1
<1> HIDE DEF n, more
<1>4. Range(more) = Range(list) \cup {x}
    BY <1>1, <1>2, <1>3 DEF Range
<1>5. ASSUME IsInjective(list), x \notin Range(list) PROVE IsInjective(more)
    <2>1. \A i, j \in 1..n : list[i] = list[j] => i = j
        BY <1>1, <1>5 DEF IsInjective
    <2>2. \A i \in 1..n : list[i] # x
        BY <1>1, <1>5 DEF Range
    <2> QED BY <1>1, <1>2, <2>1, <2>2 DEF IsInjective
<1> QED BY <1>1, <1>4, <1>5 DEF more

\* RemoveFirst takes one occurrence, and keeps the rest in order.
LEMMA RemoveFirstFacts ==
    ASSUME NEW S, NEW list \in Seq(S), NEW x
    PROVE  /\ RemoveFirst(list, x) \in Seq(S)
           /\ Range(RemoveFirst(list, x)) \subseteq Range(list)
           /\ Range(list) \subseteq Range(RemoveFirst(list, x)) \cup {x}
           /\ IsInjective(list) => IsInjective(RemoveFirst(list, x))
<1> DEFINE n == Len(list)
           less == RemoveFirst(list, x)
           I == {i \in 1..n : list[i] = x}
           p == Min(I)
<1>1. n \in Nat /\ DOMAIN list = 1..n /\ \A i \in 1..n : list[i] \in S
    BY LenProperties
<1>2. CASE I = {}
    <2>1. less = list
        BY <1>2 DEF RemoveFirst
    <2> QED BY <2>1 DEF RemoveFirst
<1>3. CASE I # {}
    <2>1. IsFiniteSet(I) /\ I \in SUBSET Int
        <3>1. IsFiniteSet(1..n) /\ I \in SUBSET (1..n)
            BY <1>1, FS_Interval
        <3> QED BY <1>1, <3>1, FS_Subset
    <2>2. p \in I
        <3> HIDE DEF I
        <3> QED BY <1>3, <2>1, MinFacts
    <2>3. p \in 1..n /\ list[p] = x
        BY <2>2
    <2>4. less = SubSeq(list, 1, p - 1) \o SubSeq(list, p + 1, n)
        <3>1. \E i \in 1..Len(list) : list[i] = x
            BY <1>3
        <3>2. SelectInSeq(list, LAMBDA v : v = x) = p
            BY <1>3 DEF SelectInSeq
        <3>3. less = RemoveAt(list, SelectInSeq(list, LAMBDA v : v = x))
            BY <3>1 DEF RemoveFirst
        <3> HIDE DEF p, less
        <3> QED BY <3>2, <3>3 DEF RemoveAt
    <2> HIDE DEF p, I, less
    <2> DEFINE front == SubSeq(list, 1, p - 1)
               back == SubSeq(list, p + 1, n)
    <2>5. /\ front \in Seq(S) /\ Len(front) = p - 1
          /\ \A i \in 1..(p - 1) : front[i] = list[i]
        BY <1>1, <2>3, SubSeqProperties
    <2>6. /\ back \in Seq(S) /\ Len(back) = n - p
          /\ \A i \in 1..(n - p) : back[i] = list[p + i]
        <3>1. p \in Int /\ n \in Int /\ p <= n /\ \A i \in (p + 1)..n : list[i] \in S
            BY <1>1, <2>3
        <3>2. n - (p + 1) + 1 = n - p /\ (IF p + 1 <= n THEN n - p ELSE 0) = n - p
            BY <3>1
        <3>3. /\ back \in Seq(S) /\ Len(back) = IF p + 1 <= n THEN n - (p + 1) + 1 ELSE 0
              /\ \A i \in 1..(n - (p + 1) + 1) : back[i] = list[(p + 1) + i - 1]
            BY <3>1, SubSeqProperties
        <3>4. \A i \in 1..(n - p) : (p + 1) + i - 1 = p + i
            BY <3>1
        <3> HIDE DEF n, back
        <3> QED BY <3>2, <3>3, <3>4
    <2> HIDE DEF front, back, n
    <2>7. /\ less \in Seq(S) /\ Len(less) = n - 1
          /\ \A i \in 1..(n - 1) : less[i] = IF i < p THEN list[i] ELSE list[i + 1]
        <3>1. /\ less \in Seq(S) /\ Len(less) = (p - 1) + (n - p)
              /\ \A i \in 1..((p - 1) + (n - p)) :
                    less[i] = IF i <= p - 1 THEN front[i] ELSE back[i - (p - 1)]
            <4>1. less = front \o back
                BY <2>4 DEF front, back
            <4> QED BY <2>5, <2>6, <4>1, ConcatProperties
        <3>2. (p - 1) + (n - p) = n - 1
            BY <1>1, <2>3
        <3>3. ASSUME NEW i \in 1..(n - 1)
              PROVE  less[i] = IF i < p THEN list[i] ELSE list[i + 1]
            <4>1. CASE i < p
                <5>1. i <= p - 1 /\ i \in 1..(p - 1)
                    BY <1>1, <2>3, <4>1
                <5> QED BY <2>5, <3>1, <3>2, <4>1, <5>1
            <4>2. CASE ~(i < p)
                <5>1. ~(i <= p - 1) /\ i - (p - 1) \in 1..(n - p) /\ p + (i - (p - 1)) = i + 1
                    BY <1>1, <2>3, <4>2
                <5> QED BY <2>6, <3>1, <3>2, <4>2, <5>1
            <4> QED BY <4>1, <4>2
        <3> QED BY <3>1, <3>2, <3>3
    <2> DEFINE old(i) == IF i < p THEN i ELSE i + 1
    <2>8. /\ DOMAIN less = 1..(n - 1)
          /\ \A i \in 1..(n - 1) : old(i) \in 1..n /\ less[i] = list[old(i)]
          /\ \A i, j \in 1..(n - 1) : old(i) = old(j) => i = j
          /\ \A i \in 1..n : i = p \/ \E j \in 1..(n - 1) : old(j) = i
        <3>1. DOMAIN less = 1..(n - 1)
            BY <2>7, LenProperties
        <3>2. \A i \in 1..(n - 1) : old(i) \in 1..n /\ less[i] = list[old(i)]
            BY <1>1, <2>3, <2>7
        <3>3. \A i, j \in 1..(n - 1) : old(i) = old(j) => i = j
            BY <1>1, <2>3
        <3>4. ASSUME NEW i \in 1..n, i # p PROVE \E j \in 1..(n - 1) : old(j) = i
            <4>1. CASE i < p
                <5>1. i \in 1..(n - 1) /\ old(i) = i
                    BY <1>1, <2>3, <4>1
                <5> QED BY <5>1
            <4>2. CASE i > p
                <5>1. i - 1 \in 1..(n - 1) /\ old(i - 1) = i
                    BY <1>1, <2>3, <4>2
                <5> QED BY <5>1
            <4> QED BY <1>1, <2>3, <3>4, <4>1, <4>2
        <3> QED BY <3>1, <3>2, <3>3, <3>4
    <2> HIDE DEF old
    <2>9. Range(less) \subseteq Range(list)
        BY <1>1, <2>8 DEF Range
    <2>10. Range(list) \subseteq Range(less) \cup {x}
        <3>1. \A i \in 1..n : list[i] = x \/ \E j \in 1..(n - 1) : less[j] = list[i]
            BY <2>3, <2>8
        <3> QED BY <1>1, <2>8, <3>1 DEF Range
    <2>11. IsInjective(list) => IsInjective(less)
        BY <1>1, <2>8 DEF IsInjective
    <2> QED BY <2>7, <2>9, <2>10, <2>11 DEF less
<1> QED BY <1>2, <1>3

\* Being a prefix of what grows at its end.
LEMMA PrefixFacts ==
    ASSUME NEW S, NEW s \in Seq(S)
    PROVE  /\ IsPrefix(s, s)
           /\ \A t \in Seq(S), x \in S : IsPrefix(s, t) => IsPrefix(s, Append(t, x))
<1>1. IsPrefix(s, s)
    BY LenProperties DEF IsPrefix
<1>2. ASSUME NEW t \in Seq(S), NEW x \in S, IsPrefix(s, t)
      PROVE  IsPrefix(s, Append(t, x))
    <2>1. /\ Len(s) \in Nat /\ Len(t) \in Nat /\ Len(s) <= Len(t)
          /\ Len(Append(t, x)) = Len(t) + 1
          /\ \A i \in 1..Len(t) : Append(t, x)[i] = t[i] /\ t[i] \in S
        BY <1>2, LenProperties, AppendProperties, ElementOfSeq DEF IsPrefix
    <2>2. SubSeq(Append(t, x), 1, Len(s)) = SubSeq(t, 1, Len(s))
        <3>1. \A i \in 1..Len(s) : Append(t, x)[i] \in S /\ t[i] \in S
            BY <2>1
        <3>2. /\ SubSeq(t, 1, Len(s)) \in Seq(S) /\ SubSeq(Append(t, x), 1, Len(s)) \in Seq(S)
              /\ Len(SubSeq(t, 1, Len(s))) = Len(s) /\ Len(SubSeq(Append(t, x), 1, Len(s))) = Len(s)
              /\ \A i \in 1..Len(s) : /\ SubSeq(t, 1, Len(s))[i] = t[i]
                                      /\ SubSeq(Append(t, x), 1, Len(s))[i] = Append(t, x)[i]
            BY <2>1, <3>1, SubSeqProperties
        <3>3. \A i \in 1..Len(s) : SubSeq(Append(t, x), 1, Len(s))[i] = SubSeq(t, 1, Len(s))[i]
            BY <2>1, <3>2
        <3> QED BY <3>2, <3>3, SeqEqual
    <2> QED BY <1>2, <2>1, <2>2 DEF IsPrefix
<1> QED BY <1>1, <1>2
-----------------------------------------------------------------------------
(* The lists of skills: rows, the vector.                                  *)

\* The row of a session that has none.
LEMMA EmptyFacts == RowInv(EmptyRow) /\ ListInv(<< >>)
<1>1. << >> \in Seq(Names) /\ << >> \in Seq(Notes) /\ IsInjective(<< >>)
    BY DEF IsInjective
<1> QED BY <1>1 DEF RowInv, ListInv, EmptyRow, RowType

\* The row of the current session, there or not.
LEMMA HereFacts == ASSUME RowsInv PROVE RowInv(Here)
BY EmptyFacts DEF RowsInv, Here, Row

\* A row that repeats no skill may be written.
LEMMA WithRowKeeps ==
    ASSUME RowsInv, NEW s \in Sessions, NEW row, RowInv(row), rows' = WithRow(s, row)
    PROVE  RowsInv' /\ s \in DOMAIN rows' /\ rows'[s] = row
<1>1. DOMAIN rows' = DOMAIN rows \cup {s}
    BY DEF WithRow
<1>2. \A t \in DOMAIN rows' : rows'[t] = IF t = s THEN row ELSE rows[t]
    BY DEF WithRow
<1> QED BY <1>1, <1>2 DEF RowsInv, RowInv

\* SetActiveSkills writes the list, and leaves the scratchpad.
LEMMA SetActiveSkillsKeeps ==
    ASSUME RowsInv, LoopInv, NEW list, ListInv(list), SetActiveSkills(list)
    PROVE  /\ RowsInv' /\ session \in DOMAIN rows'
           /\ rows'[session].skills = list /\ rows'[session].pad = Here.pad
<1> DEFINE row == [Here EXCEPT !.skills = list]
<1>1. Here \in RowType
    BY HereFacts DEF RowInv
<1>2. row \in RowType /\ row.skills = list /\ row.pad = Here.pad
    BY <1>1 DEF RowType, ListInv
<1>3. rows' = WithRow(session, row) /\ session \in Sessions
    BY DEF SetActiveSkills, LoopInv
<1>4. RowInv(row)
    BY <1>2 DEF RowInv
<1> HIDE DEF row
<1> QED BY <1>2, <1>3, <1>4, WithRowKeeps

\* UpdateScratchpad writes the scratchpad, and leaves the list.
LEMMA UpdateScratchpadKeeps ==
    ASSUME RowsInv, LoopInv, NEW pad \in Seq(Notes), UpdateScratchpad(pad)
    PROVE  /\ RowsInv' /\ session \in DOMAIN rows'
           /\ rows'[session].pad = pad /\ rows'[session].skills = Here.skills
<1> DEFINE row == [Here EXCEPT !.pad = pad]
<1>1. Here \in RowType /\ ListInv(Here.skills)
    BY HereFacts DEF RowInv
<1>2. row \in RowType /\ row.pad = pad /\ row.skills = Here.skills
    BY <1>1 DEF RowType
<1>3. rows' = WithRow(session, row) /\ session \in Sessions
    BY DEF UpdateScratchpad, LoopInv
<1>4. RowInv(row)
    BY <1>1, <1>2 DEF RowInv
<1> HIDE DEF row
<1> QED BY <1>2, <1>3, <1>4, WithRowKeeps

\* What commands and calls make of a list repeats no skill either.
LEMMA ListFacts ==
    ASSUME NEW list, ListInv(list), NEW name
    PROVE  /\ name \in Names /\ name \notin Range(list) => ListInv(Append(list, name))
           /\ ListInv(Without(list, name))
           /\ ListInv(RemoveFirst(list, name))
<1>1. list \in Seq(Names) /\ IsInjective(list)
    BY DEF ListInv
<1>2. {i \in DOMAIN list : list[i] # name} \subseteq 1..Len(list)
    BY <1>1, LenProperties
<1>3. ListInv(Without(list, name))
    BY <1>1, <1>2, KeptFacts DEF Without, ListInv
<1>4. ListInv(RemoveFirst(list, name))
    BY <1>1, RemoveFirstFacts DEF ListInv
<1>5. name \in Names /\ name \notin Range(list) => ListInv(Append(list, name))
    BY <1>1, AppendFacts DEF ListInv
<1> QED BY <1>3, <1>4, <1>5

\* A command that leaves the lists alone.
LEMMA SameLists == ASSUME RowsInv, ListInv(active), UNCHANGED <<rows, active>>
                   PROVE  RowsInv' /\ ListInv(active')
BY DEF RowsInv, RowInv

\* A command that changes a list.
LEMMA SkillLists ==
    ASSUME RowsInv, LoopInv, ListInv(active), HandleSkill \/ HandleMode \/ MemoCommand
    PROVE  RowsInv' /\ ListInv(active')
<1>0. "patcher" \in Names
    BY WorkspaceAssumption
<1>1. ASSUME NEW name \in Names, name \notin Range(active),
             active' = Append(active, name), SetActiveSkills(active')
      PROVE  RowsInv' /\ ListInv(active')
    BY <1>1, ListFacts, SetActiveSkillsKeeps
<1>2. ASSUME NEW name, active' = Without(active, name), SetActiveSkills(active')
      PROVE  RowsInv' /\ ListInv(active')
    BY <1>2, ListFacts, SetActiveSkillsKeeps
<1>3. CASE UNCHANGED <<rows, active>>
    BY <1>3, SameLists
<1>4. CASE HandleSkill
    <2> PICK name \in Names :
          \/ SkillActivate(name) \/ SkillDeactivate(name) \/ SkillDelete(name) \/ SkillAdd(name)
          \/ \E saved \in Names : SkillEdit(name, saved)
        BY <1>4 DEF HandleSkill
    <2>1. CASE SkillActivate(name)
        BY <1>1, <1>3, <2>1 DEF SkillActivate
    <2>2. CASE SkillDeactivate(name)
        BY <1>2, <2>2 DEF SkillDeactivate
    <2>3. CASE SkillDelete(name) \/ SkillAdd(name) \/ \E saved \in Names : SkillEdit(name, saved)
        BY <1>3, <2>3 DEF SkillDelete, SkillAdd, SkillEdit
    <2> QED BY <2>1, <2>2, <2>3
<1>5. CASE ModeMail
    BY <1>0, <1>1, <1>3, <1>5 DEF ModeMail
<1>6. CASE ModeStandard
    BY <1>2, <1>3, <1>6 DEF ModeStandard
<1>7. CASE MemoCommand
    BY <1>3, <1>7 DEF MemoCommand
<1> QED BY <1>4, <1>5, <1>6, <1>7 DEF HandleMode

\* The commands that change session, or remove one.
LEMMA SessionLists ==
    ASSUME RowsInv, LoopInv, ListInv(active), HandleSession
    PROVE  RowsInv' /\ ListInv(active') /\ session' \in Sessions /\ UNCHANGED <<mail, skills, memoVars>>
<1>0. session \in Sessions /\ First \in Sessions
    BY WorkspaceAssumption DEF LoopInv
<1>1. ASSUME NEW s, NEW next \in Sessions, SessionRemove(s, next)
      PROVE  RowsInv' /\ ListInv(active') /\ session' \in Sessions /\ UNCHANGED <<mail, skills, memoVars>>
    <2>1. DOMAIN rows' = DOMAIN rows \ {s} /\ \A t \in DOMAIN rows' : rows'[t] = rows[t]
        BY <1>1 DEF SessionRemove
    <2>2. RowsInv'
        BY <2>1 DEF RowsInv, RowInv
    <2> QED BY <1>1, <2>2 DEF SessionRemove
<1>2. ASSUME NEW s \in Sessions, SessionSwitch(s)
      PROVE  RowsInv' /\ ListInv(active') /\ session' \in Sessions /\ UNCHANGED <<mail, skills, memoVars>>
    BY <1>2, SameLists DEF SessionSwitch
<1>3. ASSUME NEW s \in Sessions, SessionClone(s)
      PROVE  RowsInv' /\ ListInv(active') /\ session' \in Sessions /\ UNCHANGED <<mail, skills, memoVars>>
    BY <1>3, HereFacts, WithRowKeeps DEF SessionClone
<1>4. ASSUME NEW note \in Notes, ScratchpadEdit(<<note>>) \/ ScratchpadEdit(Append(Here.pad, note))
      PROVE  RowsInv' /\ ListInv(active') /\ session' \in Sessions /\ UNCHANGED <<mail, skills, memoVars>>
    <2>1. <<note>> \in Seq(Notes) /\ Append(Here.pad, note) \in Seq(Notes)
        BY HereFacts, AppendProperties DEF RowInv, RowType
    <2> QED BY <1>0, <1>4, <2>1, UpdateScratchpadKeeps DEF ScratchpadEdit
<1> QED BY <1>0, <1>1, <1>2, <1>3, <1>4 DEF HandleSession
-----------------------------------------------------------------------------
(* A batch.                                                                *)

\* The argument of a call, by its tool.
LEMMA CallFacts ==
    ASSUME NEW c \in Calls
    PROVE  /\ c.tool \in {"activate", "deactivate"} => c.arg \in Names
           /\ c.tool \in {"append", "update"} => c.arg \in Notes
           /\ c.tool \notin {"activate", "deactivate", "append", "update"} =>
                 (c.tool = "save_memo" /\ c.arg \in SavedTags)
<1>1. \/ c \in [tool : {"activate", "deactivate"}, arg : Names]
      \/ c \in [tool : {"append", "update"}, arg : Notes]
      \/ c \in [tool : {"save_memo"}, arg : SavedTags]
    BY DEF Calls
<1>2. \/ c.tool \in {"activate", "deactivate"} /\ c.arg \in Names
      \/ c.tool \in {"append", "update"} /\ c.arg \in Notes
      \/ c.tool = "save_memo" /\ c.arg \in SavedTags
    BY <1>1
<1> QED BY <1>2

\* A worker without a call.
LEMMA IdleFacts == Idle \in JobType /\ RowInv(Idle.seen) /\ Idle.at = "end"
BY EmptyFacts DEF Idle, JobType, RowInv

\* A list or a pad that follows the row before the batch still does when a call of
\* the batch has changed it.
LEMMA UseSkillFollows ==
    ASSUME JobsInv, NEW w \in Workers, jobs[w].call \in Calls,
           jobs[w].call.tool \in {"activate", "deactivate"},
           NEW row, RowInv(row), Follows(row), RowInv(Here), Follows(Here), RowsInv, LoopInv,
           UseSkill(jobs[w].call, row.skills), UNCHANGED <<session, before>>,
           \A v \in Workers : jobs'[v].call = jobs[v].call
    PROVE  RowsInv' /\ Follows(Here)'
<1> DEFINE c == jobs[w].call
           list == row.skills
<1>1. c.arg \in Names /\ ListInv(list) /\ Here.pad \in Seq(Notes) /\ list \in Seq(Names)
    BY CallFacts DEF RowInv, RowType, ListInv
<1>2. c.tool = "activate" => c.arg \in Asked("activate")
    BY DEF Asked
<1>3. c.tool = "deactivate" => c.arg \in Asked("deactivate")
    BY DEF Asked
<1>4. \A tool : Asked(tool)' = Asked(tool)
    BY DEF Asked
<1>5. ASSUME NEW new, ListInv(new), SetActiveSkills(new),
             Range(new) \subseteq Range(list) \cup Asked("activate"),
             Range(list) \subseteq Range(new) \cup Asked("deactivate")
      PROVE  RowsInv' /\ Follows(Here)'
    <2>1. RowsInv' /\ session \in DOMAIN rows' /\ rows'[session].skills = new /\ rows'[session].pad = Here.pad
        BY <1>5, SetActiveSkillsKeeps
    <2>2. Here'.skills = new /\ Here'.pad = Here.pad
        BY <2>1 DEF Here, Row
    <2>3. before' = before
        OBVIOUS
    <2>4. Range(new) \subseteq Range(before.skills) \cup Asked("activate")
        BY <1>5 DEF Follows
    <2>5. Range(before.skills) \subseteq Range(new) \cup Asked("deactivate")
        BY <1>5 DEF Follows
    <2>6. Asked("update") = {} => IsPrefix(before.pad, Here.pad)
        BY DEF Follows
    <2>7. Follows(Here)'
        BY <1>4, <2>2, <2>3, <2>4, <2>5, <2>6 DEF Follows
    <2> QED BY <2>1, <2>7
<1>6. CASE c.tool = "activate" /\ c.arg \notin Range(list)
    <2>1. SetActiveSkills(Append(list, c.arg))
        BY <1>6 DEF UseSkill
    <2>2. ListInv(Append(list, c.arg)) /\ Range(Append(list, c.arg)) = Range(list) \cup {c.arg}
        BY <1>1, <1>6, ListFacts, AppendFacts
    <2> HIDE DEF c, list
    <2> QED BY <1>2, <1>5, <1>6, <2>1, <2>2
<1>7. CASE c.tool = "deactivate" /\ c.arg \in Range(list)
    <2>1. SetActiveSkills(RemoveFirst(list, c.arg))
        BY <1>7 DEF UseSkill
    <2>2. /\ ListInv(RemoveFirst(list, c.arg))
          /\ Range(RemoveFirst(list, c.arg)) \subseteq Range(list)
          /\ Range(list) \subseteq Range(RemoveFirst(list, c.arg)) \cup {c.arg}
        BY <1>1, ListFacts, RemoveFirstFacts
    <2> HIDE DEF c, list
    <2> QED BY <1>3, <1>5, <1>7, <2>1, <2>2
<1>8. CASE UNCHANGED rows
    <2>1. Here' = Here
        BY <1>8 DEF Here, Row
    <2>2. Follows(Here)'
        BY <1>4, <2>1 DEF Follows
    <2>3. RowsInv'
        BY <1>8 DEF RowsInv, RowInv
    <2> QED BY <2>2, <2>3
<1> QED BY <1>6, <1>7, <1>8 DEF UseSkill

\* manage_scratchpad keeps what was there unless an update is in the batch.
LEMMA ScratchpadFollows ==
    ASSUME JobsInv, NEW w \in Workers, jobs[w].call \in Calls,
           jobs[w].call.tool \in {"append", "update"},
           NEW row, RowInv(row), Follows(row), RowInv(Here), Follows(Here), RowsInv, LoopInv,
           ManageScratchpad(jobs[w].call, row.pad), UNCHANGED <<session, before>>,
           \A v \in Workers : jobs'[v].call = jobs[v].call
    PROVE  RowsInv' /\ Follows(Here)'
<1> DEFINE c == jobs[w].call
           new == IF c.tool = "append" THEN Append(row.pad, c.arg) ELSE <<c.arg>>
<1>1. c.arg \in Notes /\ row.pad \in Seq(Notes) /\ before.pad \in Seq(Notes)
    BY CallFacts DEF RowInv, RowType, JobsInv
<1>2. new \in Seq(Notes)
    BY <1>1, AppendProperties
<1>3. Asked("update") = {} => c.tool = "append"
    BY DEF Asked
<1>4. \A tool : Asked(tool)' = Asked(tool)
    BY DEF Asked
<1>5. UpdateScratchpad(new)
    BY DEF ManageScratchpad
<1> HIDE DEF c
<1>6. Asked("update") = {} => IsPrefix(before.pad, new)
    BY <1>1, <1>3, PrefixFacts DEF Follows
<1> HIDE DEF new
<1>7. RowsInv' /\ session \in DOMAIN rows' /\ rows'[session].pad = new /\ rows'[session].skills = Here.skills
    BY <1>2, <1>5, UpdateScratchpadKeeps
<1>8. Here'.skills = Here.skills /\ Here'.pad = new /\ before' = before
    BY <1>7 DEF Here, Row
<1>9. Follows(Here)'
    BY <1>4, <1>6, <1>8 DEF Follows
<1> QED BY <1>7, <1>9

\* The write of a call keeps the rows, and what was asked of them.
LEMMA WriteFollows ==
    ASSUME JobsInv, BatchInv, RowsInv, LoopInv, NEW w \in Workers, Write(w)
    PROVE  RowsInv' /\ Follows(Here)'
<1> DEFINE c == jobs[w].call
           seen == jobs[w].seen
<1>1. jobs[w] \in JobType /\ c \in Calls /\ RowInv(seen) /\ Follows(seen) /\ Follows(Here) /\ RowInv(Here)
    BY HereFacts DEF JobsInv, BatchInv, Write
<1>2. UNCHANGED <<session, before>>
    BY DEF Write
<1>3. \A v \in Workers : jobs'[v].call = jobs[v].call
    BY DEF Write, JobsInv, JobType
<1>4. CASE c.tool \in {"activate", "deactivate"}
    <2>1. UseSkill(c, seen.skills)
        BY <1>4 DEF Write
    <2> QED BY <1>1, <1>2, <1>3, <1>4, <2>1, UseSkillFollows
<1>5. CASE c.tool \in {"append", "update"}
    <2>1. ManageScratchpad(c, seen.pad)
        BY <1>5 DEF Write
    <2> QED BY <1>1, <1>2, <1>3, <1>5, <2>1, ScratchpadFollows
<1>6. CASE c.tool = "save_memo"
    <2>1. UNCHANGED rows
        BY <1>6 DEF Write
    <2>2. Here' = Here
        BY <1>2, <2>1 DEF Here, Row
    <2>3. \A tool : Asked(tool)' = Asked(tool)
        BY <1>3 DEF Asked
    <2>4. Follows(Here)'
        BY <1>1, <1>2, <2>2, <2>3 DEF Follows
    <2> QED BY <2>1, <2>4 DEF RowsInv, RowInv
<1> QED BY <1>1, <1>4, <1>5, <1>6, CallFacts
-----------------------------------------------------------------------------
(* The steps, one part of the invariant at a time.                         *)

\* There is no message between two turns.
LEMMA EmptyText == << >> \in Text
BY EmptySeq DEF Text

\* The initial states.
LEMMA InitInv == Init => IInv
<1> SUFFICES ASSUME Init PROVE IInv
    OBVIOUS
<1>1. LoopInv
    BY WorkspaceAssumption, EmptyText DEF Init, LoopInv
<1>2. RowsInv /\ DOMAIN skills = {}
    BY DEF Init, RowsInv
<1>3. VectorInv
    BY EmptyFacts DEF Init, VectorInv
<1>4. /\ jobs \in [Workers -> JobType] /\ before \in RowType
      /\ \A w \in Workers : jobs[w] = Idle
    BY IdleFacts, EmptyFacts DEF Init, RowInv
<1>5. Pending = {}
    BY <1>4, IdleFacts DEF Pending
<1>6. JobsInv
    BY <1>4, <1>5, IdleFacts DEF JobsInv
<1>7. RegistryInv
    <2>1. ops = 0 /\ MaxOps \in Nat
        BY WorkspaceAssumption DEF Init
    <2> QED BY <1>2, <1>5, <2>1, FS_EmptySet DEF RegistryInv, Registered
<1>8. TableInv
    BY MemosAssumption DEF Init, MemosInit, TableInv, MemosTypeOK
<1>9. BatchInv /\ PromptInv
    BY DEF Init, BatchInv, PromptInv
<1> QED BY <1>1, <1>2, <1>3, <1>6, <1>7, <1>8, <1>9 DEF IInv

\* A command: what it keeps, and that it ends at the loop.
LEMMA HandleKeeps ==
    ASSUME LoopInv, RowsInv, VectorInv, Handle
    PROVE  LoopInv' /\ RowsInv' /\ VectorInv'
<1>1. pc' = "loop" /\ message' = message
    BY DEF Handle, Command
<1>2. ListInv(active)
    BY DEF VectorInv
<1>3. RowsInv' /\ ListInv(active')
    BY <1>2, SkillLists, SessionLists DEF Handle, Command
<1>4. ASSUME HandleSession PROVE LoopInv'
    BY <1>1, <1>2, <1>4, SessionLists DEF LoopInv
<1>5. ASSUME HandleSkill PROVE LoopInv'
    <2>1. UNCHANGED <<session, mail>>
        BY <1>5 DEF HandleSkill, SkillActivate, SkillDeactivate, SkillDelete, SkillAdd, SkillEdit
    <2> QED BY <1>1, <2>1 DEF LoopInv
<1>6. ASSUME HandleMode \/ MemoCommand PROVE LoopInv'
    <2>1. session' = session /\ mail' \in BOOLEAN
        BY <1>6 DEF LoopInv, HandleMode, ModeMail, ModeStandard, MemoCommand
    <2> QED BY <1>1, <2>1 DEF LoopInv
<1>7. LoopInv'
    BY <1>4, <1>5, <1>6 DEF Handle, Command
<1> QED BY <1>1, <1>3, <1>7 DEF VectorInv

\* Only ReadLine leads to the prompt, and it reads the vector from the row.
LEMMA ListsStep ==
    ASSUME LoopInv, RowsInv, VectorInv, JobsInv, BatchInv, [Next]_vars
    PROVE  LoopInv' /\ RowsInv' /\ VectorInv'
<1>0. ListInv(active)
    BY DEF VectorInv
<1>1. CASE UNCHANGED vars
    <2>1. LoopInv' /\ UNCHANGED <<rows, active, pc, session>>
        BY <1>1 DEF LoopInv, vars, ownVars
    <2>2. Here' = Here
        BY <2>1 DEF Here, Row
    <2> QED BY <1>0, <2>1, <2>2, SameLists DEF VectorInv
<1>2. CASE Start
    <2>1. LoopInv' /\ UNCHANGED <<rows, active>> /\ pc' = "loop"
        BY <1>2 DEF Start, LoopInv
    <2> QED BY <1>0, <2>1, SameLists DEF VectorInv
<1>3. CASE ReadLine
    <2>1. LoopInv' /\ rows' = rows /\ session' = session /\ active' = Here.skills
        BY <1>3 DEF ReadLine, LoopInv
    <2>2. RowsInv' /\ ListInv(active')
        BY <2>1, HereFacts DEF RowsInv, RowInv
    <2>3. active' = Here'.skills
        BY <2>1 DEF Here, Row
    <2> QED BY <2>1, <2>2, <2>3 DEF VectorInv
<1>4. CASE Stop
    <2>1. LoopInv' /\ rows' = rows /\ active' = << >> /\ pc' = "off"
        BY <1>4, EmptyText DEF Stop, LoopInv
    <2> QED BY <2>1, EmptyFacts DEF VectorInv, RowsInv, RowInv
<1>5. CASE Handle
    BY <1>5, HandleKeeps
<1>6. ASSUME NEW text \in Messages, Ask(text) PROVE LoopInv' /\ RowsInv' /\ VectorInv'
    <2>1. LoopInv' /\ active' = active /\ pc' = "turn" /\ rows' = WithRow(session, Here)
        BY <1>6, WorkspaceAssumption DEF Ask, LoopInv
    <2>2. RowsInv'
        BY <2>1, HereFacts, WithRowKeeps DEF LoopInv
    <2> QED BY <1>0, <2>1, <2>2 DEF VectorInv
<1>7. ASSUME StartBatch \/ AskAgain \/ EndTurn \/ \E w \in Workers : Begin(w) \/ Skip(w)
      PROVE  LoopInv' /\ RowsInv' /\ VectorInv'
    <2>1. LoopInv' /\ UNCHANGED <<rows, active>> /\ pc' # "prompt"
        BY <1>7, EmptyText DEF StartBatch, AskAgain, EndTurn, Begin, Skip, LoopInv
    <2> QED BY <1>0, <2>1, SameLists DEF VectorInv
<1>8. ASSUME NEW w \in Workers, Write(w) PROVE LoopInv' /\ RowsInv' /\ VectorInv'
    <2>1. LoopInv' /\ active' = active /\ pc' # "prompt"
        BY <1>8 DEF Write, LoopInv
    <2> QED BY <1>0, <1>8, <2>1, WriteFollows DEF VectorInv
<1> QED BY <1>1, <1>2, <1>3, <1>4, <1>5, <1>6, <1>7, <1>8 DEF Next

\* The jobs, and what the batch has made of the row.
LEMMA JobStep ==
    ASSUME JobsInv, NEW w \in Workers, NEW job \in JobType, RowInv(job.seen),
           job.call = jobs[w].call, pc = "batch", jobs[w].call \in Calls,
           jobs' = [jobs EXCEPT ![w] = job], UNCHANGED <<pc, before>>
    PROVE  /\ JobsInv'
           /\ jobs'[w] = job
           /\ \A v \in Workers : v # w => jobs'[v] = jobs[v]
           /\ \A v \in Workers : jobs'[v].call = jobs[v].call
<1>1. jobs' \in [Workers -> JobType] /\ before' \in RowType
    BY DEF JobsInv
<1>2. jobs'[w] = job /\ \A v \in Workers : v # w => jobs'[v] = jobs[v]
    BY DEF JobsInv
<1>3. ASSUME NEW v \in Workers
      PROVE  RowInv(jobs'[v].seen) /\ (jobs'[v].at # "end" => jobs'[v].call \in Calls)
                /\ jobs'[v].call = jobs[v].call
    <2>1. CASE v = w
        BY <1>2, <2>1
    <2>2. CASE v # w
        BY <1>2, <2>2 DEF JobsInv
    <2> QED BY <2>1, <2>2
<1>4. \A v \in Workers : RowInv(jobs'[v].seen) <=> RowInv(jobs[v].seen)'
    BY DEF RowInv
<1>5. JobsInv'
    BY <1>1, <1>3, <1>4 DEF JobsInv
<1> QED BY <1>2, <1>3, <1>5

\* Before and after a batch no call is pending.
LEMMA AllIdle ==
    ASSUME jobs' = [w \in Workers |-> Idle], before' \in RowType
    PROVE  JobsInv'
<1>1. jobs' \in [Workers -> JobType] /\ \A w \in Workers : jobs'[w] = Idle
    BY IdleFacts
<1>2. Pending' = {}
    BY <1>1, IdleFacts DEF Pending
<1> QED BY <1>1, <1>2, IdleFacts DEF JobsInv, RowInv

\* A step that leaves the batch alone.
LEMMA SameJobs == ASSUME JobsInv, UNCHANGED <<jobs, before>>, pc' # "batch" => pc # "batch" PROVE JobsInv'
<1>1. Pending' = Pending
    BY DEF Pending
<1> QED BY <1>1 DEF JobsInv, RowInv

\* Every step keeps the jobs and what the batch has made of the row.
LEMMA JobsStep ==
    ASSUME LoopInv, RowsInv, VectorInv, JobsInv, BatchInv, [Next]_vars
    PROVE  JobsInv' /\ BatchInv'
<1>1. CASE UNCHANGED vars
    <2>1. UNCHANGED <<jobs, before, pc, rows, session>>
        BY <1>1 DEF vars, ownVars
    <2>2. Here' = Here /\ \A tool : Asked(tool)' = Asked(tool)
        BY <2>1 DEF Here, Row, Asked
    <2> QED BY <2>1, <2>2, SameJobs DEF BatchInv, Follows
<1>2. CASE Start \/ ReadLine \/ Handle \/ EndTurn \/ \E text \in Messages : Ask(text)
    <2>1. UNCHANGED <<jobs, before>> /\ pc # "batch" /\ pc' # "batch"
        BY <1>2 DEF Start, ReadLine, Handle, Command, EndTurn, Ask
    <2> QED BY <2>1, SameJobs DEF BatchInv
<1>3. CASE Stop \/ AskAgain
    <2>1. jobs' = [w \in Workers |-> Idle] /\ before' = EmptyRow /\ pc' # "batch"
        BY <1>3 DEF Stop, AskAgain
    <2>2. before' \in RowType
        BY <2>1, EmptyFacts DEF RowInv
    <2> QED BY <2>1, <2>2, AllIdle DEF BatchInv
<1>4. CASE StartBatch
    <2>1. PICK workers \in (SUBSET Workers) \ {{}} :
             \E calls \in [workers -> Calls] :
                jobs' = [w \in Workers |->
                            IF w \in workers THEN [Idle EXCEPT !.call = calls[w], !.at = "begin"] ELSE Idle]
        BY <1>4 DEF StartBatch
    <2>2. PICK calls \in [workers -> Calls] :
                jobs' = [w \in Workers |->
                            IF w \in workers THEN [Idle EXCEPT !.call = calls[w], !.at = "begin"] ELSE Idle]
        BY <2>1
    <2>3. ASSUME NEW w \in workers
          PROVE  /\ [Idle EXCEPT !.call = calls[w], !.at = "begin"] \in JobType
                 /\ [Idle EXCEPT !.call = calls[w], !.at = "begin"].call \in Calls
                 /\ [Idle EXCEPT !.call = calls[w], !.at = "begin"].at = "begin"
                 /\ [Idle EXCEPT !.call = calls[w], !.at = "begin"].seen = Idle.seen
        <3>1. calls[w] \in Calls /\ Idle \in JobType
            BY <2>2, IdleFacts
        <3> QED BY <3>1 DEF JobType
    <2>4. ASSUME NEW w \in Workers
          PROVE  /\ jobs'[w] \in JobType /\ RowInv(jobs'[w].seen)
                 /\ jobs'[w].at # "end" => jobs'[w].call \in Calls
                 /\ jobs'[w].at # "write"
        <3>1. CASE w \in workers
            BY <2>2, <2>3, <3>1, IdleFacts
        <3>2. CASE w \notin workers
            BY <2>2, <3>2, IdleFacts
        <3> QED BY <3>1, <3>2
    <2>5. jobs' \in [Workers -> JobType]
        BY <2>2, <2>4
    <2>6. before' = Here /\ Here' = Here /\ pc' = "batch" /\ RowInv(Here)
        BY <1>4, HereFacts DEF StartBatch, Here, Row
    <2>7. before' \in RowType /\ before'.pad \in Seq(Notes)
        BY <2>6 DEF RowInv, RowType
    <2>8. JobsInv'
        BY <2>4, <2>5, <2>6, <2>7 DEF JobsInv, RowInv
    <2>9. Follows(Here)'
        BY <2>6, <2>7, PrefixFacts DEF Follows
    <2> QED BY <2>4, <2>8, <2>9 DEF BatchInv
<1>5. ASSUME NEW w \in Workers, Begin(w) PROVE JobsInv' /\ BatchInv'
    <2> DEFINE job == [jobs[w] EXCEPT !.at = "write", !.seen = Here]
    <2>1. jobs[w] \in JobType /\ RowInv(Here) /\ jobs[w].call \in Calls
        BY <1>5, HereFacts DEF Begin, JobsInv
    <2>2. job \in JobType /\ job.seen = Here /\ job.call = jobs[w].call /\ RowInv(job.seen)
        BY <2>1 DEF JobType, RowInv
    <2>3. jobs' = [jobs EXCEPT ![w] = job]
        BY <1>5 DEF Begin
    <2>4. UNCHANGED <<pc, before, rows, session>> /\ pc = "batch"
        BY <1>5 DEF Begin
    <2> HIDE DEF job
    <2>5. /\ JobsInv' /\ jobs'[w] = job
          /\ \A v \in Workers : v # w => jobs'[v] = jobs[v]
          /\ \A v \in Workers : jobs'[v].call = jobs[v].call
        BY <2>1, <2>2, <2>3, <2>4, JobStep
    <2>6. Here' = Here /\ \A tool : Asked(tool)' = Asked(tool)
        BY <2>4, <2>5 DEF Here, Row, Asked
    <2>7. \A row : Follows(row) => Follows(row)'
        BY <2>4, <2>6 DEF Follows
    <2>8. Follows(Here) /\ Follows(Here)'
        BY <2>4, <2>6, <2>7 DEF BatchInv, Follows
    <2>9. ASSUME NEW v \in Workers, jobs'[v].at = "write" PROVE Follows(jobs[v].seen)'
        <3>1. CASE v = w
            BY <2>2, <2>4, <2>5, <2>6, <2>8, <3>1 DEF Follows
        <3>2. CASE v # w
            BY <2>4, <2>5, <2>6, <2>9, <3>2 DEF BatchInv, Follows
        <3> QED BY <3>1, <3>2
    <2> QED BY <2>5, <2>8, <2>9 DEF BatchInv
<1>6. ASSUME NEW w \in Workers, Write(w) \/ Skip(w) PROVE JobsInv' /\ BatchInv'
    <2> DEFINE job == [jobs[w] EXCEPT !.at = "end"]
    <2>1. jobs[w] \in JobType /\ jobs[w].call \in Calls /\ RowInv(jobs[w].seen)
        BY <1>6 DEF Write, Skip, JobsInv
    <2>2. job \in JobType /\ job.seen = jobs[w].seen /\ job.call = jobs[w].call /\ job.at = "end"
        BY <2>1 DEF JobType
    <2>3. jobs' = [jobs EXCEPT ![w] = job]
        BY <1>6 DEF Write, Skip
    <2>4. UNCHANGED <<pc, before, session>> /\ pc = "batch"
        BY <1>6 DEF Write, Skip
    <2> HIDE DEF job
    <2>5. /\ JobsInv' /\ jobs'[w] = job
          /\ \A v \in Workers : v # w => jobs'[v] = jobs[v]
          /\ \A v \in Workers : jobs'[v].call = jobs[v].call
        BY <2>1, <2>2, <2>3, <2>4, JobStep
    <2>6. \A tool : Asked(tool)' = Asked(tool)
        BY <2>5 DEF Asked
    <2>7. Follows(Here)'
        <3>1. CASE Write(w)
            BY <3>1, WriteFollows
        <3>2. CASE Skip(w)
            <4>1. Here' = Here
                BY <3>2 DEF Skip, Here, Row
            <4> QED BY <2>4, <2>6, <4>1 DEF BatchInv, Follows
        <3> QED BY <1>6, <3>1, <3>2
    <2>8. ASSUME NEW v \in Workers, jobs'[v].at = "write" PROVE Follows(jobs[v].seen)'
        <3>1. v # w
            BY <2>2, <2>5, <2>8
        <3> QED BY <2>4, <2>5, <2>6, <2>8, <3>1 DEF BatchInv, Follows
    <2> QED BY <2>5, <2>7, <2>8 DEF BatchInv
<1> QED BY <1>1, <1>2, <1>3, <1>4, <1>5, <1>6 DEF Next

-----------------------------------------------------------------------------
(* The registry and its counts.                                            *)

\* A step that leaves the registry alone.
LEMMA SameRegistry == ASSUME NEW n \in Int, Registered(n), UNCHANGED skills PROVE Registered(n)'
BY DEF Registered

\* More operations allow for higher counts.
LEMMA MoreRegistered == ASSUME NEW n \in Int, NEW m \in Int, n <= m, Registered(n) PROVE Registered(m)
<1>1. \A name \in DOMAIN skills : skills[name].count \in Int
    BY DEF Registered, SkillType
<1> QED BY <1>1 DEF Registered

\* Counting a skill takes one operation.
LEMMA CountedKeeps ==
    ASSUME NEW n \in Nat, Registered(n), NEW name \in Known, Counted(name)
    PROVE  Registered(n + 1)'
<1>1. name \in DOMAIN skills /\ skills[name] \in SkillType /\ skills[name].count <= n
    BY DEF Known, Registered
<1>2. DOMAIN skills' = DOMAIN skills
    BY DEF Counted
<1>3. \A x \in DOMAIN skills : x # name => skills'[x] = skills[x]
    BY DEF Counted
<1>4. skills'[name] = [skills[name] EXCEPT !.count = @ + 1]
    BY <1>1 DEF Counted
<1>5. skills'[name] \in SkillType /\ skills'[name].count <= n + 1
    BY <1>1, <1>4 DEF SkillType
<1>6. \A x \in DOMAIN skills : skills[x].count <= n => skills[x].count <= n + 1
    BY DEF Registered, SkillType
<1> QED BY <1>2, <1>3, <1>5, <1>6 DEF Registered

\* A skill is registered with a count of 0.
LEMMA RegisterKeeps ==
    ASSUME NEW n \in Nat, Registered(n), NEW names \in SUBSET Names,
           NEW skill \in SkillType, skill.count = 0, RegisterSkill(names, skill)
    PROVE  Registered(n)'
<1>1. DOMAIN skills' = Known \cup names
    BY DEF RegisterSkill
<1>2. \A x \in DOMAIN skills' : skills'[x] = IF x \in Known THEN skills[x] ELSE skill
    BY DEF RegisterSkill
<1>3. Known \subseteq DOMAIN skills /\ Known \subseteq Names
    BY DEF Known
<1> QED BY <1>1, <1>2, <1>3 DEF Registered

\* A command on the registry counts at most once.
LEMMA SkillKeeps ==
    ASSUME NEW n \in Nat, Registered(n), HandleSkill
    PROVE  Registered(n)' \/ Registered(n + 1)'
<1> PICK name \in Names :
       \/ SkillActivate(name) \/ SkillDeactivate(name) \/ SkillDelete(name) \/ SkillAdd(name)
       \/ \E saved \in Names : SkillEdit(name, saved)
    BY DEF HandleSkill
<1>0. Known \subseteq DOMAIN skills /\ Known \subseteq Names
    BY DEF Known
<1>1. CASE SkillActivate(name)
    BY <1>1, CountedKeeps, SameRegistry DEF SkillActivate
<1>2. CASE SkillDeactivate(name)
    BY <1>2, SameRegistry DEF SkillDeactivate
<1>3. CASE SkillDelete(name)
    <2>1. DOMAIN skills' = Known \ {name} /\ \A x \in Known \ {name} : skills'[x] = skills[x]
        BY <1>3 DEF SkillDelete
    <2> QED BY <1>0, <2>1 DEF Registered
<1>4. CASE SkillAdd(name)
    <2>1. [own |-> TRUE, count |-> 0] \in SkillType /\ [own |-> TRUE, count |-> 0].count = 0
        BY DEF SkillType
    <2> QED BY <1>4, <2>1, RegisterKeeps DEF SkillAdd
<1>5. ASSUME NEW saved \in Names, SkillEdit(name, saved) PROVE Registered(n)'
    <2>1. DOMAIN skills' = Known /\ name \in Known
        BY <1>5 DEF SkillEdit
    <2>2. \A x \in Known : skills'[x] =
             IF x = saved THEN [own |-> TRUE, count |-> skills[name].count] ELSE skills[x]
        BY <1>5 DEF SkillEdit
    <2>3. skills[name] \in SkillType /\ skills[name].count <= n
        BY <1>0, <2>1 DEF Registered
    <2>4. [own |-> TRUE, count |-> skills[name].count] \in SkillType
        BY <2>3 DEF SkillType
    <2>5. [own |-> TRUE, count |-> skills[name].count].count = skills[name].count
        OBVIOUS
    <2> PICK edited : edited = [own |-> TRUE, count |-> skills[name].count]
        OBVIOUS
    <2>6. \A x \in Known : skills'[x] \in SkillType /\ skills'[x].count <= n
        BY <1>0, <2>2, <2>3, <2>4, <2>5 DEF Registered
    <2> QED BY <1>0, <2>1, <2>6 DEF Registered
<1> QED BY <1>1, <1>2, <1>3, <1>4, <1>5

\* The calls of a batch are finitely many.
LEMMA PendingFacts ==
    /\ IsFiniteSet(Pending) /\ Cardinality(Pending) \in Nat
    /\ \A w : Cardinality(Pending \ {w}) = IF w \in Pending THEN Cardinality(Pending) - 1
                                                            ELSE Cardinality(Pending)
    /\ Cardinality({}) = 0
<1>1. IsFiniteSet(Pending)
    BY WorkspaceAssumption, FS_Subset DEF Pending
<1> QED BY <1>1, FS_CardinalityType, FS_RemoveElement, FS_EmptySet

\* A step that counts at most what a command or a call that ends accounts for.
LEMMA CountsBalance ==
    ASSUME RegistryInv, NEW m \in Int, Registered(m)', ops' \in 0..MaxOps,
           Cardinality(Pending') \in Nat, m <= ops' - Cardinality(Pending'), 0 <= m
    PROVE  RegistryInv'
<1>0. MaxOps \in Nat
    BY WorkspaceAssumption
<1> PICK k : k = ops' - Cardinality(Pending')
    OBVIOUS
<1>1. k \in Int /\ Cardinality(Pending') <= ops'
    BY <1>0
<1>2. \A name \in DOMAIN skills' : skills'[name].count \in Int
    BY DEF Registered, SkillType
<1>3. Registered(k)'
    BY <1>1, <1>2 DEF Registered
<1> QED BY <1>1, <1>3 DEF RegistryInv

\* Every step keeps the counts within the operations that have written.
LEMMA RegistryStep ==
    ASSUME IInv, JobsInv', [Next]_vars
    PROVE  RegistryInv'
<1> PICK n : n = ops - Cardinality(Pending)
    OBVIOUS
<1>0. /\ n \in Nat /\ ops \in 0..MaxOps /\ MaxOps \in Nat /\ ops \in Nat
      /\ Registered(n) /\ Cardinality(Pending) \in Nat
    BY WorkspaceAssumption, PendingFacts DEF IInv, RegistryInv
<1>1. CASE UNCHANGED <<jobs, skills, ops>>
    <2>1. Pending' = Pending
        BY <1>1 DEF Pending
    <2> QED BY <1>0, <1>1, <2>1, CountsBalance, SameRegistry DEF IInv
<1>2. ASSUME pc # "batch", pc' # "batch" PROVE Pending = {} /\ Pending' = {} /\ n = ops
    <2>1. Pending = {} /\ Pending' = {}
        BY <1>2 DEF IInv, JobsInv
    <2> QED BY <1>0, <2>1, PendingFacts
<1>3. CASE Start
    <2>1. Shipped \in SkillType /\ Shipped.count = 0 /\ Default \in SUBSET Names
        BY WorkspaceAssumption DEF Shipped, SkillType
    <2>2. Registered(n)' /\ ops' = ops /\ pc # "batch" /\ pc' # "batch"
        BY <1>0, <1>3, <2>1, RegisterKeeps DEF Start
    <2> QED BY <1>0, <1>2, <2>2, CountsBalance, PendingFacts DEF IInv
<1>4. CASE Handle
    <2>1. ops' = ops + 1 /\ ops < MaxOps /\ pc # "batch" /\ pc' # "batch"
        BY <1>4 DEF Handle, Command
    <2>2. ops' \in 0..MaxOps
        BY <1>0, <2>1
    <2>3. CASE UNCHANGED skills
        <3>1. Registered(n)'
            BY <1>0, <2>3, SameRegistry
        <3> QED BY <1>0, <1>2, <2>1, <2>2, <3>1, CountsBalance, PendingFacts DEF IInv
    <2>4. CASE HandleSkill
        <3>1. Registered(n)' \/ Registered(n + 1)'
            BY <1>0, <2>4, SkillKeeps
        <3>2. Cardinality(Pending') = 0 /\ n = ops
            BY <1>2, <2>1, PendingFacts
        <3>3. CASE Registered(n)'
            BY <1>0, <2>1, <2>2, <3>2, <3>3, CountsBalance DEF IInv
        <3>4. CASE Registered(n + 1)'
            BY <1>0, <2>1, <2>2, <3>2, <3>4, CountsBalance DEF IInv
        <3> QED BY <3>1, <3>3, <3>4
    <2>5. UNCHANGED skills \/ HandleSkill
        <3>1. HandleSession => UNCHANGED skills
            BY DEF HandleSession, SessionSwitch, SessionClone, SessionRemove, ScratchpadEdit
        <3>2. HandleMode => UNCHANGED skills
            BY DEF HandleMode, ModeMail, ModeStandard
        <3>3. MemoCommand => UNCHANGED skills
            BY DEF MemoCommand
        <3> QED BY <1>4, <3>1, <3>2, <3>3 DEF Handle, Command
    <2> QED BY <2>3, <2>4, <2>5
<1>5. CASE Stop \/ AskAgain
    <2>1. Registered(n)' /\ ops' = ops /\ jobs' = [w \in Workers |-> Idle]
        BY <1>0, <1>5, SameRegistry DEF Stop, AskAgain
    <2>2. Pending' = {}
        BY <2>1, IdleFacts DEF Pending
    <2> QED BY <1>0, <2>1, <2>2, CountsBalance, PendingFacts DEF IInv
<1>6. CASE StartBatch
    <2>1. PICK workers \in (SUBSET Workers) \ {{}} :
             /\ ops' = ops + Cardinality(workers) /\ ops' <= MaxOps
             /\ \E calls \in [workers -> Calls] :
                  jobs' = [w \in Workers |->
                              IF w \in workers THEN [Idle EXCEPT !.call = calls[w], !.at = "begin"] ELSE Idle]
        BY <1>6 DEF StartBatch
    <2>2. IsFiniteSet(workers) /\ Cardinality(workers) \in Nat
        BY WorkspaceAssumption, FS_Subset, FS_CardinalityType
    <2>3. \A w \in Workers : jobs'[w].at # "end" <=> w \in workers
        BY <2>1, IdleFacts DEF JobType
    <2>4. Pending' = workers
        BY <2>1, <2>3 DEF Pending
    <2>5. Pending = {}
        BY <1>6 DEF StartBatch, IInv, JobsInv
    <2>7. n = ops
        BY <1>0, <2>5, PendingFacts
    <2>9. UNCHANGED skills
        BY <1>6 DEF StartBatch
    <2>8. Registered(n)'
        BY <1>0, <2>9, SameRegistry
    <2> PICK c : c = Cardinality(workers)
        OBVIOUS
    <2>10. ops' = ops + c /\ ops + c <= MaxOps /\ c \in Nat /\ Cardinality(Pending') = c
        BY <2>1, <2>2, <2>4
    <2>11. ops + c \in 0..MaxOps /\ n <= (ops + c) - c
        BY <1>0, <2>7, <2>10
    <2>6. ops' \in 0..MaxOps
        BY <2>10, <2>11
    <2>12. n <= ops' - Cardinality(Pending')
        BY <2>10, <2>11
    <2> QED BY <1>0, <2>6, <2>8, <2>10, <2>12, CountsBalance DEF IInv
<1>7. ASSUME NEW w \in Workers, Begin(w) PROVE RegistryInv'
    <2>1. \A v \in Workers : jobs'[v].at # "end" <=> jobs[v].at # "end"
        BY <1>7 DEF Begin, IInv, JobsInv, JobType
    <2>2. Pending' = Pending
        BY <2>1 DEF Pending
    <2>3. Registered(n)' /\ ops' = ops
        BY <1>0, <1>7, SameRegistry DEF Begin
    <2> QED BY <1>0, <2>2, <2>3, CountsBalance DEF IInv
<1>8. ASSUME NEW w \in Workers, Write(w) \/ Skip(w) PROVE RegistryInv'
    <2>1. w \in Pending
        BY <1>8 DEF Pending, Write, Skip
    <2>2. \A v \in Workers : jobs'[v].at # "end" <=> v # w /\ jobs[v].at # "end"
        BY <1>8 DEF Write, Skip, IInv, JobsInv, JobType
    <2>3. Pending' = Pending \ {w}
        BY <2>2 DEF Pending
    <2>4. Cardinality(Pending') = Cardinality(Pending) - 1 /\ Cardinality(Pending') \in Nat
        <3>1. Cardinality(Pending) # 0
            BY <2>1, PendingFacts, FS_EmptySet
        <3> QED BY <1>0, <2>1, <2>3, <3>1, PendingFacts
    <2>5. ops' = ops
        BY <1>8 DEF Write, Skip
    <2>6. Registered(n)' \/ Registered(n + 1)'
        <3> PICK c : c = jobs[w].call
            OBVIOUS
        <3> PICK list : list = jobs[w].seen.skills
            OBVIOUS
        <3>1. UNCHANGED skills \/ UseSkill(c, list)
            BY <1>8 DEF Write, Skip, ManageScratchpad
        <3>2. CASE UNCHANGED skills
            BY <1>0, <3>2, SameRegistry
        <3>3. CASE UseSkill(c, list)
            BY <1>0, <3>3, SameRegistry, CountedKeeps DEF UseSkill
        <3> QED BY <3>1, <3>2, <3>3
    <2>7. CASE Registered(n)'
        BY <1>0, <2>4, <2>5, <2>7, CountsBalance DEF IInv
    <2>8. CASE Registered(n + 1)'
        BY <1>0, <2>4, <2>5, <2>8, CountsBalance DEF IInv
    <2> QED BY <2>6, <2>7, <2>8
<1>9. CASE UNCHANGED vars \/ ReadLine \/ EndTurn \/ \E text \in Messages : Ask(text)
    BY <1>1, <1>9 DEF vars, ownVars, ReadLine, EndTurn, Ask
<1> QED BY <1>3, <1>4, <1>5, <1>6, <1>7, <1>8, <1>9 DEF Next

-----------------------------------------------------------------------------
(* The memos, and those a prompt shows.                                    *)

\* A stretch of a text is a text, of the tokens at its places.
LEMMA Stretch ==
    ASSUME NEW t \in Text, NEW i \in 1..Len(t), NEW j \in 1..Len(t), i <= j
    PROVE  /\ SubSeq(t, i, j) \in Text /\ Len(SubSeq(t, i, j)) = j - i + 1
           /\ \A k \in 1..(j - i + 1) : SubSeq(t, i, j)[k] = t[i + k - 1]
<1>1. Len(t) \in Nat /\ i \in Int /\ j \in Int /\ i..j \subseteq 1..Len(t)
    BY LenProperties DEF Text
<1>2. \A k \in i..j : t[k] \in Tokens
    BY <1>1, ElementOfSeq DEF Text
<1>3. /\ SubSeq(t, i, j) \in Seq(Tokens) /\ Len(SubSeq(t, i, j)) = j - i + 1
      /\ \A k \in 1..(j - i + 1) : SubSeq(t, i, j)[k] = t[i + k - 1]
    BY <1>1, <1>2, SubSeqProperties
<1> QED BY <1>3 DEF Text

\* The whole of a text.
LEMMA WholeText ==
    ASSUME NEW t \in Text
    PROVE  SubSeq(t, 1, Len(t)) = t
<1>1. CASE Len(t) = 0
    BY <1>1, EmptySeq, SubSeqProperties, LenProperties DEF Text
<1>2. CASE Len(t) # 0
    <2> PICK s : s = SubSeq(t, 1, Len(t))
        OBVIOUS
    <2>1. Len(t) \in Nat /\ 1 \in 1..Len(t) /\ Len(t) \in 1..Len(t)
        BY <1>2, LenProperties DEF Text
    <2>2. s \in Text /\ Len(s) = Len(t) /\ \A k \in 1..Len(t) : s[k] = t[k]
        BY <2>1, Stretch
    <2> QED BY <2>2, SeqEqual DEF Text
<1> QED BY <1>1, <1>2

\* What a text is split into are texts.
LEMMA SplitFacts ==
    ASSUME NEW t \in Text, NEW signs, NEW word \in Split(t, signs)
    PROVE  \E i, j \in 1..Len(t) :
              /\ i <= j /\ word = SubSeq(t, i, j) /\ word \in Text
              /\ \A k \in i..j : t[k] \notin signs
              /\ i > 1 => t[i - 1] \in signs
              /\ j < Len(t) => t[j + 1] \in signs
<1> PICK r \in Runs(t, signs) : word = SubSeq(t, r[1], r[2])
    BY DEF Split
<1>1. /\ r[1] \in 1..Len(t) /\ r[2] \in 1..Len(t) /\ r[1] <= r[2]
      /\ \A k \in r[1]..r[2] : t[k] \notin signs
      /\ r[1] > 1 => t[r[1] - 1] \in signs
      /\ r[2] < Len(t) => t[r[2] + 1] \in signs
    BY DEF Runs
<1>2. SubSeq(t, r[1], r[2]) \in Text
    BY <1>1, Stretch
<1> QED BY <1>1, <1>2

\* What a list of tags reads as are tags.
LEMMA FieldsFacts ==
    ASSUME NEW tags \in SUBSET Text
    PROVE  /\ UNION {Fields(t) : t \in tags} \in SUBSET Text
           /\ UNION {Fields(<<Blank>> \o t) : t \in tags} \in SUBSET Text
<1>1. \A t \in Text : Fields(t) \in SUBSET Text
    BY SplitFacts DEF Fields
<1>2. ASSUME NEW t \in Text PROVE <<Blank>> \o t \in Text
    <2>1. <<Blank>> \in Seq(Tokens) /\ t \in Seq(Tokens)
        BY DEF Tokens, Separators, Text
    <2> QED BY <2>1, ConcatProperties DEF Text
<1> QED BY <1>1, <1>2

\* What a memo file reads back as has tags.
LEMMA ReadFacts ==
    ASSUME NEW tags \in SUBSET Text, NEW read \in ReadMarkdown(tags)
    PROVE  read.tags \in SUBSET Text /\ read.json \in BOOLEAN
<1> PICK fields : fields = UNION {Fields(<<Blank>> \o t) : t \in tags}
    OBVIOUS
<1>1. fields \in SUBSET Text
    BY FieldsFacts
<1>2. read = [tags |-> fields, json |-> TRUE] \/ read = [tags |-> {}, json |-> FALSE]
    BY DEF ReadMarkdown
<1>3. CASE read = [tags |-> fields, json |-> TRUE]
    BY <1>1, <1>3
<1>4. CASE read = [tags |-> {}, json |-> FALSE]
    BY <1>4
<1> QED BY <1>2, <1>3, <1>4

\* A memo that is added.
LEMMA AddKeeps ==
    ASSUME TableInv, NEW tags \in SUBSET Text, NEW json \in BOOLEAN, AddMemo(tags, json)
    PROVE  TableInv'
<1>1. nextMemo \in Nat /\ nextMemo <= MaxMemos /\ MaxMemos \in Nat /\ nextMemo >= 1
    BY MemosAssumption DEF AddMemo, TableInv, MemosTypeOK
<1>2. nextMemo' = nextMemo + 1 /\ nextMemo' \in 1..(MaxMemos + 1)
    BY <1>1 DEF AddMemo
<1>3. DOMAIN memos' = DOMAIN memos \cup {nextMemo}
    BY DEF AddMemo
<1>4. DOMAIN memos' \subseteq 1..(nextMemo' - 1)
    BY <1>1, <1>2, <1>3 DEF TableInv, MemosTypeOK
<1>5. [tags |-> tags, json |-> json] \in [tags : SUBSET Text, json : BOOLEAN]
    OBVIOUS
<1>6. \A id \in DOMAIN memos' : memos'[id] \in [tags : SUBSET Text, json : BOOLEAN]
    BY <1>3, <1>5 DEF AddMemo, TableInv
<1> QED BY <1>2, <1>4, <1>6 DEF TableInv, MemosTypeOK

\* A memo that is changed.
LEMMA UpdateKeeps ==
    ASSUME TableInv, NEW id \in DOMAIN memos, NEW tags \in SUBSET Text, NEW json \in BOOLEAN,
           UpdateMemo(id, tags, json)
    PROVE  TableInv'
<1>1. [tags |-> tags, json |-> json] \in [tags : SUBSET Text, json : BOOLEAN]
    OBVIOUS
<1>2. DOMAIN memos' = DOMAIN memos /\ nextMemo' = nextMemo
    BY DEF UpdateMemo
<1>3. \A i \in DOMAIN memos : memos'[i] = IF i = id THEN [tags |-> tags, json |-> json] ELSE memos[i]
    BY DEF UpdateMemo
<1>4. \A i \in DOMAIN memos' : memos'[i] \in [tags : SUBSET Text, json : BOOLEAN]
    BY <1>1, <1>2, <1>3 DEF TableInv
<1> QED BY <1>2, <1>4 DEF TableInv, MemosTypeOK

\* A command on the memos.
LEMMA HandleMemoKeeps ==
    ASSUME TableInv, HandleMemo
    PROVE  TableInv'
<1>0. \A tags \in SavedTags : tags \in SUBSET Text
    BY MemosAssumption
<1>1. ASSUME NEW tags \in SavedTags, AddMemo(UNION {Fields(t) : t \in tags}, TRUE)
      PROVE  TableInv'
    BY <1>0, <1>1, FieldsFacts, AddKeeps
<1>2. ASSUME NEW tags \in SavedTags, NEW read \in ReadMarkdown(tags), AddMemo(read.tags, read.json)
      PROVE  TableInv'
    BY <1>0, <1>2, ReadFacts, AddKeeps
<1>3. ASSUME NEW id \in DOMAIN memos, DeleteMemo(id)
      PROVE  TableInv'
    <2>1. DOMAIN memos' = DOMAIN memos \ {id} /\ nextMemo' = nextMemo
        BY <1>3 DEF DeleteMemo
    <2>2. \A i \in DOMAIN memos' : memos'[i] = memos[i]
        BY <1>3 DEF DeleteMemo
    <2> QED BY <2>1, <2>2 DEF TableInv, MemosTypeOK
<1>4. ASSUME NEW id \in DOMAIN memos, NEW tags \in SavedTags \cup {memos[id].tags},
             NEW read \in ReadMarkdown(tags), UpdateMemo(id, read.tags, read.json)
      PROVE  TableInv'
    <2>1. tags \in SUBSET Text
        BY <1>0 DEF TableInv
    <2> QED BY <1>4, <2>1, ReadFacts, UpdateKeeps
<1> QED BY <1>1, <1>2, <1>3, <1>4 DEF HandleMemo

\* Every step keeps the table of memos.
LEMMA TableStep ==
    ASSUME IInv, [Next]_vars
    PROVE  TableInv'
<1>0. TableInv
    BY DEF IInv
<1>1. CASE UNCHANGED memoVars
    BY <1>0, <1>1 DEF memoVars, TableInv, MemosTypeOK
<1>2. CASE HandleMemo
    BY <1>0, <1>2, HandleMemoKeeps
<1>3. ASSUME NEW w \in Workers, Write(w), ~UNCHANGED memoVars PROVE TableInv'
    <2>1. jobs[w].call \in Calls
        BY <1>3 DEF IInv, JobsInv, Write
    <2>2. jobs[w].call.arg \in SavedTags /\ SaveMemo(jobs[w].call.arg)
        BY <1>3, <2>1, CallFacts DEF Write
    <2> PICK tags \in SavedTags : tags = jobs[w].call.arg
        BY <2>2
    <2>3. tags \in SUBSET Text /\ AddMemo(tags, TRUE)
        BY <2>2, MemosAssumption DEF SaveMemo
    <2> QED BY <1>0, <2>3, AddKeeps
<1>4. Handle => UNCHANGED memoVars \/ HandleMemo
    <2>1. HandleSkill => UNCHANGED memoVars
        BY DEF HandleSkill, SkillActivate, SkillDeactivate, SkillDelete, SkillAdd, SkillEdit
    <2>2. HandleSession => UNCHANGED memoVars
        BY DEF HandleSession, SessionSwitch, SessionClone, SessionRemove, ScratchpadEdit
    <2>3. HandleMode => UNCHANGED memoVars
        BY DEF HandleMode, ModeMail, ModeStandard
    <2> QED BY <2>1, <2>2, <2>3 DEF Handle, Command, MemoCommand
<1>5. CASE UNCHANGED vars \/ Start \/ ReadLine \/ Stop \/ StartBatch \/ AskAgain \/ EndTurn
           \/ (\E text \in Messages : Ask(text)) \/ \E w \in Workers : Begin(w) \/ Skip(w)
    BY <1>1, <1>5 DEF vars, Start, ReadLine, Stop, StartBatch, AskAgain, EndTurn, Ask, Begin, Skip
<1> QED BY <1>1, <1>2, <1>3, <1>4, <1>5 DEF Next

\* The prompt is made from the memos there are, and they stay until the next one.
LEMMA PromptStep ==
    ASSUME IInv, [Next]_vars
    PROVE  PromptInv'
<1>1. CASE UNCHANGED vars \/ StartBatch
    <2>1. UNCHANGED <<memos, message, prompt>> /\ (pc' = "turn" => pc = "turn")
        BY <1>1 DEF vars, ownVars, memoVars, StartBatch
    <2>2. \A text : RelevantMemos(text)' = RelevantMemos(text)
        BY <2>1 DEF RelevantMemos, FirstFew, GetMemosByTags
    <2> QED BY <2>1, <2>2 DEF IInv, PromptInv
<1>2. ASSUME NEW text, Ask(text) \/ (AskAgain /\ text = message) PROVE PromptInv'
    <2>1. /\ message' = text /\ memos' = memos
          /\ prompt' = SystemInstruction(active, text)
        BY <1>2 DEF Ask, AskAgain, memoVars
    <2>2. RelevantMemos(text)' = RelevantMemos(text)
        BY <2>1 DEF RelevantMemos, FirstFew, GetMemosByTags
    <2> QED BY <2>1, <2>2 DEF PromptInv, SystemInstruction
<1>3. CASE Start \/ ReadLine \/ Stop \/ Handle \/ EndTurn \/ \E w \in Workers : Begin(w) \/ Write(w) \/ Skip(w)
    <2>1. pc' # "turn"
        BY <1>3 DEF Start, ReadLine, Stop, Handle, Command, EndTurn, Begin, Write, Skip
    <2> QED BY <2>1 DEF PromptInv
<1> QED BY <1>1, <1>2, <1>3 DEF Next

\* Every step keeps the invariant.
LEMMA StepInv == IInv /\ [Next]_vars => IInv'
<1> SUFFICES ASSUME IInv, [Next]_vars PROVE IInv'
    OBVIOUS
<1>1. LoopInv' /\ RowsInv' /\ VectorInv' /\ JobsInv' /\ BatchInv'
    BY ListsStep, JobsStep DEF IInv
<1> QED BY <1>1, RegistryStep, TableStep, PromptStep DEF IInv

\* The invariant holds in every state.
THEOREM Invariance == Spec => []IInv
BY InitInv, StepInv, PTL DEF Spec

-----------------------------------------------------------------------------
\* Every state is typed: a session that is known, lists of names, counts within the
\* operations there were.
THEOREM TypeCorrect == Spec => []TypeOK
<1>1. IInv => TypeOK
    <2> SUFFICES ASSUME IInv PROVE TypeOK
        OBVIOUS
    <2>1. \A s \in DOMAIN rows : rows[s].skills \in Seq(Names) /\ rows[s].pad \in Seq(Notes)
        BY DEF IInv, RowsInv, RowInv, RowType
    <2>2. ops \in Nat /\ MaxOps \in Nat /\ ops \in 0..MaxOps /\ Cardinality(Pending) \in Nat
        BY WorkspaceAssumption, PendingFacts DEF IInv, RegistryInv
    <2>3. ASSUME NEW n \in DOMAIN skills
          PROVE  skills[n].own \in BOOLEAN /\ skills[n].count \in 0..MaxOps
        <3>1. skills[n] \in SkillType /\ skills[n].count <= ops - Cardinality(Pending)
            BY DEF IInv, RegistryInv, Registered
        <3> QED BY <2>2, <3>1 DEF SkillType
    <2> QED BY <2>1, <2>2, <2>3
            DEF IInv, TypeOK, LoopInv, RowsInv, VectorInv, ListInv, RegistryInv, Registered, TableInv
<1> QED BY <1>1, Invariance, PTL

\* No skill is twice in a list, whatever calls of use_skill and commands changed it
\* (core/tool_executor.cpp, interface/command_handler.cpp).
THEOREM SkillsOnce == Spec => []ActiveOnce
<1>1. IInv => ActiveOnce
    BY DEF IInv, RowsInv, RowInv, ListInv, ActiveOnce
<1> QED BY <1>1, Invariance, PTL

\* Calls that overwrite each other's result still do only what was asked.
THEOREM OnlyWhatWasAsked == Spec => []OnlyAsked
<1>1. IInv => OnlyAsked
    BY DEF IInv, BatchInv, Follows, OnlyAsked, Asked
<1> QED BY <1>1, Invariance, PTL

\* The first n of a finite set of numbers are n, and no one that is left out is
\* before one of them.
LEMMA FirstFewFacts ==
    ASSUME NEW ids \in SUBSET Nat, IsFiniteSet(ids), NEW n \in Nat, NEW id \in ids,
           id \notin FirstFew(ids, n)
    PROVE  Cardinality(FirstFew(ids, n)) = n /\ \A i \in FirstFew(ids, n) : i < id
<1> DEFINE few == FirstFew(ids, n)
           below(i) == {j \in ids : j < i}
           f == [k \in 1..n |-> Ranked(ids, k)]
<1>1. /\ Cardinality(ids) \in Nat
      /\ \A i \in ids : Rank(ids, i) \in 1..Cardinality(ids) /\ Ranked(ids, Rank(ids, i)) = i
      /\ \A i, j \in ids : i < j <=> Rank(ids, i) < Rank(ids, j)
      /\ \A k \in 1..Cardinality(ids) : Ranked(ids, k) \in ids /\ Rank(ids, Ranked(ids, k)) = k
    BY Ranks
<1>2. ASSUME NEW i \in ids PROVE Cardinality(below(i)) + 1 = Rank(ids, i)
    <2>0. i \in Int /\ \A j \in ids : j \in Int /\ (j <= i <=> (j < i \/ j = i))
        OBVIOUS
    <2>4. ~(i < i)
        BY <2>0
    <2>1. {j \in ids : j <= i} = below(i) \cup {i} /\ i \notin below(i)
        BY <2>0, <2>4, Zenon
    <2>2. IsFiniteSet(below(i))
        BY FS_Subset
    <2> HIDE DEF below
    <2>3. Cardinality(below(i) \cup {i}) = Cardinality(below(i)) + 1
        BY <2>1, <2>2, FS_AddElement
    <2> QED BY <2>1, <2>3 DEF Rank
<1>3. \A i \in ids : i \in few <=> Rank(ids, i) <= n
    <2> TAKE i \in ids
    <2>1. i \in few <=> Cardinality(below(i)) < n
        BY DEF FirstFew
    <2>2. Cardinality(below(i)) \in Nat
        BY FS_Subset, FS_CardinalityType
    <2> HIDE DEF below, few
    <2> QED BY <1>1, <1>2, <2>1, <2>2
<1>4. few \subseteq ids
    BY DEF FirstFew
<1> HIDE DEF few
<1>5. ~(Rank(ids, id) <= n) /\ n < Rank(ids, id) /\ n <= Cardinality(ids)
    <2>1. ~(Rank(ids, id) <= n)
        BY <1>3 DEF few
    <2> QED BY <1>1, <2>1
<1>6. \A i \in few : i < id
    <2> TAKE i \in few
    <2>1. i \in ids /\ Rank(ids, i) <= n
        BY <1>3, <1>4
    <2> QED BY <1>1, <1>5, <2>1
<1>7. f \in Bijection(1..n, few)
    <2>1. \A k \in 1..n : Ranked(ids, k) \in ids /\ Rank(ids, Ranked(ids, k)) = k
        BY <1>1, <1>5
    <2>2. \A k \in 1..n : f[k] \in few
        <3> TAKE k \in 1..n
        <3>1. Ranked(ids, k) \in ids /\ Rank(ids, Ranked(ids, k)) = k /\ k <= n
            BY <2>1
        <3> QED BY <1>3, <3>1
    <2>3. \A j, k \in 1..n : f[j] = f[k] => j = k
        BY <2>1
    <2>4. ASSUME NEW i \in few PROVE \E k \in 1..n : f[k] = i
        <3>1. Rank(ids, i) \in 1..n /\ Ranked(ids, Rank(ids, i)) = i
            BY <1>1, <1>3, <1>4
        <3> QED BY <3>1
    <2> QED BY <2>2, <2>3, <2>4 DEF Bijection, Injection, Surjection, IsInjective
<1>8. IsFiniteSet(1..n) /\ Cardinality(1..n) = n
    BY FS_Interval
<1>9. Cardinality(few) = n
    <2>1. ExistsBijection(1..n, few)
        BY <1>7 DEF ExistsBijection
    <2> QED BY <1>8, <2>1, FS_Bijection
<1> QED BY <1>6, <1>9 DEF few

\* Without capitals a text is one, with the same signs at the same places; and a
\* second time changes nothing.
LEMMA LoweredFacts ==
    ASSUME NEW t \in Text
    PROVE  /\ Lowered(t) \in Text /\ Len(Lowered(t)) = Len(t)
           /\ Lowered(Lowered(t)) = Lowered(t)
           /\ \A k \in 1..Len(t) : Lowered(t)[k] = IF t[k] \in Words THEN Lower[t[k]] ELSE t[k]
           /\ \A k \in 1..Len(t) : Lowered(t)[k] = Hyphen => t[k] = Hyphen
<1> USE DEF Text
<1>1. Len(t) \in Nat /\ DOMAIN t = 1..Len(t) /\ \A k \in 1..Len(t) : t[k] \in Tokens
    BY LenProperties, ElementOfSeq
<1>2. \A x \in Words : Lower[x] \in Words /\ Lower[Lower[x]] = Lower[x]
    BY MemosAssumption
<1> DEFINE low(x) == IF x \in Words THEN Lower[x] ELSE x
<1>3. \A x \in Tokens : low(x) \in Tokens /\ low(low(x)) = low(x)
    BY <1>2 DEF Tokens
<1>4. Lowered(t) = [k \in 1..Len(t) |-> low(t[k])]
    BY <1>1 DEF Lowered
<1>5. Lowered(t) \in Seq(Tokens) /\ Len(Lowered(t)) = Len(t)
    <2>1. \A k \in 1..Len(t) : low(t[k]) \in Tokens
        BY <1>1, <1>3
    <2> HIDE DEF low
    <2>2. [k \in 1..Len(t) |-> low(t[k])] \in [1..Len(t) -> Tokens]
        BY <2>1
    <2> QED BY <1>1, <1>4, <2>2, SeqDef, LenProperties
<1>6. \A k \in 1..Len(t) : Lowered(t)[k] = low(t[k])
    BY <1>4
<1>7. Lowered(Lowered(t)) = Lowered(t)
    <2>1. DOMAIN Lowered(t) = 1..Len(t)
        BY <1>4
    <2>2. Lowered(Lowered(t)) = [k \in 1..Len(t) |-> low(Lowered(t)[k])]
        BY <2>1 DEF Lowered
    <2>3. \A k \in 1..Len(t) : low(Lowered(t)[k]) = low(t[k])
        BY <1>1, <1>3, <1>6
    <2> HIDE DEF low
    <2> QED BY <1>4, <2>2, <2>3
<1>8. \A k \in 1..Len(t) : Lowered(t)[k] = Hyphen => t[k] = Hyphen
    <2>1. Hyphen \notin Words
        BY MemosAssumption DEF Separators
    <2> QED BY <1>2, <1>6, <2>1
<1> QED BY <1>5, <1>6, <1>7, <1>8

\* A word between the hyphens of a tag matches it, in lower case if it is the whole tag.
LEMMA WordMatches ==
    ASSUME NEW tag \in Text, NEW word \in Split(Lowered(tag), {Hyphen}),
           word = Lowered(tag) => word = tag
    PROVE  Matches(tag, word)
<1> PICK low : low = Lowered(tag)
    OBVIOUS
<1>1. /\ low \in Text /\ Len(low) = Len(tag) /\ \A k \in 1..Len(tag) : low[k] = Hyphen => tag[k] = Hyphen
      /\ \A k \in 1..Len(tag) : low[k] = IF tag[k] \in Words THEN Lower[tag[k]] ELSE tag[k]
    BY LoweredFacts
<1>2. PICK i, j \in 1..Len(tag) :
          /\ i <= j /\ word = SubSeq(low, i, j) /\ word \in Text
          /\ i > 1 => low[i - 1] = Hyphen
          /\ j < Len(tag) => low[j + 1] = Hyphen
    BY <1>1, SplitFacts
<1>3. Len(tag) \in Nat /\ i \in Int /\ j \in Int /\ 1 <= i /\ j <= Len(tag)
    BY LenProperties DEF Text
<1>4. /\ i > 1 => tag[i - 1] = Hyphen
      /\ j < Len(tag) => tag[j + 1] = Hyphen
    <2>1. /\ i > 1 => i - 1 \in 1..Len(tag)
          /\ j < Len(tag) => j + 1 \in 1..Len(tag)
        BY <1>3
    <2>2. j < Len(tag) => j < Len(low)
        BY <1>1
    <2> QED BY <1>1, <1>2, <2>1, <2>2
<1>5. Lowered(SubSeq(tag, i, j)) = word
    <2> PICK sub : sub = SubSeq(tag, i, j)
        OBVIOUS
    <2>1. /\ sub \in Text /\ Len(sub) = j - i + 1
          /\ \A k \in 1..(j - i + 1) : sub[k] = tag[i + k - 1]
        BY <1>2, Stretch
    <2>2. /\ Len(word) = j - i + 1
          /\ \A k \in 1..(j - i + 1) : word[k] = low[i + k - 1]
        BY <1>1, <1>2, Stretch
    <2> PICK lsub : lsub = Lowered(sub)
        OBVIOUS
    <2>3. /\ lsub \in Text /\ Len(lsub) = j - i + 1
          /\ \A k \in 1..Len(sub) : lsub[k] = IF sub[k] \in Words THEN Lower[sub[k]] ELSE sub[k]
        BY <2>1, LoweredFacts
    <2>4. \A k \in 1..(j - i + 1) : i + k - 1 \in 1..Len(tag)
        BY <1>3
    <2>5. ASSUME NEW k \in 1..Len(lsub) PROVE lsub[k] = word[k]
        <3> PICK m : m = i + k - 1
            OBVIOUS
        <3>1. k \in 1..(j - i + 1) /\ k \in 1..Len(sub) /\ m \in 1..Len(tag)
            BY <2>1, <2>3, <2>4
        <3>2. sub[k] = tag[m] /\ word[k] = low[m]
            BY <2>1, <2>2, <3>1
        <3>3. lsub[k] = IF tag[m] \in Words THEN Lower[tag[m]] ELSE tag[m]
            BY <2>3, <3>1, <3>2
        <3> QED BY <1>1, <3>1, <3>2, <3>3
    <2>6. lsub = word
        BY <1>2, <2>2, <2>3, <2>5, SeqEqual DEF Text
    <2> QED BY <2>6
<1>6. i = 1 /\ j = Len(tag) => tag = word
    <2> HAVE i = 1 /\ j = Len(tag)
    <2>1. word = low
        BY <1>1, <1>2, WholeText
    <2> QED BY <2>1
<1> QED BY <1>4, <1>5, <1>6 DEF Matches

\* A word of a message is a search term, and finds itself when it is split again.
LEMMA WordIsTerm ==
    ASSUME NEW text \in Text, NEW word \in ExtractTags(text)
    PROVE  word \in SearchTerms(ExtractTags(text))
<1> PICK low : low = Lowered(text)
    OBVIOUS
<1>1. /\ low \in Text /\ Len(low) = Len(text)
      /\ \A k \in 1..Len(text) : low[k] = IF text[k] \in Words THEN Lower[text[k]] ELSE text[k]
    BY LoweredFacts
<1>2. word \in Split(low, Separators) /\ Length(word) > 3 /\ ~IsStopWord(word)
    BY DEF ExtractTags
<1>3. PICK i, j \in 1..Len(low) :
          /\ i <= j /\ word = SubSeq(low, i, j) /\ word \in Text
          /\ \A k \in i..j : low[k] \notin Separators
    BY <1>1, <1>2, SplitFacts
<1>4. Len(text) \in Nat /\ i \in Int /\ j \in Int /\ 1 <= i /\ j <= Len(text)
    BY <1>1, LenProperties DEF Text
<1>5. /\ Len(word) = j - i + 1 /\ Len(word) \in Nat /\ 1 <= Len(word)
      /\ \A k \in 1..Len(word) : word[k] = low[i + k - 1] /\ i + k - 1 \in i..j /\ i + k - 1 \in 1..Len(text)
    BY <1>1, <1>3, <1>4, Stretch
<1>6. Lowered(word) = word
    <2> PICK lword : lword = Lowered(word)
        OBVIOUS
    <2>1. /\ lword \in Text /\ Len(lword) = Len(word)
          /\ \A k \in 1..Len(word) : lword[k] = IF word[k] \in Words THEN Lower[word[k]] ELSE word[k]
        BY <1>3, LoweredFacts
    <2>2. \A k \in 1..Len(text) : low[k] \in Words => Lower[low[k]] = low[k]
        BY <1>1, MemosAssumption
    <2>3. \A k \in 1..Len(word) : lword[k] = word[k]
        BY <1>5, <2>1, <2>2
    <2>4. lword = word
        BY <1>3, <2>1, <2>3, SeqEqual DEF Text
    <2> QED BY <2>4
<1>7. word \in Split(word, Separators)
    <2> PICK r : r = <<1, Len(word)>>
        OBVIOUS
    <2>1. r \in (1..Len(word)) \X (1..Len(word)) /\ r[1] = 1 /\ r[2] = Len(word)
        BY <1>5
    <2>2. \A k \in 1..Len(word) : word[k] \notin Separators
        BY <1>3, <1>5
    <2>3. r \in Runs(word, Separators)
        BY <1>5, <2>1, <2>2 DEF Runs
    <2>4. SubSeq(word, r[1], r[2]) = word
        BY <1>3, <2>1, WholeText
    <2> QED BY <2>3, <2>4 DEF Split
<1>8. word \in ExtractTags(word)
    BY <1>2, <1>6, <1>7 DEF ExtractTags
<1> QED BY <1>8 DEF SearchTerms

\* A word of the message that stands between the hyphens of a tag finds the memo.
LEMMA SearchFinds ==
    ASSUME TableInv, \A id \in DOMAIN memos : memos[id].json,
           NEW text \in Text, NEW id \in DOMAIN memos, NEW tag \in memos[id].tags,
           NEW word \in Split(Lowered(tag), {Hyphen}) \cap Split(Lowered(text), Separators),
           Length(word) > 3, ~IsStopWord(word), word = Lowered(tag) => word = tag
    PROVE  id \in GetMemosByTags(ExtractTags(text))
<1>1. tag \in Text
    BY DEF TableInv
<1>2. Matches(tag, word)
    BY <1>1, WordMatches
<1>3. word \in ExtractTags(text)
    BY DEF ExtractTags
<1>4. word \in SearchTerms(ExtractTags(text))
    BY <1>3, WordIsTerm
<1> QED BY <1>2, <1>4 DEF GetMemosByTags

\* A memo comes back by itself, unless older ones fill the prompt
\* (core/orchestrator.cpp, core/database.cpp).
THEOREM MemosComeBack == Spec => []MemoComesBack
<1>1. IInv => MemoComesBack
    <2> SUFFICES ASSUME IInv, pc = "turn", \A id \in DOMAIN memos : memos[id].json,
                        NEW id \in DOMAIN memos, NEW tag \in memos[id].tags,
                        NEW word \in Split(Lowered(tag), {Hyphen}) \cap Split(Lowered(message), Separators),
                        Length(word) > 3, ~IsStopWord(word), word = Lowered(tag) => word = tag,
                        id \notin prompt.memos
                 PROVE  Cardinality(prompt.memos) = MaxInjected /\ \A i \in prompt.memos : i < id
        BY DEF MemoComesBack
    <2> DEFINE ids == GetMemosByTags(ExtractTags(message))
    <2>1. id \in ids
        <3>1. TableInv /\ message \in Text
            BY DEF IInv, LoopInv
        <3> QED BY <3>1, SearchFinds
    <2>2. prompt.memos = FirstFew(ids, MaxInjected)
        BY DEF IInv, PromptInv, RelevantMemos
    <2>3. DOMAIN memos \subseteq 1..(nextMemo - 1) /\ nextMemo \in Nat
        BY MemosAssumption DEF IInv, TableInv, MemosTypeOK
    <2>4. ids \subseteq DOMAIN memos
        BY DEF GetMemosByTags
    <2> HIDE DEF ids
    <2>5. ids \in SUBSET Nat /\ IsFiniteSet(ids)
        <3> PICK m \in Int : m = nextMemo - 1
            BY <2>3
        <3>1. ids \in SUBSET (1..m) /\ \A i \in 1..m : i \in Nat
            BY <2>3, <2>4
        <3>2. IsFiniteSet(1..m)
            BY FS_Interval
        <3>3. IsFiniteSet(ids)
            BY <3>1, <3>2, FS_Subset
        <3> QED BY <3>1, <3>3
    <2> QED BY <2>1, <2>2, <2>5, FirstFewFacts, MemosAssumption
<1> QED BY <1>1, Invariance, PTL
-----------------------------------------------------------------------------
\* The row of the session is there when the request is sent, with the list it
\* had, and the prompt shows what the registry knows of the vector.
LEMMA AskShows ==
    ASSUME IInv, NEW text, Ask(text)
    PROVE  prompt'.skills = {n \in Range(rows'[session'].skills) : n \in DOMAIN skills}
<1>1. prompt'.skills = Known \cap Range(active)
    BY DEF Ask, SystemInstruction
<1>2. rows'[session'] = Here
    BY DEF Ask, WithRow
<1>3. active = Here.skills
    BY DEF IInv, VectorInv, Ask
<1>4. Known = DOMAIN skills
    BY DEF IInv, RegistryInv, Registered, Known
<1> QED BY <1>1, <1>2, <1>3, <1>4

\* The first request of a turn shows the skills of the session it belongs to, and
\* all the registry has of them (main.cpp, core/orchestrator.cpp).
THEOREM PromptsFitSessions == Spec => SkillsOfSession
<1> DEFINE Fits == (pc = "prompt" /\ pc' = "turn") =>
          prompt'.skills = {n \in Range(rows'[session'].skills) : n \in DOMAIN skills}
<1>1. IInv /\ [Next]_vars => [Fits]_vars
    <2> SUFFICES ASSUME IInv, Next, pc = "prompt", pc' = "turn" PROVE Fits
        BY DEF vars, ownVars
    <2>1. \E text \in Messages : Ask(text)
        BY DEF Next, Start, ReadLine, Stop, Handle, Command, StartBatch, AskAgain, EndTurn,
               Begin, Write, Skip
    <2> QED BY <2>1, AskShows
<1> QED BY <1>1, Invariance, PTL DEF Spec, SkillsOfSession
=============================================================================
