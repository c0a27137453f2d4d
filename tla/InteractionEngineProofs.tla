------------------------- MODULE InteractionEngineProofs -------------------------
(***************************************************************************)
(* Proofs about InteractionEngine, for any tools, window, number of turns  *)
(* and size of a response: its types, that every call of a turn has its    *)
(* result when the model is asked, that the service then takes the prompt  *)
(* and that the prompt ends with what the model is to answer.              *)
(*                                                                         *)
(* What a turn has called is a fold over the rows of the session.  The     *)
(* first part says what such a fold is, one row at a time; the invariant   *)
(* then follows the loop over the new rows: what the rows before `at` call *)
(* is what the results, those to be appended included, answer.             *)
(*                                                                         *)
(* The second part reads the rows as rounds of calls and answers, of the   *)
(* user and of a provider, and walks over them: after each row the         *)
(* contents of the prompt match what the rows so far leave to be answered. *)
(***************************************************************************)
EXTENDS InteractionEngine, SequenceTheorems, FiniteSetTheorems, WellFoundedInduction, TLAPS

-----------------------------------------------------------------------------
(* Folds.                                                                  *)

\* Induction on the numbers, for a set.
LEMMA NatInduct ==
    ASSUME NEW S, 0 \in S, \A n \in Nat : n \in S => n + 1 \in S
    PROVE  \A n \in Nat : n \in S
<1> SUFFICES ASSUME NEW n \in Nat, n \notin S PROVE FALSE
    OBVIOUS
<1> DEFINE T == {k \in Nat : k \notin S}
           R == OpToRel(<, Nat)
<1>1. IsWellFoundedOn(R, Nat)
    BY NatLessThanWellFounded
<1>2. T \subseteq Nat /\ T # {}
    OBVIOUS
<1>3. PICK x \in T : \A y \in T : ~(<<y, x>> \in R)
    <2> HIDE DEF R, T
    <2> QED BY <1>1, <1>2, WFMin
<1>4. \A y \in T : ~(y < x)
    <2>1. \A a, b \in Nat : a < b => <<a, b>> \in OpToRel(<, Nat)
        BY DEF OpToRel
    <2> QED BY <1>2, <1>3, <2>1
<1> HIDE DEF R
<1>5. x \in T
    BY <1>3
<1>6. x # 0 /\ x - 1 \in Nat /\ x - 1 < x /\ (x - 1) + 1 = x
    BY <1>5
<1>7. x - 1 \in S
    BY <1>4, <1>6
<1> QED BY <1>5, <1>6, <1>7

\* The largest of 1 .. k.
LEMMA MaxUpto == ASSUME NEW k \in Nat \ {0} PROVE Max(1 .. k) = k /\ (1 .. k) \ {k} = 1 .. (k - 1)
<1>1. k \in 1 .. k /\ \A y \in 1 .. k : k >= y
    OBVIOUS
<1>2. \A x \in 1 .. k : (\A y \in 1 .. k : x >= y) => x = k
    BY <1>1
<1>3. Max(1 .. k) = k
    BY <1>1, <1>2 DEF Max
<1> QED BY <1>3

\* What a fold over 1 .. n is: FoldLeft chooses one such function.
IsFold(it, n, base, H) ==
    it = [s \in SUBSET (1 .. n) |-> IF s = {} THEN base ELSE H[Max(s)][it[s \ {Max(s)}]]]

\* There is one, for any steps H.
LEMMA FoldExists ==
    ASSUME NEW n \in Nat, NEW T, NEW base \in T, NEW H \in [1 .. n -> [T -> T]]
    PROVE  \E it \in [SUBSET (1 .. n) -> T] : IsFold(it, n, base, H)
<1> DEFINE S == {k \in Nat : k > n \/ \E it \in [SUBSET (1 .. k) -> T] : IsFold(it, k, base, H)}
<1>1. 0 \in S
    <2>1. 1 .. 0 = {} /\ SUBSET (1 .. 0) = {{}}
        OBVIOUS
    <2> DEFINE it == [s \in SUBSET (1 .. 0) |-> base]
    <2>2. it \in [SUBSET (1 .. 0) -> T]
        OBVIOUS
    <2>3. IsFold(it, 0, base, H)
        BY <2>1 DEF IsFold
    <2> HIDE DEF it
    <2> QED BY <2>2, <2>3
<1>2. ASSUME NEW k \in Nat, k \in S PROVE k + 1 \in S
    <2>1. CASE k + 1 > n
        BY <2>1
    <2>2. CASE ~(k + 1 > n)
        <3>0. ~(k > n)
            BY <2>2
        <3>1. PICK it \in [SUBSET (1 .. k) -> T] : IsFold(it, k, base, H)
            BY <1>2, <3>0
        <3>2. k + 1 \in 1 .. n /\ H[k + 1] \in [T -> T]
            BY <2>2
        <3> DEFINE more == [s \in SUBSET (1 .. (k + 1)) |->
                              IF k + 1 \in s THEN H[k + 1][it[s \ {k + 1}]] ELSE it[s]]
        <3>3. \A s \in SUBSET (1 .. (k + 1)) : s \ {k + 1} \in SUBSET (1 .. k) /\ (k + 1 \notin s => s \in SUBSET (1 .. k))
            <4>1. \A x \in 1 .. (k + 1) : x # k + 1 => x \in 1 .. k
                OBVIOUS
            <4> QED BY <4>1
        <3>4. more \in [SUBSET (1 .. (k + 1)) -> T]
            BY <3>2, <3>3
        <3>5. ASSUME NEW s \in SUBSET (1 .. (k + 1)), s # {}
              PROVE  more[s] = H[Max(s)][more[s \ {Max(s)}]]
            <4>1. CASE k + 1 \in s
                <5>1. Max(s) = k + 1
                    <6>1. \A y \in s : k + 1 >= y /\ y \in Int
                        OBVIOUS
                    <6>2. \A x \in s : (\A y \in s : x >= y) => x = k + 1
                        BY <4>1, <6>1
                    <6> QED BY <4>1, <6>1, <6>2 DEF Max
                <5>2. s \ {k + 1} \in SUBSET (1 .. (k + 1)) /\ k + 1 \notin s \ {k + 1}
                    OBVIOUS
                <5>3. more[s \ {k + 1}] = it[s \ {k + 1}]
                    BY <5>2
                <5> QED BY <4>1, <5>1, <5>3
            <4>2. CASE k + 1 \notin s
                <5>1. s \in SUBSET (1 .. k)
                    BY <3>3, <4>2
                <5>2. it[s] = H[Max(s)][it[s \ {Max(s)}]]
                    BY <3>1, <3>5, <5>1 DEF IsFold
                <5>3. s \ {Max(s)} \in SUBSET (1 .. (k + 1)) /\ k + 1 \notin s \ {Max(s)}
                    BY <4>2
                <5>4. more[s \ {Max(s)}] = it[s \ {Max(s)}]
                    BY <5>3
                <5> QED BY <4>2, <5>2, <5>4
            <4> QED BY <4>1, <4>2
        <3>6. more[{}] = base
            BY <3>1 DEF IsFold
        <3>7. DOMAIN more = SUBSET (1 .. (k + 1)) /\ more = [s \in SUBSET (1 .. (k + 1)) |-> more[s]]
            OBVIOUS
        <3> HIDE DEF more
        <3>8. IsFold(more, k + 1, base, H)
            BY <3>5, <3>6, <3>7 DEF IsFold
        <3> QED BY <3>4, <3>8
    <2> QED BY <2>1, <2>2
<1> HIDE DEF S
<1>3. n \in S
    BY <1>1, <1>2, NatInduct
<1>4. ~(n > n)
    OBVIOUS
<1> QED BY <1>3, <1>4 DEF S

\* Two runs of the same steps agree.
Runs(f, n, H) == \A k \in 1 .. n : f[k] = H[k][f[k - 1]]

\* The same steps from the same start give the same.
LEMMA RunsAgree ==
    ASSUME NEW n \in Nat, NEW f, NEW g, NEW H,
           f[0] = g[0], Runs(f, n, H), Runs(g, n, H)
    PROVE  f[n] = g[n]
<1> DEFINE S == {k \in Nat : k > n \/ f[k] = g[k]}
<1>1. 0 \in S
    OBVIOUS
<1>2. ASSUME NEW k \in Nat, k \in S PROVE k + 1 \in S
    <2>1. CASE k + 1 > n
        BY <2>1
    <2>2. CASE ~(k + 1 > n)
        <3>1. k + 1 \in 1 .. n /\ (k + 1) - 1 = k /\ ~(k > n)
            BY <2>2
        <3>2. f[k] = g[k]
            BY <1>2, <3>1
        <3>3. f[k + 1] = H[k + 1][f[k]] /\ g[k + 1] = H[k + 1][g[k]]
            BY <3>1 DEF Runs
        <3> QED BY <3>2, <3>3
    <2> QED BY <2>1, <2>2
<1> HIDE DEF S
<1>3. n \in S
    BY <1>1, <1>2, NatInduct
<1> QED BY <1>3 DEF S
\* A set of numbers of 1 .. n has a largest.
LEMMA MaxOf ==
    ASSUME NEW n \in Nat, NEW u \in SUBSET (1 .. n), u # {}
    PROVE  Max(u) \in u
<1> DEFINE S == {k \in Nat : \A v \in SUBSET (1 .. k) : v # {} => \E x \in v : \A y \in v : x >= y}
<1>1. 0 \in S
    <2>1. 1 .. 0 = {}
        OBVIOUS
    <2> QED BY <2>1
<1>2. ASSUME NEW k \in Nat, k \in S PROVE k + 1 \in S
    <2> SUFFICES ASSUME NEW v \in SUBSET (1 .. (k + 1)), v # {}
                 PROVE  \E x \in v : \A y \in v : x >= y
        OBVIOUS
    <2>1. CASE k + 1 \in v
        <3>1. \A y \in v : k + 1 >= y
            OBVIOUS
        <3> QED BY <2>1, <3>1
    <2>2. CASE k + 1 \notin v
        <3>1. \A x \in 1 .. (k + 1) : x # k + 1 => x \in 1 .. k
            OBVIOUS
        <3>2. v \in SUBSET (1 .. k)
            BY <2>2, <3>1
        <3> QED BY <1>2, <3>2
    <2> QED BY <2>1, <2>2
<1> HIDE DEF S
<1>3. n \in S
    BY <1>1, <1>2, NatInduct
<1>4. \E x \in u : \A y \in u : x >= y
    BY <1>3 DEF S
<1> QED BY <1>4 DEF Max

-----------------------------------------------------------------------------
(* What the rows of a turn call, and what its results answer.              *)

Gather(s, g, kind) ==
    FoldLeft(LAMBDA a, r : IF r.group = g /\ r.kind = kind THEN a \o r.calls ELSE a, <<>>, s)

\* What the fold makes of a row.
Taken(g, kind, r, a) == IF r.group = g /\ r.kind = kind THEN a \o r.calls ELSE a
RowSteps(s, g, kind) == [k \in 1 .. Len(s) |-> [a \in Seq(Call) |-> Taken(g, kind, s[k], a)]]

IsRun(f, s, g, kind) ==
    /\ f[0] = <<>> /\ Gather(s, g, kind) = f[Len(s)]
    /\ \A k \in 0 .. Len(s) : f[k] \in Seq(Call)
    /\ \A k \in 1 .. Len(s) : f[k] = Taken(g, kind, s[k], f[k - 1])

\* A row of calls adds calls.
LEMMA TakenType ==
    ASSUME NEW g, NEW kind, NEW r \in Row, NEW a \in Seq(Call)
    PROVE  Taken(g, kind, r, a) \in Seq(Call)
<1>1. r.calls \in Seq(Call)
    BY DEF Row
<1> QED BY <1>1, ConcatProperties DEF Taken

\* The fold runs over the rows, one after the other.
LEMMA GatherRun ==
    ASSUME NEW s \in Seq(Row), NEW g, NEW kind
    PROVE  \E f : IsRun(f, s, g, kind)
<1> DEFINE n == Len(s)
           H == RowSteps(s, g, kind)
           Step(it) == [u \in SUBSET DOMAIN s |->
                          IF u = {} THEN <<>>
                          ELSE IF s[Max(u)].group = g /\ s[Max(u)].kind = kind
                               THEN it[u \ {Max(u)}] \o s[Max(u)].calls ELSE it[u \ {Max(u)}]]
           iter == CHOOSE it : it = Step(it)
<1>1. n \in Nat /\ DOMAIN s = 1 .. n /\ \A k \in 1 .. n : s[k] \in Row
    BY LenProperties
<1>2. H \in [1 .. n -> [Seq(Call) -> Seq(Call)]]
    BY <1>1, TakenType DEF RowSteps
<1>3. Gather(s, g, kind) = iter[DOMAIN s]
    BY DEF Gather, FoldLeft, MapThenFoldSet
<1> HIDE DEF H, n
<1>4. <<>> \in Seq(Call)
    BY EmptySeq
<1>5. PICK it \in [SUBSET (1 .. n) -> Seq(Call)] : IsFold(it, n, <<>>, H)
    BY <1>1, <1>2, <1>4, FoldExists
<1>6. it = Step(it)
    <2>1. ASSUME NEW u \in SUBSET (1 .. n), u # {}
          PROVE  H[Max(u)][it[u \ {Max(u)}]] = Taken(g, kind, s[Max(u)], it[u \ {Max(u)}])
        <3>1. Max(u) \in u
            BY <1>1, <2>1, MaxOf
        <3>2. u \ {Max(u)} \in SUBSET (1 .. n) /\ it[u \ {Max(u)}] \in Seq(Call)
            BY <2>1
        <3> QED BY <3>1, <3>2 DEF H, RowSteps, n
    <2> QED BY <1>1, <1>5, <2>1 DEF IsFold, Taken
<1> HIDE DEF Step
<1>7. iter = Step(iter)
    BY <1>6
<1> HIDE DEF iter
<1>8. iter = [u \in SUBSET DOMAIN s |-> IF u = {} THEN <<>> ELSE Taken(g, kind, s[Max(u)], iter[u \ {Max(u)}])]
    BY <1>7 DEF Step, Taken
<1>9. ASSUME NEW k \in 1 .. n PROVE iter[1 .. k] = Taken(g, kind, s[k], iter[1 .. (k - 1)])
    <2>1. k \in Nat \ {0} /\ 1 .. k \in SUBSET (1 .. n) /\ 1 .. k # {}
        <3>1. k \in Int /\ k >= 1 /\ k <= n /\ k \in 1 .. k
            BY <1>1
        <3>2. \A x \in 1 .. k : x \in 1 .. n
            BY <1>1, <3>1
        <3> QED BY <3>1, <3>2
    <2>2. Max(1 .. k) = k /\ (1 .. k) \ {k} = 1 .. (k - 1)
        BY <2>1, MaxUpto
    <2> QED BY <1>1, <1>8, <2>1, <2>2
<1>10. iter[{}] = <<>>
    BY <1>8
<1> DEFINE f == [k \in 0 .. n |-> iter[1 .. k]]
<1>11. f[0] = <<>> /\ \A k \in 1 .. n : f[k] = Taken(g, kind, s[k], f[k - 1])
    <2>1. 1 .. 0 = {} /\ 0 \in 0 .. n /\ \A k \in 1 .. n : k \in 0 .. n /\ k - 1 \in 0 .. n
        BY <1>1
    <2> QED BY <1>9, <1>10, <2>1
<1>12. f[n] = iter[1 .. n]
    BY <1>1
<1> HIDE DEF f
<1>13. \A k \in 0 .. n : f[k] \in Seq(Call)
    <2> DEFINE S == {k \in Nat : k > n \/ f[k] \in Seq(Call)}
    <2>1. 0 \in S
        BY <1>4, <1>11
    <2>2. ASSUME NEW k \in Nat, k \in S PROVE k + 1 \in S
        <3>1. CASE k + 1 > n
            BY <3>1
        <3>2. CASE ~(k + 1 > n)
            <4>1. ~(k > n) /\ k + 1 \in 1 .. n /\ (k + 1) - 1 = k
                BY <1>1, <3>2
            <4>2. f[k + 1] = Taken(g, kind, s[k + 1], f[k]) /\ f[k] \in Seq(Call)
                BY <1>11, <2>2, <4>1
            <4>3. f[k + 1] \in Seq(Call)
                BY <1>1, <4>1, <4>2, TakenType
            <4> QED BY <4>3
        <3> QED BY <3>1, <3>2
    <2> HIDE DEF S
    <2>3. \A k \in Nat : k \in S
        BY <2>1, <2>2, NatInduct
    <2>4. \A k \in 0 .. n : k \in Nat /\ ~(k > n)
        BY <1>1
    <2> QED BY <2>3, <2>4 DEF S
<1>14. Gather(s, g, kind) = f[n]
    BY <1>1, <1>3, <1>12
<1> HIDE DEF f
<1>15. IsRun(f, s, g, kind)
    BY <1>11, <1>13, <1>14 DEF n, IsRun
<1> QED BY <1>15

\* Nothing is gathered from no rows, and calls from any.
LEMMA GatherEmpty == ASSUME NEW g, NEW kind PROVE Gather(<<>>, g, kind) = <<>>
<1>1. <<>> \in Seq(Row) /\ Len(<<>>) = 0
    BY EmptySeq
<1>2. PICK f : IsRun(f, <<>>, g, kind)
    BY <1>1, GatherRun
<1> QED BY <1>1, <1>2 DEF IsRun

\* What is gathered are calls.
LEMMA GatherType ==
    ASSUME NEW s \in Seq(Row), NEW g, NEW kind
    PROVE  Gather(s, g, kind) \in Seq(Call)
<1>1. Len(s) \in Nat /\ Len(s) \in 0 .. Len(s)
    BY LenProperties
<1>2. PICK f : IsRun(f, s, g, kind)
    BY GatherRun
<1> QED BY <1>1, <1>2 DEF IsRun

\* One row more.
LEMMA GatherAppend ==
    ASSUME NEW s \in Seq(Row), NEW r \in Row, NEW g, NEW kind
    PROVE  Gather(Append(s, r), g, kind) = Taken(g, kind, r, Gather(s, g, kind))
<1> DEFINE n == Len(s)
           more == Append(s, r)
           H == RowSteps(more, g, kind)
<1>1. /\ n \in Nat /\ more \in Seq(Row) /\ Len(more) = n + 1
      /\ more[n + 1] = r /\ \A k \in 1 .. n : more[k] = s[k]
    BY LenProperties, AppendProperties
<1>2. PICK f : IsRun(f, s, g, kind)
    BY GatherRun
<1>3. PICK h : IsRun(h, more, g, kind)
    <2> HIDE DEF more
    <2> QED BY <1>1, GatherRun
<1>4. H = [k \in 1 .. n + 1 |-> [a \in Seq(Call) |-> Taken(g, kind, more[k], a)]]
    BY <1>1 DEF RowSteps
<1> HIDE DEF n, more, H
<1>5. \A k \in 1 .. n : /\ k \in 1 .. n + 1 /\ k - 1 \in 0 .. n /\ k - 1 \in 0 .. n + 1
    BY <1>1
<1>6. \A k \in 1 .. n : f[k] = H[k][f[k - 1]] /\ h[k] = H[k][h[k - 1]]
    BY <1>1, <1>2, <1>3, <1>4, <1>5 DEF IsRun, n
<1>7. f[n] = h[n]
    <2>1. f[0] = h[0]
        BY <1>2, <1>3 DEF IsRun
    <2>2. Runs(f, n, H) /\ Runs(h, n, H)
        BY <1>6 DEF Runs
    <2> QED BY <1>1, <2>1, <2>2, RunsAgree
<1>8. n + 1 \in 1 .. n + 1 /\ (n + 1) - 1 = n
    BY <1>1
<1>9. h[n + 1] = Taken(g, kind, r, h[n])
    BY <1>1, <1>3, <1>8 DEF IsRun
<1>10. Gather(s, g, kind) = f[n] /\ Gather(more, g, kind) = h[n + 1]
    BY <1>1, <1>2, <1>3 DEF IsRun, n
<1> QED BY <1>7, <1>9, <1>10 DEF more

\* One row alone.
LEMMA GatherOne ==
    ASSUME NEW r \in Row, NEW g, NEW kind
    PROVE  Gather(<<r>>, g, kind) = Taken(g, kind, r, <<>>)
<1>1. \A e \in Seq(Row) : Gather(Append(e, r), g, kind) = Taken(g, kind, r, Gather(e, g, kind))
    BY GatherAppend
<1>2. <<>> \in Seq(Row) /\ Append(<<>>, r) = <<r>>
    BY EmptySeq
<1> QED BY <1>1, <1>2, GatherEmpty

\* The first k of a sequence, and one more.
LEMMA FirstFacts ==
    ASSUME NEW S, NEW s \in Seq(S), NEW k \in 0 .. Len(s)
    PROVE  /\ SubSeq(s, 1, k) \in Seq(S) /\ Len(SubSeq(s, 1, k)) = k
           /\ \A i \in 1 .. k : SubSeq(s, 1, k)[i] = s[i]
           /\ k + 1 <= Len(s) =>
                 s[k + 1] \in S /\ SubSeq(s, 1, k + 1) = Append(SubSeq(s, 1, k), s[k + 1])
<1>1. Len(s) \in Nat /\ \A i \in 1 .. Len(s) : s[i] \in S
    BY LenProperties
<1>2. ASSUME NEW m \in 0 .. Len(s)
      PROVE  /\ SubSeq(s, 1, m) \in Seq(S) /\ Len(SubSeq(s, 1, m)) = m
             /\ \A i \in 1 .. m : SubSeq(s, 1, m)[i] = s[i]
    <2>1. /\ m \in Int /\ 1 \in Int /\ \A i \in 1 .. m : s[i] \in S
          /\ m - 1 + 1 = m /\ (IF 1 <= m THEN m - 1 + 1 ELSE 0) = m
        BY <1>1
    <2>2. /\ SubSeq(s, 1, m) \in Seq(S) /\ Len(SubSeq(s, 1, m)) = (IF 1 <= m THEN m - 1 + 1 ELSE 0)
          /\ \A i \in 1 .. m - 1 + 1 : SubSeq(s, 1, m)[i] = s[1 + i - 1]
        BY <2>1, SubSeqProperties
    <2>3. \A i \in 1 .. m : 1 + i - 1 = i
        BY <2>1
    <2> QED BY <2>1, <2>2, <2>3
<1>3. ASSUME k + 1 <= Len(s)
      PROVE  s[k + 1] \in S /\ SubSeq(s, 1, k + 1) = Append(SubSeq(s, 1, k), s[k + 1])
    <2>1. k + 1 \in 0 .. Len(s) /\ k + 1 \in 1 .. Len(s) /\ k \in Nat
        BY <1>1, <1>3
    <2> DEFINE a == SubSeq(s, 1, k + 1)
               b == Append(SubSeq(s, 1, k), s[k + 1])
    <2>2. a \in Seq(S) /\ Len(a) = k + 1 /\ \A i \in 1 .. k + 1 : a[i] = s[i]
        BY <1>2, <2>1
    <2>3. b \in Seq(S) /\ Len(b) = k + 1 /\ (\A i \in 1 .. k : b[i] = s[i]) /\ b[k + 1] = s[k + 1]
        <3>1. s[k + 1] \in S
            BY <1>1, <2>1
        <3>2. /\ SubSeq(s, 1, k) \in Seq(S) /\ Len(SubSeq(s, 1, k)) = k
              /\ \A i \in 1 .. k : SubSeq(s, 1, k)[i] = s[i]
            BY <1>2
        <3> QED BY <3>1, <3>2, AppendProperties
    <2> HIDE DEF a, b
    <2>4. \A i \in 1 .. k + 1 : i \in 1 .. k \/ i = k + 1
        BY <2>1
    <2>5. \A i \in 1 .. Len(a) : a[i] = b[i]
        BY <2>2, <2>3, <2>4
    <2>6. a = b
        BY <2>2, <2>3, <2>5, SeqEqual
    <2> QED BY <1>1, <2>1, <2>6 DEF a, b
<1> QED BY <1>2, <1>3

\* Gathering in parts.
LEMMA CallsAssociate ==
    ASSUME NEW a \in Seq(Call), NEW b \in Seq(Call), NEW c \in Seq(Call)
    PROVE  (a \o b) \o c = a \o (b \o c)
BY ConcatAssociative

\* What one row more adds is added at the end.
LEMMA TakenAdds ==
    ASSUME NEW a \in Seq(Call), NEW b \in Seq(Call), NEW r \in Row, NEW g, NEW kind
    PROVE  Taken(g, kind, r, a \o b) = a \o Taken(g, kind, r, b)
<1>1. (a \o b) \o r.calls = a \o (b \o r.calls)
    <2> PICK c \in Seq(Call) : c = r.calls
        BY DEF Row
    <2> QED BY CallsAssociate
<1> QED BY <1>1 DEF Taken

\* A row appended to the second of two sequences is appended to both.
LEMMA ConcatAppend ==
    ASSUME NEW s \in Seq(Row), NEW p \in Seq(Row), NEW r \in Row
    PROVE  s \o p \in Seq(Row) /\ s \o Append(p, r) = Append(s \o p, r)
<1>1. s \o p \in Seq(Row) /\ <<r>> \in Seq(Row)
    BY ConcatProperties
<1>2. Append(p, r) = p \o <<r>>
    BY AppendIsConcat
<1>3. Append(s \o p, r) = (s \o p) \o <<r>>
    BY <1>1, AppendIsConcat
<1> QED BY <1>1, <1>2, <1>3, ConcatAssociative

\* What is gathered from rows and more rows.
Splits(s, t, g, kind) == Gather(s \o t, g, kind) = Gather(s, g, kind) \o Gather(t, g, kind)

\* One row more in the second part.
LEMMA SplitStep ==
    ASSUME NEW s \in Seq(Row), NEW p \in Seq(Row), NEW r \in Row, NEW g, NEW kind,
           Splits(s, p, g, kind)
    PROVE  Splits(s, Append(p, r), g, kind)
<1> DEFINE a == Gather(s, g, kind)
           b == Gather(p, g, kind)
           whole == s \o p
<1>1. whole \in Seq(Row) /\ s \o Append(p, r) = Append(whole, r)
    BY ConcatAppend
<1>2. a \in Seq(Call) /\ b \in Seq(Call) /\ Gather(whole, g, kind) = a \o b
    BY GatherType DEF Splits
<1>3. Gather(Append(p, r), g, kind) = Taken(g, kind, r, b)
    BY GatherAppend
<1> HIDE DEF a, b, whole
<1>4. Gather(Append(whole, r), g, kind) = Taken(g, kind, r, Gather(whole, g, kind))
    BY <1>1, GatherAppend
<1>5. Taken(g, kind, r, a \o b) = a \o Taken(g, kind, r, b)
    BY <1>2, TakenAdds
<1> QED BY <1>1, <1>2, <1>3, <1>4, <1>5 DEF a, Splits

\* What is gathered from two parts.
LEMMA GatherConcat ==
    ASSUME NEW s \in Seq(Row), NEW t \in Seq(Row), NEW g, NEW kind
    PROVE  Splits(s, t, g, kind)
<1> DEFINE First(k) == SubSeq(t, 1, k)
           S == {k \in Nat : k > Len(t) \/ Splits(s, First(k), g, kind)}
<1>1. Len(t) \in Nat /\ t = First(Len(t))
    BY LenProperties, SubSeqFull
<1>2. 0 \in S
    <2>1. First(0) = <<>>
        BY SubSeqEmpty
    <2>2. s \o <<>> = s /\ Gather(s, g, kind) \o <<>> = Gather(s, g, kind)
        BY GatherType, ConcatEmptySeq
    <2> HIDE DEF First
    <2> QED BY <2>1, <2>2, GatherEmpty DEF Splits
<1>3. ASSUME NEW k \in Nat, k \in S PROVE k + 1 \in S
    <2>1. CASE k + 1 > Len(t)
        BY <2>1
    <2>2. CASE ~(k + 1 > Len(t))
        <3>1. ~(k > Len(t)) /\ k \in 0 .. Len(t) /\ k + 1 <= Len(t) /\ k + 1 \in 0 .. Len(t)
            BY <1>1, <2>2
        <3>2. /\ First(k) \in Seq(Row) /\ t[k + 1] \in Row
              /\ First(k + 1) = Append(First(k), t[k + 1])
            BY <3>1, FirstFacts
        <3>3. Splits(s, First(k), g, kind)
            BY <1>3, <3>1
        <3> HIDE DEF First
        <3>4. Splits(s, First(k + 1), g, kind)
            BY <3>2, <3>3, SplitStep
        <3> QED BY <3>4
    <2> QED BY <2>1, <2>2
<1> HIDE DEF S, First
<1>4. Len(t) \in S
    BY <1>1, <1>2, <1>3, NatInduct
<1>5. ~(Len(t) > Len(t))
    BY <1>1
<1> QED BY <1>1, <1>4, <1>5 DEF S

\* Rows of another group or kind give nothing.
LEMMA GatherNone ==
    ASSUME NEW s \in Seq(Row), NEW g, NEW kind,
           \A i \in 1 .. Len(s) : ~(s[i].group = g /\ s[i].kind = kind)
    PROVE  Gather(s, g, kind) = <<>>
<1>1. PICK f : IsRun(f, s, g, kind)
    BY GatherRun
<1> DEFINE S == {k \in Nat : k > Len(s) \/ f[k] = <<>>}
<1>2. Len(s) \in Nat
    BY LenProperties
<1>3. 0 \in S
    BY <1>1 DEF IsRun
<1>4. ASSUME NEW k \in Nat, k \in S PROVE k + 1 \in S
    <2>1. CASE k + 1 > Len(s)
        BY <2>1
    <2>2. CASE ~(k + 1 > Len(s))
        <3>1. ~(k > Len(s)) /\ k + 1 \in 1 .. Len(s) /\ (k + 1) - 1 = k
            BY <1>2, <2>2
        <3>2. f[k + 1] = Taken(g, kind, s[k + 1], f[k]) /\ f[k] = <<>>
            BY <1>1, <1>4, <3>1 DEF IsRun
        <3>3. f[k + 1] = <<>>
            BY <3>1, <3>2 DEF Taken
        <3> QED BY <3>3
    <2> QED BY <2>1, <2>2
<1> HIDE DEF S
<1>5. Len(s) \in S
    BY <1>2, <1>3, <1>4, NatInduct
<1>6. ~(Len(s) > Len(s))
    BY <1>2
<1> QED BY <1>1, <1>5, <1>6 DEF S, IsRun

\* Rows with a call at most give as many calls at most.
LEMMA GatherLen ==
    ASSUME NEW s \in Seq(Row), NEW g, NEW kind, \A i \in 1 .. Len(s) : Len(s[i].calls) <= 1
    PROVE  Len(Gather(s, g, kind)) <= Len(s)
<1>1. PICK f : IsRun(f, s, g, kind)
    BY GatherRun
<1> DEFINE S == {k \in Nat : k > Len(s) \/ Len(f[k]) <= k}
<1>2. Len(s) \in Nat
    BY LenProperties
<1>3. 0 \in S
    <2>1. f[0] = <<>> /\ Len(<<>>) = 0
        BY <1>1, EmptySeq DEF IsRun
    <2> QED BY <2>1
<1>4. ASSUME NEW k \in Nat, k \in S PROVE k + 1 \in S
    <2>1. CASE k + 1 > Len(s)
        BY <2>1
    <2>2. CASE ~(k + 1 > Len(s))
        <3>1. ~(k > Len(s)) /\ k \in 0 .. Len(s) /\ k + 1 \in 1 .. Len(s) /\ (k + 1) - 1 = k
            BY <1>2, <2>2
        <3>2. /\ f[k + 1] = Taken(g, kind, s[k + 1], f[k]) /\ f[k] \in Seq(Call)
              /\ Len(f[k]) <= k /\ s[k + 1] \in Row
            BY <1>1, <1>4, <3>1, ElementOfSeq DEF IsRun
        <3> PICK c \in Seq(Call) : c = s[k + 1].calls
            BY <3>2 DEF Row
        <3> PICK a \in Seq(Call) : a = f[k]
            BY <3>2
        <3>3. Len(a) \in Nat /\ Len(c) \in Nat /\ Len(c) <= 1 /\ Len(a) <= k /\ Len(a \o c) = Len(a) + Len(c)
            BY <3>1, <3>2, LenProperties, ConcatProperties
        <3>4. Len(a) <= k + 1 /\ Len(a \o c) <= k + 1
            <4>1. \A la, lc \in Nat : la <= k /\ lc <= 1 => la <= k + 1 /\ la + lc <= k + 1
                OBVIOUS
            <4> QED BY <3>3, <4>1
        <3>5. f[k + 1] = a \/ f[k + 1] = a \o c
            BY <3>2 DEF Taken
        <3>6. Len(f[k + 1]) <= k + 1
            BY <3>4, <3>5
        <3> QED BY <3>6
    <2> QED BY <2>1, <2>2
<1> HIDE DEF S
<1>5. Len(s) \in S
    BY <1>2, <1>3, <1>4, NatInduct
<1>6. ~(Len(s) > Len(s))
    BY <1>2
<1> QED BY <1>1, <1>5, <1>6 DEF S, IsRun

\* Rows with one call each give those calls.
LEMMA GatherEach ==
    ASSUME NEW c \in Seq(Call), NEW s \in Seq(Row), NEW g, NEW kind, Len(s) = Len(c),
           \A i \in 1 .. Len(s) : s[i].group = g /\ s[i].kind = kind /\ s[i].calls = <<c[i]>>
    PROVE  Gather(s, g, kind) = c
<1>1. PICK f : IsRun(f, s, g, kind)
    BY GatherRun
<1> DEFINE First(k) == SubSeq(c, 1, k)
           S == {k \in Nat : k > Len(s) \/ f[k] = First(k)}
<1>2. Len(s) \in Nat
    BY LenProperties
<1>3. 0 \in S
    <2>1. First(0) = <<>>
        BY SubSeqEmpty
    <2> HIDE DEF First
    <2> QED BY <1>1, <2>1 DEF IsRun
<1>4. ASSUME NEW k \in Nat, k \in S PROVE k + 1 \in S
    <2>1. CASE k + 1 > Len(s)
        BY <2>1
    <2>2. CASE ~(k + 1 > Len(s))
        <3>1. ~(k > Len(s)) /\ k \in 0 .. Len(c) /\ k + 1 \in 1 .. Len(s) /\ (k + 1) - 1 = k /\ k + 1 <= Len(c)
            BY <1>2, <2>2
        <3>2. First(k) \in Seq(Call) /\ c[k + 1] \in Call /\ First(k + 1) = Append(First(k), c[k + 1])
            BY <3>1, FirstFacts
        <3> HIDE DEF First
        <3>3. Append(First(k), c[k + 1]) = First(k) \o <<c[k + 1]>>
            BY <3>2, AppendIsConcat
        <3>4. f[k + 1] = Taken(g, kind, s[k + 1], f[k]) /\ f[k] = First(k)
            BY <1>1, <1>4, <3>1 DEF IsRun
        <3>5. f[k + 1] = First(k) \o <<c[k + 1]>>
            BY <3>1, <3>4 DEF Taken
        <3>6. f[k + 1] = First(k + 1)
            BY <3>2, <3>3, <3>5
        <3> QED BY <3>6
    <2> QED BY <2>1, <2>2
<1>5. First(Len(s)) = c
    BY SubSeqFull
<1> HIDE DEF S, First
<1>6. Len(s) \in S
    BY <1>2, <1>3, <1>4, NatInduct
<1>7. ~(Len(s) > Len(s))
    BY <1>2
<1> QED BY <1>1, <1>5, <1>6, <1>7 DEF S, IsRun
-----------------------------------------------------------------------------
(* The invariant.                                                          *)

\* The rows, with those that are to be appended before anything else.
All == rows \o writes

Balanced(s, g) == Gather(s, g, "call") = Gather(s, g, "result")

\* A turn has its group; no row is of a later one.
TurnInv ==
    /\ group <= turns /\ (group = 0 <=> pc \in {"off", "input"})
    /\ pc # "scan" => writes = <<>>
    /\ cut \subseteq 1 .. turns /\ group \notin cut
    /\ \A i \in DOMAIN rows : rows[i].group <= turns

\* The turns that are over, and the current one when the model is asked.
PastInv ==
    \A g \in 1 .. turns :
        g \notin cut /\ (g = group => pc = "post") => Balanced(rows, g)

\* In the loop over the new rows, what the group has called before `at` is what its
\* results answer; the rows from `at` to `last` are new, those behind are results; and
\* there is room for the results of what has not been called yet.
ScanInv ==
    pc = "scan" =>
        /\ at <= last + 1 /\ last <= Len(All)
        /\ \A i \in at .. last : All[i].group = group /\ All[i].kind \in {"text", "call"}
        /\ \A i \in last + 1 .. Len(All) : All[i].group = group /\ All[i].kind = "result"
        /\ \A i \in DOMAIN writes : writes[i].group = group
        /\ Gather(SubSeq(All, 1, at - 1), group, "call") = Gather(All, group, "result")
        /\ Len(All) + Len(Gather(All, group, "call")) <= MaxRows + Len(Gather(All, group, "result"))

IInv == TypeOK /\ TurnInv /\ PastInv /\ ScanInv

-----------------------------------------------------------------------------
(* The rows a response and a dispatch leave.                               *)

\* A row the program makes.
LEMMA NewRowType ==
    ASSUME TypeOK, NEW kind \in Kinds, NEW calls \in Seq(Call)
    PROVE  NewRow(kind, calls) \in Row
BY DEF TypeOK, NewRow, Row

\* A row without calls has none.
LEMMA EmptyCalls == <<>> \in Seq(Call)
BY EmptySeq

\* A response has parts, of tools or texts; an OpenAI message has calls or a text.
LEMMA PartsAre ==
    ASSUME TypeOK, NEW parts \in Responses
    PROVE  \E n \in Nat \ {0} : /\ parts \in [1 .. n -> Tools \cup {"text"}]
                                /\ provider = "openai" => parts \in [1 .. n -> Tools] \/ parts = <<"text">>
<1> DEFINE Parts(S) == UNION {[1 .. n -> S] : n \in 1 .. MaxParts}
<1>1. parts \in Parts(Tools \cup {"text"}) \/ parts \in Parts(Tools) \/ parts = <<"text">>
    BY DEF Responses
<1>2. provider = "openai" => parts \in Parts(Tools) \/ parts = <<"text">>
    BY DEF Responses
<1>3. CASE parts = <<"text">>
    <2>1. parts \in [1 .. 1 -> Tools \cup {"text"}]
        BY <1>3
    <2> QED BY <1>3, <2>1
<1>4. CASE parts \in Parts(Tools)
    <2>1. PICK n \in 1 .. MaxParts : parts \in [1 .. n -> Tools]
        BY <1>4
    <2>2. parts \in [1 .. n -> Tools \cup {"text"}] /\ n \in Nat \ {0}
        BY <2>1, BoundsAssumption
    <2> QED BY <2>1, <2>2
<1>5. CASE parts \in Parts(Tools \cup {"text"}) /\ provider # "openai"
    <2>1. PICK n \in 1 .. MaxParts : parts \in [1 .. n -> Tools \cup {"text"}]
        BY <1>5
    <2>2. n \in Nat \ {0}
        BY <2>1, BoundsAssumption
    <2> QED BY <1>5, <2>1, <2>2
<1> HIDE DEF Parts
<1> QED BY <1>1, <1>2, <1>3, <1>4, <1>5

\* The rows of a response are of the turn, and leave room for as many results.
LEMMA ResponseRows ==
    ASSUME TypeOK, NEW parts \in Responses
    PROVE  /\ RowsOf(parts) \in Seq(Row) /\ Len(parts) \in Nat
           /\ \A i \in 1 .. Len(RowsOf(parts)) :
                 /\ RowsOf(parts)[i].group = group
                 /\ RowsOf(parts)[i].kind \in {"text", "call"}
           /\ Len(RowsOf(parts)) + Len(Gather(RowsOf(parts), group, "call")) <= 2 * Len(parts)
<1>1. PICK n \in Nat \ {0} : /\ parts \in [1 .. n -> Tools \cup {"text"}]
                             /\ provider = "openai" => parts \in [1 .. n -> Tools] \/ parts = <<"text">>
    BY PartsAre
<1>2. DOMAIN parts = 1 .. n /\ Len(parts) = n /\ \A i \in 1 .. n : parts[i] \in Tools \cup {"text"}
    <2>1. parts \in Seq(Tools \cup {"text"})
        BY <1>1 DEF Seq
    <2>2. DOMAIN parts = 1 .. Len(parts) /\ Len(parts) \in Nat
        BY <2>1, LenProperties
    <2>3. DOMAIN parts = 1 .. n
        BY <1>1
    <2> QED BY <1>1, <2>2, <2>3
<1>3. CASE provider = "openai" /\ parts # <<"text">>
    <2> DEFINE calls == [i \in DOMAIN parts |-> [id |-> <<Len(rows), i>>, tool |-> parts[i]]]
               row == NewRow("call", calls)
    <2>1. calls \in Seq(Call) /\ Len(calls) = n
        <3>1. Len(rows) \in Nat
            BY LenProperties DEF TypeOK
        <3>2. calls \in [1 .. n -> Call]
            BY <1>1, <1>2, <1>3, <3>1 DEF Call
        <3> HIDE DEF calls
        <3>3. calls \in Seq(Call)
            BY <3>2 DEF Seq
        <3> QED BY <3>2, <3>3, LenProperties
    <2> HIDE DEF calls
    <2>2. row \in Row /\ row.group = group /\ row.kind = "call" /\ row.calls = calls
        BY <2>1, NewRowType DEF Kinds, NewRow
    <2>3. RowsOf(parts) = <<row>>
        BY <1>3 DEF RowsOf, calls
    <2> HIDE DEF row
    <2>4. Gather(<<row>>, group, "call") = calls
        <3>2. Gather(<<row>>, group, "call") = Taken(group, "call", row, <<>>)
            BY <2>2, GatherOne
        <3>3. <<>> \o calls = calls
            BY <2>1, ConcatEmptySeq
        <3> QED BY <2>2, <3>2, <3>3 DEF Taken
    <2>5. <<row>> \in Seq(Row) /\ Len(<<row>>) = 1 /\ \A i \in 1 .. 1 : <<row>>[i] = row
        BY <2>2
    <2>6. Len(RowsOf(parts)) + Len(Gather(RowsOf(parts), group, "call")) <= 2 * Len(parts)
        BY <1>2, <2>1, <2>3, <2>4, <2>5
    <2> QED BY <1>2, <2>2, <2>3, <2>5, <2>6
<1>4. CASE ~(provider = "openai" /\ parts # <<"text">>)
    <2> DEFINE one(i) == IF parts[i] = "text" THEN NewRow("text", <<>>)
                         ELSE NewRow("call", <<[id |-> <<0, 0>>, tool |-> parts[i]]>>)
               W == RowsOf(parts)
    <2>1. W = [i \in 1 .. n |-> one(i)]
        BY <1>2, <1>4 DEF RowsOf
    <2>2. ASSUME NEW i \in 1 .. n
          PROVE  /\ one(i) \in Row /\ one(i).group = group /\ one(i).kind \in {"text", "call"}
                 /\ Len(one(i).calls) <= 1
        <3>1. CASE parts[i] = "text"
            <4>1. NewRow("text", <<>>) \in Row
                BY EmptyCalls, NewRowType DEF Kinds
            <4>2. Len(<<>>) = 0
                OBVIOUS
            <4> QED BY <3>1, <4>1, <4>2 DEF NewRow
        <3>2. CASE parts[i] # "text"
            <4> DEFINE c == [id |-> <<0, 0>>, tool |-> parts[i]]
            <4>1. c \in Call
                BY <1>2, <3>2 DEF Call
            <4> HIDE DEF c
            <4>2. <<c>> \in Seq(Call) /\ Len(<<c>>) = 1
                BY <4>1
            <4>3. NewRow("call", <<c>>) \in Row
                BY <4>2, NewRowType DEF Kinds
            <4>4. one(i) = NewRow("call", <<c>>)
                BY <3>2 DEF c
            <4> HIDE DEF one
            <4> QED BY <4>2, <4>3, <4>4 DEF NewRow
        <3> QED BY <3>1, <3>2
    <2> HIDE DEF one
    <2>3. W \in [1 .. n -> Row]
        BY <2>1, <2>2
    <2> HIDE DEF W
    <2>4. W \in Seq(Row) /\ Len(W) = n
        <3>1. W \in Seq(Row)
            BY <2>3 DEF Seq
        <3> QED BY <2>3, <3>1, LenProperties
    <2>5. \A i \in 1 .. Len(W) : /\ W[i].group = group /\ W[i].kind \in {"text", "call"}
                                 /\ Len(W[i].calls) <= 1
        BY <2>1, <2>2, <2>4
    <2>6. Len(Gather(W, group, "call")) <= n /\ Len(Gather(W, group, "call")) \in Nat
        BY <2>4, <2>5, GatherLen, GatherType, LenProperties
    <2>7. Len(W) + Len(Gather(W, group, "call")) <= 2 * Len(parts)
        BY <1>2, <2>4, <2>6
    <2> QED BY <1>2, <2>4, <2>5, <2>7 DEF W
<1> QED BY <1>3, <1>4

\* A dispatch leaves a result for each call of the row, and no call.
LEMMA ResultRows ==
    ASSUME TypeOK, NEW r \in Row
    PROVE  /\ ResultsFor(r) \in Seq(Row) /\ Len(ResultsFor(r)) = Len(r.calls) /\ Len(r.calls) \in Nat
           /\ \A i \in 1 .. Len(ResultsFor(r)) :
                 ResultsFor(r)[i].group = group /\ ResultsFor(r)[i].kind = "result"
           /\ Gather(ResultsFor(r), group, "result") = r.calls
           /\ Gather(ResultsFor(r), group, "call") = <<>>
<1> DEFINE W == ResultsFor(r)
           n == Len(r.calls)
<1>1. r.calls \in Seq(Call) /\ n \in Nat /\ DOMAIN r.calls = 1 .. n /\ r.by \in Providers
    BY LenProperties DEF Row
<1>2. \A i \in 1 .. n : /\ r.calls[i] \in Call /\ <<r.calls[i]>> \in Seq(Call)
    BY <1>1, ElementOfSeq
<1>3. /\ W \in [1 .. n -> Row]
      /\ \A i \in 1 .. n : W[i].group = group /\ W[i].kind = "result" /\ W[i].calls = <<r.calls[i]>>
    BY <1>1, <1>2 DEF ResultsFor, Row, Kinds, TypeOK
<1> HIDE DEF W
<1>4. W \in Seq(Row) /\ Len(W) = n
    <2>1. W \in Seq(Row)
        BY <1>1, <1>3 DEF Seq
    <2> QED BY <1>1, <1>3, <2>1, LenProperties
<1>5. Gather(W, group, "result") = r.calls
    BY <1>1, <1>3, <1>4, GatherEach
<1>6. Gather(W, group, "call") = <<>>
    BY <1>3, <1>4, GatherNone
<1> QED BY <1>1, <1>3, <1>4, <1>5, <1>6 DEF W

-----------------------------------------------------------------------------
(* The steps.                                                              *)

\* A sequence is its first k and the rest.
LEMMA SplitAt ==
    ASSUME NEW S, NEW s \in Seq(S), NEW k \in 0 .. Len(s)
    PROVE  /\ SubSeq(s, k + 1, Len(s)) \in Seq(S)
           /\ Len(SubSeq(s, k + 1, Len(s))) = Len(s) - k
           /\ \A i \in 1 .. Len(s) - k : SubSeq(s, k + 1, Len(s))[i] = s[k + i]
           /\ s = SubSeq(s, 1, k) \o SubSeq(s, k + 1, Len(s))
<1> DEFINE n == Len(s)
           t == SubSeq(s, k + 1, n)
<1>1. n \in Nat /\ k \in Int /\ k <= n /\ \A i \in k + 1 .. n : s[i] \in S
    BY LenProperties
<1>2. /\ n - (k + 1) + 1 = n - k /\ (IF k + 1 <= n THEN n - k ELSE 0) = n - k
      /\ \A i \in 1 .. n - k : (k + 1) + i - 1 = k + i
    BY <1>1
<1>3. /\ t \in Seq(S) /\ Len(t) = IF k + 1 <= n THEN n - (k + 1) + 1 ELSE 0
      /\ \A i \in 1 .. n - (k + 1) + 1 : t[i] = s[(k + 1) + i - 1]
    BY <1>1, SubSeqProperties
<1>4. SubSeq(s, 1, k) \o SubSeq(s, k + 1, n) = SubSeq(s, 1, n)
    <2>1. 1 \in 1 .. n + 1 /\ k \in 1 - 1 .. n /\ n \in k .. n
        BY <1>1
    <2> QED BY <2>1, ConcatAdjacentSubSeq
<1>5. SubSeq(s, 1, n) = s
    BY SubSeqFull
<1> HIDE DEF n, t
<1> QED BY <1>2, <1>3, <1>4, <1>5 DEF n, t

\* No call is behind the last row of the loop: what is to be answered is all there is.
LEMMA NoCallsBehind ==
    ASSUME NEW s \in Seq(Row), NEW k \in 0 .. Len(s), NEW g,
           \A i \in k + 1 .. Len(s) : s[i].kind # "call"
    PROVE  Gather(s, g, "call") = Gather(SubSeq(s, 1, k), g, "call")
<1> DEFINE a == SubSeq(s, 1, k)
           b == SubSeq(s, k + 1, Len(s))
<1>1. /\ b \in Seq(Row) /\ Len(b) = Len(s) - k /\ s = a \o b
      /\ \A i \in 1 .. Len(s) - k : b[i] = s[k + i]
    BY SplitAt
<1>2. a \in Seq(Row)
    BY FirstFacts
<1>3. Len(s) \in Nat /\ \A i \in 1 .. Len(s) - k : k + i \in k + 1 .. Len(s)
    BY LenProperties
<1> HIDE DEF a, b
<1>4. Gather(b, g, "call") = <<>>
    <2>1. \A i \in 1 .. Len(b) : ~(b[i].group = g /\ b[i].kind = "call")
        BY <1>1, <1>3
    <2> QED BY <1>1, <2>1, GatherNone
<1>5. Gather(a, g, "call") \o <<>> = Gather(a, g, "call")
    BY <1>2, GatherType, ConcatEmptySeq
<1>6. Splits(a, b, g, "call")
    BY <1>1, <1>2, GatherConcat
<1> QED BY <1>1, <1>4, <1>5, <1>6 DEF Splits, a

\* The first rows hold no more calls than all of them.
LEMMA FirstHasFewer ==
    ASSUME NEW s \in Seq(Row), NEW k \in 0 .. Len(s), NEW g, NEW kind
    PROVE  /\ Len(Gather(SubSeq(s, 1, k), g, kind)) <= Len(Gather(s, g, kind))
           /\ Len(Gather(SubSeq(s, 1, k), g, kind)) \in Nat /\ Len(Gather(s, g, kind)) \in Nat
<1> DEFINE a == SubSeq(s, 1, k)
           b == SubSeq(s, k + 1, Len(s))
<1>1. b \in Seq(Row) /\ s = a \o b
    BY SplitAt
<1>2. a \in Seq(Row)
    BY FirstFacts
<1> HIDE DEF a, b
<1>3. Gather(a, g, kind) \in Seq(Call) /\ Gather(b, g, kind) \in Seq(Call)
    BY <1>1, <1>2, GatherType
<1>4. Splits(a, b, g, kind)
    BY <1>1, <1>2, GatherConcat
<1>5. /\ Len(Gather(a, g, kind)) \in Nat /\ Len(Gather(b, g, kind)) \in Nat
      /\ Len(Gather(a, g, kind) \o Gather(b, g, kind)) = Len(Gather(a, g, kind)) + Len(Gather(b, g, kind))
    BY <1>3, LenProperties, ConcatProperties
<1>6. Len(Gather(s, g, kind)) = Len(Gather(a, g, kind)) + Len(Gather(b, g, kind))
    BY <1>1, <1>4, <1>5 DEF Splits
<1>7. \A x, y \in Nat : x <= x + y /\ x + y \in Nat
    OBVIOUS
<1> QED BY <1>5, <1>6, <1>7 DEF a

\* In the loop the rows and their writes never outgrow their bound.
LEMMA RoomForAll ==
    ASSUME TypeOK, ScanInv, pc = "scan"
    PROVE  All \in Seq(Row) /\ Len(All) = Len(rows) + Len(writes) /\ Len(All) <= MaxRows /\ Len(All) \in Nat
<1>1. All \in Seq(Row) /\ Len(All) = Len(rows) + Len(writes) /\ Len(All) \in Nat
    BY ConcatProperties, LenProperties DEF TypeOK, All
<1>2. at - 1 \in 0 .. Len(All)
    BY <1>1 DEF TypeOK, ScanInv
<1> DEFINE called1 == Len(Gather(SubSeq(All, 1, at - 1), group, "call"))
           calls == Len(Gather(All, group, "call"))
<1>3. called1 <= calls /\ called1 \in Nat /\ calls \in Nat
    BY <1>1, <1>2, FirstHasFewer
<1>4. Len(All) + calls <= MaxRows + called1
    BY DEF ScanInv
<1> HIDE DEF called1, calls
<1>5. Len(All) <= MaxRows
    BY <1>1, <1>3, <1>4, BoundsAssumption
<1> QED BY <1>1, <1>5

\* A step that changes no row, and no turn but the one that is over.
LEMMA SamePast ==
    ASSUME PastInv, UNCHANGED <<rows, turns>>, cut \subseteq cut',
           \A g \in 1 .. turns :
              g \notin cut' /\ (g = group' => pc' = "post") => (g = group => pc = "post")
    PROVE  PastInv'
BY DEF PastInv, Balanced

\* The initial states.
LEMMA InitInv == Init => IInv
<1> SUFFICES ASSUME Init PROVE IInv
    OBVIOUS
<1>1. <<>> \in Seq(Row) /\ Len(<<>>) = 0
    BY EmptySeq
<1>2. TypeOK
    <2>1. 0 \in 0 .. MaxTurns /\ 0 \in 0 .. MaxRows /\ 1 \in 1 .. MaxRows + 1 /\ 0 <= MaxRows
        BY BoundsAssumption
    <2>2. rows = <<>> /\ writes = <<>> /\ Len(rows) <= MaxRows
        BY <1>1, <2>1 DEF Init
    <2> QED BY <1>1, <2>1, <2>2 DEF Init, TypeOK, Providers
<1>3. TurnInv
    BY DEF Init, TurnInv
<1>4. PastInv /\ ScanInv
    BY DEF Init, PastInv, ScanInv
<1> QED BY <1>2, <1>3, <1>4 DEF IInv

\* A step outside the loop that only moves the control.
LEMMA ControlStep ==
    ASSUME IInv, pc' \in {"off", "input"}, group' = 0, writes' = <<>>, pc # "scan" \/ pc' = "off",
           UNCHANGED <<rows, turns, mixed>>, provider' \in Providers,
           at' \in 1 .. MaxRows + 1, last' \in 0 .. MaxRows, called' \in BOOLEAN,
           cut' = cut \/ (cut' = cut \cup {group} /\ group # 0),
           group = 0 \/ pc = "post" \/ group \in cut'
    PROVE  IInv'
<1>1. TypeOK'
    <2>1. 0 \in 0 .. MaxTurns /\ \A g \in 0 .. MaxTurns : g # 0 => g \in 1 .. MaxTurns
        BY BoundsAssumption
    <2>2. cut' \subseteq 1 .. MaxTurns
        BY <2>1 DEF IInv, TypeOK
    <2>3. writes' \in Seq(Row)
        BY EmptySeq
    <2> QED BY <2>1, <2>2, <2>3 DEF IInv, TypeOK
<1>2. TurnInv'
    <2>1. turns \in Nat /\ group \in Int
        BY BoundsAssumption DEF IInv, TypeOK
    <2>2. cut' \subseteq 1 .. turns
        <3>1. group # 0 => group \in 1 .. turns
            <4>1. group <= turns /\ group \in 0 .. MaxTurns
                BY DEF IInv, TypeOK, TurnInv
            <4> QED BY <2>1, <4>1, BoundsAssumption
        <3>2. cut \subseteq 1 .. turns
            BY DEF IInv, TurnInv
        <3>3. CASE cut' = cut
            BY <3>2, <3>3
        <3>4. CASE cut' = cut \cup {group} /\ group # 0
            BY <3>1, <3>2, <3>4
        <3> QED BY <3>3, <3>4
    <2>3. 0 <= turns /\ 0 \notin 1 .. turns
        BY <2>1
    <2>4. \A i \in DOMAIN rows' : rows'[i].group <= turns'
        BY DEF IInv, TurnInv
    <2> QED BY <2>2, <2>3, <2>4 DEF TurnInv
<1>3. PastInv'
    BY SamePast DEF IInv
<1>4. ScanInv'
    BY DEF ScanInv
<1> QED BY <1>1, <1>2, <1>3, <1>4 DEF IInv

\* A stop in the middle of a turn cuts it.
LEMMA StopStep == ASSUME IInv, Stop PROVE IInv'
<1>1. 1 \in 1 .. MaxRows + 1 /\ 0 \in 0 .. MaxRows
    BY BoundsAssumption
<1>2. /\ cut' = cut \/ (cut' = cut \cup {group} /\ group # 0)
      /\ group = 0 \/ group \in cut'
    BY DEF Stop
<1>3. /\ pc' = "off" /\ group' = 0 /\ writes' = <<>> /\ UNCHANGED <<rows, turns, mixed>>
      /\ provider' \in Providers /\ at' = 1 /\ last' = 0 /\ called' = FALSE
    BY DEF Stop, IInv, TypeOK
<1> QED BY <1>1, <1>2, <1>3, ControlStep

\* The program starts at the prompt.
LEMMA StartStep == ASSUME IInv, NEW p \in Providers, Start(p) PROVE IInv'
<1>1. /\ pc = "off" /\ pc' = "input" /\ group' = 0 /\ group = 0 /\ writes' = <<>>
      /\ UNCHANGED <<rows, turns, mixed, cut>>
      /\ provider' \in Providers /\ at' \in 1 .. MaxRows + 1 /\ last' \in 0 .. MaxRows /\ called' \in BOOLEAN
    BY DEF Start, seen, IInv, TypeOK, TurnInv
<1> QED BY <1>1, ControlStep

\* The turn is over, answered or given up.
LEMMA EndStep ==
    ASSUME IInv, pc \in {"post", "scan"}, pc = "scan" => Balanced(rows, group) /\ writes = <<>>,
           EndTurn, UNCHANGED <<rows, writes, provider, at, last, called, seen>>
    PROVE  IInv'
<1>1. TypeOK'
    <2>1. 0 \in 0 .. MaxTurns
        BY BoundsAssumption
    <2> QED BY <2>1 DEF IInv, TypeOK, EndTurn, seen
<1>2. TurnInv'
    <2>1. turns \in Nat /\ \A g \in cut : g \in 1 .. turns
        BY BoundsAssumption DEF IInv, TypeOK, TurnInv
    <2>2. 0 <= turns /\ 0 \notin cut
        BY <2>1
    <2> QED BY <2>2 DEF IInv, TurnInv, EndTurn, seen
<1>3. PastInv'
    <2> SUFFICES ASSUME NEW g \in 1 .. turns, g \notin cut PROVE Balanced(rows, g)
        BY DEF PastInv, EndTurn, seen, Balanced
    <2>1. CASE g = group /\ pc = "scan"
        BY <2>1
    <2>2. CASE g # group \/ pc = "post"
        BY <2>2 DEF IInv, PastInv
    <2> QED BY <2>1, <2>2
<1>4. ScanInv'
    BY DEF ScanInv, EndTurn
<1> QED BY <1>1, <1>2, <1>3, <1>4 DEF IInv

\* A failure that is not repaired ends the turn.
LEMMA ErrorStep ==
    ASSUME IInv, pc = "post", NEW status, HandleError(status), status # kInvalidArgument
    PROVE  IInv'
BY EndStep DEF HandleError

\* No code of a response becomes kInvalidArgument.
LEMMA Codes ==
    /\ StatusOf(400) # kInvalidArgument
    /\ \A s \in {StatusOf(401), StatusOf(503), kCancelled, kInternal} : s # kInvalidArgument
<1>1. 400 \notin 0 .. 16 /\ 401 \notin 0 .. 16 /\ 503 \notin 0 .. 16
    OBVIOUS
<1> QED BY <1>1 DEF StatusOf, kInvalidArgument, kUnknown, kCancelled, kInternal

\* A request that gives no response.
LEMMA PostStep == ASSUME IInv, BadResponse \/ Reject \/ Fail PROVE IInv'
<1>1. CASE BadResponse
    BY <1>1, EndStep DEF BadResponse
<1>2. CASE Reject
    BY <1>2, ErrorStep, Codes DEF Reject
<1>3. CASE Fail
    BY <1>3, ErrorStep, Codes DEF Fail
<1> QED BY <1>1, <1>2, <1>3

\* The user's row is the first of a turn no row is of.
LEMMA AskStep == ASSUME IInv, Ask PROVE IInv'
<1> DEFINE r == [NewRow("user", <<>>) EXCEPT !.group = turns + 1]
<1>1. /\ turns \in Nat /\ turns + 1 \in 1 .. MaxTurns /\ Len(rows) \in Nat /\ rows \in Seq(Row)
      /\ turns' = turns + 1 /\ group' = turns + 1 /\ rows' = Append(rows, r) /\ pc' = "post"
    BY BoundsAssumption, LenProperties DEF IInv, TypeOK, Ask
<1>2. r \in Row /\ r.group = turns + 1 /\ r.kind = "user"
    <2>1. NewRow("user", <<>>) \in Row
        BY EmptyCalls, NewRowType DEF IInv, Kinds
    <2>2. r = [group |-> turns + 1, kind |-> "user", by |-> provider, calls |-> <<>>]
        BY DEF NewRow
    <2>3. turns + 1 \in 0 .. MaxTurns /\ provider \in Providers
        BY <1>1, BoundsAssumption DEF IInv, TypeOK
    <2> HIDE DEF r
    <2> QED BY <2>2, <2>3, EmptyCalls DEF Row, Kinds
<1> HIDE DEF r
<1>3. /\ rows' \in Seq(Row) /\ Len(rows') = Len(rows) + 1 /\ rows'[Len(rows) + 1] = r
      /\ \A i \in 1 .. Len(rows) : rows'[i] = rows[i]
      /\ DOMAIN rows = 1 .. Len(rows) /\ DOMAIN rows' = 1 .. Len(rows) + 1
    BY <1>1, <1>2, AppendProperties, LenProperties
<1>4. TypeOK'
    <2>1. Len(rows) + 1 <= MaxRows
        BY <1>1, BoundsAssumption DEF Ask
    <2>2. /\ UNCHANGED <<writes, provider, at, last, called, cut, mixed>>
          /\ turns' \in 0 .. MaxTurns /\ group' \in 0 .. MaxTurns
        BY <1>1 DEF Ask
    <2> QED BY <1>1, <1>3, <2>1, <2>2 DEF IInv, TypeOK
<1>5. TurnInv'
    <2>1. \A i \in DOMAIN rows' : rows'[i].group <= turns + 1
        <3>1. \A i \in 1 .. Len(rows) : rows[i].group <= turns /\ rows[i].group \in Int
            <4>1. \A i \in 1 .. Len(rows) : rows[i] \in Row
                BY <1>1, ElementOfSeq
            <4>2. \A x \in Row : x.group \in Int
                BY BoundsAssumption DEF Row
            <4> QED BY <1>3, <4>1, <4>2 DEF IInv, TurnInv
        <3>2. \A i \in 1 .. Len(rows) + 1 : i \in 1 .. Len(rows) \/ i = Len(rows) + 1
            BY <1>1
        <3>3. \A g \in Int : g <= turns => g <= turns + 1
            BY <1>1
        <3> QED BY <1>1, <1>2, <1>3, <3>1, <3>2, <3>3
    <2>2. turns + 1 # 0 /\ turns + 1 <= turns + 1 /\ turns + 1 \notin 1 .. turns /\ 1 .. turns \subseteq 1 .. turns + 1
        BY <1>1
    <2>3. cut' = cut /\ writes' = writes /\ cut \subseteq 1 .. turns /\ writes = <<>>
        BY DEF Ask, IInv, TurnInv
    <2> QED BY <1>1, <2>1, <2>2, <2>3 DEF TurnInv
<1>6. PastInv'
    <2> SUFFICES ASSUME NEW g \in 1 .. turns + 1, g \notin cut PROVE Balanced(rows', g)
        BY <1>1 DEF PastInv, Ask, Balanced
    <2>1. \A kind \in {"call", "result"} : Gather(rows', g, kind) = Gather(rows, g, kind)
        <3>1. \A kind : Gather(Append(rows, r), g, kind) = Taken(g, kind, r, Gather(rows, g, kind))
            BY <1>1, <1>2, GatherAppend
        <3> QED BY <1>1, <1>2, <3>1 DEF Taken
    <2>2. CASE g = turns + 1
        <3>1. \A i \in 1 .. Len(rows) : rows[i].group # g
            BY <1>1, <1>3, <2>2 DEF IInv, TurnInv
        <3>2. \A kind : Gather(rows, g, kind) = <<>>
            BY <1>1, <3>1, GatherNone
        <3> QED BY <2>1, <3>2 DEF Balanced
    <2>3. CASE g \in 1 .. turns
        <3>1. group = 0 /\ g # 0
            BY <2>3 DEF Ask, IInv, TurnInv
        <3>2. Balanced(rows, g)
            BY <2>3, <3>1 DEF IInv, PastInv
        <3> QED BY <2>1, <3>2 DEF Balanced
    <2>4. g = turns + 1 \/ g \in 1 .. turns
        BY <1>1
    <2> QED BY <2>2, <2>3, <2>4
<1>7. ScanInv'
    BY <1>1 DEF ScanInv
<1> QED BY <1>4, <1>5, <1>6, <1>7 DEF IInv

\* The rows of a response: before them the turn is balanced.
LEMMA ResponseStep == ASSUME IInv, NEW parts \in Responses, AcceptResponse(parts) PROVE IInv'
<1> DEFINE W == RowsOf(parts)
           n == Len(rows)
<1>1. /\ W \in Seq(Row) /\ Len(parts) \in Nat /\ Len(W) \in Nat
      /\ \A i \in 1 .. Len(W) : W[i].group = group /\ W[i].kind \in {"text", "call"}
      /\ Len(W) + Len(Gather(W, group, "call")) <= 2 * Len(parts)
      /\ DOMAIN W = 1 .. Len(W)
    BY ResponseRows, LenProperties DEF IInv
<1>2. /\ pc = "post" /\ n + 2 * Len(parts) <= MaxRows
      /\ pc' = "scan" /\ writes' = W /\ at' = n + 1 /\ last' = n + Len(W) /\ called' = FALSE
      /\ UNCHANGED <<rows, provider, group, turns, cut>>
      /\ mixed' = mixed \/ mixed' = mixed \cup {group}
    BY DEF AcceptResponse, FirstNew
<1> HIDE DEF W
<1>3. /\ rows \in Seq(Row) /\ n \in Nat /\ group \in 1 .. turns /\ turns \in 0 .. MaxTurns
      /\ group \notin cut
    <2>1. group <= turns /\ group # 0 /\ group \notin cut /\ group \in 0 .. MaxTurns /\ turns \in 0 .. MaxTurns
        BY <1>2 DEF IInv, TypeOK, TurnInv
    <2> QED BY <2>1, BoundsAssumption, LenProperties DEF IInv, TypeOK
<1>4. /\ Gather(W, group, "call") \in Seq(Call) /\ Len(Gather(W, group, "call")) \in Nat
      /\ Gather(W, group, "result") = <<>>
    <2>1. \A i \in 1 .. Len(W) : ~(W[i].group = group /\ W[i].kind = "result")
        BY <1>1
    <2> QED BY <1>1, <2>1, GatherNone, GatherType, LenProperties
<1>5. Balanced(rows, group)
    BY <1>2, <1>3 DEF IInv, PastInv
<1>6. TypeOK'
    <2>1. at' \in 1 .. MaxRows + 1 /\ last' \in 0 .. MaxRows
        <3> PICK c \in Nat : c = Len(Gather(W, group, "call"))
            BY <1>4
        <3>1. n + Len(W) <= MaxRows /\ n <= MaxRows
            BY <1>1, <1>2, <1>3, BoundsAssumption
        <3> QED BY <1>1, <1>2, <1>3, <3>1, BoundsAssumption
    <2>2. mixed' \subseteq 1 .. MaxTurns
        <3>1. group \in 1 .. MaxTurns
            BY <1>3, BoundsAssumption
        <3> QED BY <1>2, <3>1 DEF IInv, TypeOK
    <2>3. writes' \in Seq(Row) /\ called' \in BOOLEAN /\ pc' \in {"off", "input", "post", "scan"}
        BY <1>1, <1>2
    <2> QED BY <1>2, <2>1, <2>2, <2>3 DEF IInv, TypeOK
<1>7. TurnInv'
    BY <1>2 DEF IInv, TurnInv
<1>8. PastInv'
    BY <1>2, SamePast DEF IInv
<1>9. ScanInv'
    <2> DEFINE all == rows \o W
    <2>1. All' = all
        BY <1>2 DEF All
    <2>2. /\ all \in Seq(Row) /\ Len(all) = n + Len(W)
          /\ \A i \in 1 .. n + Len(W) : all[i] = IF i <= n THEN rows[i] ELSE W[i - n]
        BY <1>1, <1>3, ConcatProperties
    <2>3. SubSeq(all, 1, n) = rows
        <3>1. /\ SubSeq(all, 1, n) \in Seq(Row) /\ Len(SubSeq(all, 1, n)) = n
              /\ \A i \in 1 .. n : SubSeq(all, 1, n)[i] = all[i]
            <4>1. n \in 0 .. Len(all)
                BY <1>1, <1>3, <2>2
            <4> HIDE DEF all
            <4> QED BY <2>2, <4>1, FirstFacts
        <3>2. \A i \in 1 .. n : i \in 1 .. n + Len(W) /\ i <= n
            BY <1>1, <1>3
        <3>3. \A i \in 1 .. n : SubSeq(all, 1, n)[i] = rows[i]
            BY <2>2, <3>1, <3>2
        <3> HIDE DEF all
        <3> QED BY <1>3, <3>1, <3>3, SeqEqual
    <2>4. /\ Gather(all, group, "result") = Gather(rows, group, "result")
          /\ Gather(all, group, "call") = Gather(rows, group, "call") \o Gather(W, group, "call")
        <3>1. Splits(rows, W, group, "call") /\ Splits(rows, W, group, "result")
            BY <1>1, <1>3, GatherConcat
        <3>2. Gather(rows, group, "result") \o <<>> = Gather(rows, group, "result")
            BY <1>3, GatherType, ConcatEmptySeq
        <3> QED BY <1>4, <3>1, <3>2 DEF Splits
    <2> HIDE DEF all
    <2>5. \A i \in n + 1 .. n + Len(W) : all[i].group = group /\ all[i].kind \in {"text", "call"}
        <3>1. \A i \in n + 1 .. n + Len(W) : i \in 1 .. n + Len(W) /\ ~(i <= n) /\ i - n \in 1 .. Len(W)
            BY <1>1, <1>3
        <3> QED BY <1>1, <2>2, <3>1
    <2>6. Len(all) + Len(Gather(all, group, "call")) <= MaxRows + Len(Gather(all, group, "result"))
        <3>1. Gather(rows, group, "call") \in Seq(Call)
            BY <1>3, GatherType
        <3>2. /\ Len(Gather(all, group, "call")) = Len(Gather(rows, group, "call")) + Len(Gather(W, group, "call"))
              /\ Len(Gather(rows, group, "call")) \in Nat
            BY <1>4, <2>4, <3>1, ConcatProperties, LenProperties
        <3>3. Len(Gather(all, group, "result")) = Len(Gather(rows, group, "call"))
            BY <1>5, <2>4 DEF Balanced
        <3> PICK a \in Nat, b \in Nat, w \in Nat, p \in Nat :
                  /\ a = Len(Gather(rows, group, "call")) /\ b = Len(Gather(W, group, "call"))
                  /\ w = Len(W) /\ p = Len(parts)
            BY <1>1, <1>4, <3>2
        <3>4. (n + w) + (a + b) <= MaxRows + a
            BY <1>1, <1>2, <1>3, BoundsAssumption
        <3> QED BY <2>2, <3>2, <3>3, <3>4
    <2>7. at' <= last' + 1 /\ last' <= Len(all) /\ at' - 1 = n
        BY <1>1, <1>2, <1>3, <2>2
    <2>8. \A i \in last' + 1 .. Len(all) : FALSE
        BY <1>1, <1>2, <1>3, <2>2
    <2>9. Gather(SubSeq(all, 1, at' - 1), group, "call") = Gather(all, group, "result")
        BY <1>5, <2>3, <2>4, <2>7 DEF Balanced
    <2>10. \A i \in DOMAIN writes' : writes'[i].group = group'
        BY <1>1, <1>2
    <2> QED BY <1>2, <2>1, <2>5, <2>6, <2>7, <2>8, <2>9, <2>10 DEF ScanInv
<1> QED BY <1>6, <1>7, <1>8, <1>9 DEF IInv

\* A sequence is its head and its tail.
LEMMA HeadAndTail ==
    ASSUME NEW S, NEW s \in Seq(S), s # <<>>
    PROVE  /\ Head(s) \in S /\ Tail(s) \in Seq(S) /\ Head(s) = s[1] /\ s = <<Head(s)>> \o Tail(s)
           /\ Len(s) \in Nat \ {0} /\ Len(Tail(s)) = Len(s) - 1
           /\ \A i \in 1 .. Len(s) - 1 : Tail(s)[i] = s[i + 1]
<1>1. Len(s) \in Nat \ {0}
    BY LenProperties, EmptySeq
<1>2. 1 \in 1 .. Len(s) /\ Len(s) \in 1 .. Len(s) /\ 1 + 1 = 2
    BY <1>1
<1>3. SubSeq(s, 1, Len(s)) = <<s[1]>> \o SubSeq(s, 1 + 1, Len(s))
    BY <1>2, SubSeqRecursiveFirst
<1>4. SubSeq(s, 1, Len(s)) = s /\ Tail(s) = SubSeq(s, 2, Len(s))
    BY SubSeqFull, TailIsSubSeq
<1>5. Head(s) \in S /\ Tail(s) \in Seq(S) /\ Len(Tail(s)) = Len(s) - 1
      /\ \A i \in 1 .. Len(Tail(s)) : Tail(s)[i] = s[i + 1]
    BY HeadTailProperties
<1>6. Head(s) = s[1]
    BY DEF Head
<1> QED BY <1>1, <1>2, <1>3, <1>4, <1>5, <1>6

\* The rows with those that wait stay what they are when one is stored.
LEMMA AllStays ==
    ASSUME rows \in Seq(Row), writes \in Seq(Row), AppendMessage
    PROVE  All' = All
<1> DEFINE r == Head(writes)
           t == Tail(writes)
<1>1. /\ r \in Row /\ t \in Seq(Row) /\ writes = <<r>> \o t
      /\ rows' = Append(rows, r) /\ writes' = t
    BY HeadAndTail DEF AppendMessage
<1>2. <<r>> \in Seq(Row)
    BY <1>1
<1>3. Append(rows, r) = rows \o <<r>>
    BY <1>1, AppendIsConcat
<1> HIDE DEF r, t
<1>4. (rows \o <<r>>) \o t = rows \o (<<r>> \o t)
    BY <1>1, <1>2, ConcatAssociative
<1> QED BY <1>1, <1>3, <1>4 DEF All

\* A row of the turn is stored: the rows with their writes stay what they are.
LEMMA AppendStep == ASSUME IInv, AppendMessage PROVE IInv'
<1> DEFINE r == Head(writes)
           n == Len(rows)
<1>1. /\ pc = "scan" /\ writes # <<>> /\ rows' = Append(rows, r) /\ writes' = Tail(writes)
      /\ UNCHANGED <<pc, provider, group, at, last, called, turns, cut, mixed>>
    BY DEF AppendMessage, IInv, TurnInv, engine, seen
<1>2. /\ rows \in Seq(Row) /\ writes \in Seq(Row) /\ n \in Nat /\ Len(writes) \in Nat /\ DOMAIN writes = 1 .. Len(writes)
      /\ 1 \in DOMAIN writes
    <2>1. Len(writes) # 0
        BY <1>1, EmptySeq DEF IInv, TypeOK
    <2> QED BY <2>1, LenProperties DEF IInv, TypeOK
<1>3. /\ r \in Row /\ r = writes[1] /\ Tail(writes) \in Seq(Row) /\ Len(Tail(writes)) = Len(writes) - 1
      /\ \A i \in 1 .. Len(writes) - 1 : Tail(writes)[i] = writes[i + 1]
    BY <1>1, <1>2, HeadTailProperties
<1>4. r.group = group
    BY <1>1, <1>2, <1>3 DEF IInv, ScanInv
<1> HIDE DEF r
<1>5. /\ rows' \in Seq(Row) /\ Len(rows') = n + 1 /\ rows'[n + 1] = r
      /\ \A i \in 1 .. n : rows'[i] = rows[i]
      /\ DOMAIN rows = 1 .. n /\ DOMAIN rows' = 1 .. n + 1
    BY <1>1, <1>2, <1>3, AppendProperties, LenProperties
<1>6. All' = All
    BY AllStays DEF IInv, TypeOK
<1>7. TypeOK'
    <2>1. n + 1 <= MaxRows
        <3>1. Len(All) = n + Len(writes) /\ Len(All) <= MaxRows
            BY <1>1, RoomForAll DEF IInv
        <3>2. Len(writes) >= 1
            BY <1>2
        <3> QED BY <1>2, <3>1, <3>2, BoundsAssumption
    <2> QED BY <1>1, <1>3, <1>5, <2>1 DEF IInv, TypeOK
<1>8. TurnInv'
    <2>1. \A i \in DOMAIN rows' : rows'[i].group <= turns
        <3>1. \A i \in 1 .. n + 1 : i \in 1 .. n \/ i = n + 1
            BY <1>2
        <3>2. group <= turns /\ \A i \in 1 .. n : rows[i].group <= turns
            BY <1>5 DEF IInv, TurnInv
        <3> QED BY <1>4, <1>5, <3>1, <3>2
    <2> QED BY <1>1, <2>1 DEF IInv, TurnInv
<1>9. PastInv'
    <2> SUFFICES ASSUME NEW g \in 1 .. turns, g \notin cut, g # group PROVE Balanced(rows', g)
        BY <1>1 DEF PastInv, Balanced
    <2>1. \A kind : Gather(Append(rows, r), g, kind) = Taken(g, kind, r, Gather(rows, g, kind))
        BY <1>2, <1>3, GatherAppend
    <2>2. \A kind : Gather(rows', g, kind) = Gather(rows, g, kind)
        BY <1>1, <1>4, <2>1 DEF Taken
    <2>3. Balanced(rows, g)
        BY DEF IInv, PastInv
    <2> QED BY <2>2, <2>3 DEF Balanced
<1>10. ScanInv'
    <2>1. \A i \in DOMAIN writes' : writes'[i].group = group
        <3>1. DOMAIN writes' = 1 .. Len(writes) - 1
            BY <1>1, <1>2, <1>3, LenProperties
        <3>2. \A i \in 1 .. Len(writes) - 1 : writes'[i] = writes[i + 1] /\ i + 1 \in DOMAIN writes
            BY <1>1, <1>2, <1>3
        <3> QED BY <1>1, <3>1, <3>2 DEF IInv, ScanInv
    <2> QED BY <1>1, <1>6, <2>1 DEF IInv, ScanInv
<1> QED BY <1>7, <1>8, <1>9, <1>10 DEF IInv

\* In the loop nothing but the rows of the turn is at hand.
LEMMA ScanFacts ==
    ASSUME IInv, Scanning
    PROVE  /\ pc = "scan" /\ writes = <<>> /\ All = rows /\ rows \in Seq(Row) /\ Len(rows) \in Nat
           /\ DOMAIN rows = 1 .. Len(rows) /\ at \in Nat \ {0} /\ last \in Nat
           /\ Len(rows) <= MaxRows /\ MaxRows \in Nat
           /\ group \in 0 .. MaxTurns /\ group # 0
           /\ at <= last + 1 /\ last <= Len(rows)
           /\ \A i \in at .. last : rows[i].group = group /\ rows[i].kind \in {"text", "call"}
           /\ \A i \in last + 1 .. Len(rows) : rows[i].group = group /\ rows[i].kind = "result"
           /\ Gather(SubSeq(rows, 1, at - 1), group, "call") = Gather(rows, group, "result")
           /\ Len(rows) + Len(Gather(rows, group, "call")) <= MaxRows + Len(Gather(rows, group, "result"))
<1>1. pc = "scan" /\ writes = <<>>
    BY DEF Scanning
<1>2. rows \in Seq(Row) /\ Len(rows) \in Nat /\ DOMAIN rows = 1 .. Len(rows)
    BY LenProperties DEF IInv, TypeOK
<1>3. All = rows
    BY <1>1, <1>2, ConcatEmptySeq DEF All
<1>4. at \in Nat \ {0} /\ last \in Nat /\ Len(rows) <= MaxRows /\ MaxRows \in Nat /\ group \in 0 .. MaxTurns /\ group # 0
    BY <1>1, BoundsAssumption DEF IInv, TypeOK, TurnInv
<1> QED BY <1>1, <1>2, <1>3, <1>4 DEF IInv, ScanInv

\* What has been called up to a row, and that row.
LEMMA OneMore ==
    ASSUME IInv, Scanning, at <= last
    PROVE  /\ rows[at] \in Row /\ rows[at].group = group
           /\ Gather(SubSeq(rows, 1, at), group, "call")
              = Taken(group, "call", rows[at], Gather(rows, group, "result"))
<1>1. at - 1 \in 0 .. Len(rows) /\ (at - 1) + 1 = at /\ at <= Len(rows) /\ at \in 1 .. Len(rows) /\ at \in at .. last
    BY ScanFacts
<1>2. /\ SubSeq(rows, 1, at - 1) \in Seq(Row) /\ rows[at] \in Row
      /\ SubSeq(rows, 1, at) = Append(SubSeq(rows, 1, at - 1), rows[at])
    BY <1>1, ScanFacts, FirstFacts
<1>3. Gather(SubSeq(rows, 1, at), group, "call")
      = Taken(group, "call", rows[at], Gather(SubSeq(rows, 1, at - 1), group, "call"))
    <2> DEFINE a == SubSeq(rows, 1, at - 1)
               r == rows[at]
    <2> HIDE DEF a, r
    <2>1. a \in Seq(Row) /\ r \in Row /\ SubSeq(rows, 1, at) = Append(a, r)
        BY <1>2 DEF a, r
    <2>2. Gather(Append(a, r), group, "call") = Taken(group, "call", r, Gather(a, group, "call"))
        BY <2>1, GatherAppend
    <2> QED BY <2>1, <2>2 DEF a, r
<1>4. Gather(SubSeq(rows, 1, at - 1), group, "call") = Gather(rows, group, "result")
    BY ScanFacts
<1>5. rows[at].group = group
    BY <1>1, ScanFacts
<1> QED BY <1>2, <1>3, <1>4, <1>5

\* A call row is answered: its results are to be stored.
LEMMA DispatchStep == ASSUME IInv, Dispatch PROVE IInv'
<1> DEFINE r == rows[at]
           W == ResultsFor(r)
           n == Len(rows)
<1>1. /\ Scanning /\ at <= last /\ r.kind = "call" /\ writes' = W /\ at' = at + 1 /\ called' = TRUE
      /\ UNCHANGED <<rows, pc, provider, group, last, turns, cut, mixed>>
    BY DEF Dispatch, seen
<1>2. /\ r \in Row /\ r.group = group
      /\ Gather(SubSeq(rows, 1, at), group, "call") = Taken(group, "call", r, Gather(rows, group, "result"))
    BY <1>1, OneMore
<1>3. /\ W \in Seq(Row) /\ Len(W) = Len(r.calls) /\ Len(r.calls) \in Nat
      /\ \A i \in 1 .. Len(W) : W[i].group = group /\ W[i].kind = "result"
      /\ Gather(W, group, "result") = r.calls /\ Gather(W, group, "call") = <<>>
      /\ DOMAIN W = 1 .. Len(W)
    BY <1>2, ResultRows, LenProperties DEF IInv
<1> HIDE DEF W, r
<1>4. n \in Nat /\ rows \in Seq(Row) /\ at \in Nat \ {0} /\ last \in Nat /\ last <= n /\ n <= MaxRows /\ MaxRows \in Nat
      /\ at \in 1 .. n
    BY <1>1, ScanFacts
<1>5. TypeOK'
    <2>1. at' \in 1 .. MaxRows + 1
        BY <1>1, <1>4
    <2> QED BY <1>1, <1>3, <2>1 DEF IInv, TypeOK
<1>6. TurnInv'
    BY <1>1, ScanFacts DEF IInv, TurnInv
<1>7. PastInv'
    BY <1>1, SamePast, ScanFacts DEF IInv
<1>8. ScanInv'
    <2> DEFINE all == rows \o W
               ask == Gather(rows, group, "call")
               got == Gather(rows, group, "result")
    <2>1. All' = all
        BY <1>1 DEF All
    <2>2. /\ all \in Seq(Row) /\ Len(all) = n + Len(W)
          /\ \A i \in 1 .. n + Len(W) : all[i] = IF i <= n THEN rows[i] ELSE W[i - n]
        BY <1>3, <1>4, ConcatProperties
    <2>3. SubSeq(all, 1, at) = SubSeq(rows, 1, at)
        <3>1. 1 \in 1 .. Len(rows) /\ at \in 1 .. Len(rows)
            BY <1>4
        <3> QED BY <1>3, <1>4, <3>1, SubSeqOfConcat1
    <2>4. /\ Gather(all, group, "result") = got \o r.calls
          /\ Gather(all, group, "call") = ask
        <3>1. Splits(rows, W, group, "call") /\ Splits(rows, W, group, "result")
            BY <1>3, <1>4, GatherConcat
        <3>2. ask \o <<>> = ask
            BY <1>4, GatherType, ConcatEmptySeq
        <3> QED BY <1>3, <3>1, <3>2 DEF Splits
    <2> HIDE DEF all
    <2>5. \A i \in at + 1 .. last : all[i].group = group /\ all[i].kind \in {"text", "call"}
        <3>1. \A i \in at + 1 .. last : i \in 1 .. n + Len(W) /\ i <= n /\ i \in at .. last
            BY <1>3, <1>4
        <3>2. \A i \in at .. last : rows[i].group = group /\ rows[i].kind \in {"text", "call"}
            BY <1>1, ScanFacts
        <3> QED BY <2>2, <3>1, <3>2
    <2>6. \A i \in last + 1 .. n + Len(W) : all[i].group = group /\ all[i].kind = "result"
        <3> TAKE i \in last + 1 .. n + Len(W)
        <3>1. CASE i <= n
            <4>1. i \in 1 .. n + Len(W) /\ i \in last + 1 .. n
                BY <1>3, <1>4, <3>1
            <4>2. \A j \in last + 1 .. n : rows[j].group = group /\ rows[j].kind = "result"
                BY <1>1, ScanFacts
            <4> QED BY <2>2, <3>1, <4>1, <4>2
        <3>2. CASE ~(i <= n)
            <4>1. i \in 1 .. n + Len(W) /\ i - n \in 1 .. Len(W)
                BY <1>3, <1>4, <3>2
            <4> QED BY <1>3, <2>2, <3>2, <4>1
        <3> QED BY <3>1, <3>2
    <2>7. Len(all) + Len(Gather(all, group, "call")) <= MaxRows + Len(Gather(all, group, "result"))
        <3>1. got \in Seq(Call) /\ ask \in Seq(Call) /\ r.calls \in Seq(Call)
            BY <1>2, <1>4, GatherType DEF Row
        <3>2. Len(got \o r.calls) = Len(got) + Len(r.calls) /\ Len(got) \in Nat /\ Len(ask) \in Nat
            BY <3>1, ConcatProperties, LenProperties
        <3>3. n + Len(ask) <= MaxRows + Len(got)
            BY <1>1, ScanFacts
        <3> HIDE DEF got, ask
        <3> PICK g \in Nat, a \in Nat, c \in Nat : g = Len(got) /\ a = Len(ask) /\ c = Len(r.calls)
            BY <1>3, <3>2
        <3>4. (n + c) + a <= MaxRows + (g + c)
            BY <1>4, <3>3
        <3> QED BY <1>3, <2>2, <2>4, <3>2, <3>4
    <2>8. Gather(SubSeq(all, 1, at), group, "call") = Gather(all, group, "result")
        BY <1>1, <1>2, <2>3, <2>4 DEF Taken
    <2>9. at' <= last + 1 /\ last <= Len(all) /\ at' - 1 = at
        BY <1>1, <1>3, <1>4, <2>2
    <2>10. \A i \in DOMAIN writes' : writes'[i].group = group
        BY <1>1, <1>3
    <2> QED BY <1>1, <2>1, <2>2, <2>5, <2>6, <2>7, <2>8, <2>9, <2>10 DEF ScanInv
<1> QED BY <1>5, <1>6, <1>7, <1>8 DEF IInv

\* A row without a call is passed over.
LEMMA PassOverStep == ASSUME IInv, PassOver PROVE IInv'
<1>1. /\ Scanning /\ at <= last /\ rows[at].kind # "call" /\ at' = at + 1
      /\ UNCHANGED <<rows, pc, writes, provider, group, last, called, turns, cut, mixed>>
    BY DEF PassOver, seen
<1>2. /\ Len(rows) \in Nat /\ at \in Nat \ {0} /\ last \in Nat /\ last <= Len(rows) /\ Len(rows) <= MaxRows
      /\ MaxRows \in Nat /\ pc = "scan" /\ All = rows
    BY <1>1, ScanFacts
<1>3. TypeOK'
    <2>1. at' \in 1 .. MaxRows + 1
        BY <1>1, <1>2
    <2> QED BY <1>1, <2>1 DEF IInv, TypeOK
<1>4. TurnInv'
    BY <1>1 DEF IInv, TurnInv
<1>5. PastInv'
    BY <1>1, <1>2, SamePast DEF IInv
<1>6. ScanInv'
    <2>1. All' = All
        BY <1>1 DEF All
    <2>2. at' - 1 = at /\ at' <= last + 1 /\ at + 1 .. last \subseteq at .. last
        BY <1>1, <1>2
    <2>3. Gather(SubSeq(All, 1, at' - 1), group, "call") = Gather(All, group, "result")
        <3>1. Gather(SubSeq(rows, 1, at), group, "call")
              = Taken(group, "call", rows[at], Gather(rows, group, "result"))
            BY <1>1, OneMore
        <3> QED BY <1>1, <1>2, <2>2, <3>1 DEF Taken
    <2> QED BY <1>1, <1>2, <2>1, <2>2, <2>3 DEF IInv, ScanInv
<1> QED BY <1>3, <1>4, <1>5, <1>6 DEF IInv

\* After the last row every call of the turn is answered.
LEMMA EndScanStep == ASSUME IInv, EndScan PROVE IInv'
<1>1. /\ Scanning /\ at > last
      /\ UNCHANGED <<rows, writes, provider, at, last, called, seen>>
      /\ (pc' = "post" /\ group' = group) \/ EndTurn
    BY DEF EndScan
<1>2. Balanced(rows, group)
    <2>1. /\ last \in 0 .. Len(rows) /\ at - 1 = last
          /\ \A i \in last + 1 .. Len(rows) : rows[i].kind # "call"
        BY <1>1, ScanFacts
    <2>2. Gather(rows, group, "call") = Gather(SubSeq(rows, 1, last), group, "call")
        BY <1>1, <2>1, ScanFacts, NoCallsBehind
    <2> QED BY <1>1, <2>1, <2>2, ScanFacts DEF Balanced
<1>3. CASE EndTurn
    BY <1>1, <1>2, <1>3, EndStep, ScanFacts
<1>4. CASE pc' = "post" /\ group' = group
    <2>1. TypeOK'
        BY <1>1, <1>4 DEF IInv, TypeOK, seen
    <2>2. TurnInv'
        BY <1>1, <1>4, ScanFacts DEF IInv, TurnInv, seen
    <2>3. PastInv'
        <3> SUFFICES ASSUME NEW g \in 1 .. turns, g \notin cut PROVE Balanced(rows, g)
            BY <1>1 DEF PastInv, seen, Balanced
        <3>1. CASE g = group
            BY <1>2, <3>1
        <3>2. CASE g # group
            BY <3>2 DEF IInv, PastInv
        <3> QED BY <3>1, <3>2
    <2>4. ScanInv'
        BY <1>4 DEF ScanInv
    <2> QED BY <2>1, <2>2, <2>3, <2>4 DEF IInv
<1> QED BY <1>1, <1>3, <1>4

\* Every step keeps the invariant.
LEMMA StepInv == IInv /\ [Next]_vars => IInv'
<1> SUFFICES ASSUME IInv, [Next]_vars PROVE IInv'
    OBVIOUS
<1>1. CASE UNCHANGED vars
    BY <1>1 DEF vars, engine, seen, IInv, TypeOK, TurnInv, PastInv, ScanInv, Balanced, All
<1>2. ASSUME NEW p \in Providers, Start(p) PROVE IInv'
    BY <1>2, StartStep
<1>3. ASSUME NEW parts \in Responses, AcceptResponse(parts) PROVE IInv'
    BY <1>3, ResponseStep
<1> QED BY <1>1, <1>2, <1>3, StopStep, AskStep, AppendStep, PostStep, DispatchStep, PassOverStep, EndScanStep
        DEF Next

\* The invariant holds in every state.
THEOREM Invariance == Spec => []IInv
BY InitInv, StepInv, PTL DEF Spec

\* Every state is typed, and no turn stores more rows than its bound leaves room for.
THEOREM TypeCorrect == Spec => []TypeOK
<1>1. IInv => TypeOK
    BY DEF IInv
<1> QED BY <1>1, Invariance, PTL

\* Whenever the model is asked, and after every turn that was not cut, each call of
\* the turn has one result, in the order of the calls (core/interaction_engine.cpp).
THEOREM CallsAnswered == Spec => []EveryCallAnswered
<1>1. IInv => EveryCallAnswered
    BY DEF IInv, PastInv, EveryCallAnswered, Balanced, Gather, Gathered
<1> QED BY <1>1, Invariance, PTL

-----------------------------------------------------------------------------
(* Folds over sequences.                                                   *)

\* x is what the steps G, of an element and what there is so far, make of s.
Folds(x, G, base, s, T) ==
    \E f : /\ f[0] = base /\ f[Len(s)] = x
           /\ \A k \in 0 .. Len(s) : f[k] \in T
           /\ \A k \in 1 .. Len(s) : f[k] = G[<<s[k], f[k - 1]>>]

\* FoldLeft chooses a function on sets of places that runs over s in this way.
Iterates(it, G, base, s) ==
    /\ it[{}] = base
    /\ \A u \in SUBSET (1 .. Len(s)) : u # {} => it[u] = G[<<s[Max(u)], it[u \ {Max(u)}]>>]

\* There is one.
LEMMA FoldThere ==
    ASSUME NEW E, NEW s \in Seq(E), NEW T, NEW base \in T, NEW G \in [E \X T -> T]
    PROVE  \E it \in [SUBSET (1 .. Len(s)) -> T] : Iterates(it, G, base, s)
<1> DEFINE n == Len(s)
           H == [k \in 1 .. n |-> [a \in T |-> G[<<s[k], a>>]]]
<1>1. n \in Nat /\ \A k \in 1 .. n : s[k] \in E
    BY LenProperties, ElementOfSeq
<1>2. H \in [1 .. n -> [T -> T]]
    <2>1. \A k \in 1 .. n, a \in T : <<s[k], a>> \in E \X T
        BY <1>1
    <2> QED BY <2>1
<1> HIDE DEF H, n
<1>3. PICK it \in [SUBSET (1 .. n) -> T] : IsFold(it, n, base, H)
    BY <1>1, <1>2, FoldExists
<1>4. ASSUME NEW u \in SUBSET (1 .. n), u # {}
      PROVE  it[u] = G[<<s[Max(u)], it[u \ {Max(u)}]>>]
    <2>1. Max(u) \in 1 .. n /\ u \ {Max(u)} \in SUBSET (1 .. n)
        BY <1>1, <1>4, MaxOf
    <2>2. it[u] = H[Max(u)][it[u \ {Max(u)}]] /\ it[u \ {Max(u)}] \in T
        BY <1>3, <1>4, <2>1 DEF IsFold
    <2> QED BY <2>1, <2>2 DEF H
<1>5. it[{}] = base
    BY <1>3 DEF IsFold
<1> QED BY <1>3, <1>4, <1>5 DEF Iterates, n

\* Any that takes these steps where it has what they take runs over s.
LEMMA FoldsFrom ==
    ASSUME NEW E, NEW s \in Seq(E), NEW T, NEW base \in T, NEW G \in [E \X T -> T], NEW it,
           it[{}] = base,
           \A u \in SUBSET (1 .. Len(s)) :
              u # {} /\ it[u \ {Max(u)}] \in T => it[u] = G[<<s[Max(u)], it[u \ {Max(u)}]>>]
    PROVE  Folds(it[1 .. Len(s)], G, base, s, T)
<1> DEFINE n == Len(s)
           f == [k \in 0 .. n |-> it[1 .. k]]
           S == {k \in Nat : k > n \/ f[k] \in T}
<1>1. n \in Nat /\ \A k \in 1 .. n : s[k] \in E
    BY LenProperties, ElementOfSeq
<1>2. f[0] = base /\ f[n] = it[1 .. n]
    <2>1. 1 .. 0 = {} /\ 0 \in 0 .. n /\ n \in 0 .. n
        BY <1>1
    <2> QED BY <2>1
<1>3. ASSUME NEW k \in 1 .. n, f[k - 1] \in T
      PROVE  f[k] = G[<<s[k], f[k - 1]>>]
    <2>1. /\ k \in Nat \ {0} /\ 1 .. k \in SUBSET (1 .. n) /\ 1 .. k # {}
          /\ k \in 0 .. n /\ k - 1 \in 0 .. n
        <3>1. k \in Int /\ k >= 1 /\ k <= n /\ k \in 1 .. k
            BY <1>1
        <3>2. \A x \in 1 .. k : x \in 1 .. n
            BY <1>1, <3>1
        <3> QED BY <1>1, <3>1, <3>2
    <2>2. Max(1 .. k) = k /\ (1 .. k) \ {k} = 1 .. (k - 1)
        BY <2>1, MaxUpto
    <2>3. f[k] = it[1 .. k] /\ f[k - 1] = it[1 .. (k - 1)]
        BY <2>1
    <2> HIDE DEF f
    <2> QED BY <1>3, <2>1, <2>2, <2>3
<1> HIDE DEF f
<1>4. 0 \in S
    BY <1>2
<1>5. ASSUME NEW k \in Nat, k \in S PROVE k + 1 \in S
    <2>1. CASE k + 1 > n
        BY <2>1
    <2>2. CASE ~(k + 1 > n)
        <3>1. ~(k > n) /\ k + 1 \in 1 .. n /\ (k + 1) - 1 = k
            BY <1>1, <2>2
        <3>2. f[k] \in T
            BY <1>5, <3>1
        <3>3. f[k + 1] = G[<<s[k + 1], f[k]>>]
            BY <1>3, <3>1, <3>2
        <3>4. <<s[k + 1], f[k]>> \in E \X T
            BY <1>1, <3>1, <3>2
        <3> QED BY <3>3, <3>4
    <2> QED BY <2>1, <2>2
<1> HIDE DEF S
<1>6. \A k \in Nat : k \in S
    BY <1>4, <1>5, NatInduct
<1>7. \A k \in 0 .. n : f[k] \in T
    <2>1. \A k \in 0 .. n : k \in Nat /\ ~(k > n)
        BY <1>1
    <2> QED BY <1>6, <2>1 DEF S
<1>8. \A k \in 1 .. n : f[k] = G[<<s[k], f[k - 1]>>]
    <2>1. \A k \in 1 .. n : k - 1 \in 0 .. n
        BY <1>1
    <2> QED BY <1>3, <1>7, <2>1
<1> QED BY <1>2, <1>7, <1>8 DEF Folds, n

\* Nothing is folded to the base.
LEMMA FoldsEmpty ==
    ASSUME NEW x, NEW G, NEW base, NEW T, Folds(x, G, base, <<>>, T)
    PROVE  x = base
<1>1. Len(<<>>) = 0
    BY EmptySeq
<1> QED BY <1>1 DEF Folds

\* An element more is a step more.
LEMMA FoldsAppend ==
    ASSUME NEW E, NEW s \in Seq(E), NEW r \in E, NEW T, NEW base, NEW G,
           NEW x, Folds(x, G, base, s, T), NEW y, Folds(y, G, base, Append(s, r), T)
    PROVE  y = G[<<r, x>>] /\ x \in T /\ y \in T
<1> DEFINE n == Len(s)
           more == Append(s, r)
           H == [k \in 1 .. n |-> [a \in T |-> G[<<s[k], a>>]]]
<1>1. /\ n \in Nat /\ more \in Seq(E) /\ Len(more) = n + 1
      /\ more[n + 1] = r /\ \A k \in 1 .. n : more[k] = s[k]
    BY LenProperties, AppendProperties
<1> HIDE DEF more
<1>2. PICK f : /\ f[0] = base /\ f[n] = x
               /\ \A k \in 0 .. n : f[k] \in T
               /\ \A k \in 1 .. n : f[k] = G[<<s[k], f[k - 1]>>]
    BY DEF Folds
<1>3. PICK h : /\ h[0] = base /\ h[n + 1] = y
               /\ \A k \in 0 .. n + 1 : h[k] \in T
               /\ \A k \in 1 .. n + 1 : h[k] = G[<<more[k], h[k - 1]>>]
    BY <1>1 DEF Folds, more
<1> HIDE DEF n
<1>4. Runs(f, n, H) /\ Runs(h, n, H)
    <2>1. \A k \in 1 .. n : k \in 1 .. n + 1 /\ k - 1 \in 0 .. n /\ k - 1 \in 0 .. n + 1
        BY <1>1
    <2>2. \A k \in 1 .. n : f[k - 1] \in T /\ h[k - 1] \in T
        BY <1>2, <1>3, <2>1
    <2>3. \A k \in 1 .. n : h[k] = G[<<s[k], h[k - 1]>>]
        BY <1>1, <1>3, <2>1
    <2> QED BY <1>2, <2>2, <2>3 DEF Runs
<1> HIDE DEF H
<1>5. f[n] = h[n]
    BY <1>1, <1>2, <1>3, <1>4, RunsAgree
<1>6. n + 1 \in 1 .. n + 1 /\ (n + 1) - 1 = n /\ n \in 0 .. n /\ n + 1 \in 0 .. n + 1
    BY <1>1
<1>7. h[n + 1] = G[<<more[n + 1], h[n]>>]
    BY <1>3, <1>6
<1> QED BY <1>1, <1>2, <1>3, <1>5, <1>6, <1>7

-----------------------------------------------------------------------------
(* The folds of the prompt, one element more at a time.                    *)

ContentType == [role : {"model", "tool", "user"}, calls : Seq(Call), results : Seq(Call)]

Hist(s) ==
    FoldLeft(LAMBDA h, r : IF r.kind # "dropped" /\ Within(r, Window) /\ StrategyMatches(r)
                           THEN Append(h, r) ELSE h, <<>>, s)
Merged(h) == FoldLeft(LAMBDA cs, r : Merge(cs, Content(r)), <<>>, h)
Following(s) ==
    FoldLeft(LAMBDA cs, c : IF c.role = "tool" /\ ~EndsIn(cs, "model") THEN cs ELSE Append(cs, c), <<>>, s)
Joined(s) ==
    FoldLeft(LAMBDA cs, c : IF c.role = "tool" THEN Merge(cs, c) ELSE Append(cs, c), <<>>, s)

\* What each makes of an element.
Shown(r) == r.kind # "dropped" /\ Within(r, Window) /\ StrategyMatches(r)
Show(r, h) == IF Shown(r) THEN Append(h, r) ELSE h
Blend(r, cs) == Merge(cs, Content(r))
Follow(c, cs) == IF c.role = "tool" /\ ~EndsIn(cs, "model") THEN cs ELSE Append(cs, c)
Join(c, cs) == IF c.role = "tool" THEN Merge(cs, c) ELSE Append(cs, c)
Message(r, ms) == IF r.kind = "user" THEN Merge(ms, Content(r)) ELSE Append(ms, Content(r))

\* A row of the window becomes a content.
LEMMA ContentTyped == ASSUME NEW r \in Row PROVE Content(r) \in ContentType
<1>1. r.calls \in Seq(Call) /\ <<>> \in Seq(Call)
    BY EmptyCalls DEF Row
<1> QED BY <1>1 DEF Content, ContentType

\* A content is appended, or joins the last one, whose role it has.
LEMMA MergeIs ==
    ASSUME NEW cs \in Seq(ContentType), NEW c \in ContentType
    PROVE  /\ Merge(cs, c) \in Seq(ContentType)
           /\ ~EndsIn(cs, c.role) => Merge(cs, c) = Append(cs, c)
           /\ EndsIn(cs, c.role) =>
                 /\ Len(cs) \in Nat \ {0} /\ cs[Len(cs)].role = c.role
                 /\ Merge(cs, c) = [cs EXCEPT ![Len(cs)] =
                       [role |-> c.role, calls |-> cs[Len(cs)].calls \o c.calls,
                        results |-> cs[Len(cs)].results \o c.results]]
                 /\ Len(Merge(cs, c)) = Len(cs)
<1> DEFINE n == Len(cs)
<1>1. CASE ~EndsIn(cs, c.role)
    <2>1. Merge(cs, c) = Append(cs, c)
        BY <1>1 DEF Merge
    <2>2. Append(cs, c) \in Seq(ContentType)
        BY AppendProperties
    <2> QED BY <1>1, <2>1, <2>2
<1>2. CASE EndsIn(cs, c.role)
    <2>1. cs # <<>> /\ cs[n].role = c.role
        BY <1>2 DEF EndsIn, Last
    <2>2. n \in Nat \ {0} /\ DOMAIN cs = 1 .. n
        <3>1. n \in Nat /\ DOMAIN cs = 1 .. n /\ (n = 0 => cs = <<>>)
            BY LenProperties, EmptySeq
        <3> QED BY <2>1, <3>1
    <2>3. cs[n] \in ContentType /\ n \in 1 .. n
        BY <2>2, ElementOfSeq
    <2> DEFINE both == [role |-> c.role, calls |-> cs[n].calls \o c.calls,
                        results |-> cs[n].results \o c.results]
    <2>4. Merge(cs, c) = [cs EXCEPT ![n] = both]
        BY <1>2 DEF Merge
    <2>6. both \in ContentType
        <3>1. cs[n].calls \in Seq(Call) /\ cs[n].results \in Seq(Call)
              /\ c.calls \in Seq(Call) /\ c.results \in Seq(Call) /\ c.role \in {"model", "tool", "user"}
            BY <2>3 DEF ContentType
        <3>2. cs[n].calls \o c.calls \in Seq(Call) /\ cs[n].results \o c.results \in Seq(Call)
            BY <3>1, ConcatProperties
        <3> QED BY <3>1, <3>2 DEF ContentType
    <2> HIDE DEF both
    <2>8. [cs EXCEPT ![n] = both] \in Seq(ContentType) /\ Len([cs EXCEPT ![n] = both]) = n
        BY <2>3, <2>6, ExceptSeq
    <2> QED BY <1>2, <2>1, <2>2, <2>4, <2>8 DEF both
<1> QED BY <1>1, <1>2

HistStep == [p \in Row \X Seq(Row) |-> Show(p[1], p[2])]

\* The fold runs over its sequence in these steps.
LEMMA HistFolds == ASSUME NEW s \in Seq(Row) PROVE Folds(Hist(s), HistStep, <<>>, s, Seq(Row))
<1> DEFINE n == Len(s)
           G == HistStep
           Step(it) == [u \in SUBSET DOMAIN s |->
                          IF u = {} THEN <<>>
                          ELSE IF s[Max(u)].kind # "dropped" /\ Within(s[Max(u)], Window) /\ StrategyMatches(s[Max(u)])
                               THEN Append(it[u \ {Max(u)}], s[Max(u)]) ELSE it[u \ {Max(u)}]]
           iter == CHOOSE it : it = Step(it)
<1>1. n \in Nat /\ DOMAIN s = 1 .. n /\ (\A k \in 1 .. n : s[k] \in Row) /\ <<>> \in Seq(Row)
    BY LenProperties, ElementOfSeq, EmptySeq
<1>2. Hist(s) = iter[DOMAIN s]
    BY DEF Hist, FoldLeft, MapThenFoldSet
<1>3. \A e \in Row, a \in Seq(Row) : Show(e, a) \in Seq(Row)
    BY AppendProperties DEF Show
<1>4. G \in [Row \X Seq(Row) -> Seq(Row)] /\ \A e \in Row, a \in Seq(Row) : G[<<e, a>>] = Show(e, a)
    BY <1>3 DEF HistStep
<1> HIDE DEF G
<1>5. PICK it \in [SUBSET (1 .. n) -> Seq(Row)] : Iterates(it, G, <<>>, s)
    BY <1>1, <1>4, FoldThere
<1>6. \A u \in SUBSET (1 .. n) : u # {} => Max(u) \in 1 .. n /\ u \ {Max(u)} \in SUBSET (1 .. n)
    BY <1>1, MaxOf
<1> HIDE DEF n
<1>7. it = Step(it)
    <2>1. ASSUME NEW u \in SUBSET (1 .. n), u # {}
          PROVE  it[u] = Show(s[Max(u)], it[u \ {Max(u)}])
        <3>1. it[u] = G[<<s[Max(u)], it[u \ {Max(u)}]>>]
            BY <1>5, <2>1 DEF Iterates, n
        <3>2. s[Max(u)] \in Row /\ it[u \ {Max(u)}] \in Seq(Row)
            BY <1>1, <1>5, <1>6, <2>1
        <3> QED BY <1>4, <3>1, <3>2
    <2>2. it[{}] = <<>> /\ it = [u \in SUBSET (1 .. n) |-> it[u]]
        BY <1>5 DEF Iterates
    <2> QED BY <1>1, <2>1, <2>2 DEF Show, Shown
<1> HIDE DEF Step
<1>8. iter = Step(iter)
    BY <1>7
<1> HIDE DEF iter
<1>9. iter[{}] = <<>>
    BY <1>8 DEF Step
<1>10. ASSUME NEW u \in SUBSET (1 .. n), u # {}, iter[u \ {Max(u)}] \in Seq(Row)
       PROVE  iter[u] = G[<<s[Max(u)], iter[u \ {Max(u)}]>>]
    <2>1. iter[u] = Show(s[Max(u)], iter[u \ {Max(u)}])
        BY <1>1, <1>8, <1>10 DEF Step, Show, Shown
    <2>2. s[Max(u)] \in Row
        BY <1>1, <1>6, <1>10
    <2> QED BY <1>4, <1>10, <2>1, <2>2
<1>11. Folds(iter[1 .. n], G, <<>>, s, Seq(Row))
    BY <1>1, <1>4, <1>9, <1>10, FoldsFrom DEF n
<1> QED BY <1>1, <1>2, <1>11 DEF G

\* What it makes.
LEMMA HistTyped == ASSUME NEW s \in Seq(Row) PROVE Hist(s) \in Seq(Row)
<1>1. Len(s) \in 0 .. Len(s)
    BY LenProperties
<1> QED BY <1>1, HistFolds DEF Folds

\* The rows of the window, one row more.
LEMMA HistGrows ==
    /\ Hist(<<>>) = <<>>
    /\ \A s \in Seq(Row), e \in Row :
          /\ Hist(s) \in Seq(Row)
          /\ Hist(Append(s, e)) = Show(e, Hist(s))
<1>1. Hist(<<>>) = <<>>
    <2>1. <<>> \in Seq(Row)
        BY EmptySeq
    <2> QED BY <2>1, HistFolds, FoldsEmpty
<1>2. ASSUME NEW s \in Seq(Row), NEW e \in Row
      PROVE  Hist(s) \in Seq(Row) /\ Hist(Append(s, e)) = Show(e, Hist(s))
    <2>1. Append(s, e) \in Seq(Row)
        BY AppendProperties
    <2>2. /\ Folds(Hist(s), HistStep, <<>>, s, Seq(Row))
          /\ Folds(Hist(Append(s, e)), HistStep, <<>>, Append(s, e), Seq(Row))
        BY <2>1, HistFolds
    <2>3. Hist(Append(s, e)) = HistStep[<<e, Hist(s)>>] /\ Hist(s) \in Seq(Row)
        BY <2>2, FoldsAppend
    <2> QED BY <2>3 DEF HistStep
<1> QED BY <1>1, <1>2

MergedStep == [p \in Row \X Seq(ContentType) |-> Blend(p[1], p[2])]

\* The fold runs over its sequence in these steps.
LEMMA MergedFolds == ASSUME NEW s \in Seq(Row) PROVE Folds(Merged(s), MergedStep, <<>>, s, Seq(ContentType))
<1> DEFINE n == Len(s)
           G == MergedStep
           Step(it) == [u \in SUBSET DOMAIN s |->
                          IF u = {} THEN <<>>
                          ELSE Merge(it[u \ {Max(u)}], Content(s[Max(u)]))]
           iter == CHOOSE it : it = Step(it)
<1>1. n \in Nat /\ DOMAIN s = 1 .. n /\ (\A k \in 1 .. n : s[k] \in Row) /\ <<>> \in Seq(ContentType)
    BY LenProperties, ElementOfSeq, EmptySeq
<1>2. Merged(s) = iter[DOMAIN s]
    BY DEF Merged, FoldLeft, MapThenFoldSet
<1>3. \A e \in Row, a \in Seq(ContentType) : Blend(e, a) \in Seq(ContentType)
    BY ContentTyped, MergeIs DEF Blend
<1>4. G \in [Row \X Seq(ContentType) -> Seq(ContentType)] /\ \A e \in Row, a \in Seq(ContentType) : G[<<e, a>>] = Blend(e, a)
    BY <1>3 DEF MergedStep
<1> HIDE DEF G
<1>5. PICK it \in [SUBSET (1 .. n) -> Seq(ContentType)] : Iterates(it, G, <<>>, s)
    BY <1>1, <1>4, FoldThere
<1>6. \A u \in SUBSET (1 .. n) : u # {} => Max(u) \in 1 .. n /\ u \ {Max(u)} \in SUBSET (1 .. n)
    BY <1>1, MaxOf
<1> HIDE DEF n
<1>7. it = Step(it)
    <2>1. ASSUME NEW u \in SUBSET (1 .. n), u # {}
          PROVE  it[u] = Blend(s[Max(u)], it[u \ {Max(u)}])
        <3>1. it[u] = G[<<s[Max(u)], it[u \ {Max(u)}]>>]
            BY <1>5, <2>1 DEF Iterates, n
        <3>2. s[Max(u)] \in Row /\ it[u \ {Max(u)}] \in Seq(ContentType)
            BY <1>1, <1>5, <1>6, <2>1
        <3> QED BY <1>4, <3>1, <3>2
    <2>2. it[{}] = <<>> /\ it = [u \in SUBSET (1 .. n) |-> it[u]]
        BY <1>5 DEF Iterates
    <2> QED BY <1>1, <2>1, <2>2 DEF Blend
<1> HIDE DEF Step
<1>8. iter = Step(iter)
    BY <1>7
<1> HIDE DEF iter
<1>9. iter[{}] = <<>>
    BY <1>8 DEF Step
<1>10. ASSUME NEW u \in SUBSET (1 .. n), u # {}, iter[u \ {Max(u)}] \in Seq(ContentType)
       PROVE  iter[u] = G[<<s[Max(u)], iter[u \ {Max(u)}]>>]
    <2>1. iter[u] = Blend(s[Max(u)], iter[u \ {Max(u)}])
        BY <1>1, <1>8, <1>10 DEF Step, Blend
    <2>2. s[Max(u)] \in Row
        BY <1>1, <1>6, <1>10
    <2> QED BY <1>4, <1>10, <2>1, <2>2
<1>11. Folds(iter[1 .. n], G, <<>>, s, Seq(ContentType))
    BY <1>1, <1>4, <1>9, <1>10, FoldsFrom DEF n
<1> QED BY <1>1, <1>2, <1>11 DEF G

\* What it makes.
LEMMA MergedTyped == ASSUME NEW s \in Seq(Row) PROVE Merged(s) \in Seq(ContentType)
<1>1. Len(s) \in 0 .. Len(s)
    BY LenProperties
<1> QED BY <1>1, MergedFolds DEF Folds

\* Gemini's contents, one row more.
LEMMA MergedGrows ==
    /\ Merged(<<>>) = <<>>
    /\ \A s \in Seq(Row), e \in Row :
          /\ Merged(s) \in Seq(ContentType)
          /\ Merged(Append(s, e)) = Blend(e, Merged(s))
<1>1. Merged(<<>>) = <<>>
    <2>1. <<>> \in Seq(Row)
        BY EmptySeq
    <2> QED BY <2>1, MergedFolds, FoldsEmpty
<1>2. ASSUME NEW s \in Seq(Row), NEW e \in Row
      PROVE  Merged(s) \in Seq(ContentType) /\ Merged(Append(s, e)) = Blend(e, Merged(s))
    <2>1. Append(s, e) \in Seq(Row)
        BY AppendProperties
    <2>2. /\ Folds(Merged(s), MergedStep, <<>>, s, Seq(ContentType))
          /\ Folds(Merged(Append(s, e)), MergedStep, <<>>, Append(s, e), Seq(ContentType))
        BY <2>1, MergedFolds
    <2>3. Merged(Append(s, e)) = MergedStep[<<e, Merged(s)>>] /\ Merged(s) \in Seq(ContentType)
        BY <2>2, FoldsAppend
    <2> QED BY <2>3 DEF MergedStep
<1> QED BY <1>1, <1>2

FollowingStep == [p \in ContentType \X Seq(ContentType) |-> Follow(p[1], p[2])]

\* The fold runs over its sequence in these steps.
LEMMA FollowingFolds == ASSUME NEW s \in Seq(ContentType) PROVE Folds(Following(s), FollowingStep, <<>>, s, Seq(ContentType))
<1> DEFINE n == Len(s)
           G == FollowingStep
           Step(it) == [u \in SUBSET DOMAIN s |->
                          IF u = {} THEN <<>>
                          ELSE IF s[Max(u)].role = "tool" /\ ~EndsIn(it[u \ {Max(u)}], "model")
                               THEN it[u \ {Max(u)}] ELSE Append(it[u \ {Max(u)}], s[Max(u)])]
           iter == CHOOSE it : it = Step(it)
<1>1. n \in Nat /\ DOMAIN s = 1 .. n /\ (\A k \in 1 .. n : s[k] \in ContentType) /\ <<>> \in Seq(ContentType)
    BY LenProperties, ElementOfSeq, EmptySeq
<1>2. Following(s) = iter[DOMAIN s]
    BY DEF Following, FoldLeft, MapThenFoldSet
<1>3. \A e \in ContentType, a \in Seq(ContentType) : Follow(e, a) \in Seq(ContentType)
    BY AppendProperties DEF Follow
<1>4. G \in [ContentType \X Seq(ContentType) -> Seq(ContentType)] /\ \A e \in ContentType, a \in Seq(ContentType) : G[<<e, a>>] = Follow(e, a)
    BY <1>3 DEF FollowingStep
<1> HIDE DEF G
<1>5. PICK it \in [SUBSET (1 .. n) -> Seq(ContentType)] : Iterates(it, G, <<>>, s)
    BY <1>1, <1>4, FoldThere
<1>6. \A u \in SUBSET (1 .. n) : u # {} => Max(u) \in 1 .. n /\ u \ {Max(u)} \in SUBSET (1 .. n)
    BY <1>1, MaxOf
<1> HIDE DEF n
<1>7. it = Step(it)
    <2>1. ASSUME NEW u \in SUBSET (1 .. n), u # {}
          PROVE  it[u] = Follow(s[Max(u)], it[u \ {Max(u)}])
        <3>1. it[u] = G[<<s[Max(u)], it[u \ {Max(u)}]>>]
            BY <1>5, <2>1 DEF Iterates, n
        <3>2. s[Max(u)] \in ContentType /\ it[u \ {Max(u)}] \in Seq(ContentType)
            BY <1>1, <1>5, <1>6, <2>1
        <3> QED BY <1>4, <3>1, <3>2
    <2>2. it[{}] = <<>> /\ it = [u \in SUBSET (1 .. n) |-> it[u]]
        BY <1>5 DEF Iterates
    <2> QED BY <1>1, <2>1, <2>2 DEF Follow
<1> HIDE DEF Step
<1>8. iter = Step(iter)
    BY <1>7
<1> HIDE DEF iter
<1>9. iter[{}] = <<>>
    BY <1>8 DEF Step
<1>10. ASSUME NEW u \in SUBSET (1 .. n), u # {}, iter[u \ {Max(u)}] \in Seq(ContentType)
       PROVE  iter[u] = G[<<s[Max(u)], iter[u \ {Max(u)}]>>]
    <2>1. iter[u] = Follow(s[Max(u)], iter[u \ {Max(u)}])
        BY <1>1, <1>8, <1>10 DEF Step, Follow
    <2>2. s[Max(u)] \in ContentType
        BY <1>1, <1>6, <1>10
    <2> QED BY <1>4, <1>10, <2>1, <2>2
<1>11. Folds(iter[1 .. n], G, <<>>, s, Seq(ContentType))
    BY <1>1, <1>4, <1>9, <1>10, FoldsFrom DEF n
<1> QED BY <1>1, <1>2, <1>11 DEF G

\* What it makes.
LEMMA FollowingTyped == ASSUME NEW s \in Seq(ContentType) PROVE Following(s) \in Seq(ContentType)
<1>1. Len(s) \in 0 .. Len(s)
    BY LenProperties
<1> QED BY <1>1, FollowingFolds DEF Folds

\* What is left of them, one content more.
LEMMA FollowingGrows ==
    /\ Following(<<>>) = <<>>
    /\ \A s \in Seq(ContentType), e \in ContentType :
          /\ Following(s) \in Seq(ContentType)
          /\ Following(Append(s, e)) = Follow(e, Following(s))
<1>1. Following(<<>>) = <<>>
    <2>1. <<>> \in Seq(ContentType)
        BY EmptySeq
    <2> QED BY <2>1, FollowingFolds, FoldsEmpty
<1>2. ASSUME NEW s \in Seq(ContentType), NEW e \in ContentType
      PROVE  Following(s) \in Seq(ContentType) /\ Following(Append(s, e)) = Follow(e, Following(s))
    <2>1. Append(s, e) \in Seq(ContentType)
        BY AppendProperties
    <2>2. /\ Folds(Following(s), FollowingStep, <<>>, s, Seq(ContentType))
          /\ Folds(Following(Append(s, e)), FollowingStep, <<>>, Append(s, e), Seq(ContentType))
        BY <2>1, FollowingFolds
    <2>3. Following(Append(s, e)) = FollowingStep[<<e, Following(s)>>] /\ Following(s) \in Seq(ContentType)
        BY <2>2, FoldsAppend
    <2> QED BY <2>3 DEF FollowingStep
<1> QED BY <1>1, <1>2

OpenAiMessagesStep == [p \in Row \X Seq(ContentType) |-> Message(p[1], p[2])]

\* The fold runs over its sequence in these steps.
LEMMA OpenAiMessagesFolds == ASSUME NEW s \in Seq(Row) PROVE Folds(OpenAiMessages(s), OpenAiMessagesStep, <<>>, s, Seq(ContentType))
<1> DEFINE n == Len(s)
           G == OpenAiMessagesStep
           Step(it) == [u \in SUBSET DOMAIN s |->
                          IF u = {} THEN <<>>
                          ELSE IF s[Max(u)].kind = "user" THEN Merge(it[u \ {Max(u)}], Content(s[Max(u)]))
                               ELSE Append(it[u \ {Max(u)}], Content(s[Max(u)]))]
           iter == CHOOSE it : it = Step(it)
<1>1. n \in Nat /\ DOMAIN s = 1 .. n /\ (\A k \in 1 .. n : s[k] \in Row) /\ <<>> \in Seq(ContentType)
    BY LenProperties, ElementOfSeq, EmptySeq
<1>2. OpenAiMessages(s) = iter[DOMAIN s]
    BY DEF OpenAiMessages, FoldLeft, MapThenFoldSet
<1>3. \A e \in Row, a \in Seq(ContentType) : Message(e, a) \in Seq(ContentType)
    BY ContentTyped, MergeIs, AppendProperties DEF Message
<1>4. G \in [Row \X Seq(ContentType) -> Seq(ContentType)] /\ \A e \in Row, a \in Seq(ContentType) : G[<<e, a>>] = Message(e, a)
    BY <1>3 DEF OpenAiMessagesStep
<1> HIDE DEF G
<1>5. PICK it \in [SUBSET (1 .. n) -> Seq(ContentType)] : Iterates(it, G, <<>>, s)
    BY <1>1, <1>4, FoldThere
<1>6. \A u \in SUBSET (1 .. n) : u # {} => Max(u) \in 1 .. n /\ u \ {Max(u)} \in SUBSET (1 .. n)
    BY <1>1, MaxOf
<1> HIDE DEF n
<1>7. it = Step(it)
    <2>1. ASSUME NEW u \in SUBSET (1 .. n), u # {}
          PROVE  it[u] = Message(s[Max(u)], it[u \ {Max(u)}])
        <3>1. it[u] = G[<<s[Max(u)], it[u \ {Max(u)}]>>]
            BY <1>5, <2>1 DEF Iterates, n
        <3>2. s[Max(u)] \in Row /\ it[u \ {Max(u)}] \in Seq(ContentType)
            BY <1>1, <1>5, <1>6, <2>1
        <3> QED BY <1>4, <3>1, <3>2
    <2>2. it[{}] = <<>> /\ it = [u \in SUBSET (1 .. n) |-> it[u]]
        BY <1>5 DEF Iterates
    <2> QED BY <1>1, <2>1, <2>2 DEF Message
<1> HIDE DEF Step
<1>8. iter = Step(iter)
    BY <1>7
<1> HIDE DEF iter
<1>9. iter[{}] = <<>>
    BY <1>8 DEF Step
<1>10. ASSUME NEW u \in SUBSET (1 .. n), u # {}, iter[u \ {Max(u)}] \in Seq(ContentType)
       PROVE  iter[u] = G[<<s[Max(u)], iter[u \ {Max(u)}]>>]
    <2>1. iter[u] = Message(s[Max(u)], iter[u \ {Max(u)}])
        BY <1>1, <1>8, <1>10 DEF Step, Message
    <2>2. s[Max(u)] \in Row
        BY <1>1, <1>6, <1>10
    <2> QED BY <1>4, <1>10, <2>1, <2>2
<1>11. Folds(iter[1 .. n], G, <<>>, s, Seq(ContentType))
    BY <1>1, <1>4, <1>9, <1>10, FoldsFrom DEF n
<1> QED BY <1>1, <1>2, <1>11 DEF G

\* What it makes.
LEMMA OpenAiMessagesTyped == ASSUME NEW s \in Seq(Row) PROVE OpenAiMessages(s) \in Seq(ContentType)
<1>1. Len(s) \in 0 .. Len(s)
    BY LenProperties
<1> QED BY <1>1, OpenAiMessagesFolds DEF Folds

\* OpenAI's messages, one row more.
LEMMA OpenAiMessagesGrows ==
    /\ OpenAiMessages(<<>>) = <<>>
    /\ \A s \in Seq(Row), e \in Row :
          /\ OpenAiMessages(s) \in Seq(ContentType)
          /\ OpenAiMessages(Append(s, e)) = Message(e, OpenAiMessages(s))
<1>1. OpenAiMessages(<<>>) = <<>>
    <2>1. <<>> \in Seq(Row)
        BY EmptySeq
    <2> QED BY <2>1, OpenAiMessagesFolds, FoldsEmpty
<1>2. ASSUME NEW s \in Seq(Row), NEW e \in Row
      PROVE  OpenAiMessages(s) \in Seq(ContentType) /\ OpenAiMessages(Append(s, e)) = Message(e, OpenAiMessages(s))
    <2>1. Append(s, e) \in Seq(Row)
        BY AppendProperties
    <2>2. /\ Folds(OpenAiMessages(s), OpenAiMessagesStep, <<>>, s, Seq(ContentType))
          /\ Folds(OpenAiMessages(Append(s, e)), OpenAiMessagesStep, <<>>, Append(s, e), Seq(ContentType))
        BY <2>1, OpenAiMessagesFolds
    <2>3. OpenAiMessages(Append(s, e)) = OpenAiMessagesStep[<<e, OpenAiMessages(s)>>] /\ OpenAiMessages(s) \in Seq(ContentType)
        BY <2>2, FoldsAppend
    <2> QED BY <2>3 DEF OpenAiMessagesStep
<1> QED BY <1>1, <1>2

JoinedStep == [p \in ContentType \X Seq(ContentType) |-> Join(p[1], p[2])]

\* The fold runs over its sequence in these steps.
LEMMA JoinedFolds == ASSUME NEW s \in Seq(ContentType) PROVE Folds(Joined(s), JoinedStep, <<>>, s, Seq(ContentType))
<1> DEFINE n == Len(s)
           G == JoinedStep
           Step(it) == [u \in SUBSET DOMAIN s |->
                          IF u = {} THEN <<>>
                          ELSE IF s[Max(u)].role = "tool" THEN Merge(it[u \ {Max(u)}], s[Max(u)])
                               ELSE Append(it[u \ {Max(u)}], s[Max(u)])]
           iter == CHOOSE it : it = Step(it)
<1>1. n \in Nat /\ DOMAIN s = 1 .. n /\ (\A k \in 1 .. n : s[k] \in ContentType) /\ <<>> \in Seq(ContentType)
    BY LenProperties, ElementOfSeq, EmptySeq
<1>2. Joined(s) = iter[DOMAIN s]
    BY DEF Joined, FoldLeft, MapThenFoldSet
<1>3. \A e \in ContentType, a \in Seq(ContentType) : Join(e, a) \in Seq(ContentType)
    BY MergeIs, AppendProperties DEF Join
<1>4. G \in [ContentType \X Seq(ContentType) -> Seq(ContentType)] /\ \A e \in ContentType, a \in Seq(ContentType) : G[<<e, a>>] = Join(e, a)
    BY <1>3 DEF JoinedStep
<1> HIDE DEF G
<1>5. PICK it \in [SUBSET (1 .. n) -> Seq(ContentType)] : Iterates(it, G, <<>>, s)
    BY <1>1, <1>4, FoldThere
<1>6. \A u \in SUBSET (1 .. n) : u # {} => Max(u) \in 1 .. n /\ u \ {Max(u)} \in SUBSET (1 .. n)
    BY <1>1, MaxOf
<1> HIDE DEF n
<1>7. it = Step(it)
    <2>1. ASSUME NEW u \in SUBSET (1 .. n), u # {}
          PROVE  it[u] = Join(s[Max(u)], it[u \ {Max(u)}])
        <3>1. it[u] = G[<<s[Max(u)], it[u \ {Max(u)}]>>]
            BY <1>5, <2>1 DEF Iterates, n
        <3>2. s[Max(u)] \in ContentType /\ it[u \ {Max(u)}] \in Seq(ContentType)
            BY <1>1, <1>5, <1>6, <2>1
        <3> QED BY <1>4, <3>1, <3>2
    <2>2. it[{}] = <<>> /\ it = [u \in SUBSET (1 .. n) |-> it[u]]
        BY <1>5 DEF Iterates
    <2> QED BY <1>1, <2>1, <2>2 DEF Join
<1> HIDE DEF Step
<1>8. iter = Step(iter)
    BY <1>7
<1> HIDE DEF iter
<1>9. iter[{}] = <<>>
    BY <1>8 DEF Step
<1>10. ASSUME NEW u \in SUBSET (1 .. n), u # {}, iter[u \ {Max(u)}] \in Seq(ContentType)
       PROVE  iter[u] = G[<<s[Max(u)], iter[u \ {Max(u)}]>>]
    <2>1. iter[u] = Join(s[Max(u)], iter[u \ {Max(u)}])
        BY <1>1, <1>8, <1>10 DEF Step, Join
    <2>2. s[Max(u)] \in ContentType
        BY <1>1, <1>6, <1>10
    <2> QED BY <1>4, <1>10, <2>1, <2>2
<1>11. Folds(iter[1 .. n], G, <<>>, s, Seq(ContentType))
    BY <1>1, <1>4, <1>9, <1>10, FoldsFrom DEF n
<1> QED BY <1>1, <1>2, <1>11 DEF G

\* What it makes.
LEMMA JoinedTyped == ASSUME NEW s \in Seq(ContentType) PROVE Joined(s) \in Seq(ContentType)
<1>1. Len(s) \in 0 .. Len(s)
    BY LenProperties
<1> QED BY <1>1, JoinedFolds DEF Folds

\* The contents as the service takes them, one content more.
LEMMA JoinedGrows ==
    /\ Joined(<<>>) = <<>>
    /\ \A s \in Seq(ContentType), e \in ContentType :
          /\ Joined(s) \in Seq(ContentType)
          /\ Joined(Append(s, e)) = Join(e, Joined(s))
<1>1. Joined(<<>>) = <<>>
    <2>1. <<>> \in Seq(ContentType)
        BY EmptySeq
    <2> QED BY <2>1, JoinedFolds, FoldsEmpty
<1>2. ASSUME NEW s \in Seq(ContentType), NEW e \in ContentType
      PROVE  Joined(s) \in Seq(ContentType) /\ Joined(Append(s, e)) = Join(e, Joined(s))
    <2>1. Append(s, e) \in Seq(ContentType)
        BY AppendProperties
    <2>2. /\ Folds(Joined(s), JoinedStep, <<>>, s, Seq(ContentType))
          /\ Folds(Joined(Append(s, e)), JoinedStep, <<>>, Append(s, e), Seq(ContentType))
        BY <2>1, JoinedFolds
    <2>3. Joined(Append(s, e)) = JoinedStep[<<e, Joined(s)>>] /\ Joined(s) \in Seq(ContentType)
        BY <2>2, FoldsAppend
    <2> QED BY <2>3 DEF JoinedStep
<1> QED BY <1>1, <1>2

-----------------------------------------------------------------------------
(* The rounds of the rows: who is asking, and what is not answered yet.    *)

\* What the rows so far leave to be answered; `says` is "results" once the
\* results of the calls have begun.
Round == [group : Nat, by : Providers, todo : Seq(Call), says : {"calls", "results"}]
Nothing == [group |-> 0, by |-> "gemini", todo |-> <<>>, says |-> "calls"]

\* The model may go on: a text or a call of Gemini's may stand behind its calls.
ToSay(q) == q.todo = <<>> \/ (q.says = "calls" /\ q.by = "gemini")

\* All enabled, or all unknown.
Alike(calls) == \/ \A i \in DOMAIN calls : calls[i].tool \in Enabled
                \/ \A i \in DOMAIN calls : calls[i].tool \notin Enabled

\* Row r may stand behind the rows that leave q, and then they leave p.
Opens(q, r, p) ==
    /\ r.kind = "user" /\ r.group > q.group /\ (q.todo = <<>> \/ q.group \in cut)
    /\ p.todo = <<>> /\ p.says = "calls"
Tells(q, r, p) ==
    /\ r.kind = "text" /\ ToSay(q)
    /\ p.todo = q.todo /\ p.says = "calls"
Calls(q, r, p) ==
    /\ r.kind = "call" /\ ToSay(q) /\ r.calls # <<>>
    /\ p.todo = q.todo \o r.calls /\ p.says = "calls"
Answers(q, r, p) ==
    /\ r.kind = "result" /\ q.todo # <<>> /\ r.calls = <<Head(q.todo)>>
    /\ p.todo = Tail(q.todo) /\ p.says = "results"
Follows(q, r, p) ==
    /\ p.group = r.group /\ p.by = r.by
    /\ p.group \in mixed \/ Alike(p.todo)
    /\ \/ Opens(q, r, p)
       \/ r.group = q.group /\ r.by = q.by /\ (Tells(q, r, p) \/ Calls(q, r, p) \/ Answers(q, r, p))

\* q[k] is what the first k rows leave.
Rounds(q) ==
    /\ q \in [0 .. Len(rows) -> Round] /\ q[0] = Nothing
    /\ \A k \in 1 .. Len(rows) : Follows(q[k - 1], rows[k], q[k])

\* The rows of the loop that have not been dispatched.
Due == SubSeq(All, at, last)

\* The rows that wait are a response's, or the results of a dispatch.
Responds(q) ==
    /\ \A i \in DOMAIN writes : /\ writes[i].kind \in {"text", "call"}
                                /\ writes[i].kind = "call" => writes[i].calls # <<>>
    /\ writes # <<>> => ToSay(q)
    /\ provider = "openai" => Len(writes) <= 1
Reports == \A i \in DOMAIN writes : writes[i].kind = "result" /\ Len(writes[i].calls) = 1

\* In the loop, what is left to be answered is answered by the rows that wait and
\* those not dispatched.
ScanNow(q) ==
    /\ q.todo \o Gather(writes, group, "call") = Gather(writes, group, "result") \o Gather(Due, group, "call")
    /\ group \in mixed \/ Alike(q.todo \o Gather(writes, group, "call"))
    /\ Responds(q) \/ Reports
    /\ \A i \in DOMAIN writes : writes[i].by = provider
    /\ \A i \in at .. last : All[i].by = provider /\ (All[i].kind = "call" => All[i].calls # <<>>)
    /\ called => Last(All).kind = "result"

Now(q) ==
    /\ q.group <= turns
    /\ q.todo # <<>> => q.group \in cut \/ pc = "scan"
    /\ pc \in {"post", "scan"} => q.group = group /\ q.by = provider /\ rows # <<>>
    /\ pc = "post" => Last(rows).kind \in {"user", "result"}
    /\ pc = "scan" => ScanNow(q)

RoundsInv == \E q : Rounds(q) /\ Now(q[Len(rows)])

RInv == IInv /\ RoundsInv

\* Calls that are alike are so in every part.
LEMMA PartsAlike ==
    ASSUME NEW a \in Seq(Call), NEW b \in Seq(Call), Alike(a \o b)
    PROVE  Alike(a) /\ Alike(b)
<1>1. /\ Len(a) \in Nat /\ Len(b) \in Nat /\ DOMAIN a = 1 .. Len(a) /\ DOMAIN b = 1 .. Len(b)
      /\ a \o b \in Seq(Call) /\ Len(a \o b) = Len(a) + Len(b)
      /\ \A i \in 1 .. Len(a) + Len(b) : (a \o b)[i] = IF i <= Len(a) THEN a[i] ELSE b[i - Len(a)]
    BY LenProperties, ConcatProperties
<1>2. DOMAIN (a \o b) = 1 .. Len(a) + Len(b)
    BY <1>1, LenProperties
<1>3. ASSUME NEW i \in 1 .. Len(a) PROVE i \in DOMAIN (a \o b) /\ (a \o b)[i] = a[i]
    <2>1. i \in 1 .. Len(a) + Len(b) /\ i <= Len(a)
        BY <1>1
    <2> QED BY <1>1, <1>2, <2>1
<1>4. ASSUME NEW i \in 1 .. Len(b) PROVE Len(a) + i \in DOMAIN (a \o b) /\ (a \o b)[Len(a) + i] = b[i]
    <2>1. Len(a) + i \in 1 .. Len(a) + Len(b) /\ ~(Len(a) + i <= Len(a)) /\ (Len(a) + i) - Len(a) = i
        BY <1>1
    <2> QED BY <1>1, <1>2, <2>1
<1> DEFINE ab == a \o b
<1> HIDE DEF ab
<1>5. Alike(ab) /\ (\A i \in 1 .. Len(a) : i \in DOMAIN ab /\ ab[i] = a[i])
      /\ (\A i \in 1 .. Len(b) : Len(a) + i \in DOMAIN ab /\ ab[Len(a) + i] = b[i])
    BY <1>3, <1>4 DEF ab
<1> QED BY <1>1, <1>5 DEF Alike

\* No calls are alike.
LEMMA NoneAlike == Alike(<<>>)
BY DEF Alike

\* What a row and the rows behind it call.
LEMMA GatherFirst ==
    ASSUME NEW s \in Seq(Row), s # <<>>, NEW g, NEW kind
    PROVE  Gather(s, g, kind) = Taken(g, kind, Head(s), <<>>) \o Gather(Tail(s), g, kind)
<1> DEFINE r == Head(s)
           t == Tail(s)
<1>1. r \in Row /\ t \in Seq(Row) /\ s = <<r>> \o t
    BY HeadAndTail
<1> HIDE DEF r, t
<1>2. <<r>> \in Seq(Row)
    BY <1>1
<1>3. Splits(<<r>>, t, g, kind)
    BY <1>1, <1>2, GatherConcat
<1>4. Gather(<<r>>, g, kind) = Taken(g, kind, r, <<>>)
    BY <1>1, GatherOne
<1> QED BY <1>1, <1>3, <1>4 DEF Splits, r, t

\* What may follow still may when more turns are cut.
LEMMA FollowsStill ==
    ASSUME NEW c, NEW r, NEW d, Follows(c, r, d), cut \subseteq cut', mixed \subseteq mixed'
    PROVE  Follows(c, r, d)'
BY DEF Follows, Opens, Tells, Calls, Answers, ToSay, Alike

\* The rounds stay what they are when the rows do.
LEMMA RoundsStay ==
    ASSUME NEW q, Rounds(q), rows' = rows, cut \subseteq cut', mixed \subseteq mixed'
    PROVE  Rounds(q)'
<1>1. ASSUME NEW k \in 1 .. Len(rows) PROVE Follows(q[k - 1], rows[k], q[k])'
    <2>1. PICK r : r = rows[k]
        OBVIOUS
    <2>2. Follows(q[k - 1], r, q[k])
        BY <2>1 DEF Rounds
    <2>3. Follows(q[k - 1], r, q[k])'
        BY <2>2, FollowsStill
    <2> QED BY <2>1, <2>3
<1> QED BY <1>1 DEF Rounds

\* A row more is a round more.
LEMMA RoundsMore ==
    ASSUME NEW q, Rounds(q), rows \in Seq(Row), NEW r \in Row, NEW p \in Round,
           rows' = Append(rows, r), UNCHANGED <<cut, mixed>>, Follows(q[Len(rows)], r, p)
    PROVE  \E more : Rounds(more)' /\ more[Len(rows')] = p
<1>1. PICK n \in Nat : n = Len(rows)
    BY LenProperties
<1>2. Len(rows') = n + 1 /\ rows'[n + 1] = r /\ \A k \in 1 .. n : rows'[k] = rows[k]
    BY <1>1, AppendProperties
<1>3. q \in [0 .. n -> Round] /\ q[0] = Nothing
    BY <1>1 DEF Rounds
<1>4. PICK more \in [0 .. n + 1 -> Round] :
          more[0] = Nothing /\ more[n + 1] = p /\ \A k \in 0 .. n : more[k] = q[k]
    <2> DEFINE m == [k \in 0 .. n + 1 |-> IF k <= n THEN q[k] ELSE p]
    <2>1. m \in [0 .. n + 1 -> Round]
        BY <1>1, <1>3
    <2>2. m[0] = Nothing /\ m[n + 1] = p /\ \A k \in 0 .. n : m[k] = q[k]
        BY <1>1, <1>3
    <2> HIDE DEF m
    <2> QED BY <2>1, <2>2
<1>5. ASSUME NEW k \in 1 .. n + 1 PROVE Follows(more[k - 1], rows[k], more[k])'
    <2>1. PICK x : x = rows'[k]
        OBVIOUS
    <2>2. Follows(more[k - 1], x, more[k])
        <3>1. CASE k \in 1 .. n
            <4>1. k \in 0 .. n /\ k - 1 \in 0 .. n
                BY <1>1, <3>1
            <4>2. Follows(q[k - 1], rows[k], q[k])
                BY <1>1, <3>1 DEF Rounds
            <4> QED BY <1>2, <1>4, <2>1, <3>1, <4>1, <4>2
        <3>2. CASE k = n + 1
            <4>1. n \in 0 .. n /\ (n + 1) - 1 = n
                BY <1>1
            <4> QED BY <1>1, <1>2, <1>4, <2>1, <3>2, <4>1
        <3>3. k \in 1 .. n \/ k = n + 1
            BY <1>1
        <3> QED BY <3>1, <3>2, <3>3
    <2>3. Follows(more[k - 1], x, more[k])'
        BY <2>2, FollowsStill
    <2> QED BY <2>1, <2>3
<1>6. Rounds(more)'
    BY <1>2, <1>4, <1>5 DEF Rounds
<1> QED BY <1>2, <1>4, <1>6

-----------------------------------------------------------------------------
(* Every step keeps the rounds.                                            *)

\* What is gathered are calls of the rows.
LEMMA GatherIn ==
    ASSUME NEW s \in Seq(Row), NEW X \in SUBSET Call, NEW g, NEW kind,
           \A i \in 1 .. Len(s) : s[i].calls \in Seq(X)
    PROVE  Gather(s, g, kind) \in Seq(X)
<1> DEFINE n == Len(s)
           S == {k \in Nat : k > n \/ Gather(SubSeq(s, 1, k), g, kind) \in Seq(X)}
<1>1. n \in Nat
    BY LenProperties
<1>2. 0 \in S
    <2>1. SubSeq(s, 1, 0) = <<>>
        BY SubSeqEmpty
    <2> QED BY <2>1, GatherEmpty, EmptySeq
<1>3. ASSUME NEW k \in Nat, k \in S PROVE k + 1 \in S
    <2>1. CASE k + 1 > n
        BY <2>1
    <2>2. CASE ~(k + 1 > n)
        <3>1. k \in 0 .. n /\ k + 1 <= n /\ k + 1 \in 1 .. n /\ ~(k > n)
            BY <1>1, <2>2
        <3> DEFINE t == SubSeq(s, 1, k)
        <3>2. t \in Seq(Row) /\ s[k + 1] \in Row /\ SubSeq(s, 1, k + 1) = Append(t, s[k + 1])
            BY <3>1, FirstFacts
        <3>3. Gather(t, g, kind) \in Seq(X)
            BY <1>3, <3>1
        <3> HIDE DEF t
        <3>4. Gather(SubSeq(s, 1, k + 1), g, kind) = Taken(g, kind, s[k + 1], Gather(t, g, kind))
            <4>1. Gather(Append(t, s[k + 1]), g, kind) = Taken(g, kind, s[k + 1], Gather(t, g, kind))
                BY <3>2, GatherAppend
            <4> QED BY <3>2, <4>1
        <3>5. s[k + 1].calls \in Seq(X)
            BY <3>1
        <3>6. Taken(g, kind, s[k + 1], Gather(t, g, kind)) \in Seq(X)
            BY <3>3, <3>5, ConcatProperties DEF Taken
        <3> QED BY <3>4, <3>6
    <2> QED BY <2>1, <2>2
<1> HIDE DEF S
<1>4. n \in S
    BY <1>1, <1>2, <1>3, NatInduct
<1>5. SubSeq(s, 1, n) = s /\ ~(n > n)
    BY <1>1, SubSeqFull
<1> QED BY <1>4, <1>5 DEF S

\* The rows of a response: the calls are the parts', and there are some.
LEMMA ResponseCalls ==
    ASSUME TypeOK, NEW parts \in Responses
    PROVE  /\ \A i \in 1 .. Len(RowsOf(parts)) :
                 /\ RowsOf(parts)[i].by = provider
                 /\ RowsOf(parts)[i].kind = "call" => RowsOf(parts)[i].calls # <<>>
                 /\ RowsOf(parts)[i].calls \in Seq({c \in Call : \E j \in DOMAIN parts : c.tool = parts[j]})
           /\ provider = "openai" => Len(RowsOf(parts)) <= 1
<1>1. PICK n \in Nat \ {0} : /\ parts \in [1 .. n -> Tools \cup {"text"}]
                             /\ provider = "openai" => parts \in [1 .. n -> Tools] \/ parts = <<"text">>
    BY PartsAre
<1>2. DOMAIN parts = 1 .. n /\ Len(parts) = n /\ \A i \in 1 .. n : parts[i] \in Tools \cup {"text"}
    <2>1. parts \in Seq(Tools \cup {"text"})
        BY <1>1 DEF Seq
    <2>2. DOMAIN parts = 1 .. Len(parts) /\ Len(parts) \in Nat
        BY <2>1, LenProperties
    <2>3. DOMAIN parts = 1 .. n
        BY <1>1
    <2> QED BY <1>1, <2>2, <2>3
<1> DEFINE X == {c \in Call : \E j \in DOMAIN parts : c.tool = parts[j]}
<1>3. CASE provider = "openai" /\ parts # <<"text">>
    <2> DEFINE calls == [i \in DOMAIN parts |-> [id |-> <<Len(rows), i>>, tool |-> parts[i]]]
               row == NewRow("call", calls)
    <2>1. calls \in Seq(X) /\ Len(calls) = n
        <3>1. Len(rows) \in Nat
            BY LenProperties DEF TypeOK
        <3>2. calls \in [1 .. n -> X]
            BY <1>1, <1>2, <1>3, <3>1 DEF Call
        <3> HIDE DEF calls, X
        <3>3. calls \in Seq(X)
            BY <3>2 DEF Seq
        <3> QED BY <3>2, <3>3, LenProperties
    <2> HIDE DEF calls, X
    <2>2. calls # <<>>
        BY <2>1, EmptySeq
    <2>3. row.by = provider /\ row.calls = calls
        BY DEF NewRow
    <2>4. RowsOf(parts) = <<row>>
        BY <1>3 DEF RowsOf, calls
    <2> HIDE DEF row
    <2>5. Len(<<row>>) = 1 /\ \A i \in 1 .. 1 : <<row>>[i] = row
        OBVIOUS
    <2> QED BY <2>1, <2>2, <2>3, <2>4, <2>5 DEF X
<1>4. CASE ~(provider = "openai" /\ parts # <<"text">>)
    <2> DEFINE one(i) == IF parts[i] = "text" THEN NewRow("text", <<>>)
                         ELSE NewRow("call", <<[id |-> <<0, 0>>, tool |-> parts[i]]>>)
               W == RowsOf(parts)
    <2>1. W = [i \in 1 .. n |-> one(i)]
        BY <1>2, <1>4 DEF RowsOf
    <2>2. W \in Seq(Row)
        BY ResponseRows
    <2>3. Len(W) = n
        <3>1. DOMAIN W = 1 .. n
            BY <2>1
        <3> HIDE DEF W
        <3> QED BY <2>2, <3>1, LenProperties
    <2>4. ASSUME NEW i \in 1 .. n
          PROVE  /\ one(i).by = provider /\ (one(i).kind = "call" => one(i).calls # <<>>)
                 /\ one(i).calls \in Seq(X)
        <3>1. CASE parts[i] = "text"
            <4>1. one(i) = NewRow("text", <<>>)
                BY <3>1
            <4>2. <<>> \in Seq(X)
                BY EmptySeq
            <4> HIDE DEF one, X
            <4> QED BY <4>1, <4>2 DEF NewRow
        <3>2. CASE parts[i] # "text"
            <4> DEFINE c == [id |-> <<0, 0>>, tool |-> parts[i]]
            <4>1. c \in X
                BY <1>2, <3>2 DEF Call
            <4>2. one(i) = NewRow("call", <<c>>)
                BY <3>2
            <4> HIDE DEF one, X, c
            <4>3. <<c>> \in Seq(X) /\ <<c>> # <<>>
                BY <4>1
            <4> QED BY <4>2, <4>3 DEF NewRow
        <3> QED BY <3>1, <3>2
    <2> HIDE DEF one, X
    <2>5. \A i \in 1 .. n : W[i] = one(i)
        BY <2>1
    <2> HIDE DEF W
    <2>6. provider = "openai" => Len(W) <= 1
        <3>1. provider = "openai" => parts = <<"text">>
            BY <1>4
        <3>2. provider = "openai" => n = 1
            <4>1. Len(<<"text">>) = 1
                OBVIOUS
            <4> QED BY <1>2, <3>1, <4>1
        <3> QED BY <2>3, <3>2
    <2> QED BY <2>3, <2>4, <2>5, <2>6 DEF W, X
<1> QED BY <1>3, <1>4

\* Calls of a response that names only enabled tools, or only unknown ones, are alike.
LEMMA ResponseAlike ==
    ASSUME TypeOK, NEW parts \in Responses, NEW calls,
           calls \in Seq({c \in Call : \E j \in DOMAIN parts : c.tool = parts[j]}),
           ~ \E i, j \in DOMAIN parts : parts[i] \in Enabled /\ parts[j] \in Tools \ Enabled
    PROVE  Alike(calls)
<1>1. DOMAIN calls = 1 .. Len(calls)
    BY LenProperties
<1>2. ASSUME NEW i \in DOMAIN calls PROVE calls[i] \in Call /\ \E j \in DOMAIN parts : calls[i].tool = parts[j]
    BY <1>1, ElementOfSeq
<1>3. \A i \in DOMAIN calls : calls[i].tool \in Tools
    BY <1>2 DEF Call
<1> QED BY <1>2, <1>3 DEF Alike

\* At the start nothing is to be answered.
LEMMA RoundsInit == Init => RInv
<1> SUFFICES ASSUME Init PROVE RInv
    OBVIOUS
<1> DEFINE q == [k \in 0 .. 0 |-> Nothing]
<1>1. IInv
    BY InitInv
<1>2. Len(rows) = 0 /\ rows = <<>>
    BY EmptySeq DEF Init
<1>3. Nothing \in Round /\ 0 \in 0 .. 0
    BY EmptyCalls DEF Nothing, Round, Providers
<1>4. q \in [0 .. 0 -> Round] /\ q[0] = Nothing
    BY <1>3
<1> HIDE DEF q
<1>5. Rounds(q)
    BY <1>2, <1>4 DEF Rounds
<1>6. Now(q[Len(rows)])
    BY <1>2, <1>4 DEF Now, Nothing, Init
<1> QED BY <1>1, <1>5, <1>6 DEF RInv, RoundsInv

\* What is known of the last round.
LEMMA LastRound ==
    ASSUME IInv, NEW q, Rounds(q)
    PROVE  q[Len(rows)] \in Round /\ Len(rows) \in Nat /\ rows \in Seq(Row)
<1>1. rows \in Seq(Row) /\ Len(rows) \in Nat
    BY LenProperties DEF IInv, TypeOK
<1>2. Len(rows) \in 0 .. Len(rows)
    BY <1>1
<1> QED BY <1>1, <1>2 DEF Rounds

\* A turn that ends, answered or cut.
LEMMA QuietRounds ==
    ASSUME IInv', NEW q, Rounds(q), Now(q[Len(rows)]), rows' = rows, turns' = turns,
           cut \subseteq cut', mixed \subseteq mixed', pc' \in {"off", "input"},
           q[Len(rows)].todo # <<>> => q[Len(rows)].group \in cut'
    PROVE  RInv'
<1>1. Rounds(q)'
    BY RoundsStay
<1>2. Now(q[Len(rows)])'
    BY DEF Now
<1> QED BY <1>1, <1>2 DEF RInv, RoundsInv

\* The program starts, stops, or gives a turn up before a response.
LEMMA ControlRounds ==
    ASSUME RInv, IInv', Stop \/ (\E p \in Providers : Start(p)) \/ BadResponse \/ Reject \/ Fail
    PROVE  RInv'
<1>1. PICK q : Rounds(q) /\ Now(q[Len(rows)])
    BY DEF RInv, RoundsInv
<1>2. CASE Stop
    <2>1. q[Len(rows)].todo # <<>> => q[Len(rows)].group \in cut'
        <3>1. ASSUME pc = "scan" PROVE q[Len(rows)].group \in cut'
            BY <1>1, <1>2, <3>1 DEF Now, Stop, RInv, IInv, TurnInv
        <3> QED BY <1>1, <1>2, <3>1 DEF Now, Stop
    <2>2. rows' = rows /\ turns' = turns /\ cut \subseteq cut' /\ mixed \subseteq mixed' /\ pc' = "off"
        BY <1>2 DEF Stop
    <2> QED BY <1>1, <2>1, <2>2, QuietRounds
<1>3. CASE \E p \in Providers : Start(p)
    <2>1. pc = "off" /\ pc' = "input" /\ UNCHANGED <<rows, turns, cut, mixed>>
        BY <1>3 DEF Start, seen
    <2> QED BY <1>1, <2>1, QuietRounds DEF Now
<1>4. CASE BadResponse \/ Reject \/ Fail
    <2>1. pc = "post" /\ pc' = "input" /\ UNCHANGED <<rows, turns, cut, mixed>>
        BY <1>4, Codes DEF BadResponse, Reject, Fail, HandleError, EndTurn, seen
    <2> QED BY <1>1, <2>1, QuietRounds DEF Now
<1> QED BY <1>2, <1>3, <1>4

\* The user's row opens a round.
LEMMA AskRounds == ASSUME RInv, IInv', Ask PROVE RInv'
<1> DEFINE r == [group |-> turns + 1, kind |-> "user", by |-> provider, calls |-> <<>>]
           p == [group |-> turns + 1, by |-> provider, todo |-> <<>>, says |-> "calls"]
<1>1. PICK q : Rounds(q) /\ Now(q[Len(rows)])
    BY DEF RInv, RoundsInv
<1>2. q[Len(rows)] \in Round /\ rows \in Seq(Row)
    BY <1>1, LastRound DEF RInv
<1>3. turns \in Nat /\ turns + 1 \in 0 .. MaxTurns /\ provider \in Providers
    BY BoundsAssumption DEF RInv, IInv, TypeOK, Ask
<1>4. /\ pc = "input" /\ pc' = "post" /\ turns' = turns + 1 /\ group' = turns + 1
      /\ rows' = Append(rows, [NewRow("user", <<>>) EXCEPT !.group = group'])
      /\ UNCHANGED <<cut, mixed, provider>>
    BY DEF Ask
<1>5. rows' = Append(rows, r)
    BY <1>4 DEF NewRow
<1>6. r \in Row /\ p \in Round
    BY <1>3, EmptyCalls DEF Row, Round, Kinds
<1>7. r.group = turns + 1 /\ r.kind = "user" /\ r.by = provider /\ r.calls = <<>>
      /\ p.group = turns + 1 /\ p.by = provider /\ p.todo = <<>> /\ p.says = "calls"
    OBVIOUS
<1> HIDE DEF r, p
<1>8. Follows(q[Len(rows)], r, p)
    <2> DEFINE e == q[Len(rows)]
    <2>1. e.group <= turns /\ e.group \in Nat /\ (e.todo = <<>> \/ e.group \in cut)
        BY <1>1, <1>2, <1>4 DEF Now, Round
    <2>2. turns + 1 > e.group
        BY <1>3, <2>1
    <2> HIDE DEF e
    <2>3. Follows(e, r, p)
        BY <1>7, <2>1, <2>2, NoneAlike DEF Follows, Opens
    <2> QED BY <2>3 DEF e
<1>9. PICK more : Rounds(more)' /\ more[Len(rows')] = p
    BY <1>1, <1>2, <1>4, <1>5, <1>6, <1>8, RoundsMore
<1>10. rows' # <<>> /\ Last(rows') = r
    <2>1. rows' # <<>> /\ Len(rows') = Len(rows) + 1 /\ rows'[Len(rows) + 1] = r
        BY <1>2, <1>5, <1>6, AppendProperties
    <2> QED BY <2>1 DEF Last
<1>11. Now(more[Len(rows)])'
    <2>1. turns + 1 <= turns + 1
        BY <1>3
    <2>2. PICK e : e = p
        OBVIOUS
    <2>3. Now(e)'
        BY <1>4, <1>7, <1>10, <2>1, <2>2 DEF Now
    <2> QED BY <1>9, <2>2, <2>3
<1> QED BY <1>9, <1>11 DEF RInv, RoundsInv

\* The rows of a response wait.
LEMMA ResponseRounds == ASSUME RInv, IInv', NEW parts \in Responses, AcceptResponse(parts) PROVE RInv'
<1>1. PICK q : Rounds(q) /\ Now(q[Len(rows)])
    BY DEF RInv, RoundsInv
<1>2. PICK e : e = q[Len(rows)]
    OBVIOUS
<1>3. PICK W : W = RowsOf(parts)
    OBVIOUS
<1>4. /\ pc = "post" /\ pc' = "scan" /\ writes' = W /\ called' = FALSE
      /\ at' = Len(rows) + 1 /\ last' = Len(rows) + Len(W)
      /\ UNCHANGED <<rows, provider, group, turns, cut>> /\ mixed \subseteq mixed'
    BY <1>3 DEF AcceptResponse, FirstNew
<1>5. rows \in Seq(Row) /\ Len(rows) \in Nat /\ e \in Round /\ TypeOK
    BY <1>1, <1>2, LastRound DEF RInv, IInv
<1>6. /\ W \in Seq(Row) /\ Len(W) \in Nat /\ DOMAIN W = 1 .. Len(W)
      /\ \A i \in 1 .. Len(W) : W[i].group = group /\ W[i].kind \in {"text", "call"}
    BY <1>3, <1>5, ResponseRows, LenProperties
<1>7. /\ \A i \in 1 .. Len(W) :
            /\ W[i].by = provider /\ (W[i].kind = "call" => W[i].calls # <<>>)
            /\ W[i].calls \in Seq({c \in Call : \E j \in DOMAIN parts : c.tool = parts[j]})
      /\ provider = "openai" => Len(W) <= 1
    BY <1>3, <1>5, ResponseCalls
<1>8. /\ e.group <= turns /\ e.group = group /\ e.by = provider /\ rows # <<>> /\ e.todo = <<>>
    <2>1. group \notin cut
        BY DEF RInv, IInv, TurnInv
    <2> QED BY <1>1, <1>2, <1>4, <2>1 DEF Now
<1>9. Rounds(q)'
    BY <1>1, <1>4, RoundsStay
<1> DEFINE G == Gather(W, group, "call")
<1>10. G \in Seq(Call) /\ <<>> \o G = G /\ Gather(W, group, "result") = <<>>
    <2>1. \A i \in 1 .. Len(W) : ~(W[i].group = group /\ W[i].kind = "result")
        BY <1>6
    <2>2. Gather(W, group, "call") \in Seq(Call)
        BY <1>6, GatherType
    <2> QED BY <1>6, <2>1, <2>2, GatherNone, ConcatEmptySeq
<1>11. group \in mixed' \/ Alike(G)
    <2>1. CASE \E i, j \in DOMAIN parts : parts[i] \in Enabled /\ parts[j] \in Tools \ Enabled
        BY <2>1 DEF AcceptResponse
    <2>2. CASE ~ \E i, j \in DOMAIN parts : parts[i] \in Enabled /\ parts[j] \in Tools \ Enabled
        <3> DEFINE X == {c \in Call : \E j \in DOMAIN parts : c.tool = parts[j]}
        <3>1. X \in SUBSET Call
            OBVIOUS
        <3>2. \A i \in 1 .. Len(W) : W[i].calls \in Seq(X)
            BY <1>7
        <3> HIDE DEF X
        <3>3. Gather(W, group, "call") \in Seq(X)
            BY <1>6, <3>1, <3>2, GatherIn
        <3> QED BY <1>5, <2>2, <3>3, ResponseAlike DEF X
    <2> QED BY <2>1, <2>2
<1>12. /\ SubSeq(rows \o W, Len(rows) + 1, Len(rows) + Len(W)) = W
       /\ \A i \in Len(rows) + 1 .. Len(rows) + Len(W) : (rows \o W)[i] \in {W[j] : j \in 1 .. Len(W)}
    <2> DEFINE s == rows \o W
               n == Len(rows)
    <2>1. /\ s \in Seq(Row) /\ Len(s) = n + Len(W)
          /\ \A i \in 1 .. n + Len(W) : s[i] = IF i <= n THEN rows[i] ELSE W[i - n]
        BY <1>5, <1>6, ConcatProperties
    <2> HIDE DEF s
    <2>2. n \in 0 .. Len(s)
        BY <1>5, <1>6, <2>1
    <2>3. /\ SubSeq(s, n + 1, Len(s)) \in Seq(Row) /\ Len(SubSeq(s, n + 1, Len(s))) = Len(s) - n
          /\ \A i \in 1 .. Len(s) - n : SubSeq(s, n + 1, Len(s))[i] = s[n + i]
        BY <2>1, <2>2, SplitAt
    <2>4. ASSUME NEW i \in 1 .. Len(W) PROVE n + i \in 1 .. n + Len(W) /\ s[n + i] = W[i]
        <3>1. n + i \in 1 .. n + Len(W) /\ ~(n + i <= n) /\ (n + i) - n = i
            BY <1>5, <1>6
        <3> QED BY <2>1, <3>1
    <2>5. Len(s) - n = Len(W)
        BY <1>5, <1>6, <2>1
    <2>6. SubSeq(s, n + 1, Len(s)) = W
        BY <1>6, <2>3, <2>4, <2>5, SeqEqual
    <2>7. ASSUME NEW i \in n + 1 .. n + Len(W) PROVE s[i] \in {W[j] : j \in 1 .. Len(W)}
        <3>1. i - n \in 1 .. Len(W) /\ n + (i - n) = i
            BY <1>5, <1>6
        <3> QED BY <2>4, <3>1
    <2> QED BY <2>1, <2>6, <2>7 DEF s
<1>13. Due' = W /\ \A i \in at' .. last' : All'[i] \in {W[j] : j \in 1 .. Len(W)}
    BY <1>4, <1>12 DEF Due, All
<1>14. ScanNow(e)'
    <2>1. <<>> \o G = Gather(W, group, "result") \o Gather(W, group, "call")
        BY <1>10
    <2>2. Alike(e.todo \o G) \/ group \in mixed'
        BY <1>8, <1>10, <1>11
    <2> HIDE DEF G
    <2>3. Responds(e)'
        <3>1. \A i \in DOMAIN W : W[i].kind \in {"text", "call"} /\ (W[i].kind = "call" => W[i].calls # <<>>)
            BY <1>6, <1>7
        <3> QED BY <1>4, <1>7, <1>8, <3>1 DEF Responds, ToSay
    <2>4. \A i \in DOMAIN W : W[i].by = provider
        BY <1>6, <1>7
    <2>5. \A i \in at' .. last' : All'[i].by = provider /\ (All'[i].kind = "call" => All'[i].calls # <<>>)
        BY <1>7, <1>13
    <2>6. (e.todo \o Gather(writes, group, "call") = Gather(writes, group, "result") \o Gather(Due, group, "call"))'
        BY <1>4, <1>8, <1>13, <2>1 DEF G
    <2>7. (group \in mixed \/ Alike(e.todo \o Gather(writes, group, "call")))'
        BY <1>4, <2>2 DEF G, Alike
    <2> QED BY <1>4, <2>3, <2>4, <2>5, <2>6, <2>7 DEF ScanNow
<1>15. Now(e)'
    BY <1>4, <1>8, <1>14 DEF Now
<1> QED BY <1>2, <1>4, <1>9, <1>15 DEF RInv, RoundsInv

\* An element before a sequence is its head.
LEMMA HeadBefore ==
    ASSUME NEW S, NEW c \in S, NEW x \in Seq(S)
    PROVE  /\ <<c>> \o x \in Seq(S) /\ <<c>> \o x # <<>>
           /\ Head(<<c>> \o x) = c /\ Tail(<<c>> \o x) = x
<1> DEFINE s == <<c>> \o x
<1>1. <<c>> \in Seq(S) /\ Len(<<c>>) = 1 /\ <<c>>[1] = c
    OBVIOUS
<1>2. /\ s \in Seq(S) /\ Len(s) = 1 + Len(x) /\ Len(x) \in Nat
      /\ \A i \in 1 .. 1 + Len(x) : s[i] = IF i <= 1 THEN <<c>>[i] ELSE x[i - 1]
    BY <1>1, ConcatProperties, LenProperties
<1> HIDE DEF s
<1>3. 1 \in 1 .. 1 + Len(x) /\ Len(s) # 0
    BY <1>2
<1>4. s[1] = c /\ s # <<>>
    BY <1>1, <1>2, <1>3, EmptySeq
<1>5. Head(s) = s[1] /\ s = <<Head(s)>> \o Tail(s) /\ Tail(s) \in Seq(S)
    BY <1>2, <1>4, HeadAndTail
<1>6. <<c>> \o Tail(s) = <<c>> \o x
    BY <1>4, <1>5 DEF s
<1>7. Tail(s) = x
    BY <1>1, <1>5, <1>6, ConcatSimplifications
<1> QED BY <1>2, <1>4, <1>5, <1>7 DEF s

\* A row of the response tells or calls, a row of a dispatch answers the next call.
LEMMA NextRound ==
    ASSUME IInv, AppendMessage, pc = "scan", NEW e \in Round, Now(e),
           NEW r \in Row, r = Head(writes), NEW t \in Seq(Row), t = Tail(writes), NEW d \in Seq(Call),
           d = Gather(Due, group, "call")
    PROVE  \E p \in Round :
              /\ Follows(e, r, p) /\ p.group = group /\ p.by = provider
              /\ p.todo \o Gather(t, group, "call") = Gather(t, group, "result") \o d
              /\ group \in mixed \/ Alike(p.todo \o Gather(t, group, "call"))
              /\ Responds(p)' \/ Reports'
<1>1. /\ writes \in Seq(Row) /\ writes # <<>> /\ provider \in Providers /\ writes' = t
      /\ UNCHANGED <<provider, group, mixed, cut>>
    BY DEF IInv, TypeOK, AppendMessage, engine, seen
<1>2. /\ r = writes[1] /\ Len(writes) \in Nat \ {0} /\ Len(t) = Len(writes) - 1
      /\ \A i \in 1 .. Len(writes) - 1 : t[i] = writes[i + 1]
    BY <1>1, HeadAndTail
<1>3. /\ DOMAIN writes = 1 .. Len(writes) /\ 1 \in DOMAIN writes /\ DOMAIN t = 1 .. Len(t)
      /\ \A i \in DOMAIN t : i + 1 \in DOMAIN writes /\ t[i] = writes[i + 1]
    <2>1. DOMAIN writes = 1 .. Len(writes) /\ DOMAIN t = 1 .. Len(t)
        BY <1>1, LenProperties
    <2> QED BY <1>2, <2>1
<1>4. /\ e.group = group /\ e.by = provider /\ e.todo \in Seq(Call) /\ ScanNow(e)
      /\ e.group \in Nat
    BY DEF Now, Round
<1>5. r.group = group /\ r.by = provider /\ r.calls \in Seq(Call)
    BY <1>2, <1>3, <1>4 DEF ScanNow, IInv, ScanInv, Row
<1> DEFINE GC == Gather(t, group, "call")
           GR == Gather(t, group, "result")
<1>6. /\ Gather(writes, group, "call") = Taken(group, "call", r, <<>>) \o GC
      /\ Gather(writes, group, "result") = Taken(group, "result", r, <<>>) \o GR
      /\ GC \in Seq(Call) /\ GR \in Seq(Call)
    BY <1>1, GatherFirst, GatherType
<1>7. /\ e.todo \o Gather(writes, group, "call") = Gather(writes, group, "result") \o d
      /\ group \in mixed \/ Alike(e.todo \o Gather(writes, group, "call"))
      /\ Responds(e) \/ Reports
    BY <1>4 DEF ScanNow
<1>8. /\ <<>> \o r.calls = r.calls /\ <<>> \o GC = GC /\ e.todo \o <<>> = e.todo /\ <<>> \o d = d
      /\ <<>> \in Seq(Call)
    BY <1>4, <1>5, <1>6, ConcatEmptySeq, EmptySeq
<1>9. CASE Responds(e)
    <2>1. /\ r.kind \in {"text", "call"} /\ ToSay(e) /\ (r.kind = "call" => r.calls # <<>>)
          /\ \A i \in DOMAIN t : /\ t[i].kind \in {"text", "call"}
                                 /\ t[i].kind = "call" => t[i].calls # <<>>
          /\ provider = "openai" => Len(writes) <= 1
        BY <1>1, <1>2, <1>3, <1>9 DEF Responds
    <2>2. GR = <<>>
        <3>1. \A i \in 1 .. Len(t) : ~(t[i].group = group /\ t[i].kind = "result")
            BY <1>3, <2>1
        <3> QED BY <3>1, GatherNone
    <2>3. Gather(writes, group, "result") = <<>>
        <3>1. Taken(group, "result", r, <<>>) = <<>>
            BY <2>1 DEF Taken
        <3>2. <<>> \o <<>> = <<>>
            BY <1>8, ConcatEmptySeq
        <3> QED BY <1>6, <2>2, <3>1, <3>2
    <2>4. t # <<>> => provider = "gemini"
        <3>1. provider = "openai" => Len(t) = 0
            BY <1>2, <2>1
        <3>2. Len(t) = 0 => t = <<>>
            BY EmptySeq
        <3> QED BY <1>1, <3>1, <3>2 DEF Providers
    <2>5. provider = "openai" => Len(t) <= 1
        BY <1>2, <2>1
    <2> HIDE DEF GC, GR
    <2>6. ASSUME NEW p \in Round, p.by = provider, p.says = "calls" PROVE Responds(p)'
        BY <1>1, <2>1, <2>4, <2>5, <2>6 DEF Responds, ToSay
    <2>7. CASE r.kind = "text"
        <3> DEFINE p == [group |-> group, by |-> provider, todo |-> e.todo, says |-> "calls"]
        <3>1. p \in Round
            BY <1>1, <1>4 DEF Round
        <3>2. p.group = group /\ p.by = provider /\ p.todo = e.todo /\ p.says = "calls"
            OBVIOUS
        <3> HIDE DEF p
        <3>3. Gather(writes, group, "call") = GC
            BY <1>6, <1>8, <2>7 DEF Taken
        <3>4. p.todo \o GC = GR \o d
            BY <1>7, <2>2, <2>3, <3>2, <3>3
        <3>5. group \in mixed \/ Alike(p.todo \o GC)
            BY <1>7, <3>2, <3>3
        <3>6. group \in mixed \/ Alike(p.todo)
            BY <1>4, <1>6, <3>2, <3>5, PartsAlike
        <3>7. Follows(e, r, p)
            BY <1>4, <1>5, <2>1, <2>7, <3>2, <3>6 DEF Follows, Tells
        <3> QED BY <2>6, <3>1, <3>2, <3>4, <3>5, <3>7 DEF GC, GR
    <2>8. CASE r.kind = "call"
        <3> DEFINE p == [group |-> group, by |-> provider, todo |-> e.todo \o r.calls, says |-> "calls"]
        <3>0. e.todo \o r.calls \in Seq(Call)
            BY <1>4, <1>5, ConcatProperties
        <3>1. p \in Round
            BY <1>1, <1>4, <3>0 DEF Round
        <3>2. p.group = group /\ p.by = provider /\ p.todo = e.todo \o r.calls /\ p.says = "calls"
            OBVIOUS
        <3> HIDE DEF p
        <3>3. e.todo \o Gather(writes, group, "call") = p.todo \o GC
            <4>1. Gather(writes, group, "call") = r.calls \o GC
                BY <1>5, <1>6, <1>8, <2>8 DEF Taken
            <4>2. (e.todo \o r.calls) \o GC = e.todo \o (r.calls \o GC)
                BY <1>4, <1>5, <1>6, CallsAssociate
            <4> QED BY <3>2, <4>1, <4>2
        <3>4. p.todo \o GC = GR \o d
            BY <1>7, <2>2, <2>3, <3>3
        <3>5. group \in mixed \/ Alike(p.todo \o GC)
            BY <1>7, <3>3
        <3>6. group \in mixed \/ Alike(p.todo)
            BY <1>6, <3>0, <3>2, <3>5, PartsAlike
        <3>7. Follows(e, r, p)
            BY <1>4, <1>5, <2>1, <2>8, <3>2, <3>6 DEF Follows, Calls
        <3> QED BY <2>6, <3>1, <3>2, <3>4, <3>5, <3>7 DEF GC, GR
    <2> QED BY <2>1, <2>7, <2>8
<1>10. CASE Reports
    <2>1. r.kind = "result" /\ Len(r.calls) = 1 /\ \A i \in DOMAIN t : t[i].kind = "result" /\ Len(t[i].calls) = 1
        BY <1>2, <1>3, <1>10 DEF Reports
    <2>2. Reports'
        BY <1>1, <2>1 DEF Reports
    <2>3. GC = <<>>
        <3>1. \A i \in 1 .. Len(t) : ~(t[i].group = group /\ t[i].kind = "call")
            BY <1>3, <2>1
        <3> QED BY <3>1, GatherNone
    <2>4. Gather(writes, group, "call") = <<>>
        <3>1. \A i \in 1 .. Len(writes) : ~(writes[i].group = group /\ writes[i].kind = "call")
            BY <1>3, <1>10 DEF Reports
        <3> QED BY <1>1, <3>1, GatherNone
    <2>5. PICK c \in Call : r.calls = <<c>>
        <3>1. r.calls[1] \in Call
            BY <1>5, <2>1, ElementOfSeq
        <3>2. r.calls = <<r.calls[1]>>
            <4> DEFINE a == r.calls
                       b == <<a[1]>>
            <4>1. b \in Seq(Call) /\ Len(b) = 1 /\ b[1] = a[1]
                BY <3>1
            <4>2. \A i \in 1 .. 1 : i = 1
                OBVIOUS
            <4>3. a \in Seq(Call) /\ Len(a) = 1
                BY <1>5, <2>1
            <4> HIDE DEF a, b
            <4>4. a = b
                BY <4>1, <4>2, <4>3, SeqEqual
            <4> QED BY <4>4 DEF a, b
        <3> QED BY <3>1, <3>2
    <2> HIDE DEF GC, GR
    <2>6. Gather(writes, group, "result") = <<c>> \o GR
        BY <1>5, <1>6, <1>8, <2>1, <2>5 DEF Taken
    <2>7. e.todo = <<c>> \o (GR \o d)
        <3>1. e.todo = (<<c>> \o GR) \o d
            BY <1>7, <1>8, <2>4, <2>6
        <3>2. <<c>> \in Seq(Call)
            BY <2>5
        <3> QED BY <1>6, <3>1, <3>2, CallsAssociate
    <2>8. GR \o d \in Seq(Call) /\ <<c>> \in Seq(Call)
        BY <1>6, <2>5, ConcatProperties
    <2>9. e.todo # <<>> /\ Head(e.todo) = c /\ Tail(e.todo) = GR \o d
        BY <2>7, <2>8, HeadBefore
    <2> DEFINE p == [group |-> group, by |-> provider, todo |-> GR \o d, says |-> "results"]
    <2>10. p \in Round
        BY <1>1, <1>4, <2>8 DEF Round
    <2>11. p.group = group /\ p.by = provider /\ p.todo = GR \o d /\ p.says = "results"
        OBVIOUS
    <2> HIDE DEF p
    <2>12. p.todo \o GC = GR \o d
        <3>1. (GR \o d) \o <<>> = GR \o d
            BY <2>8, ConcatEmptySeq
        <3> QED BY <2>3, <2>11, <3>1
    <2>13. group \in mixed \/ Alike(GR \o d)
        <3>1. group \in mixed \/ Alike(<<c>> \o (GR \o d))
            BY <1>7, <1>8, <2>4, <2>7
        <3> QED BY <2>8, <3>1, PartsAlike
    <2>14. Follows(e, r, p)
        BY <1>4, <1>5, <2>1, <2>5, <2>9, <2>11, <2>13 DEF Follows, Answers
    <2> QED BY <2>2, <2>10, <2>11, <2>12, <2>13, <2>14 DEF GC, GR
<1> QED BY <1>7, <1>9, <1>10

\* The rows not dispatched are rows.
LEMMA DueTyped == ASSUME IInv, pc = "scan" PROVE Due \in Seq(Row)
<1>1. All \in Seq(Row) /\ Len(All) \in Nat
    BY RoomForAll DEF IInv
<1>2. at \in Nat \ {0} /\ last \in Nat /\ last <= Len(All)
    BY BoundsAssumption DEF IInv, TypeOK, ScanInv
<1>3. at \in Int /\ last \in Int /\ \A i \in at .. last : i \in 1 .. Len(All)
    BY <1>1, <1>2
<1>4. \A i \in at .. last : All[i] \in Row
    BY <1>1, <1>3, ElementOfSeq
<1> QED BY <1>3, <1>4, SubSeqProperties DEF Due

\* A row of the turn is stored.
LEMMA AppendRounds == ASSUME RInv, IInv', AppendMessage PROVE RInv'
<1>1. PICK q : Rounds(q) /\ Now(q[Len(rows)])
    BY DEF RInv, RoundsInv
<1>2. PICK e : e = q[Len(rows)]
    OBVIOUS
<1>3. e \in Round /\ rows \in Seq(Row) /\ writes \in Seq(Row) /\ IInv /\ Now(e)
    BY <1>1, <1>2, LastRound DEF RInv, IInv, TypeOK
<1>4. PICK r, t : r = Head(writes) /\ t = Tail(writes)
    OBVIOUS
<1>5. /\ pc = "scan" /\ writes # <<>> /\ rows' = Append(rows, r) /\ writes' = t
      /\ UNCHANGED <<pc, provider, group, at, last, called, turns, cut, mixed>>
    BY <1>3, <1>4 DEF AppendMessage, IInv, TurnInv, engine, seen
<1>6. r \in Row /\ t \in Seq(Row)
    BY <1>3, <1>4, <1>5, HeadAndTail
<1>7. All' = All /\ Due' = Due
    BY <1>3, <1>5, AllStays DEF Due
<1>8. PICK d \in Seq(Call) : d = Gather(Due, group, "call")
    <2>1. Due \in Seq(Row)
        BY <1>3, <1>5, DueTyped
    <2> QED BY <2>1, GatherType
<1>9. PICK p \in Round :
          /\ Follows(e, r, p) /\ p.group = group /\ p.by = provider
          /\ p.todo \o Gather(t, group, "call") = Gather(t, group, "result") \o d
          /\ group \in mixed \/ Alike(p.todo \o Gather(t, group, "call"))
          /\ Responds(p)' \/ Reports'
    BY <1>3, <1>4, <1>5, <1>6, <1>8, NextRound
<1>10. PICK more : Rounds(more)' /\ more[Len(rows')] = p
    BY <1>1, <1>2, <1>3, <1>5, <1>6, <1>9, RoundsMore
<1>11. rows' # <<>>
    BY <1>3, <1>5, <1>6, AppendProperties
<1>12. ScanNow(p)'
    <2>1. \A i \in DOMAIN t : t[i].by = provider
        <3>1. Len(writes) \in Nat /\ Len(t) = Len(writes) - 1 /\ \A i \in 1 .. Len(writes) - 1 : t[i] = writes[i + 1]
            BY <1>3, <1>4, <1>5, HeadAndTail
        <3>2. DOMAIN t = 1 .. Len(t) /\ DOMAIN writes = 1 .. Len(writes)
            BY <1>3, <1>6, LenProperties
        <3>3. \A i \in DOMAIN t : i + 1 \in DOMAIN writes /\ t[i] = writes[i + 1]
            BY <3>1, <3>2
        <3> QED BY <1>3, <1>5, <3>3 DEF Now, ScanNow
    <2>2. /\ \A i \in at .. last : All[i].by = provider /\ (All[i].kind = "call" => All[i].calls # <<>>)
          /\ called => Last(All).kind = "result"
        BY <1>3, <1>5 DEF Now, ScanNow
    <2>3. (p.todo \o Gather(writes, group, "call") = Gather(writes, group, "result") \o Gather(Due, group, "call"))'
        BY <1>5, <1>7, <1>8, <1>9
    <2>4. (group \in mixed \/ Alike(p.todo \o Gather(writes, group, "call")))'
        BY <1>5, <1>9 DEF Alike
    <2> QED BY <1>5, <1>7, <1>9, <2>1, <2>2, <2>3, <2>4 DEF ScanNow
<1>13. Now(p)'
    BY <1>3, <1>5, <1>9, <1>11, <1>12 DEF Now
<1>14. Now(more[Len(rows)])'
    BY <1>10, <1>13
<1> QED BY <1>10, <1>14 DEF RInv, RoundsInv

\* In the loop: the round, and the rows not dispatched.
LEMMA ScanRound ==
    ASSUME RInv, Scanning
    PROVE  \E q : /\ Rounds(q) /\ Now(q[Len(rows)]) /\ q[Len(rows)] \in Round
                  /\ q[Len(rows)].todo = Gather(SubSeq(rows, at, last), group, "call")
                  /\ q[Len(rows)].group = group /\ q[Len(rows)].by = provider
                  /\ group \in mixed \/ Alike(q[Len(rows)].todo)
                  /\ \A i \in at .. last : /\ rows[i].by = provider
                                           /\ rows[i].kind = "call" => rows[i].calls # <<>>
                  /\ called => Last(rows).kind = "result"
<1>1. PICK q : Rounds(q) /\ Now(q[Len(rows)])
    BY DEF RInv, RoundsInv
<1>2. PICK e : e = q[Len(rows)]
    OBVIOUS
<1>3. e \in Round /\ Now(e)
    BY <1>1, <1>2, LastRound DEF RInv
<1>4. pc = "scan" /\ writes = <<>> /\ All = rows
    BY ScanFacts DEF RInv
<1>5. ScanNow(e) /\ e.group = group /\ e.by = provider
    BY <1>3, <1>4 DEF Now
<1>6. Gather(writes, group, "call") = <<>> /\ Gather(writes, group, "result") = <<>>
    BY <1>4, GatherEmpty
<1>7. e.todo \o <<>> = e.todo
    BY <1>3, ConcatEmptySeq DEF Round
<1>8. Due = SubSeq(rows, at, last)
    BY <1>4 DEF Due
<1>9. Gather(Due, group, "call") \in Seq(Call)
    <2>1. Due \in Seq(Row)
        BY <1>4, DueTyped DEF RInv
    <2> QED BY <2>1, GatherType
<1>10. <<>> \o Gather(Due, group, "call") = Gather(Due, group, "call")
    BY <1>9, ConcatEmptySeq
<1>11. e.todo = Gather(SubSeq(rows, at, last), group, "call")
    BY <1>5, <1>6, <1>7, <1>8, <1>10 DEF ScanNow
<1>12. /\ group \in mixed \/ Alike(e.todo)
       /\ \A i \in at .. last : rows[i].by = provider /\ (rows[i].kind = "call" => rows[i].calls # <<>>)
       /\ called => Last(rows).kind = "result"
    BY <1>4, <1>5, <1>6, <1>7 DEF ScanNow
<1> QED BY <1>1, <1>2, <1>3, <1>5, <1>11, <1>12

\* The next row of the loop, and the rest.
LEMMA NextDue ==
    ASSUME IInv, Scanning, at <= last
    PROVE  /\ rows[at] \in Row /\ rows[at].group = group
           /\ SubSeq(rows, at + 1, last) \in Seq(Row)
           /\ Gather(SubSeq(rows, at, last), group, "call")
              = Taken(group, "call", rows[at], <<>>) \o Gather(SubSeq(rows, at + 1, last), group, "call")
<1>1. /\ rows \in Seq(Row) /\ Len(rows) \in Nat /\ at \in Nat \ {0} /\ last \in Nat /\ last <= Len(rows)
      /\ \A i \in at .. last : rows[i].group = group
    BY ScanFacts
<1>2. at \in 1 .. Len(rows) /\ last \in at .. Len(rows) /\ at \in at .. last
    BY <1>1
<1>3. SubSeq(rows, at, last) = <<rows[at]>> \o SubSeq(rows, at + 1, last)
    BY <1>1, <1>2, SubSeqRecursiveFirst
<1>4. rows[at] \in Row /\ rows[at].group = group
    BY <1>1, <1>2, ElementOfSeq
<1>5. SubSeq(rows, at + 1, last) \in Seq(Row)
    <2>1. at + 1 \in Int /\ last \in Int /\ \A i \in at + 1 .. last : i \in 1 .. Len(rows)
        BY <1>1
    <2>2. \A i \in at + 1 .. last : rows[i] \in Row
        BY <1>1, <2>1, ElementOfSeq
    <2> QED BY <2>1, <2>2, SubSeqProperties
<1>6. <<rows[at]>> \in Seq(Row)
    BY <1>4
<1>7. Splits(<<rows[at]>>, SubSeq(rows, at + 1, last), group, "call")
    BY <1>5, <1>6, GatherConcat
<1>8. Gather(<<rows[at]>>, group, "call") = Taken(group, "call", rows[at], <<>>)
    BY <1>4, GatherOne
<1> QED BY <1>3, <1>4, <1>5, <1>7, <1>8 DEF Splits

\* A row of calls is dispatched: its results answer the next calls.
LEMMA DispatchRounds == ASSUME RInv, IInv', Dispatch PROVE RInv'
<1>1. Scanning /\ at <= last /\ rows[at].kind = "call" /\ IInv
    BY DEF Dispatch, RInv
<1>2. PICK q : /\ Rounds(q) /\ Now(q[Len(rows)]) /\ q[Len(rows)] \in Round
               /\ q[Len(rows)].todo = Gather(SubSeq(rows, at, last), group, "call")
               /\ q[Len(rows)].group = group /\ q[Len(rows)].by = provider
               /\ group \in mixed \/ Alike(q[Len(rows)].todo)
               /\ \A i \in at .. last : /\ rows[i].by = provider
                                        /\ rows[i].kind = "call" => rows[i].calls # <<>>
    BY <1>1, ScanRound
<1>3. PICK e : e = q[Len(rows)]
    OBVIOUS
<1>4. PICK r, W : r = rows[at] /\ W = ResultsFor(r)
    OBVIOUS
<1>5. /\ pc = "scan" /\ pc' = "scan" /\ writes' = W /\ at' = at + 1 /\ called' = TRUE
      /\ UNCHANGED <<rows, provider, group, last, turns, cut, mixed>>
    BY <1>1, <1>4, ScanFacts DEF Dispatch, seen
<1>6. /\ rows \in Seq(Row) /\ Len(rows) \in Nat /\ at \in Nat \ {0} /\ last \in Nat /\ last <= Len(rows)
      /\ TypeOK
    BY <1>1, ScanFacts DEF IInv
<1>7. /\ r \in Row /\ r.group = group /\ r.kind = "call"
      /\ SubSeq(rows, at + 1, last) \in Seq(Row)
      /\ Gather(SubSeq(rows, at, last), group, "call")
         = Taken(group, "call", r, <<>>) \o Gather(SubSeq(rows, at + 1, last), group, "call")
    BY <1>1, <1>4, NextDue
<1>8. r.by = provider /\ r.calls # <<>> /\ r.calls \in Seq(Call) /\ <<>> \o r.calls = r.calls
    <2>1. at \in at .. last
        BY <1>1, <1>6
    <2>2. r.by = provider /\ r.calls # <<>>
        BY <1>1, <1>2, <1>4, <2>1
    <2>3. r.calls \in Seq(Call)
        BY <1>7 DEF Row
    <2> QED BY <2>2, <2>3, ConcatEmptySeq
<1>9. /\ W \in Seq(Row) /\ Len(W) = Len(r.calls) /\ Len(r.calls) \in Nat /\ DOMAIN W = 1 .. Len(W)
      /\ \A i \in 1 .. Len(W) : W[i].group = group /\ W[i].kind = "result"
      /\ Gather(W, group, "result") = r.calls /\ Gather(W, group, "call") = <<>>
    BY <1>4, <1>6, <1>7, ResultRows, LenProperties
<1>10. \A i \in 1 .. Len(W) : W[i].by = provider /\ Len(W[i].calls) = 1
    <2>1. DOMAIN r.calls = 1 .. Len(W)
        BY <1>8, <1>9, LenProperties
    <2>2. \A i \in 1 .. Len(W) : W[i].by = r.by /\ W[i].calls = <<r.calls[i]>>
        BY <1>4, <2>1 DEF ResultsFor
    <2>3. \A c : Len(<<c>>) = 1
        OBVIOUS
    <2> QED BY <1>8, <2>2, <2>3
<1>11. /\ All' = rows \o W /\ All' \in Seq(Row) /\ Len(All') = Len(rows) + Len(W)
       /\ \A i \in 1 .. Len(rows) + Len(W) : All'[i] = IF i <= Len(rows) THEN rows[i] ELSE W[i - Len(rows)]
    <2>1. All' = rows \o W
        BY <1>5 DEF All
    <2> QED BY <1>6, <1>9, <2>1, ConcatProperties
<1>12. \A i \in at + 1 .. last : All'[i] = rows[i] /\ i \in at .. last /\ i \in 1 .. Len(rows)
    <2>1. \A i \in at + 1 .. last : i \in 1 .. Len(rows) + Len(W) /\ i <= Len(rows) /\ i \in at .. last /\ i \in 1 .. Len(rows)
        BY <1>6, <1>9
    <2> QED BY <1>11, <2>1
<1>13. Due' = SubSeq(rows, at + 1, last)
    <2> DEFINE a == SubSeq(All', at + 1, last)
               b == SubSeq(rows, at + 1, last)
               m == last - (at + 1) + 1
    <2>1. \A i \in at + 1 .. last : rows[i] \in Row
        BY <1>6, <1>12, ElementOfSeq
    <2>2. at + 1 \in Int /\ last \in Int
        BY <1>6
    <2>3. /\ a \in Seq(Row) /\ Len(a) = (IF at + 1 <= last THEN m ELSE 0)
          /\ \A i \in 1 .. m : a[i] = All'[(at + 1) + i - 1]
        BY <1>12, <2>1, <2>2, SubSeqProperties
    <2>4. /\ b \in Seq(Row) /\ Len(b) = (IF at + 1 <= last THEN m ELSE 0)
          /\ \A i \in 1 .. m : b[i] = rows[(at + 1) + i - 1]
        BY <2>1, <2>2, SubSeqProperties
    <2>5. \A i \in 1 .. Len(a) : i \in 1 .. m /\ (at + 1) + i - 1 \in at + 1 .. last
        BY <2>2, <2>3
    <2> HIDE DEF a, b, m
    <2>6. a = b
        <3>1. \A i \in 1 .. Len(a) : a[i] = b[i]
            BY <1>12, <2>3, <2>4, <2>5
        <3> QED BY <2>3, <2>4, <3>1, SeqEqual
    <2> QED BY <1>5, <2>6 DEF Due, a, b
<1>14. e.todo = r.calls \o Gather(Due', group, "call") /\ e.todo \in Seq(Call)
    BY <1>2, <1>3, <1>7, <1>8, <1>13 DEF Taken, Round
<1>15. e.todo \o <<>> = e.todo
    BY <1>14, ConcatEmptySeq
<1>16. ScanNow(e)'
    <2>1. (e.todo \o Gather(writes, group, "call") = Gather(writes, group, "result") \o Gather(Due, group, "call"))'
        BY <1>5, <1>9, <1>14, <1>15
    <2>2. (group \in mixed \/ Alike(e.todo \o Gather(writes, group, "call")))'
        BY <1>2, <1>3, <1>5, <1>9, <1>15 DEF Alike
    <2>3. Reports' /\ \A i \in DOMAIN writes' : writes'[i].by = provider
        BY <1>5, <1>9, <1>10 DEF Reports
    <2>4. \A i \in at' .. last' : All'[i].by = provider /\ (All'[i].kind = "call" => All'[i].calls # <<>>)
        BY <1>2, <1>5, <1>12
    <2>5. Last(All').kind = "result"
        <3>1. Len(W) # 0
            BY <1>8, <1>9, EmptySeq
        <3>2. /\ Len(rows) + Len(W) \in 1 .. Len(rows) + Len(W) /\ ~(Len(rows) + Len(W) <= Len(rows))
              /\ (Len(rows) + Len(W)) - Len(rows) = Len(W) /\ Len(W) \in 1 .. Len(W)
            BY <1>6, <1>9, <3>1
        <3>3. All'[Len(All')] = W[Len(W)]
            BY <1>11, <3>2
        <3> QED BY <1>9, <3>2, <3>3 DEF Last
    <2> QED BY <1>5, <2>1, <2>2, <2>3, <2>4, <2>5 DEF ScanNow
<1>17. Rounds(q)'
    BY <1>2, <1>5, RoundsStay
<1>18. Now(e)'
    BY <1>2, <1>3, <1>5, <1>16 DEF Now
<1> QED BY <1>3, <1>5, <1>17, <1>18 DEF RInv, RoundsInv

\* A row that calls nothing is passed over.
LEMMA PassOverRounds == ASSUME RInv, IInv', PassOver PROVE RInv'
<1>1. Scanning /\ at <= last /\ rows[at].kind # "call" /\ IInv
    BY DEF PassOver, RInv
<1>2. PICK q : /\ Rounds(q) /\ Now(q[Len(rows)]) /\ q[Len(rows)] \in Round
               /\ q[Len(rows)].todo = Gather(SubSeq(rows, at, last), group, "call")
               /\ q[Len(rows)].group = group /\ q[Len(rows)].by = provider
               /\ group \in mixed \/ Alike(q[Len(rows)].todo)
               /\ \A i \in at .. last : /\ rows[i].by = provider
                                        /\ rows[i].kind = "call" => rows[i].calls # <<>>
               /\ called => Last(rows).kind = "result"
    BY <1>1, ScanRound
<1>3. PICK e : e = q[Len(rows)]
    OBVIOUS
<1>4. /\ pc = "scan" /\ pc' = "scan" /\ writes = <<>> /\ at' = at + 1 /\ All = rows
      /\ UNCHANGED <<rows, writes, provider, group, last, called, turns, cut, mixed>>
    BY <1>1, ScanFacts DEF PassOver, seen
<1>5. All' = rows /\ Due' = SubSeq(rows, at + 1, last)
    <2>1. All' = All
        BY <1>4 DEF All
    <2> QED BY <1>4, <2>1 DEF Due
<1>6. /\ SubSeq(rows, at + 1, last) \in Seq(Row)
      /\ Gather(SubSeq(rows, at, last), group, "call")
         = Taken(group, "call", rows[at], <<>>) \o Gather(SubSeq(rows, at + 1, last), group, "call")
    BY <1>1, NextDue
<1>7. Gather(Due', group, "call") \in Seq(Call)
    BY <1>5, <1>6, GatherType
<1>8. <<>> \o Gather(Due', group, "call") = Gather(Due', group, "call")
    BY <1>7, ConcatEmptySeq
<1>9. e.todo = <<>> \o Gather(Due', group, "call") /\ e.todo \in Seq(Call)
    BY <1>1, <1>2, <1>3, <1>5, <1>6 DEF Taken, Round
<1>10. e.todo \o <<>> = e.todo
    BY <1>9, ConcatEmptySeq
<1>11. Gather(<<>>, group, "call") = <<>> /\ Gather(<<>>, group, "result") = <<>>
    BY GatherEmpty
<1>12. ScanNow(e)'
    <2>1. (e.todo \o Gather(writes, group, "call") = Gather(writes, group, "result") \o Gather(Due, group, "call"))'
        BY <1>4, <1>9, <1>10, <1>11
    <2>2. (group \in mixed \/ Alike(e.todo \o Gather(writes, group, "call")))'
        BY <1>2, <1>3, <1>4, <1>10, <1>11 DEF Alike
    <2>3. Reports' /\ \A i \in DOMAIN writes' : writes'[i].by = provider
        BY <1>4 DEF Reports
    <2>4. \A i \in at' .. last' : All'[i].by = provider /\ (All'[i].kind = "call" => All'[i].calls # <<>>)
        <3>1. \A i \in at + 1 .. last : i \in at .. last
            BY <1>1, ScanFacts
        <3> QED BY <1>2, <1>4, <1>5, <3>1
    <2> QED BY <1>2, <1>4, <1>5, <2>1, <2>2, <2>3, <2>4 DEF ScanNow
<1>13. Rounds(q)'
    BY <1>2, <1>4, RoundsStay
<1>14. Now(e)'
    BY <1>2, <1>3, <1>4, <1>12 DEF Now
<1> QED BY <1>3, <1>4, <1>13, <1>14 DEF RInv, RoundsInv

\* At the loop's end nothing is to be answered.
LEMMA EndScanRounds == ASSUME RInv, IInv', EndScan PROVE RInv'
<1>1. Scanning /\ at > last /\ IInv
    BY DEF EndScan, RInv
<1>2. PICK q : /\ Rounds(q) /\ Now(q[Len(rows)]) /\ q[Len(rows)] \in Round
               /\ q[Len(rows)].todo = Gather(SubSeq(rows, at, last), group, "call")
               /\ q[Len(rows)].group = group /\ q[Len(rows)].by = provider
               /\ called => Last(rows).kind = "result"
    BY <1>1, ScanRound
<1>3. PICK e : e = q[Len(rows)]
    OBVIOUS
<1>4. e.todo = <<>>
    <2>1. at \in Int /\ last \in Int /\ last < at
        BY <1>1, ScanFacts
    <2>2. SubSeq(rows, at, last) = <<>>
        BY <2>1, SubSeqEmpty
    <2> QED BY <1>2, <1>3, <2>2, GatherEmpty
<1>5. pc = "scan" /\ UNCHANGED <<rows, provider, turns, cut, mixed>>
    BY <1>1, ScanFacts DEF EndScan, seen
<1>6. CASE called
    <2>1. pc' = "post" /\ group' = group
        BY <1>6 DEF EndScan, AsksAgain
    <2>2. Now(e)'
        BY <1>2, <1>3, <1>4, <1>5, <1>6, <2>1 DEF Now
    <2>3. Rounds(q)'
        BY <1>2, <1>5, RoundsStay
    <2> QED BY <1>3, <1>5, <2>2, <2>3 DEF RInv, RoundsInv
<1>7. CASE ~called
    <2>1. pc' = "input"
        BY <1>7 DEF EndScan, AsksAgain, EndTurn
    <2> QED BY <1>2, <1>3, <1>4, <1>5, <2>1, QuietRounds
<1> QED BY <1>6, <1>7

\* The rounds are an inductive invariant.
LEMMA RoundsStep == RInv /\ [Next]_vars => RInv'
<1> SUFFICES ASSUME RInv, [Next]_vars PROVE RInv'
    OBVIOUS
<1>1. IInv'
    BY StepInv DEF RInv
<1>2. CASE UNCHANGED vars
    <2>1. PICK q : Rounds(q) /\ Now(q[Len(rows)])
        BY DEF RInv, RoundsInv
    <2>2. UNCHANGED <<rows, pc, writes, provider, group, at, last, called, turns, cut, mixed>>
        BY <1>2 DEF vars, engine, seen
    <2>3. Rounds(q)'
        BY <2>1, <2>2, RoundsStay
    <2>4. Now(q[Len(rows)])'
        BY <2>1, <2>2 DEF Now, ScanNow, Responds, Reports, Due, All, Alike, ToSay
    <2> QED BY <1>1, <2>3, <2>4 DEF RInv, RoundsInv
<1>3. CASE Next
    BY <1>1, <1>3, ControlRounds, AskRounds, ResponseRounds, AppendRounds, DispatchRounds, PassOverRounds,
       EndScanRounds DEF Next
<1> QED BY <1>2, <1>3

\* Whoever asks, the rows are rounds of calls that are answered in order.
THEOREM RoundsInvariance == Spec => []RInv
BY RoundsInit, RoundsStep, PTL DEF Spec

-----------------------------------------------------------------------------
(* What the service is shown: calls and results in pairs.                  *)

Plain(c) == c.calls = <<>> /\ c.results = <<>>

\* What the contents of each role hold.
Fits(c) ==
    /\ c.role = "model" => c.results = <<>>
    /\ c.role = "tool" => c.calls = <<>> /\ c.results # <<>>
    /\ c.role = "user" => Plain(c)

Paired(cs, i) ==
    /\ cs[i].calls # <<>> =>
         /\ i < Len(cs)
         /\ Len(cs[i].calls) = Len(cs[i + 1].results)
         /\ ToSet(cs[i].calls) = ToSet(cs[i + 1].results)
    /\ cs[i].results # <<>> => i > 1 /\ cs[i - 1].calls # <<>>

\* No call is open; the last content is of calls to be answered; it is of results
\* that answer the first calls of the one before it.
Closed(cs) == \A i \in 1 .. Len(cs) : Paired(cs, i)
Asking(cs, todo) ==
    LET n == Len(cs)
    IN /\ n > 0 /\ cs[n].role = "model" /\ cs[n].calls = todo
       /\ \A i \in 1 .. n - 1 : Paired(cs, i)
Replying(cs, todo) ==
    LET n == Len(cs)
    IN /\ n > 1 /\ cs[n].role = "tool" /\ cs[n - 1].role = "model"
       /\ cs[n - 1].calls = cs[n].results \o todo
       /\ \A i \in 1 .. n - 2 : Paired(cs, i)

Contents == Seq(ContentType)
AllFit(cs) == \A i \in 1 .. Len(cs) : Fits(cs[i])
Differ(cs) == \A i \in 1 .. Len(cs) - 1 : cs[i].role # cs[i + 1].role

\* The parts of a content.
LEMMA ContentParts ==
    ASSUME NEW c \in ContentType
    PROVE  /\ c.role \in {"model", "tool", "user"} /\ c.calls \in Seq(Call) /\ c.results \in Seq(Call)
           /\ c.calls \o <<>> = c.calls /\ c.results \o <<>> = c.results
           /\ c = [role |-> c.role, calls |-> c.calls, results |-> c.results]
<1>1. /\ c.role \in {"model", "tool", "user"} /\ c.calls \in Seq(Call) /\ c.results \in Seq(Call)
      /\ c = [role |-> c.role, calls |-> c.calls, results |-> c.results]
    BY DEF ContentType
<1> QED BY <1>1, ConcatEmptySeq

\* A content appended.
LEMMA Appended ==
    ASSUME NEW cs \in Contents, NEW c \in ContentType, NEW new, new = Append(cs, c)
    PROVE  /\ new \in Contents /\ Len(cs) \in Nat /\ Len(new) = Len(cs) + 1
           /\ new[Len(cs) + 1] = c /\ \A i \in 1 .. Len(cs) : new[i] = cs[i] /\ cs[i] \in ContentType
BY AppendProperties, LenProperties, ElementOfSeq DEF Contents

\* The last content takes what c holds.
LastGrown(cs, c, new) ==
    LET n == Len(cs)
    IN /\ new \in Contents /\ n \in Nat \ {0} /\ Len(new) = n
       /\ cs[n] \in ContentType /\ cs[n].role = c.role
       /\ new[n] \in ContentType /\ new[n].role = c.role
       /\ new[n].calls = cs[n].calls \o c.calls
       /\ new[n].results = cs[n].results \o c.results
       /\ \A i \in 1 .. n - 1 : new[i] = cs[i] /\ cs[i] \in ContentType

\* A content joined with the last, whose role it has.
LEMMA JoinedLast ==
    ASSUME NEW cs \in Contents, NEW c \in ContentType, EndsIn(cs, c.role), NEW new, new = Merge(cs, c)
    PROVE  LastGrown(cs, c, new)
<1> DEFINE n == Len(cs)
           both == [role |-> c.role, calls |-> cs[n].calls \o c.calls, results |-> cs[n].results \o c.results]
<1>1. /\ new \in Contents /\ n \in Nat \ {0} /\ cs[n].role = c.role
      /\ new = [cs EXCEPT ![n] = both] /\ Len(new) = n
    BY MergeIs DEF Contents
<1>2. DOMAIN cs = 1 .. n /\ \A i \in 1 .. n : cs[i] \in ContentType /\ new[i] \in ContentType
    BY <1>1, LenProperties, ElementOfSeq DEF Contents
<1> HIDE DEF both, n
<1>3. n \in 1 .. n /\ \A i \in 1 .. n - 1 : i \in 1 .. n /\ i # n
    BY <1>1
<1>4. new[n] = both /\ \A i \in 1 .. n - 1 : new[i] = cs[i]
    BY <1>1, <1>2, <1>3
<1>5. both.role = c.role /\ both.calls = cs[n].calls \o c.calls /\ both.results = cs[n].results \o c.results
    BY DEF both
<1> QED BY <1>1, <1>2, <1>3, <1>4, <1>5 DEF LastGrown, n

\* A plain content joins the last one without a trace.
LEMMA MergePlain ==
    ASSUME NEW cs \in Contents, NEW c \in ContentType, Plain(c), EndsIn(cs, c.role)
    PROVE  Merge(cs, c) = cs
<1> DEFINE n == Len(cs)
<1>1. PICK new : new = Merge(cs, c)
    OBVIOUS
<1>2. /\ new \in Contents /\ n \in Nat \ {0} /\ Len(new) = n
      /\ cs[n] \in ContentType /\ cs[n].role = c.role
      /\ new[n] \in ContentType /\ new[n].role = c.role
      /\ new[n].calls = cs[n].calls \o c.calls
      /\ new[n].results = cs[n].results \o c.results
      /\ \A i \in 1 .. n - 1 : new[i] = cs[i]
    <2>1. LastGrown(cs, c, new)
        BY <1>1, JoinedLast
    <2> QED BY <2>1 DEF LastGrown
<1>3. new[n] = cs[n]
    <2>1. new[n].calls = cs[n].calls /\ new[n].results = cs[n].results
        BY <1>2, ContentParts DEF Plain
    <2>2. /\ cs[n] = [role |-> cs[n].role, calls |-> cs[n].calls, results |-> cs[n].results]
          /\ new[n] = [role |-> new[n].role, calls |-> new[n].calls, results |-> new[n].results]
        BY <1>2, ContentParts
    <2> QED BY <1>2, <2>1, <2>2
<1>4. \A i \in 1 .. n : i \in 1 .. n - 1 \/ i = n
    BY <1>2
<1>5. \A i \in 1 .. n : new[i] = cs[i]
    BY <1>2, <1>3, <1>4
<1> HIDE DEF n
<1>6. new = cs
    BY <1>2, <1>5, SeqEqual DEF Contents, n
<1> QED BY <1>1, <1>6

\* What fits still fits.
LEMMA FitMore ==
    ASSUME NEW cs \in Contents, AllFit(cs), NEW c \in ContentType, Fits(c)
    PROVE  AllFit(Append(cs, c)) /\ AllFit(Merge(cs, c))
<1> DEFINE n == Len(cs)
<1>1. AllFit(Append(cs, c))
    <2>1. PICK new : new = Append(cs, c)
        OBVIOUS
    <2>2. n \in Nat /\ Len(new) = n + 1 /\ new[n + 1] = c /\ \A i \in 1 .. n : new[i] = cs[i]
        BY <2>1, Appended
    <2>3. \A i \in 1 .. n + 1 : i \in 1 .. n \/ i = n + 1
        BY <2>2
    <2>4. \A i \in 1 .. n + 1 : Fits(new[i])
        BY <2>2, <2>3 DEF AllFit
    <2> QED BY <2>1, <2>2, <2>4 DEF AllFit
<1>2. CASE EndsIn(cs, c.role)
    <2>1. PICK new : new = Merge(cs, c)
        OBVIOUS
    <2>2. /\ n \in Nat \ {0} /\ Len(new) = n
          /\ cs[n] \in ContentType /\ cs[n].role = c.role /\ new[n] \in ContentType /\ new[n].role = c.role
          /\ new[n].calls = cs[n].calls \o c.calls
          /\ new[n].results = cs[n].results \o c.results
          /\ \A i \in 1 .. n - 1 : new[i] = cs[i]
        <3>1. LastGrown(cs, c, new)
            BY <1>2, <2>1, JoinedLast
        <3> QED BY <3>1 DEF LastGrown
    <2>3. Fits(cs[n])
        <3>1. n \in 1 .. n
            BY <2>2
        <3> QED BY <3>1 DEF AllFit
    <2>4. Fits(new[n])
        <3>1. <<>> \o <<>> = <<>> /\ <<>> \in Seq(Call)
            BY EmptyCalls, ConcatEmptySeq
        <3>2. /\ cs[n].results \in Seq(Call) /\ c.results \in Seq(Call)
              /\ c.role \in {"model", "tool", "user"}
            BY <2>2, ContentParts
        <3>3. c.results # <<>> => cs[n].results \o c.results # <<>>
            <4> HIDE DEF n
            <4>1. PICK a : a = cs[n].results
                OBVIOUS
            <4> QED BY <3>2, <4>1, ConcatSimplifications
        <3> HIDE DEF n
        <3>4. CASE c.role = "model"
            BY <2>2, <2>3, <3>1, <3>4 DEF Fits
        <3>5. CASE c.role = "tool"
            BY <2>2, <2>3, <3>1, <3>3, <3>5 DEF Fits
        <3>6. CASE c.role = "user"
            BY <2>2, <2>3, <3>1, <3>6 DEF Fits, Plain
        <3> QED BY <3>2, <3>4, <3>5, <3>6
    <2>5. \A i \in 1 .. n : i \in 1 .. n - 1 \/ i = n
        BY <2>2
    <2>6. \A i \in 1 .. n : Fits(new[i])
        BY <2>2, <2>4, <2>5 DEF AllFit
    <2> QED BY <1>1, <2>1, <2>2, <2>6 DEF AllFit
<1>3. CASE ~EndsIn(cs, c.role)
    BY <1>1, <1>3, MergeIs DEF Contents
<1> QED BY <1>2, <1>3

\* A plain content leaves pairs as they are.
LEMMA ClosedPlain ==
    ASSUME NEW cs \in Contents, Closed(cs), NEW c \in ContentType, Plain(c)
    PROVE  Closed(Append(cs, c)) /\ Closed(Merge(cs, c))
<1> DEFINE n == Len(cs)
<1>1. Closed(Append(cs, c))
    <2>1. PICK new : new = Append(cs, c)
        OBVIOUS
    <2>2. n \in Nat /\ Len(new) = n + 1 /\ new[n + 1] = c /\ \A i \in 1 .. n : new[i] = cs[i]
        BY <2>1, Appended
    <2>3. ASSUME NEW i \in 1 .. n + 1 PROVE Paired(new, i)
        <3>1. CASE i = n + 1
            BY <2>2, <3>1 DEF Paired, Plain
        <3>2. CASE i \in 1 .. n
            <4>1. Paired(cs, i)
                BY <3>2 DEF Closed
            <4>2. /\ i < n => i + 1 \in 1 .. n /\ i < n + 1
                  /\ i > 1 => i - 1 \in 1 .. n
                BY <2>2, <3>2
            <4> QED BY <2>2, <3>2, <4>1, <4>2 DEF Paired
        <3>3. i = n + 1 \/ i \in 1 .. n
            BY <2>2
        <3> QED BY <3>1, <3>2, <3>3
    <2> QED BY <2>1, <2>2, <2>3 DEF Closed
<1>2. CASE EndsIn(cs, c.role)
    BY <1>1, <1>2, MergePlain
<1>3. CASE ~EndsIn(cs, c.role)
    BY <1>1, <1>3, MergeIs DEF Contents
<1> QED BY <1>1, <1>2, <1>3

\* The first calls.
LEMMA AskFirst ==
    ASSUME NEW cs \in Contents, AllFit(cs), Closed(cs),
           NEW c \in ContentType, c.role = "model", Fits(c)
    PROVE  Asking(Append(cs, c), c.calls) /\ Asking(Merge(cs, c), c.calls)
<1> DEFINE n == Len(cs)
<1>1. Asking(Append(cs, c), c.calls)
    <2>1. PICK new : new = Append(cs, c)
        OBVIOUS
    <2>2. n \in Nat /\ Len(new) = n + 1 /\ new[n + 1] = c /\ \A i \in 1 .. n : new[i] = cs[i]
        BY <2>1, Appended
    <2>3. ASSUME NEW i \in 1 .. n PROVE Paired(new, i)
        <3>1. Paired(cs, i)
            BY DEF Closed
        <3>2. /\ i < n => i + 1 \in 1 .. n /\ i < n + 1
              /\ i > 1 => i - 1 \in 1 .. n
            BY <2>2
        <3> QED BY <2>2, <3>1, <3>2 DEF Paired
    <2>4. n + 1 > 0 /\ (n + 1) - 1 = n
        BY <2>2
    <2> QED BY <2>1, <2>2, <2>3, <2>4 DEF Asking
<1>2. CASE EndsIn(cs, c.role)
    <2>1. PICK new : new = Merge(cs, c)
        OBVIOUS
    <2>2. /\ n \in Nat \ {0} /\ Len(new) = n
          /\ cs[n] \in ContentType /\ cs[n].role = c.role /\ new[n].role = c.role
          /\ new[n].calls = cs[n].calls \o c.calls
          /\ new[n].results = cs[n].results \o c.results
          /\ \A i \in 1 .. n - 1 : new[i] = cs[i]
        <3>1. LastGrown(cs, c, new)
            BY <1>2, <2>1, JoinedLast
        <3> QED BY <3>1 DEF LastGrown
    <2>3. n \in 1 .. n /\ ~(n < n)
        BY <2>2
    <2>4. cs[n].calls = <<>> /\ cs[n].results = <<>> /\ c.results = <<>>
        BY <2>2, <2>3 DEF Closed, Paired, AllFit, Fits
    <2>5. <<>> \o c.calls = c.calls /\ <<>> \o <<>> = <<>>
        BY ContentParts, EmptyCalls, ConcatEmptySeq
    <2>6. new[n].calls = c.calls /\ new[n].results = <<>>
        BY <2>2, <2>4, <2>5
    <2>7. ASSUME NEW i \in 1 .. n - 1 PROVE Paired(new, i)
        <3>1. i \in 1 .. n /\ i < n
            BY <2>2
        <3>2. Paired(cs, i)
            BY <3>1 DEF Closed
        <3>3. (i + 1 \in 1 .. n - 1 \/ i + 1 = n) /\ (i > 1 => i - 1 \in 1 .. n - 1)
            BY <2>2
        <3>4. new[i + 1].results = cs[i + 1].results
            BY <2>2, <2>4, <2>6, <3>3
        <3>5. i > 1 => new[i - 1] = cs[i - 1]
            BY <2>2, <3>3
        <3> QED BY <2>2, <3>1, <3>2, <3>4, <3>5 DEF Paired
    <2>8. n > 0
        BY <2>2
    <2> QED BY <1>1, <2>1, <2>2, <2>6, <2>7, <2>8 DEF Asking
<1>3. CASE ~EndsIn(cs, c.role)
    BY <1>1, <1>3, MergeIs DEF Contents
<1> QED BY <1>1, <1>2, <1>3

\* More calls, before any result.
LEMMA AskMore ==
    ASSUME NEW cs \in Contents, AllFit(cs), NEW todo, Asking(cs, todo),
           NEW c \in ContentType, c.role = "model", Fits(c)
    PROVE  EndsIn(cs, "model") /\ Asking(Merge(cs, c), todo \o c.calls)
<1> DEFINE n == Len(cs)
<1>1. EndsIn(cs, "model")
    <2>1. n > 0 /\ cs[n].role = "model"
        BY DEF Asking
    <2>2. cs # <<>>
        BY <2>1, EmptySeq
    <2> QED BY <2>1, <2>2 DEF EndsIn, Last
<1>2. PICK new : new = Merge(cs, c)
    OBVIOUS
<1>3. /\ n \in Nat \ {0} /\ Len(new) = n
      /\ cs[n] \in ContentType /\ cs[n].role = c.role /\ new[n].role = c.role
      /\ new[n].calls = cs[n].calls \o c.calls
      /\ new[n].results = cs[n].results \o c.results
      /\ \A i \in 1 .. n - 1 : new[i] = cs[i]
    <2>1. LastGrown(cs, c, new)
        BY <1>1, <1>2, JoinedLast
    <2> QED BY <2>1 DEF LastGrown
<1>4. cs[n].calls = todo /\ cs[n].results = <<>> /\ c.results = <<>>
    <2>1. n \in 1 .. n
        BY <1>3
    <2> QED BY <1>3, <2>1 DEF Asking, AllFit, Fits
<1>5. new[n].calls = todo \o c.calls /\ new[n].results = <<>>
    <2>1. <<>> \o <<>> = <<>>
        BY EmptyCalls, ConcatEmptySeq
    <2> QED BY <1>3, <1>4, <2>1
<1>6. ASSUME NEW i \in 1 .. n - 1 PROVE Paired(new, i)
    <2>1. i < n /\ Paired(cs, i)
        BY <1>3 DEF Asking
    <2>2. (i + 1 \in 1 .. n - 1 \/ i + 1 = n) /\ (i > 1 => i - 1 \in 1 .. n - 1)
        BY <1>3
    <2>3. new[i + 1].results = cs[i + 1].results
        BY <1>3, <1>4, <1>5, <2>2
    <2>4. i > 1 => new[i - 1] = cs[i - 1]
        BY <1>3, <2>2
    <2> QED BY <1>3, <2>1, <2>3, <2>4 DEF Paired
<1>7. n > 0
    BY <1>3
<1> QED BY <1>1, <1>2, <1>3, <1>5, <1>6, <1>7 DEF Asking

\* The first result.
LEMMA ReplyFirst ==
    ASSUME NEW cs \in Contents, NEW todo, Asking(cs, todo), NEW h \in Call, NEW t, todo = <<h>> \o t,
           NEW c \in ContentType, c.role = "tool", c.calls = <<>>, c.results = <<h>>
    PROVE  Replying(Merge(cs, c), t)
<1> DEFINE n == Len(cs)
<1>1. n \in Nat /\ n > 0 /\ cs[n].role = "model" /\ cs[n].calls = todo /\ \A i \in 1 .. n - 1 : Paired(cs, i)
    BY LenProperties DEF Asking, Contents
<1>2. PICK new : new = Append(cs, c)
    OBVIOUS
<1>3. ~EndsIn(cs, c.role)
    BY <1>1 DEF EndsIn, Last
<1>4. Merge(cs, c) = new
    BY <1>2, <1>3, MergeIs DEF Contents
<1>5. Len(new) = n + 1 /\ new[n + 1] = c /\ \A i \in 1 .. n : new[i] = cs[i]
    BY <1>2, Appended
<1>6. n \in 1 .. n /\ n + 1 > 1 /\ (n + 1) - 1 = n /\ (n + 1) - 2 = n - 1
    BY <1>1
<1>7. ASSUME NEW i \in 1 .. n - 1 PROVE Paired(new, i)
    <2>1. i \in 1 .. n /\ i + 1 \in 1 .. n /\ (i > 1 => i - 1 \in 1 .. n) /\ i < n + 1
        BY <1>1
    <2>2. Paired(cs, i)
        BY <1>1
    <2> QED BY <1>5, <2>1, <2>2 DEF Paired
<1> HIDE DEF n
<1>8. new[n] = cs[n]
    BY <1>5, <1>6
<1> QED BY <1>1, <1>4, <1>5, <1>6, <1>7, <1>8 DEF Replying

\* More results.
LEMMA ReplyMore ==
    ASSUME NEW cs \in Contents, AllFit(cs), NEW h \in Call, NEW t \in Seq(Call), Replying(cs, <<h>> \o t),
           NEW c \in ContentType, c.role = "tool", c.calls = <<>>, c.results = <<h>>
    PROVE  Replying(Merge(cs, c), t)
<1> DEFINE n == Len(cs)
<1>1. /\ n \in Nat /\ n > 1 /\ cs[n].role = "tool" /\ cs[n - 1].role = "model"
      /\ cs[n - 1].calls = cs[n].results \o (<<h>> \o t)
      /\ \A i \in 1 .. n - 2 : Paired(cs, i)
    BY LenProperties DEF Replying, Contents
<1>2. EndsIn(cs, "tool")
    <2>1. cs # <<>>
        BY <1>1, EmptySeq
    <2> QED BY <1>1, <2>1 DEF EndsIn, Last
<1>3. PICK new : new = Merge(cs, c)
    OBVIOUS
<1>4. /\ Len(new) = n /\ new[n].role = "tool" /\ cs[n] \in ContentType
      /\ new[n].results = cs[n].results \o c.results
      /\ \A i \in 1 .. n - 1 : new[i] = cs[i]
    <2>1. LastGrown(cs, c, new)
        BY <1>2, <1>3, JoinedLast
    <2> QED BY <2>1 DEF LastGrown
<1>5. cs[n].results \o (<<h>> \o t) = new[n].results \o t
    <2>1. cs[n].results \in Seq(Call) /\ <<h>> \in Seq(Call)
        BY <1>4, ContentParts
    <2>2. PICK a \in Seq(Call) : a = cs[n].results
        BY <2>1
    <2>3. (a \o <<h>>) \o t = a \o (<<h>> \o t)
        BY <2>1, ConcatAssociative
    <2> QED BY <1>4, <2>2, <2>3
<1>6. n - 1 \in 1 .. n - 1
    BY <1>1
<1>7. ASSUME NEW i \in 1 .. n - 2 PROVE Paired(new, i)
    <2>1. i \in 1 .. n - 1 /\ i + 1 \in 1 .. n - 1 /\ (i > 1 => i - 1 \in 1 .. n - 1)
        BY <1>1
    <2>2. Paired(cs, i)
        BY <1>1
    <2> QED BY <1>4, <2>1, <2>2 DEF Paired
<1> HIDE DEF n
<1>8. new[n - 1] = cs[n - 1]
    BY <1>4, <1>6
<1> QED BY <1>1, <1>3, <1>4, <1>5, <1>7, <1>8 DEF Replying, n

\* When all calls have their results no call is open.
LEMMA ReplyEnds ==
    ASSUME NEW cs \in Contents, AllFit(cs), Replying(cs, <<>>)
    PROVE  Closed(cs)
<1> DEFINE n == Len(cs)
<1>1. /\ n \in Nat /\ n > 1 /\ cs[n].role = "tool" /\ cs[n - 1].role = "model"
      /\ cs[n - 1].calls = cs[n].results \o <<>>
      /\ \A i \in 1 .. n - 2 : Paired(cs, i)
    BY LenProperties DEF Replying, Contents
<1>2. n \in 1 .. n /\ n - 1 \in 1 .. n /\ n - 1 < n /\ (n - 1) + 1 = n
    BY <1>1
<1>3. cs[n].calls = <<>> /\ cs[n].results # <<>> /\ cs[n - 1].results = <<>> /\ cs[n].results \in Seq(Call)
    <2>1. Fits(cs[n]) /\ Fits(cs[n - 1]) /\ cs[n] \in ContentType
        BY <1>2, ElementOfSeq DEF AllFit, Contents
    <2> QED BY <1>1, <2>1, ContentParts DEF Fits
<1>4. cs[n - 1].calls = cs[n].results
    <2>1. PICK a \in Seq(Call) : a = cs[n].results
        BY <1>3
    <2>2. a \o <<>> = a
        BY ConcatEmptySeq
    <2> QED BY <1>1, <2>1, <2>2
<1>5. Paired(cs, n)
    BY <1>1, <1>3, <1>4 DEF Paired
<1>6. Paired(cs, n - 1)
    BY <1>2, <1>3, <1>4 DEF Paired
<1>7. \A i \in 1 .. n : i \in 1 .. n - 2 \/ i = n - 1 \/ i = n
    BY <1>1
<1> QED BY <1>1, <1>5, <1>6, <1>7 DEF Closed

-----------------------------------------------------------------------------
(* What the prompt holds after each row.                                   *)

InWindow(g) == Window = 0 \/ g = 0 \/ Cardinality({x \in GroupsSeen : x > g}) < Window

\* The tool rows of the round are in the prompt, and sound.
Live(q) == q.by = provider /\ InWindow(q.group) /\ q.group \notin cut \cup mixed

\* Calls of enabled tools are to be answered.
Open(q) == Live(q) /\ q.todo # <<>> /\ Head(q.todo).tool \in Enabled

\* The contents of the rows that leave q.
Match(cs, q) ==
    /\ cs \in Contents /\ AllFit(cs) /\ (provider = "gemini" => Differ(cs))
    /\ ~Open(q) => Closed(cs)
    /\ Open(q) /\ q.says = "calls" => Asking(cs, q.todo)
    /\ Open(q) /\ q.says = "results" => Replying(cs, q.todo)

\* How a content comes to those there are: Gemini's are merged, the service joins
\* OpenAI's results.
Joins(cs, c, new) ==
    \/ new = Merge(cs, c)
    \/ /\ provider = "openai" /\ c.role # "tool"
       /\ new = Append(cs, c) \/ (Plain(c) /\ new = cs)

\* Neighbours of different roles stay so.
LEMMA DifferMore ==
    ASSUME NEW cs \in Contents, Differ(cs), NEW c \in ContentType
    PROVE  Differ(Merge(cs, c))
<1> DEFINE n == Len(cs)
<1>1. CASE ~EndsIn(cs, c.role)
    <2>1. PICK new : new = Append(cs, c)
        OBVIOUS
    <2>2. Merge(cs, c) = new
        BY <1>1, <2>1, MergeIs DEF Contents
    <2>3. n \in Nat /\ Len(new) = n + 1 /\ new[n + 1] = c /\ \A i \in 1 .. n : new[i] = cs[i]
        BY <2>1, Appended
    <2>4. n # 0 => cs[n].role # c.role
        <3>1. n # 0 => cs # <<>>
            BY EmptySeq
        <3> QED BY <1>1, <3>1 DEF EndsIn, Last
    <2>5. ASSUME NEW i \in 1 .. n PROVE new[i].role # new[i + 1].role
        <3>1. CASE i = n
            <4>1. n # 0
                BY <2>3
            <4> QED BY <2>3, <2>4, <3>1, <4>1
        <3>2. CASE i \in 1 .. n - 1
            <4>1. i + 1 \in 1 .. n
                BY <2>3, <3>2
            <4> QED BY <2>3, <3>2, <4>1 DEF Differ
        <3>3. i = n \/ i \in 1 .. n - 1
            BY <2>3
        <3> QED BY <3>1, <3>2, <3>3
    <2>6. (n + 1) - 1 = n
        BY <2>3
    <2> QED BY <2>2, <2>3, <2>5, <2>6 DEF Differ
<1>2. CASE EndsIn(cs, c.role)
    <2>1. PICK new : new = Merge(cs, c)
        OBVIOUS
    <2>2. LastGrown(cs, c, new)
        BY <1>2, <2>1, JoinedLast
    <2>3. n \in Nat \ {0} /\ Len(new) = n /\ new[n].role = cs[n].role /\ \A i \in 1 .. n - 1 : new[i] = cs[i]
        BY <2>2 DEF LastGrown
    <2>4. \A i \in 1 .. n : i \in 1 .. n - 1 \/ i = n
        BY <2>3
    <2>5. \A i \in 1 .. n : new[i].role = cs[i].role
        BY <2>3, <2>4
    <2>6. \A i \in 1 .. n - 1 : i \in 1 .. n /\ i + 1 \in 1 .. n
        BY <2>3
    <2> HIDE DEF n
    <2>7. \A i \in 1 .. n - 1 : new[i].role # new[i + 1].role
        BY <2>5, <2>6 DEF Differ, n
    <2> QED BY <2>1, <2>3, <2>7 DEF Differ
<1> QED BY <1>1, <1>2

\* Contents that come keep the shape of those there are.
LEMMA JoinsKeep ==
    ASSUME NEW cs \in Contents, AllFit(cs), provider = "gemini" => Differ(cs),
           NEW c \in ContentType, Fits(c), NEW new, Joins(cs, c, new)
    PROVE  new \in Contents /\ AllFit(new) /\ (provider = "gemini" => Differ(new))
<1>1. CASE new = Merge(cs, c)
    <2>1. Merge(cs, c) \in Contents
        BY MergeIs DEF Contents
    <2> QED BY <1>1, <2>1, FitMore, DifferMore
<1>2. CASE provider = "openai" /\ new = Append(cs, c)
    <2>1. Append(cs, c) \in Contents
        BY AppendProperties DEF Contents
    <2> QED BY <1>2, <2>1, FitMore
<1>3. CASE provider = "openai" /\ new = cs
    BY <1>3
<1> QED BY <1>1, <1>2, <1>3 DEF Joins

\* A plain content opens nothing.
LEMMA JoinsPlain ==
    ASSUME NEW cs \in Contents, Closed(cs), NEW c \in ContentType, Plain(c), NEW new, Joins(cs, c, new)
    PROVE  Closed(new)
BY ClosedPlain DEF Joins

\* A row in the prompt: its group, and what its content holds.
LEMMA ShownIs ==
    ASSUME NEW r \in Row, r.kind # "dropped"
    PROVE  /\ Shown(r) <=> InWindow(r.group) /\ (r.kind \in {"call", "result"} => r.by = provider)
           /\ r.kind \in {"user", "text"} => Plain(Content(r))
           /\ ~Valid(r) => Plain(Content(r))
           /\ r.kind \in {"text", "call"} => Content(r).role = "model"
           /\ r.kind = "user" => Content(r).role = "user"
           /\ r.kind = "call" /\ Valid(r) => Content(r).calls = r.calls /\ Content(r).results = <<>>
           /\ r.kind = "result" /\ Valid(r) =>
                 Content(r).role = "tool" /\ Content(r).calls = <<>> /\ Content(r).results = r.calls
           /\ r.kind = "result" /\ ~Valid(r) => Content(r).role = "user"
           /\ (r.kind = "result" => r.calls # <<>>) => Fits(Content(r))
<1>1. Shown(r) <=> InWindow(r.group) /\ (r.kind \in {"call", "result"} => r.by = provider)
    BY DEF Shown, InWindow, Within, StrategyMatches, ToolRow
<1>2. r.kind \in {"user", "text", "call", "result"}
    BY DEF Row, Kinds
<1>3. CASE r.kind = "user"
    BY <1>1, <1>3 DEF Content, Plain, Fits
<1>4. CASE r.kind = "text"
    BY <1>1, <1>4 DEF Content, Plain, Fits
<1>5. CASE r.kind = "call"
    BY <1>1, <1>5 DEF Content, Plain, Fits
<1>6. CASE r.kind = "result"
    BY <1>1, <1>6 DEF Content, Plain, Fits
<1> QED BY <1>2, <1>3, <1>4, <1>5, <1>6

\* Of calls that are alike all are enabled, or none.
LEMMA AlikeAll ==
    ASSUME NEW calls \in Seq(Call), calls # <<>>, Alike(calls)
    PROVE  /\ 1 \in DOMAIN calls /\ Head(calls) = calls[1]
           /\ \A i \in DOMAIN calls : calls[i].tool \in Enabled <=> Head(calls).tool \in Enabled
<1>1. Head(calls) = calls[1] /\ Len(calls) \in Nat \ {0} /\ DOMAIN calls = 1 .. Len(calls)
    BY HeadAndTail, LenProperties
<1>2. 1 \in DOMAIN calls
    BY <1>1
<1> QED BY <1>1, <1>2 DEF Alike

\* The calls of a part are as the whole's.
LEMMA AlikeHeads ==
    ASSUME NEW a \in Seq(Call), NEW b \in Seq(Call), Alike(a \o b), a # <<>>
    PROVE  /\ a \o b # <<>> /\ Head(a \o b) = Head(a)
           /\ b # <<>> => (Head(b).tool \in Enabled <=> Head(a).tool \in Enabled)
<1>1. /\ Len(a) \in Nat \ {0} /\ Len(b) \in Nat /\ a \o b \in Seq(Call) /\ Len(a \o b) = Len(a) + Len(b)
      /\ Head(a) = a[1] /\ DOMAIN (a \o b) = 1 .. Len(a \o b)
      /\ \A i \in 1 .. Len(a) + Len(b) : (a \o b)[i] = IF i <= Len(a) THEN a[i] ELSE b[i - Len(a)]
    BY HeadAndTail, LenProperties, ConcatProperties
<1> DEFINE ab == a \o b
<1> HIDE DEF ab
<1>2. 1 \in 1 .. Len(a) + Len(b) /\ 1 <= Len(a) /\ Len(ab) # 0
    BY <1>1 DEF ab
<1>3. ab[1] = a[1] /\ ab # <<>>
    BY <1>1, <1>2, EmptySeq DEF ab
<1>4. Head(ab) = ab[1] /\ \A i \in DOMAIN ab : ab[i].tool \in Enabled <=> Head(ab).tool \in Enabled
    BY <1>1, <1>3, AlikeAll DEF ab
<1>5. ASSUME b # <<>> PROVE Len(a) + 1 \in DOMAIN ab /\ ab[Len(a) + 1] = Head(b)
    <2>1. Len(b) \in Nat \ {0} /\ Head(b) = b[1]
        BY <1>5, HeadAndTail
    <2>2. Len(a) + 1 \in 1 .. Len(a) + Len(b) /\ ~(Len(a) + 1 <= Len(a)) /\ (Len(a) + 1) - Len(a) = 1
        BY <1>1, <2>1
    <2> QED BY <1>1, <2>1, <2>2 DEF ab
<1> QED BY <1>1, <1>3, <1>4, <1>5 DEF ab

\* A row that is not shown: its calls are not open before or after it.
LEMMA HiddenRow ==
    ASSUME NEW q \in Round, NEW p \in Round, NEW r \in Row, Follows(q, r, p), ~Shown(r),
           NEW cs, Match(cs, q)
    PROVE  Match(cs, p)
<1>1. r.kind \in {"user", "text", "call", "result"}
    BY DEF Follows, Opens, Tells, Calls, Answers
<1>2. Shown(r) <=> InWindow(r.group) /\ (r.kind \in {"call", "result"} => r.by = provider)
    BY <1>1, ShownIs
<1>3. p.group = r.group /\ p.by = r.by
    BY DEF Follows
<1>4. CASE Opens(q, r, p)
    BY <1>4 DEF Opens, Match, Open, Live
<1>5. CASE r.group = q.group /\ r.by = q.by
    <2>1. ~Live(q) /\ ~Live(p)
        BY <1>2, <1>3, <1>5 DEF Live
    <2> QED BY <2>1 DEF Match, Open
<1> QED BY <1>4, <1>5 DEF Follows

\* The user's words close what is open, or were never part of it.
LEMMA UserRow ==
    ASSUME NEW q \in Round, NEW p \in Round, NEW r \in Row, Opens(q, r, p),
           NEW cs, Match(cs, q), NEW new, Joins(cs, Content(r), new)
    PROVE  ~Open(p) /\ Closed(new)
<1>1. Plain(Content(r)) /\ Content(r) \in ContentType
    BY ShownIs, ContentTyped DEF Opens
<1>2. ~Open(q)
    BY DEF Opens, Open, Live
<1> QED BY <1>1, <1>2, JoinsPlain DEF Match, Opens, Open

\* A text joins the calls before it, or stands where none is open.
LEMMA TextRow ==
    ASSUME provider \in Providers,
           NEW q \in Round, NEW p \in Round, NEW r \in Row, Tells(q, r, p),
           p.group = q.group, p.by = q.by,
           NEW cs, Match(cs, q), NEW new, Joins(cs, Content(r), new)
    PROVE  /\ ~Open(p) => Closed(new)
           /\ Open(p) => Asking(new, p.todo)
<1>1. Plain(Content(r)) /\ Content(r).role = "model" /\ Content(r) \in ContentType /\ Fits(Content(r))
    BY ShownIs, ContentTyped DEF Tells
<1>2. Open(p) <=> Open(q)
    BY DEF Tells, Open, Live
<1>3. CASE ~Open(q)
    BY <1>1, <1>2, <1>3, JoinsPlain DEF Match
<1>4. CASE Open(q)
    <2>1. q.says = "calls" /\ provider = "gemini"
        BY <1>4 DEF Tells, ToSay, Open, Live
    <2>2. Asking(cs, q.todo) /\ new = Merge(cs, Content(r)) /\ cs \in Contents /\ AllFit(cs)
        BY <1>4, <2>1 DEF Match, Joins
    <2>3. EndsIn(cs, "model")
        BY <1>1, <2>2, AskMore
    <2>4. Merge(cs, Content(r)) = cs
        <3>1. EndsIn(cs, Content(r).role)
            BY <1>1, <2>3
        <3> QED BY <1>1, <2>2, <3>1, MergePlain
    <2> QED BY <1>2, <1>4, <2>2, <2>4 DEF Tells
<1> QED BY <1>3, <1>4

\* A row of calls opens them, unless they are of unknown tools.
LEMMA CallRow ==
    ASSUME provider \in Providers,
           NEW q \in Round, NEW p \in Round, NEW r \in Row, Calls(q, r, p),
           p.group = q.group, p.by = q.by, Live(p), Alike(p.todo),
           NEW cs, Match(cs, q), NEW new, Joins(cs, Content(r), new)
    PROVE  /\ ~Open(p) => Closed(new)
           /\ Open(p) => Asking(new, p.todo)
<1> DEFINE c == Content(r)
<1>1. /\ r.kind = "call" /\ r.calls \in Seq(Call) /\ r.calls # <<>> /\ q.todo \in Seq(Call)
      /\ p.todo = q.todo \o r.calls /\ DOMAIN r.calls = 1 .. Len(r.calls)
    BY LenProperties DEF Calls, Row, Round
<1>2. /\ c \in ContentType /\ c.role = "model" /\ Fits(c)
      /\ ~Valid(r) => Plain(c)
      /\ Valid(r) => c.calls = r.calls /\ c.results = <<>>
    BY <1>1, ShownIs, ContentTyped
<1> HIDE DEF c
<1>3. Live(q) /\ cs \in Contents /\ AllFit(cs) /\ Joins(cs, c, new)
    BY DEF Live, Match, c
<1>4. p.todo \in Seq(Call) /\ p.todo # <<>>
    <2>1. p.todo \in Seq(Call)
        BY DEF Round
    <2>2. PICK a \in Seq(Call), b \in Seq(Call) : a = q.todo /\ b = r.calls
        BY <1>1
    <2>3. a \o b # <<>>
        BY <1>1, <2>2, ConcatSimplifications
    <2> QED BY <1>1, <2>1, <2>2, <2>3
<1>5. Valid(r) <=> Head(p.todo).tool \in Enabled
    <2>1. /\ 1 \in DOMAIN p.todo
          /\ \A i \in DOMAIN p.todo : p.todo[i].tool \in Enabled <=> Head(p.todo).tool \in Enabled
        BY <1>4, AlikeAll
    <2>2. \A i \in DOMAIN r.calls : \E j \in DOMAIN p.todo : p.todo[j] = r.calls[i]
        <3>1. PICK a \in Seq(Call), b \in Seq(Call) : a = q.todo /\ b = r.calls
            BY <1>1
        <3>2. /\ Len(a) \in Nat /\ Len(b) \in Nat /\ DOMAIN b = 1 .. Len(b)
              /\ a \o b \in Seq(Call) /\ Len(a \o b) = Len(a) + Len(b)
              /\ \A i \in 1 .. Len(a) + Len(b) : (a \o b)[i] = IF i <= Len(a) THEN a[i] ELSE b[i - Len(a)]
            BY ConcatProperties, LenProperties
        <3>3. DOMAIN (a \o b) = 1 .. Len(a) + Len(b)
            BY <3>2, LenProperties
        <3>4. ASSUME NEW i \in 1 .. Len(b) PROVE Len(a) + i \in DOMAIN (a \o b) /\ (a \o b)[Len(a) + i] = b[i]
            <4>1. Len(a) + i \in 1 .. Len(a) + Len(b) /\ ~(Len(a) + i <= Len(a)) /\ (Len(a) + i) - Len(a) = i
                BY <3>2
            <4> QED BY <3>2, <3>3, <4>1
        <3>5. p.todo = a \o b
            BY <1>1, <3>1
        <3>6. PICK ab : ab = a \o b
            OBVIOUS
        <3>7. \A i \in DOMAIN b : \E j \in DOMAIN ab : ab[j] = b[i]
            BY <3>2, <3>4, <3>6
        <3>8. p.todo = ab
            BY <3>5, <3>6
        <3> QED BY <3>1, <3>7, <3>8
    <2>3. 1 \in DOMAIN r.calls
        <3>1. Len(r.calls) \in Nat \ {0}
            BY <1>1, HeadAndTail
        <3> QED BY <1>1, <3>1
    <2>4. \A i \in DOMAIN r.calls : r.calls[i].tool \in Enabled <=> Head(p.todo).tool \in Enabled
        BY <2>1, <2>2
    <2> QED BY <2>3, <2>4 DEF Valid
<1>6. Open(p) <=> Valid(r)
    BY <1>4, <1>5 DEF Open
<1>7. q.todo # <<>> => Head(p.todo) = Head(q.todo)
    BY <1>1, AlikeHeads
<1>8. CASE Valid(r) /\ q.todo = <<>>
    <2>1. Closed(cs)
        BY <1>8 DEF Match, Open
    <2>2. Asking(Append(cs, c), c.calls) /\ Asking(Merge(cs, c), c.calls)
        BY <1>2, <1>3, <2>1, AskFirst
    <2>3. new = Append(cs, c) \/ new = Merge(cs, c)
        BY <1>1, <1>2, <1>3, <1>8 DEF Joins, Plain
    <2>4. c.calls = p.todo
        BY <1>1, <1>2, <1>8, ConcatEmptySeq
    <2> QED BY <1>6, <1>8, <2>2, <2>3, <2>4
<1>9. CASE Valid(r) /\ q.todo # <<>>
    <2>1. Open(q)
        BY <1>3, <1>5, <1>7, <1>9 DEF Open
    <2>2. q.says = "calls" /\ provider = "gemini"
        BY <1>3, <1>9 DEF Calls, ToSay, Live
    <2>3. Asking(cs, q.todo) /\ new = Merge(cs, c)
        BY <1>3, <2>1, <2>2 DEF Match, Joins
    <2>4. Asking(Merge(cs, c), q.todo \o c.calls)
        BY <1>2, <1>3, <2>3, AskMore
    <2> QED BY <1>1, <1>2, <1>6, <1>9, <2>3, <2>4
<1>10. CASE ~Valid(r)
    <2>1. ~Open(q)
        BY <1>5, <1>7, <1>10 DEF Open
    <2>2. Closed(new)
        BY <1>2, <1>3, <1>10, <2>1, JoinsPlain DEF Match
    <2> QED BY <1>6, <1>10, <2>2
<1> QED BY <1>8, <1>9, <1>10

\* A result answers the first open call.
LEMMA ResultRow ==
    ASSUME NEW q \in Round, NEW p \in Round, NEW r \in Row, Answers(q, r, p),
           p.group = q.group, p.by = q.by, Live(p), Alike(q.todo),
           NEW cs, Match(cs, q), NEW new, Joins(cs, Content(r), new)
    PROVE  /\ ~Open(p) => Closed(new)
           /\ Open(p) => Replying(new, p.todo)
<1> DEFINE c == Content(r)
<1>1. PICK h : h = Head(q.todo)
    OBVIOUS
<1>2. PICK t : t = p.todo
    OBVIOUS
<1>3. /\ r.kind = "result" /\ r.calls = <<h>> /\ q.todo # <<>> /\ h \in Call /\ t \in Seq(Call)
      /\ q.todo = <<h>> \o t /\ q.todo \in Seq(Call)
    <2>1. q.todo \in Seq(Call)
        BY DEF Round
    <2> QED BY <1>1, <1>2, <2>1, HeadAndTail DEF Answers
<1>4. <<h>> \in Seq(Call) /\ <<h>> # <<>> /\ Head(<<h>>) = h /\ DOMAIN <<h>> = {1} /\ <<h>>[1] = h
    BY <1>3
<1>5. Valid(r) <=> h.tool \in Enabled
    BY <1>3, <1>4 DEF Valid
<1>6. t # <<>> => (Head(t).tool \in Enabled <=> h.tool \in Enabled)
    BY <1>3, <1>4, AlikeHeads
<1>7. /\ c \in ContentType /\ Fits(c)
      /\ Valid(r) => c.role = "tool" /\ c.calls = <<>> /\ c.results = <<h>>
      /\ ~Valid(r) => Plain(c)
    BY <1>3, <1>4, ShownIs, ContentTyped
<1> HIDE DEF c
<1>8. Live(q) /\ cs \in Contents /\ AllFit(cs) /\ (provider = "gemini" => Differ(cs)) /\ Joins(cs, c, new)
    BY DEF Live, Match, c
<1>9. CASE Valid(r)
    <2>1. new = Merge(cs, c)
        BY <1>7, <1>8, <1>9 DEF Joins
    <2>2. Open(q)
        BY <1>1, <1>3, <1>5, <1>8, <1>9 DEF Open
    <2>3. Replying(Merge(cs, c), t)
        <3>1. CASE q.says = "calls"
            <4>1. Asking(cs, q.todo)
                BY <2>2, <3>1 DEF Match
            <4> QED BY <1>3, <1>7, <1>8, <1>9, <4>1, ReplyFirst
        <3>2. CASE q.says = "results"
            <4>1. Replying(cs, <<h>> \o t)
                BY <1>3, <2>2, <3>2 DEF Match
            <4> QED BY <1>3, <1>7, <1>8, <1>9, <4>1, ReplyMore
        <3> QED BY <3>1, <3>2 DEF Round
    <2>4. CASE t = <<>>
        <3>1. new \in Contents /\ AllFit(new)
            BY <1>7, <1>8, JoinsKeep
        <3>2. Replying(new, <<>>)
            BY <2>1, <2>3, <2>4
        <3> QED BY <1>2, <2>4, <3>1, <3>2, ReplyEnds DEF Open
    <2>5. CASE t # <<>>
        <3>1. Open(p)
            BY <1>2, <1>5, <1>6, <1>9, <2>5 DEF Open
        <3> QED BY <1>2, <2>1, <2>3, <3>1
    <2> QED BY <2>4, <2>5
<1>10. CASE ~Valid(r)
    <2>1. ~Open(q) /\ ~Open(p)
        BY <1>1, <1>2, <1>5, <1>6, <1>10 DEF Open
    <2> QED BY <1>7, <1>8, <1>10, <2>1, JoinsPlain DEF Match
<1> QED BY <1>9, <1>10

\* A row that is shown.
LEMMA ShownRow ==
    ASSUME provider \in Providers, NEW q \in Round, NEW p \in Round, NEW r \in Row, Follows(q, r, p),
           q.group \in mixed \/ Alike(q.todo), Shown(r), ToolRow(r) => r.group \notin cut \cup mixed,
           NEW cs, Match(cs, q), NEW new, Joins(cs, Content(r), new)
    PROVE  Match(new, p)
<1>1. r.kind \in {"user", "text", "call", "result"} /\ (r.kind = "result" => r.calls # <<>>)
    <2>1. \A h : <<h>> # <<>>
        OBVIOUS
    <2> QED BY <2>1 DEF Follows, Opens, Tells, Calls, Answers
<1>2. /\ Shown(r) <=> InWindow(r.group) /\ (r.kind \in {"call", "result"} => r.by = provider)
      /\ Content(r) \in ContentType /\ Fits(Content(r))
    BY <1>1, ShownIs, ContentTyped
<1>3. new \in Contents /\ AllFit(new) /\ (provider = "gemini" => Differ(new))
    BY <1>2, JoinsKeep DEF Match
<1>4. p.group = r.group /\ p.by = r.by
    BY DEF Follows
<1>5. CASE Opens(q, r, p)
    BY <1>3, <1>5, UserRow DEF Match
<1>6. CASE r.group = q.group /\ r.by = q.by
    <2>1. p.group = q.group /\ p.by = q.by
        BY <1>4, <1>6
    <2>2. ToolRow(r) => Live(p) /\ p.group \notin mixed
        BY <1>2, <1>4 DEF Live, ToolRow
    <2>3. CASE Tells(q, r, p)
        BY <1>3, <2>1, <2>3, TextRow DEF Match, Tells
    <2>4. CASE Calls(q, r, p)
        <3>1. Live(p) /\ Alike(p.todo)
            BY <2>2, <2>4 DEF Calls, ToolRow, Follows
        <3> QED BY <1>3, <2>1, <2>4, <3>1, CallRow DEF Match, Calls
    <2>5. CASE Answers(q, r, p)
        <3>1. Live(p) /\ Alike(q.todo)
            BY <2>1, <2>2, <2>5 DEF Answers, ToolRow
        <3> QED BY <1>3, <2>1, <2>5, <3>1, ResultRow DEF Match, Answers
    <2> QED BY <1>6, <2>3, <2>4, <2>5, <1>5 DEF Follows, Opens, Tells, Calls, Answers
<1> QED BY <1>5, <1>6 DEF Follows

-----------------------------------------------------------------------------
(* The prompt, row by row.                                                 *)

\* The prompt's contents as the service takes them.
AsTaken(h) == IF provider = "gemini" THEN Merged(h) ELSE Joined(OpenAiMessages(h))

\* One row more joins the contents.
LEMMA TakenGrows ==
    ASSUME provider \in Providers
    PROVE  /\ AsTaken(<<>>) = <<>>
           /\ \A h \in Seq(Row), r \in Row :
                 AsTaken(h) \in Contents /\ Joins(AsTaken(h), Content(r), AsTaken(Append(h, r)))
<1>1. CASE provider = "gemini"
    BY <1>1, MergedGrows DEF AsTaken, Blend, Joins, Contents
<1>2. CASE provider = "openai"
    <2>1. AsTaken(<<>>) = <<>>
        BY <1>2, OpenAiMessagesGrows, JoinedGrows DEF AsTaken
    <2>2. ASSUME NEW h \in Seq(Row), NEW r \in Row
          PROVE  AsTaken(h) \in Contents /\ Joins(AsTaken(h), Content(r), AsTaken(Append(h, r)))
        <3>1. PICK c \in ContentType : c = Content(r)
            BY ContentTyped
        <3>2. PICK ms \in Seq(ContentType) : ms = OpenAiMessages(h)
            BY OpenAiMessagesGrows
        <3>3. PICK more : more = OpenAiMessages(Append(h, r)) /\ more = Message(r, ms)
            BY <3>2, OpenAiMessagesGrows
        <3>4. PICK cs \in Contents : cs = Joined(ms) /\ cs = AsTaken(h)
            BY <1>2, <3>2, JoinedGrows DEF AsTaken, Contents
        <3>5. AsTaken(Append(h, r)) = Joined(more)
            BY <1>2, <3>3 DEF AsTaken
        <3>6. Joined(Append(ms, c)) = Join(c, cs)
            BY <3>4, JoinedGrows
        <3>7. CASE r.kind = "user" /\ EndsIn(ms, c.role)
            <4>1. Plain(c) /\ c.role = "user"
                BY <3>1, <3>7, ShownIs
            <4>2. more = ms
                BY <3>1, <3>3, <3>7, <4>1, MergePlain DEF Message, Contents
            <4> QED BY <1>2, <3>1, <3>4, <3>5, <4>1, <4>2 DEF Joins
        <3>8. CASE ~(r.kind = "user" /\ EndsIn(ms, c.role))
            <4>1. more = Append(ms, c)
                BY <3>1, <3>3, <3>8, MergeIs DEF Message
            <4>2. AsTaken(Append(h, r)) = Join(c, cs)
                BY <3>5, <3>6, <4>1
            <4> QED BY <1>2, <3>1, <3>4, <4>2 DEF Join, Joins
        <3> QED BY <3>7, <3>8
    <2> QED BY <2>1, <2>2
<1> QED BY <1>1, <1>2 DEF Providers

\* The rows that are shown are in the prompt.
LEMMA ShownThere ==
    ASSUME rows \in Seq(Row), NEW k \in 1 .. Len(rows), Shown(rows[k])
    PROVE  \E i \in DOMAIN History : History[i] = rows[k]
<1> DEFINE n == Len(rows)
           r == rows[k]
           H(m) == Hist(SubSeq(rows, 1, m))
           There(h) == \E i \in 1 .. Len(h) : h[i] = r
           S == {m \in Nat : m < k \/ m > n \/ There(H(m))}
<1>1. n \in Nat /\ k \in Nat \ {0} /\ k <= n
    BY LenProperties
<1>2. 0 \in S
    BY <1>1
<1>3. ASSUME NEW m \in Nat, m \in S PROVE m + 1 \in S
    <2>1. CASE m + 1 < k \/ m + 1 > n
        BY <2>1
    <2>2. CASE ~(m + 1 < k \/ m + 1 > n)
        <3>1. m \in 0 .. n /\ m + 1 <= n /\ (m + 1 = k \/ ~(m < k)) /\ ~(m > n)
            BY <1>1, <2>2
        <3>2. PICK s \in Seq(Row) : s = SubSeq(rows, 1, m)
            BY <3>1, FirstFacts
        <3>3. PICK x \in Row : x = rows[m + 1] /\ SubSeq(rows, 1, m + 1) = Append(s, x)
            BY <3>1, <3>2, FirstFacts
        <3>4. PICK h \in Seq(Row) : h = Hist(s)
            BY <3>3, HistGrows
        <3>5. PICK new \in Seq(Row) : new = Hist(Append(s, x))
            <4>1. Append(s, x) \in Seq(Row)
                BY AppendProperties
            <4> QED BY <3>3, <4>1, HistGrows
        <3>6. new = IF Shown(x) THEN Append(h, x) ELSE h
            BY <3>4, <3>5, HistGrows DEF Show
        <3>7. /\ Len(h) \in Nat /\ Len(Append(h, x)) = Len(h) + 1 /\ Append(h, x)[Len(h) + 1] = x
              /\ \A i \in 1 .. Len(h) : Append(h, x)[i] = h[i]
            BY AppendProperties, LenProperties
        <3>8. There(new)
            <4>1. CASE m + 1 = k
                <5>1. x = r /\ Shown(x) /\ new = Append(h, x)
                    BY <3>3, <3>6, <4>1
                <5>2. Len(h) + 1 \in 1 .. Len(h) + 1
                    BY <3>7
                <5> QED BY <3>7, <5>1, <5>2
            <4>2. CASE ~(m < k)
                <5>1. PICK i \in 1 .. Len(h) : h[i] = r
                    BY <1>3, <3>1, <3>2, <3>4, <4>2
                <5>2. i \in 1 .. Len(h) + 1
                    BY <3>7
                <5>3. CASE Shown(x)
                    BY <3>6, <3>7, <5>1, <5>2, <5>3
                <5>4. CASE ~Shown(x)
                    BY <3>6, <5>1, <5>4
                <5> QED BY <5>3, <5>4
            <4> QED BY <3>1, <4>1, <4>2
        <3>9. H(m + 1) = new
            BY <3>3, <3>5
        <3> QED BY <3>8, <3>9
    <2> QED BY <2>1, <2>2
<1> HIDE DEF S
<1>4. n \in S
    BY <1>1, <1>2, <1>3, NatInduct
<1>5. There(H(n))
    <2>1. ~(n < k) /\ ~(n > n)
        BY <1>1
    <2> QED BY <1>4, <2>1 DEF S
<1>6. H(n) = Hist(rows)
    BY SubSeqFull
<1>7. Hist(rows) = History
    BY DEF Hist, History
<1>8. History \in Seq(Row) /\ DOMAIN History = 1 .. Len(History)
    <2>1. Hist(rows) \in Seq(Row)
        BY HistTyped
    <2> QED BY <1>7, <2>1, LenProperties
<1> QED BY <1>5, <1>6, <1>7, <1>8

\* After each row the prompt's contents match what the rows so far leave.
LEMMA PromptMatches ==
    ASSUME IInv, Sound, NEW q, Rounds(q)
    PROVE  Match(AsTaken(History), q[Len(rows)])
<1> DEFINE n == Len(rows)
           H(k) == Hist(SubSeq(rows, 1, k))
           S == {k \in Nat : k > n \/ Match(AsTaken(H(k)), q[k])}
<1>1. /\ n \in Nat /\ rows \in Seq(Row) /\ provider \in Providers
      /\ q[0] = Nothing /\ q \in [0 .. n -> Round]
      /\ \A k \in 1 .. n : Follows(q[k - 1], rows[k], q[k])
    BY LenProperties DEF IInv, TypeOK, Rounds
<1>2. 0 \in S
    <2>1. SubSeq(rows, 1, 0) = <<>>
        BY SubSeqEmpty
    <2>2. AsTaken(H(0)) = <<>>
        BY <1>1, <2>1, HistGrows, TakenGrows
    <2>3. <<>> \in Contents /\ Len(<<>>) = 0
        BY EmptySeq DEF Contents
    <2>4. Match(<<>>, Nothing)
        BY <2>3 DEF Match, AllFit, Differ, Closed, Open, Nothing
    <2> QED BY <1>1, <2>2, <2>4
<1>3. ASSUME NEW k \in Nat, k \in S PROVE k + 1 \in S
    <2>1. CASE k + 1 > n
        BY <2>1
    <2>2. CASE ~(k + 1 > n)
        <3>1. /\ k \in 0 .. n /\ k + 1 <= n /\ k + 1 \in 1 .. n /\ k + 1 \in 0 .. n /\ ~(k > n)
              /\ (k + 1) - 1 = k
            BY <1>1, <2>2
        <3>2. PICK s \in Seq(Row) : s = SubSeq(rows, 1, k)
            BY <1>1, <3>1, FirstFacts
        <3>3. PICK r \in Row : r = rows[k + 1] /\ SubSeq(rows, 1, k + 1) = Append(s, r)
            BY <1>1, <3>1, <3>2, FirstFacts
        <3>4. PICK h \in Seq(Row) : h = Hist(s)
            BY <3>3, HistGrows
        <3>5. H(k + 1) = IF Shown(r) THEN Append(h, r) ELSE h
            BY <3>3, <3>4, HistGrows DEF Show
        <3>6. PICK e \in Round, d \in Round : e = q[k] /\ d = q[k + 1]
            BY <1>1, <3>1
        <3>7. Follows(e, r, d)
            BY <1>1, <3>1, <3>3, <3>6
        <3>8. e.group \in mixed \/ Alike(e.todo)
            <4>1. CASE k = 0
                BY <1>1, <3>6, <4>1, NoneAlike DEF Nothing
            <4>2. CASE k # 0
                <5>1. k \in 1 .. n
                    BY <3>1, <4>2
                <5> QED BY <1>1, <3>6, <5>1 DEF Follows
            <4> QED BY <4>1, <4>2
        <3>9. PICK cs : cs = AsTaken(h)
            OBVIOUS
        <3>10. Match(cs, e)
            BY <1>3, <3>1, <3>2, <3>4, <3>6, <3>9
        <3>11. Match(AsTaken(H(k + 1)), d)
            <4>1. CASE Shown(r)
                <5>1. ToolRow(r) => r.group \notin cut \cup mixed
                    <6>1. \E i \in DOMAIN History : History[i] = r
                        BY <1>1, <3>1, <3>3, <4>1, ShownThere
                    <6> QED BY <6>1 DEF Sound
                <5>2. PICK new : new = AsTaken(Append(h, r))
                    OBVIOUS
                <5>3. Joins(cs, Content(r), new)
                    BY <1>1, <3>9, <5>2, TakenGrows
                <5>4. Match(new, d)
                    BY <1>1, <3>7, <3>8, <3>10, <4>1, <5>1, <5>3, ShownRow
                <5> QED BY <3>5, <4>1, <5>2, <5>4
            <4>2. CASE ~Shown(r)
                <5>1. Match(cs, d)
                    BY <3>7, <3>10, <4>2, HiddenRow
                <5> QED BY <3>5, <3>9, <4>2, <5>1
            <4> QED BY <4>1, <4>2
        <3> QED BY <3>6, <3>11
    <2> QED BY <2>1, <2>2
<1> HIDE DEF S
<1>4. n \in S
    BY <1>1, <1>2, <1>3, NatInduct
<1>5. Match(AsTaken(H(n)), q[n])
    <2>1. ~(n > n)
        BY <1>1
    <2> QED BY <1>4, <2>1 DEF S
<1>6. H(n) = History
    <2>1. SubSeq(rows, 1, n) = rows
        BY <1>1, SubSeqFull
    <2> QED BY <2>1 DEF Hist, History
<1> QED BY <1>5, <1>6

-----------------------------------------------------------------------------
(* The service takes the prompt.                                           *)

\* From contents whose calls have their results nothing is dropped, and no
\* results stand side by side.
LEMMA PairsStay ==
    ASSUME NEW cs \in Contents, AllFit(cs), Closed(cs)
    PROVE  Following(cs) = cs /\ Joined(cs) = cs
<1> DEFINE n == Len(cs)
           P(k) == SubSeq(cs, 1, k)
           S == {k \in Nat : k > n \/ (Following(P(k)) = P(k) /\ Joined(P(k)) = P(k))}
<1>1. n \in Nat /\ cs \in Seq(ContentType)
    BY LenProperties DEF Contents
<1>2. 0 \in S
    <2>1. P(0) = <<>>
        BY SubSeqEmpty
    <2> QED BY <2>1, FollowingGrows, JoinedGrows
<1>3. ASSUME NEW k \in Nat, k \in S PROVE k + 1 \in S
    <2>1. CASE k + 1 > n
        BY <2>1
    <2>2. CASE ~(k + 1 > n)
        <3>1. k \in 0 .. n /\ k + 1 <= n /\ k + 1 \in 1 .. n /\ ~(k > n) /\ (k + 1) - 1 = k
            BY <1>1, <2>2
        <3>2. /\ P(k) \in Seq(ContentType) /\ Len(P(k)) = k
              /\ \A i \in 1 .. k : P(k)[i] = cs[i]
            BY <1>1, <3>1, FirstFacts
        <3>3. PICK p \in Seq(ContentType) : p = P(k)
            BY <3>2
        <3>4. PICK c \in ContentType : c = cs[k + 1] /\ P(k + 1) = Append(p, c)
            BY <1>1, <3>1, <3>3, FirstFacts
        <3>5. Following(p) = p /\ Joined(p) = p
            BY <1>3, <3>1, <3>3
        <3>6. c.role = "tool" => EndsIn(p, "model")
            <4> SUFFICES ASSUME c.role = "tool" PROVE EndsIn(p, "model")
                OBVIOUS
            <4>1. Fits(c) /\ Paired(cs, k + 1)
                BY <3>1, <3>4 DEF AllFit, Closed
            <4>2. k + 1 > 1 /\ cs[k].calls # <<>>
                BY <3>1, <3>4, <4>1 DEF Fits, Paired
            <4>3. k \in 1 .. k /\ k \in 1 .. n
                BY <3>1, <4>2
            <4>4. Fits(cs[k]) /\ cs[k].role \in {"model", "tool", "user"}
                <5>1. cs[k] \in ContentType
                    BY <1>1, <4>3, ElementOfSeq
                <5> QED BY <4>3, <5>1, ContentParts DEF AllFit
            <4>5. p[Len(p)].role = "model"
                BY <3>2, <3>3, <4>2, <4>3, <4>4 DEF Fits, Plain
            <4>6. p # <<>>
                BY <3>2, <3>3, <4>3, EmptySeq
            <4> QED BY <4>5, <4>6 DEF EndsIn, Last
        <3>7. Follow(c, p) = Append(p, c)
            BY <3>6 DEF Follow
        <3>8. Join(c, p) = Append(p, c)
            <4>1. c.role = "tool" => ~EndsIn(p, c.role)
                BY <3>6 DEF EndsIn
            <4> QED BY <4>1, MergeIs DEF Join
        <3>9. Following(Append(p, c)) = Append(p, c) /\ Joined(Append(p, c)) = Append(p, c)
            BY <3>5, <3>7, <3>8, FollowingGrows, JoinedGrows
        <3>10. Following(P(k + 1)) = P(k + 1) /\ Joined(P(k + 1)) = P(k + 1)
            BY <3>9, <3>4
        <3> HIDE DEF P
        <3> QED BY <3>10
    <2> QED BY <2>1, <2>2
<1> HIDE DEF S
<1>4. n \in S
    BY <1>1, <1>2, <1>3, NatInduct
<1>5. Following(P(n)) = P(n) /\ Joined(P(n)) = P(n)
    <2>1. ~(n > n)
        BY <1>1
    <2> QED BY <1>4, <2>1 DEF S
<1>6. P(n) = cs
    BY <1>1, SubSeqFull
<1> QED BY <1>5, <1>6

\* The service takes contents that are closed once results are joined.
LEMMA ClosedAccepted ==
    ASSUME NEW p \in Contents, Closed(Joined(p))
    PROVE  Accepts(p)
<1>1. Joined(p) \in Seq(ContentType)
    BY JoinedTyped DEF Contents
<1>2. DOMAIN Joined(p) = 1 .. Len(Joined(p))
    BY <1>1, LenProperties
<1> DEFINE cs == Joined(p)
<1>3. cs = FoldLeft(LAMBDA s, c : IF c.role = "tool" THEN Merge(s, c) ELSE Append(s, c), <<>>, p)
    BY DEF Joined
<1> HIDE DEF cs
<1>4. \A i \in DOMAIN cs :
        /\ cs[i].calls # <<>> =>
             /\ i < Len(cs)
             /\ Len(cs[i].calls) = Len(cs[i + 1].results)
             /\ ToSet(cs[i].calls) = ToSet(cs[i + 1].results)
        /\ cs[i].results # <<>> => i > 1 /\ cs[i - 1].calls # <<>>
    BY <1>2 DEF cs, Closed, Paired
<1> QED BY <1>3, <1>4 DEF Accepts

\* The rows of the prompt are rows.
LEMMA HistoryIs == ASSUME TypeOK PROVE History = Hist(rows) /\ History \in Seq(Row)
<1>1. rows \in Seq(Row) /\ History = Hist(rows)
    BY DEF TypeOK, History, Hist
<1> QED BY <1>1, HistTyped

\* When the model is asked no call is open.
LEMMA AskedClosed ==
    ASSUME IInv, Sound, pc = "post", NEW q, Rounds(q), Now(q[Len(rows)])
    PROVE  AsTaken(History) \in Contents /\ AllFit(AsTaken(History)) /\ Closed(AsTaken(History))
<1>1. Match(AsTaken(History), q[Len(rows)])
    BY PromptMatches
<1>2. ~Open(q[Len(rows)])
    BY DEF Now, Open, Live
<1> QED BY <1>1, <1>2 DEF Match

\* Merged contents are what Gemini is sent.
LEMMA PayloadIs ==
    ASSUME IInv, Sound, pc = "post", NEW q, Rounds(q), Now(q[Len(rows)])
    PROVE  /\ provider = "gemini" => Payload = Merged(History)
           /\ provider = "openai" => Payload = OpenAiMessages(History)
           /\ Payload \in Contents /\ Closed(Joined(Payload))
<1>1. AsTaken(History) \in Contents /\ AllFit(AsTaken(History)) /\ Closed(AsTaken(History))
    BY AskedClosed
<1>2. CASE provider = "gemini"
    <2>1. PICK cs : cs = Merged(History) /\ cs = AsTaken(History)
        BY <1>2 DEF AsTaken
    <2>2. Following(cs) = cs /\ Joined(cs) = cs
        BY <1>1, <2>1, PairsStay
    <2>3. Payload = Following(Merged(History))
        BY <1>2 DEF Payload, GeminiContents, Following, Merged
    <2> QED BY <1>1, <1>2, <2>1, <2>2, <2>3
<1>3. CASE provider = "openai"
    <2>1. Payload = OpenAiMessages(History)
        BY <1>3 DEF Payload
    <2>2. OpenAiMessages(History) \in Contents
        BY HistoryIs, OpenAiMessagesTyped DEF IInv, Contents
    <2>3. Joined(OpenAiMessages(History)) = AsTaken(History)
        BY <1>3 DEF AsTaken
    <2> QED BY <1>1, <1>3, <2>1, <2>2, <2>3
<1> QED BY <1>2, <1>3 DEF IInv, TypeOK, Providers

\* The service takes the prompt, whatever the window hides, however often the
\* provider has changed and whichever unknown tools were called.
THEOREM PromptsAccepted == Spec => []PromptAccepted
<1>1. RInv => PromptAccepted
    <2> SUFFICES ASSUME RInv, pc = "post", Sound PROVE Accepts(Payload)
        BY DEF PromptAccepted
    <2>1. PICK q : Rounds(q) /\ Now(q[Len(rows)])
        BY DEF RInv, RoundsInv
    <2>2. Payload \in Contents /\ Closed(Joined(Payload))
        BY <2>1, PayloadIs DEF RInv
    <2> QED BY <2>2, ClosedAccepted
<1> QED BY <1>1, RoundsInvariance, PTL

-----------------------------------------------------------------------------
(* The prompt ends with what the model is to answer.                       *)

\* A row's group is a number.
LEMMA GroupsTyped == ASSUME TypeOK, NEW k \in 1 .. Len(rows) PROVE rows[k] \in Row /\ rows[k].group \in Nat
<1>1. rows[k] \in Row
    BY ElementOfSeq DEF TypeOK
<1>2. \A g \in 0 .. MaxTurns : g \in Nat
    BY BoundsAssumption
<1> QED BY <1>1, <1>2 DEF Row

\* The last round is of the newest turn.
LEMMA NewestRound ==
    ASSUME IInv, NEW q, Rounds(q), NEW j \in 1 .. Len(rows)
    PROVE  rows[j].group <= q[Len(rows)].group
<1> DEFINE n == Len(rows)
           S == {k \in Nat : k > n \/ \A i \in 1 .. k : rows[i].group <= q[k].group}
<1>1. /\ n \in Nat /\ q \in [0 .. n -> Round]
      /\ \A k \in 1 .. n : rows[k].group \in Nat /\ Follows(q[k - 1], rows[k], q[k])
    BY LenProperties, GroupsTyped DEF IInv, TypeOK, Rounds
<1>2. 0 \in S
    OBVIOUS
<1>3. ASSUME NEW k \in Nat, k \in S PROVE k + 1 \in S
    <2>1. CASE k + 1 > n
        BY <2>1
    <2>2. CASE ~(k + 1 > n)
        <3>1. k \in 0 .. n /\ k + 1 \in 0 .. n /\ k + 1 \in 1 .. n /\ ~(k > n) /\ (k + 1) - 1 = k
            BY <1>1, <2>2
        <3>2. PICK e \in Round, d \in Round : e = q[k] /\ d = q[k + 1]
            BY <1>1, <3>1
        <3>3. Follows(e, rows[k + 1], d)
            BY <1>1, <3>1, <3>2
        <3>4. rows[k + 1].group = d.group /\ rows[k + 1].group >= e.group /\ e.group \in Nat /\ d.group \in Nat
            BY <3>3 DEF Follows, Opens, Round
        <3>5. \A i \in 1 .. k : rows[i].group <= e.group /\ rows[i].group \in Nat
            <4>1. \A i \in 1 .. k : i \in 1 .. n
                BY <3>1
            <4> QED BY <1>1, <1>3, <3>1, <3>2, <4>1
        <3>6. \A i \in 1 .. k + 1 : i \in 1 .. k \/ i = k + 1
            OBVIOUS
        <3>7. \A i \in 1 .. k + 1 : rows[i].group <= d.group
            BY <3>4, <3>5, <3>6
        <3> QED BY <3>2, <3>7
    <2> QED BY <2>1, <2>2
<1> HIDE DEF S
<1>4. n \in S
    BY <1>1, <1>2, <1>3, NatInduct
<1>5. ~(n > n)
    BY <1>1
<1> QED BY <1>4, <1>5 DEF S

\* The last row is the user's or a result, of the provider in use, and no turn
\* is newer: it is in the prompt.
LEMMA LastShown ==
    ASSUME IInv, pc = "post", NEW q, Rounds(q), Now(q[Len(rows)])
    PROVE  /\ rows # <<>> /\ Last(rows) \in Row /\ Shown(Last(rows))
           /\ Last(rows).kind \in {"user", "result"} /\ Last(rows).calls \in Seq(Call)
<1> DEFINE n == Len(rows)
<1>1. rows \in Seq(Row) /\ rows # <<>> /\ n \in Nat \ {0} /\ n \in 1 .. n
    <2>1. rows \in Seq(Row) /\ rows # <<>>
        BY DEF IInv, TypeOK, Now
    <2> QED BY <2>1, LenProperties, EmptySeq
<1>2. PICK r \in Row : r = rows[n] /\ r = Last(rows)
    BY <1>1, ElementOfSeq DEF Last
<1>3. PICK e : e = q[n]
    OBVIOUS
<1>4. Follows(q[n - 1], r, e)
    BY <1>1, <1>2, <1>3 DEF Rounds
<1>5. r.group = e.group /\ r.by = provider /\ r.kind \in {"user", "result"} /\ r.calls \in Seq(Call)
    BY <1>2, <1>3, <1>4 DEF Now, Follows, Row
<1>6. {g \in GroupsSeen : g > r.group} = {}
    <2>1. \A j \in 1 .. n : rows[j].group \in Nat /\ rows[j].group <= r.group
        <3>1. \A j \in 1 .. n : rows[j].group \in Nat
            BY GroupsTyped DEF IInv
        <3> QED BY <1>3, <1>5, <3>1, NewestRound
    <2>2. r.group \in Nat /\ DOMAIN rows = 1 .. n
        BY <1>1, <1>2, <2>1, LenProperties
    <2>3. \A g \in GroupsSeen : g \in Nat /\ g <= r.group
        BY <2>1, <2>2 DEF GroupsSeen
    <2> QED BY <2>2, <2>3
<1>7. Within(r, Window)
    <2>1. Cardinality({g \in GroupsSeen : g > r.group}) = 0
        BY <1>6, FS_EmptySet
    <2>2. Window = 0 \/ 0 < Window
        BY WindowAssumption
    <2> QED BY <2>1, <2>2 DEF Within
<1>8. Shown(r)
    BY <1>5, <1>7 DEF Shown, StrategyMatches
<1> QED BY <1>1, <1>2, <1>5, <1>8

\* The last row ends the prompt.
LEMMA LastEnds ==
    ASSUME IInv, Sound, pc = "post", NEW q, Rounds(q), Now(q[Len(rows)])
    PROVE  EndsIn(Payload, Content(Last(rows)).role)
<1>1. rows # <<>> /\ Last(rows) \in Row /\ Shown(Last(rows)) /\ rows \in Seq(Row)
    BY LastShown DEF IInv, TypeOK
<1>2. PICK s \in Seq(Row), r \in Row : rows = Append(s, r) /\ r = Last(rows)
    <2>1. PICK n \in Nat \ {0} : n = Len(rows)
        BY <1>1, LenProperties, EmptySeq
    <2>2. n - 1 \in 0 .. n /\ (n - 1) + 1 = n /\ n <= n
        OBVIOUS
    <2>3. /\ SubSeq(rows, 1, n - 1) \in Seq(Row) /\ rows[n] \in Row
          /\ SubSeq(rows, 1, n) = Append(SubSeq(rows, 1, n - 1), rows[n])
        BY <1>1, <2>1, <2>2, FirstFacts
    <2>4. SubSeq(rows, 1, n) = rows
        BY <1>1, <2>1, SubSeqFull
    <2> QED BY <2>1, <2>3, <2>4 DEF Last
<1>3. PICK h \in Seq(Row) : h = Hist(s)
    BY HistTyped
<1>4. History = Append(h, r)
    <2>1. Hist(Append(s, r)) = Show(r, h)
        BY <1>3, HistGrows
    <2>2. History = Hist(Append(s, r))
        BY <1>2, HistoryIs DEF IInv
    <2> QED BY <1>1, <1>2, <2>1, <2>2 DEF Show
<1>5. PICK c \in ContentType : c = Content(r)
    BY ContentTyped
<1>6. \A cs \in Contents : EndsIn(Append(cs, c), c.role) /\ EndsIn(Merge(cs, c), c.role)
    <2> SUFFICES ASSUME NEW cs \in Contents
                 PROVE  EndsIn(Append(cs, c), c.role) /\ EndsIn(Merge(cs, c), c.role)
        OBVIOUS
    <2>1. EndsIn(Append(cs, c), c.role)
        <3>1. PICK new : new = Append(cs, c)
            OBVIOUS
        <3>2. Len(new) = Len(cs) + 1 /\ new[Len(cs) + 1] = c /\ Len(cs) \in Nat
            BY <3>1, Appended
        <3>3. new # <<>>
            BY <3>2, EmptySeq
        <3> QED BY <3>1, <3>2, <3>3 DEF EndsIn, Last
    <2>2. CASE EndsIn(cs, c.role)
        <3>1. PICK new : new = Merge(cs, c)
            OBVIOUS
        <3>2. LastGrown(cs, c, new)
            BY <2>2, <3>1, JoinedLast
        <3>3. Len(new) \in Nat \ {0} /\ new[Len(new)].role = c.role
            BY <3>2 DEF LastGrown
        <3>4. new # <<>>
            BY <3>3, EmptySeq
        <3> QED BY <2>1, <3>1, <3>3, <3>4 DEF EndsIn, Last
    <2>3. CASE ~EndsIn(cs, c.role)
        BY <2>1, <2>3, MergeIs DEF Contents
    <2> QED BY <2>1, <2>2, <2>3
<1>7. CASE provider = "gemini"
    <2>1. Payload = Merged(Append(h, r))
        BY <1>4, <1>7, PayloadIs
    <2>2. PICK cs \in Contents : cs = Merged(h)
        BY MergedTyped DEF Contents
    <2>3. Merged(Append(h, r)) = Merge(cs, c)
        BY <1>5, <2>2, MergedGrows DEF Blend
    <2> QED BY <1>2, <1>5, <1>6, <2>1, <2>3
<1>8. CASE provider = "openai"
    <2>1. Payload = OpenAiMessages(Append(h, r))
        BY <1>4, <1>8, PayloadIs
    <2>2. PICK ms \in Contents : ms = OpenAiMessages(h)
        BY OpenAiMessagesTyped DEF Contents
    <2>3. OpenAiMessages(Append(h, r)) = Message(r, ms)
        BY <2>2, OpenAiMessagesGrows
    <2>4. Message(r, ms) \in {Merge(ms, c), Append(ms, c)}
        BY <1>5 DEF Message
    <2> QED BY <1>2, <1>5, <1>6, <2>1, <2>3, <2>4
<1> QED BY <1>7, <1>8 DEF IInv, TypeOK, Providers

\* The model is asked when it has something to answer: the prompt ends with the
\* user's words or a tool's result.
THEOREM PromptsEndWithNews == Spec => []PromptEndsWithNews
<1>1. RInv => PromptEndsWithNews
    <2> SUFFICES ASSUME RInv, pc = "post", Sound
                 PROVE  EndsIn(Payload, "user") \/ EndsIn(Payload, "tool")
        BY DEF PromptEndsWithNews
    <2>1. PICK q : Rounds(q) /\ Now(q[Len(rows)])
        BY DEF RInv, RoundsInv
    <2>2. EndsIn(Payload, Content(Last(rows)).role)
        BY <2>1, LastEnds DEF RInv
    <2>3. PICK r \in Row : r = Last(rows) /\ r.kind \in {"user", "result"}
        BY <2>1, LastShown DEF RInv
    <2>4. Content(r).role \in {"user", "tool"}
        BY <2>3, ShownIs
    <2> QED BY <2>2, <2>3, <2>4
<1> QED BY <1>1, RoundsInvariance, PTL
=============================================================================
