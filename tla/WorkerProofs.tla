------------------------------ MODULE WorkerProofs ------------------------------
(***************************************************************************)
(* Proofs about what the workers of a batch do on the machine: the files of*)
(* FileTools, for any files, calls, patches and limits, and the commands of*)
(* ShellCommand, for any number of them and all scripts.                   *)
(*                                                                         *)
(* Files.  The invariant follows each call by what it may still count on:  *)
(* a writer with its file to itself has, up to the moment it opens it, the *)
(* file of the beginning, and holds a text only if every patch has matched;*)
(* a reader nobody writes for sees one file on both passes.  The patches of*)
(* a call are a fold, and so is what was asked for: two runs, step by step.*)
(*                                                                         *)
(* Commands.  The invariant is one of each command: what has been killed,  *)
(* by which signal, at each place of RunCommand.                           *)
(*                                                                         *)
(* The two models share nothing but the threads that the calls run on.     *)
(***************************************************************************)
EXTENDS FileTools, ShellCommand, SequenceTheorems, FiniteSetTheorems, WellFoundedInduction, TLAPS

-----------------------------------------------------------------------------
(* Folds.                                                                  *)

\* Induction on the numbers, for a set.
LEMMA NatInduct ==
    ASSUME NEW S, 0 \in S, \A n \in Nat : n \in S => n + 1 \in S
    PROVE  \A n \in Nat : n \in S
<1> SUFFICES ASSUME NEW n \in Nat, n \notin S PROVE FALSE
    OBVIOUS
<1> DEFINE T == {k \in Nat : k \notin S}
           R == OpToRel(<, Nat)
<1>1. IsWellFoundedOn(R, Nat)
    BY NatLessThanWellFounded
<1>2. T \subseteq Nat /\ T # {}
    OBVIOUS
<1>3. PICK x \in T : \A y \in T : ~(<<y, x>> \in R)
    <2> HIDE DEF R, T
    <2> QED BY <1>1, <1>2, WFMin
<1>4. \A y \in T : ~(y < x)
    <2>1. \A a, b \in Nat : a < b => <<a, b>> \in OpToRel(<, Nat)
        BY DEF OpToRel
    <2> QED BY <1>2, <1>3, <2>1
<1> HIDE DEF R
<1>5. x \in T
    BY <1>3
<1>6. x # 0 /\ x - 1 \in Nat /\ x - 1 < x /\ (x - 1) + 1 = x
    BY <1>5
<1>7. x - 1 \in S
    BY <1>4, <1>6
<1> QED BY <1>5, <1>6, <1>7

\* The largest of 1 .. k.
LEMMA MaxUpto == ASSUME NEW k \in Nat \ {0} PROVE Max(1 .. k) = k /\ (1 .. k) \ {k} = 1 .. (k - 1)
<1>1. k \in 1 .. k /\ \A y \in 1 .. k : k >= y
    OBVIOUS
<1>2. \A x \in 1 .. k : (\A y \in 1 .. k : x >= y) => x = k
    BY <1>1
<1>3. Max(1 .. k) = k
    BY <1>1, <1>2 DEF Max
<1> QED BY <1>3

\* What a fold over 1 .. n is: FoldLeft chooses one such function.
IsFold(it, n, base, H) ==
    it = [s \in SUBSET (1 .. n) |-> IF s = {} THEN base ELSE H[Max(s)][it[s \ {Max(s)}]]]

\* There is one, for any steps H.
LEMMA FoldExists ==
    ASSUME NEW n \in Nat, NEW T, NEW base \in T, NEW H \in [1 .. n -> [T -> T]]
    PROVE  \E it \in [SUBSET (1 .. n) -> T] : IsFold(it, n, base, H)
<1> DEFINE S == {k \in Nat : k > n \/ \E it \in [SUBSET (1 .. k) -> T] : IsFold(it, k, base, H)}
<1>1. 0 \in S
    <2>1. 1 .. 0 = {} /\ SUBSET (1 .. 0) = {{}}
        OBVIOUS
    <2> DEFINE it == [s \in SUBSET (1 .. 0) |-> base]
    <2>2. it \in [SUBSET (1 .. 0) -> T]
        OBVIOUS
    <2>3. IsFold(it, 0, base, H)
        BY <2>1 DEF IsFold
    <2> HIDE DEF it
    <2> QED BY <2>2, <2>3
<1>2. ASSUME NEW k \in Nat, k \in S PROVE k + 1 \in S
    <2>1. CASE k + 1 > n
        BY <2>1
    <2>2. CASE ~(k + 1 > n)
        <3>0. ~(k > n)
            BY <2>2
        <3>1. PICK it \in [SUBSET (1 .. k) -> T] : IsFold(it, k, base, H)
            BY <1>2, <3>0
        <3>2. k + 1 \in 1 .. n /\ H[k + 1] \in [T -> T]
            BY <2>2
        <3> DEFINE more == [s \in SUBSET (1 .. (k + 1)) |->
                              IF k + 1 \in s THEN H[k + 1][it[s \ {k + 1}]] ELSE it[s]]
        <3>3. \A s \in SUBSET (1 .. (k + 1)) : s \ {k + 1} \in SUBSET (1 .. k) /\ (k + 1 \notin s => s \in SUBSET (1 .. k))
            <4>1. \A x \in 1 .. (k + 1) : x # k + 1 => x \in 1 .. k
                OBVIOUS
            <4> QED BY <4>1
        <3>4. more \in [SUBSET (1 .. (k + 1)) -> T]
            BY <3>2, <3>3
        <3>5. ASSUME NEW s \in SUBSET (1 .. (k + 1)), s # {}
              PROVE  more[s] = H[Max(s)][more[s \ {Max(s)}]]
            <4>1. CASE k + 1 \in s
                <5>1. Max(s) = k + 1
                    <6>1. \A y \in s : k + 1 >= y /\ y \in Int
                        OBVIOUS
                    <6>2. \A x \in s : (\A y \in s : x >= y) => x = k + 1
                        BY <4>1, <6>1
                    <6> QED BY <4>1, <6>1, <6>2 DEF Max
                <5>2. s \ {k + 1} \in SUBSET (1 .. (k + 1)) /\ k + 1 \notin s \ {k + 1}
                    OBVIOUS
                <5>3. more[s \ {k + 1}] = it[s \ {k + 1}]
                    BY <5>2
                <5> QED BY <4>1, <5>1, <5>3
            <4>2. CASE k + 1 \notin s
                <5>1. s \in SUBSET (1 .. k)
                    BY <3>3, <4>2
                <5>2. it[s] = H[Max(s)][it[s \ {Max(s)}]]
                    BY <3>1, <3>5, <5>1 DEF IsFold
                <5>3. s \ {Max(s)} \in SUBSET (1 .. (k + 1)) /\ k + 1 \notin s \ {Max(s)}
                    BY <4>2
                <5>4. more[s \ {Max(s)}] = it[s \ {Max(s)}]
                    BY <5>3
                <5> QED BY <4>2, <5>2, <5>4
            <4> QED BY <4>1, <4>2
        <3>6. more[{}] = base
            BY <3>1 DEF IsFold
        <3>7. DOMAIN more = SUBSET (1 .. (k + 1)) /\ more = [s \in SUBSET (1 .. (k + 1)) |-> more[s]]
            OBVIOUS
        <3> HIDE DEF more
        <3>8. IsFold(more, k + 1, base, H)
            BY <3>5, <3>6, <3>7 DEF IsFold
        <3> QED BY <3>4, <3>8
    <2> QED BY <2>1, <2>2
<1> HIDE DEF S
<1>3. n \in S
    BY <1>1, <1>2, NatInduct
<1>4. ~(n > n)
    OBVIOUS
<1> QED BY <1>3, <1>4 DEF S

\* A set of numbers of 1 .. n has a largest.
LEMMA MaxOf ==
    ASSUME NEW n \in Nat, NEW u \in SUBSET (1 .. n), u # {}
    PROVE  Max(u) \in u
<1> DEFINE S == {k \in Nat : \A v \in SUBSET (1 .. k) : v # {} => \E x \in v : \A y \in v : x >= y}
<1>1. 0 \in S
    <2>1. 1 .. 0 = {}
        OBVIOUS
    <2> QED BY <2>1
<1>2. ASSUME NEW k \in Nat, k \in S PROVE k + 1 \in S
    <2> SUFFICES ASSUME NEW v \in SUBSET (1 .. (k + 1)), v # {}
                 PROVE  \E x \in v : \A y \in v : x >= y
        OBVIOUS
    <2>1. CASE k + 1 \in v
        <3>1. \A y \in v : k + 1 >= y
            OBVIOUS
        <3> QED BY <2>1, <3>1
    <2>2. CASE k + 1 \notin v
        <3>1. \A x \in 1 .. (k + 1) : x # k + 1 => x \in 1 .. k
            OBVIOUS
        <3>2. v \in SUBSET (1 .. k)
            BY <2>2, <3>1
        <3> QED BY <1>2, <3>2
    <2> QED BY <2>1, <2>2
<1> HIDE DEF S
<1>3. n \in S
    BY <1>1, <1>2, NatInduct
<1>4. \E x \in u : \A y \in u : x >= y
    BY <1>3 DEF S
<1> QED BY <1>4 DEF Max

-----------------------------------------------------------------------------
(* Texts.                                                                  *)

\* A part of a sequence.
LEMMA Part ==
    ASSUME NEW S, NEW t \in Seq(S), NEW m \in Nat \ {0}, NEW n \in Int, n <= Len(t)
    PROVE  SubSeq(t, m, n) \in Seq(S) /\ Len(SubSeq(t, m, n)) = IF m <= n THEN n - m + 1 ELSE 0
<1>1. \A i \in m .. n : t[i] \in S
    BY LenProperties, ElementOfSeq
<1>2. m \in Int
    OBVIOUS
<1> QED BY <1>1, <1>2, SubSeqProperties

\* What a stream leaves is a text, and of an empty file the new text only.
LEMMA OverwriteText ==
    ASSUME NEW S, NEW old \in Seq(S), NEW new \in Seq(S)
    PROVE  Overwrite(old, new) \in Seq(S) /\ (old = << >> => Overwrite(old, new) = new)
<1>1. Len(new) + 1 \in Nat \ {0} /\ Len(old) \in Nat
    BY LenProperties
<1>2. SubSeq(old, Len(new) + 1, Len(old)) \in Seq(S)
    BY <1>1, Part
<1>3. Overwrite(old, new) \in Seq(S)
    BY <1>2, ConcatProperties DEF Overwrite
<1>4. ASSUME old = << >> PROVE Overwrite(old, new) = new
    <2>1. Len(old) < Len(new) + 1 /\ Len(old) \in Int /\ Len(new) + 1 \in Int
        BY <1>1, <1>4, EmptySeq
    <2>2. SubSeq(old, Len(new) + 1, Len(old)) = << >>
        BY <2>1, SubSeqEmpty
    <2> QED BY <2>2, ConcatEmptySeq DEF Overwrite
<1> QED BY <1>3, <1>4

\* The numbers of a range of lines.
LEMMA RangeText ==
    ASSUME NEW S, NEW t \in Seq(S), NEW call, call.from \in Nat, call.to = None \/ call.to \in Nat
    PROVE  InRange(t, call) \in Seq(S)
<1>1. Len(t) \in Nat
    BY LenProperties
<1>2. Greater(call.from, 1) \in Nat \ {0}
    BY DEF Greater
<1> DEFINE last == IF call.to = None THEN Len(t) ELSE Lesser(call.to, Len(t))
<1>3. last \in Int /\ last <= Len(t)
    BY <1>1 DEF Lesser
<1> HIDE DEF last
<1>4. SubSeq(t, Greater(call.from, 1), last) \in Seq(S)
    BY <1>2, <1>3, Part
<1> QED BY <1>4 DEF InRange, last

\* What is shown and what the hint leaves to be read make up the file from the
\* line asked for.
LEMMA RangeAndRest ==
    ASSUME NEW S, NEW t \in Seq(S), NEW call, call.from \in Nat, call.to = None \/ call.to \in Nat,
           call.to = None \/ call.from <= call.to
    PROVE  LET more == ReadHint(call, Len(t))
           IN InRange(t, call) \o (IF more = 0 THEN << >> ELSE SubSeq(t, more, Len(t)))
                = SubSeq(t, Greater(1, call.from), Len(t))
<1> DEFINE n == Len(t)
           a == Greater(call.from, 1)
<1>1. n \in Nat /\ n \in Int
    BY LenProperties
<1>2. a \in Nat \ {0} /\ a \in Int /\ Greater(1, call.from) = a
    BY DEF Greater
<1>3. SubSeq(t, a, n) \in Seq(S)
    BY <1>1, <1>2, Part
<1>4. CASE call.to = None \/ ~(call.to < n)
    <2>1. ReadHint(call, n) = 0 /\ InRange(t, call) = SubSeq(t, a, n)
        <3>1. call.to # None => Lesser(call.to, n) = n
            BY <1>1, <1>4 DEF Lesser
        <3> QED BY <1>4, <3>1 DEF ReadHint, InRange
    <2> QED BY <1>2, <1>3, <2>1, ConcatEmptySeq
<1>5. CASE call.to # None /\ call.to < n
    <2> DEFINE b == call.to
    <2>1. b \in Nat /\ b < n /\ call.from <= b /\ b \in Int
        BY <1>5
    <2>2. ReadHint(call, n) = b + 1 /\ b + 1 # 0 /\ InRange(t, call) = SubSeq(t, a, b)
        <3>1. Lesser(call.to, Len(t)) = b
            BY <2>1 DEF Lesser
        <3>2. InRange(t, call) = SubSeq(t, a, b)
            BY <1>5, <3>1 DEF InRange
        <3>3. ReadHint(call, n) = b + 1
            BY <1>5 DEF ReadHint
        <3> QED BY <2>1, <3>2, <3>3
    <2> HIDE DEF a, b, n
    <2>3. SubSeq(t, a, b) \o SubSeq(t, b + 1, n) = SubSeq(t, a, n)
        <3>1. a <= b + 1
            BY <2>1 DEF a, Greater
        <3>2. a \in 1 .. Len(t) + 1 /\ b \in a - 1 .. Len(t) /\ n \in b .. Len(t)
            BY <1>1, <1>2, <2>1, <3>1 DEF n
        <3> QED BY <3>2, ConcatAdjacentSubSeq
    <2> QED BY <1>2, <2>2, <2>3 DEF a, b, n
<1> QED BY <1>4, <1>5
-----------------------------------------------------------------------------
(* The one place a patch matches.                                          *)

\* A set of numbers has a least.
LEMMA Least ==
    ASSUME NEW S \in SUBSET Nat, S # {}
    PROVE  \E x \in S : \A y \in S : x <= y
<1> SUFFICES ASSUME \A x \in S : \E y \in S : ~(x <= y) PROVE FALSE
    OBVIOUS
<1> DEFINE T == {k \in Nat : \A x \in S : x >= k}
<1>1. 0 \in T
    OBVIOUS
<1>2. ASSUME NEW k \in Nat, k \in T PROVE k + 1 \in T
    <2>1. k \notin S
        BY <1>2
    <2> QED BY <1>2, <2>1
<1> HIDE DEF T
<1>3. \A k \in Nat : k \in T
    BY <1>1, <1>2, NatInduct
<1>4. PICK x \in S : TRUE
    OBVIOUS
<1>5. x + 1 \in T
    BY <1>3
<1> QED BY <1>5 DEF T

\* A part of a part.
LEMMA PartOfPart ==
    ASSUME NEW S, NEW t \in Seq(S), NEW l \in 0 .. Len(t), NEW m \in Nat \ {0}, NEW n \in 0 .. l
    PROVE  SubSeq(SubSeq(t, 1, l), m, n) = SubSeq(t, m, n)
<1>1. Len(t) \in Nat /\ l \in Nat /\ n \in Nat /\ n <= l /\ l <= Len(t)
    BY LenProperties
<1>2. CASE n < m
    <2>1. SubSeq(SubSeq(t, 1, l), m, n) = << >> /\ SubSeq(t, m, n) = << >>
        BY <1>1, <1>2, SubSeqEmpty
    <2> QED BY <2>1
<1>3. CASE ~(n < m)
    <2>1. /\ 1 \in 1 .. Len(t) /\ l \in 1 .. Len(t)
          /\ m \in 1 .. l - 1 + 1 /\ n \in 1 .. l - 1 + 1
          /\ 1 + m - 1 = m /\ 1 + n - 1 = n
        BY <1>1, <1>3
    <2>2. SubSeq(SubSeq(t, 1, l), m, n) = SubSeq(t, 1 + m - 1, 1 + n - 1)
        BY <2>1, SubSeqOfSubSeq
    <2> QED BY <2>1, <2>2
<1> QED BY <1>2, <1>3

\* What the parts of a sequence are.
LEMMA PartsAre ==
    ASSUME NEW t, NEW s
    PROVE  s \in SubSeqs(t) <=> \E i \in 0 .. Len(t) : \E j \in 0 .. Len(t) : s = SubSeq(t, i + 1, j)
BY DEF SubSeqs

\* The first place of a part that is there, empty or not, is a place of it.
LEMMA FirstPlace ==
    ASSUME NEW S, NEW t \in Seq(S), NEW s \in Seq(S), s \in SubSeqs(t)
    PROVE  /\ IndexFirstSubSeq(s, t) \in 1 .. (Len(t) + 1 - Len(s))
           /\ s # << >> => SubSeq(t, IndexFirstSubSeq(s, t), IndexFirstSubSeq(s, t) + Len(s) - 1) = s
<1> DEFINE Within(i) == s \in SubSeqs(SubSeq(t, 1, i))
           U == {i \in 0 .. Len(t) : Within(i)}
           last == CHOOSE i \in 0 .. Len(t) : Within(i) /\ \A j \in 0 .. i - 1 : ~Within(j)
<1>1. Len(t) \in Nat /\ Len(s) \in Nat
    BY LenProperties
<1>2. IndexFirstSubSeq(s, t) = last - (Len(s) - 1)
    BY DEF IndexFirstSubSeq
<1>3. Len(t) \in 0 .. Len(t) /\ Within(Len(t))
    <2>1. SubSeq(t, 1, Len(t)) = t
        BY SubSeqFull
    <2>2. Within(Len(t))
        BY <2>1, Zenon
    <2> QED BY <1>1, <2>2
<1> HIDE DEF Within
<1>4. U \in SUBSET Nat /\ U # {}
    BY <1>1, <1>3
<1>5. PICK l \in U : \A y \in U : l <= y
    <2> HIDE DEF U
    <2> QED BY <1>4, Least
<1>6. \A j \in 0 .. l - 1 : ~Within(j)
    <2> SUFFICES ASSUME NEW j \in 0 .. l - 1, Within(j) PROVE FALSE
        OBVIOUS
    <2>1. j \in U /\ ~(l <= j)
        BY <1>1
    <2> QED BY <1>5, <2>1
<1>7. last \in 0 .. Len(t) /\ Within(last) /\ \A j \in 0 .. last - 1 : ~Within(j)
    BY <1>5, <1>6
<1> HIDE DEF last, U
<1>8. last \in Nat /\ last <= Len(t)
    BY <1>1, <1>7
<1>9. SubSeq(t, 1, last) \in Seq(S) /\ Len(SubSeq(t, 1, last)) = last
    <2>1. last \in Int /\ 1 \in Nat \ {0} /\ (~(1 <= last) => last = 0) /\ last - 1 + 1 = last
        BY <1>8
    <2> QED BY <1>8, <2>1, Part
<1>10. PICK i \in 0 .. last, j \in 0 .. last : s = SubSeq(SubSeq(t, 1, last), i + 1, j)
    <2>1. PICK x : x = SubSeq(t, 1, last)
        OBVIOUS
    <2>2. s \in SubSeqs(x) /\ Len(x) = last
        BY <1>7, <1>9, <2>1, Zenon DEF Within
    <2>3. \E i \in 0 .. last : \E j \in 0 .. last : s = SubSeq(x, i + 1, j)
        BY <2>2, PartsAre
    <2> QED BY <2>1, <2>3
<1>11. i \in Nat /\ j \in Nat /\ i + 1 \in Nat \ {0} /\ i <= last /\ j <= last /\ last \in 0 .. Len(t) /\ j \in 0 .. last
    BY <1>1, <1>8
<1>12. s = SubSeq(t, i + 1, j)
    BY <1>10, <1>11, PartOfPart
<1>13. Len(s) = IF i + 1 <= j THEN j - (i + 1) + 1 ELSE 0
    <2>1. j \in Int /\ j <= Len(t)
        BY <1>8, <1>11
    <2> QED BY <1>11, <1>12, <2>1, Part
<1>14. CASE i + 1 <= j
    <2>1. j = last
        <3> SUFFICES ASSUME j # last PROVE FALSE
            OBVIOUS
        <3>1. j \in 0 .. last - 1 /\ j \in 0 .. Len(t) /\ j \in 0 .. j /\ i \in 0 .. j
            BY <1>8, <1>11, <1>14
        <3>2. SubSeq(SubSeq(t, 1, j), i + 1, j) = s
            BY <1>11, <1>12, <3>1, PartOfPart
        <3>3. Len(SubSeq(t, 1, j)) = j
            <4>1. j \in Int /\ j <= Len(t) /\ 1 <= j /\ j - 1 + 1 = j /\ 1 \in Nat \ {0}
                BY <1>8, <1>11, <1>14
            <4> QED BY <4>1, Part
        <3>4. Within(j)
            BY <3>1, <3>2, <3>3, PartsAre DEF Within
        <3> QED BY <1>7, <3>1, <3>4
    <2>2. last - (Len(s) - 1) = i + 1 /\ i + 1 + Len(s) - 1 = j
        BY <1>11, <1>13, <1>14, <2>1
    <2>3. i + 1 \in 1 .. (Len(t) + 1 - Len(s))
        BY <1>1, <1>8, <1>11, <1>13, <1>14
    <2> QED BY <1>2, <1>12, <2>2, <2>3
<1>15. CASE ~(i + 1 <= j)
    <2>1. Len(s) = 0 /\ s = << >>
        BY <1>13, <1>15, EmptySeq
    <2>2. last = 0
        <3> SUFFICES ASSUME last # 0 PROVE FALSE
            OBVIOUS
        <3>1. 0 \in 0 .. last - 1
            BY <1>8
        <3>2. SubSeq(t, 1, 0) = << >> /\ SubSeq(<< >>, 0 + 1, 0) = << >>
            BY SubSeqEmpty
        <3>3. 0 \in 0 .. Len(<< >>)
            BY EmptySeq
        <3>4. Within(0)
            BY <2>1, <3>2, <3>3, PartsAre DEF Within
        <3> QED BY <1>7, <3>1, <3>4
    <2>3. last - (Len(s) - 1) = 1 /\ 1 \in 1 .. (Len(t) + 1 - Len(s))
        BY <1>1, <2>1, <2>2
    <2> QED BY <1>2, <2>1, <2>3
<1> QED BY <1>14, <1>15

\* What is there at a place is a part.
LEMMA PlaceIsPart ==
    ASSUME NEW S, NEW t \in Seq(S), NEW s \in Seq(S), s # << >>, NEW i \in Occurrences(t, s)
    PROVE  s \in SubSeqs(t)
<1>1. Len(t) \in Nat /\ Len(s) \in Nat /\ Len(s) # 0
    BY LenProperties, EmptySeq
<1>2. i \in 1 .. (Len(t) + 1 - Len(s)) /\ SubSeq(t, i, i + Len(s) - 1) = s
    BY DEF Occurrences
<1>3. i - 1 \in 0 .. Len(t) /\ i + Len(s) - 1 \in 0 .. Len(t) /\ (i - 1) + 1 = i
    BY <1>1, <1>2
<1>4. SubSeq(t, (i - 1) + 1, i + Len(s) - 1) = s
    BY <1>2, <1>3
<1> QED BY <1>3, <1>4, PartsAre

\* Where a text is found once, the place is the first.
LEMMA OnlyPlace ==
    ASSUME NEW S, NEW t \in Seq(S), NEW s \in Seq(S), s # << >>,
           Cardinality(Occurrences(t, s)) = 1
    PROVE  s \in SubSeqs(t) /\ (CHOOSE i \in Occurrences(t, s) : TRUE) = IndexFirstSubSeq(s, t)
<1> DEFINE O == Occurrences(t, s)
<1>1. Len(t) \in Nat /\ Len(s) \in Nat
    BY LenProperties
<1>2. IsFiniteSet(O)
    <2>1. IsFiniteSet(1 .. (Len(t) + 1 - Len(s))) /\ O \subseteq 1 .. (Len(t) + 1 - Len(s))
        <3>1. 1 \in Int /\ Len(t) + 1 - Len(s) \in Int
            BY <1>1
        <3> QED BY <3>1, FS_Interval DEF Occurrences
    <2> HIDE DEF O
    <2> QED BY <2>1, FS_Subset
<1> HIDE DEF O
<1>3. PICK i : O = {i}
    BY <1>2, FS_Singleton DEF O
<1>4. s \in SubSeqs(t)
    BY <1>3, PlaceIsPart DEF O
<1>5. IndexFirstSubSeq(s, t) \in O
    BY <1>4, FirstPlace DEF O, Occurrences
<1> QED BY <1>3, <1>4, <1>5 DEF O

\* A replacement in a text leaves a text.
LEMMA ReplaceAtText ==
    ASSUME NEW S, NEW t \in Seq(S), NEW s \in Seq(S), NEW r \in Seq(S),
           NEW i \in 1 .. (Len(t) + 1 - Len(s))
    PROVE  ReplaceSubSeqAt(i, r, s, t) \in Seq(S)
<1>1. Len(t) \in Nat /\ Len(s) \in Nat
    BY LenProperties
<1>2. /\ i - 1 \in Int /\ i - 1 <= Len(t) /\ 1 \in Nat \ {0}
      /\ i + Len(s) \in Nat \ {0} /\ Len(t) \in Int /\ Len(t) <= Len(t)
    BY <1>1
<1>3. SubSeq(t, 1, i - 1) \in Seq(S) /\ SubSeq(t, i + Len(s), Len(t)) \in Seq(S)
    BY <1>2, Part
<1> QED BY <1>3, ConcatProperties DEF ReplaceSubSeqAt
-----------------------------------------------------------------------------
(* Patches.                                                                *)

\* The steps of a fold, one after the other.
IsRun(f, n, T, base, H) ==
    /\ f[0] = base
    /\ \A k \in 0 .. n : f[k] \in T
    /\ \A k \in 1 .. n : f[k] = H[k][f[k - 1]]

\* As long as it stays in T, the function goes by H.
GoesBy(it, n, T, H) ==
    \A u \in SUBSET (1 .. n) :
       u # {} /\ it[u \ {Max(u)}] \in T => it[u] = H[Max(u)][it[u \ {Max(u)}]]

\* Such a function runs over 1 .. n.
LEMMA FoldRun ==
    ASSUME NEW n \in Nat, NEW T, NEW base \in T, NEW H \in [1 .. n -> [T -> T]],
           NEW it, it[{}] = base, GoesBy(it, n, T, H)
    PROVE  \E f : IsRun(f, n, T, base, H) /\ f[n] = it[1 .. n]
<1> DEFINE f == [k \in 0 .. n |-> it[1 .. k]]
<1>1. f[0] = base /\ f[n] = it[1 .. n]
    <2>1. 1 .. 0 = {} /\ 0 \in 0 .. n /\ n \in 0 .. n
        OBVIOUS
    <2> QED BY <2>1
<1>2. ASSUME NEW k \in 1 .. n, f[k - 1] \in T PROVE f[k] = H[k][f[k - 1]] /\ f[k] \in T
    <2>1. k \in Nat \ {0} /\ k - 1 \in 0 .. n /\ k \in 0 .. n /\ k \in 1 .. k
        OBVIOUS
    <2>2. 1 .. k \in SUBSET (1 .. n) /\ 1 .. k # {}
        <3>1. \A x \in 1 .. k : x \in 1 .. n
            BY <2>1
        <3> QED BY <2>1, <3>1
    <2>3. Max(1 .. k) = k /\ (1 .. k) \ {k} = 1 .. (k - 1)
        BY <2>1, MaxUpto
    <2>4. f[k] = it[1 .. k] /\ f[k - 1] = it[1 .. (k - 1)]
        BY <2>1
    <2> HIDE DEF f
    <2>5. it[1 .. k] = H[k][it[1 .. (k - 1)]]
        BY <1>2, <2>2, <2>3, <2>4 DEF GoesBy
    <2> QED BY <1>2, <2>4, <2>5
<1> HIDE DEF f
<1> DEFINE S == {k \in Nat : k > n \/ f[k] \in T}
<1>3. 0 \in S
    BY <1>1
<1>4. ASSUME NEW k \in Nat, k \in S PROVE k + 1 \in S
    <2>1. CASE k + 1 > n
        BY <2>1
    <2>2. CASE ~(k + 1 > n)
        <3>1. ~(k > n) /\ k + 1 \in 1 .. n /\ (k + 1) - 1 = k
            BY <2>2
        <3>2. f[k + 1] \in T
            BY <1>2, <1>4, <3>1
        <3> QED BY <3>2
    <2> QED BY <2>1, <2>2
<1> HIDE DEF S
<1>5. \A k \in Nat : k \in S
    BY <1>3, <1>4, NatInduct
<1>6. \A k \in 0 .. n : f[k] \in T
    <2>1. \A k \in 0 .. n : k \in Nat /\ ~(k > n)
        OBVIOUS
    <2> QED BY <1>5, <2>1 DEF S
<1>7. \A k \in 1 .. n : f[k] = H[k][f[k - 1]]
    <2>1. \A k \in 1 .. n : k - 1 \in 0 .. n
        OBVIOUS
    <2> QED BY <1>2, <1>6, <2>1
<1>8. IsRun(f, n, T, base, H)
    BY <1>1, <1>6, <1>7 DEF IsRun
<1> QED BY <1>1, <1>8

Patch == [find : Seq(Lines), replace : Seq(Lines)]
State == [ok : BOOLEAN, text : Text]

\* Lines are part of a text.
LEMMA LinesText == ASSUME NEW s \in Seq(Lines) PROVE s \in Text
<1>1. Len(s) \in Nat /\ DOMAIN s = 1 .. Len(s) /\ s = [i \in 1 .. Len(s) |-> s[i]]
    BY LenProperties
<1>2. \A i \in 1 .. Len(s) : s[i] \in Lines \cup {Nul}
    BY <1>1, ElementOfSeq
<1> QED BY <1>1, <1>2, IsASeq DEF Text

\* One patch.
LEMMA TriedType ==
    ASSUME NEW state \in State, NEW patch \in Patch
    PROVE  /\ Tried(state, patch) \in State
           /\ Tried(state, patch).ok => state.ok /\ Tried(state, patch).text = Replaced(state.text, patch)
<1> DEFINE t == state.text
           s == patch.find
           r == patch.replace
           at == Occurrences(t, s)
           i == CHOOSE i \in at : TRUE
<1>1. t \in Text /\ s \in Text /\ r \in Text /\ state.ok \in BOOLEAN
    BY LinesText DEF State, Patch
<1>2. CASE state.ok /\ s # << >> /\ Cardinality(at) = 1
    <2>1. Tried(state, patch) = [state EXCEPT !.text = ReplaceSubSeqAt(i, r, s, t)]
        BY <1>2 DEF Tried
    <2> HIDE DEF i, at, t, s, r
    <2>2. s \in SubSeqs(t) /\ i = IndexFirstSubSeq(s, t)
        BY <1>1, <1>2, OnlyPlace DEF at, i, Text
    <2>3. i \in 1 .. (Len(t) + 1 - Len(s))
        BY <1>1, <2>2, FirstPlace DEF Text
    <2>4. ReplaceSubSeqAt(i, r, s, t) \in Text
        BY <1>1, <2>3, ReplaceAtText DEF Text
    <2>5. Replaced(t, patch) = ReplaceSubSeqAt(i, r, s, t)
        BY <2>2 DEF Replaced, ReplaceFirstSubSeq, s, r
    <2>6. Tried(state, patch) \in State /\ Tried(state, patch).text = ReplaceSubSeqAt(i, r, s, t)
        BY <2>1, <2>4 DEF State
    <2> QED BY <1>2, <2>5, <2>6 DEF t
<1>3. CASE ~(state.ok /\ s # << >> /\ Cardinality(at) = 1)
    <2>1. Tried(state, patch) = [state EXCEPT !.ok = FALSE]
        BY <1>3 DEF Tried
    <2> HIDE DEF i, at, t, s, r
    <2> QED BY <2>1 DEF State
<1> QED BY <1>2, <1>3

\* One replacement.
LEMMA ReplacedType ==
    ASSUME NEW t \in Text, NEW patch \in Patch
    PROVE  Replaced(t, patch) \in Text
<1>1. patch.find \in Text /\ patch.replace \in Text
    BY LinesText DEF Patch
<1>2. CASE patch.find \in SubSeqs(t)
    <2>1. IndexFirstSubSeq(patch.find, t) \in 1 .. (Len(t) + 1 - Len(patch.find))
        BY <1>1, <1>2, FirstPlace DEF Text
    <2>2. ReplaceSubSeqAt(IndexFirstSubSeq(patch.find, t), patch.replace, patch.find, t) \in Text
        BY <1>1, <2>1, ReplaceAtText DEF Text
    <2> QED BY <1>2, <2>2 DEF Replaced, ReplaceFirstSubSeq
<1>3. CASE patch.find \notin SubSeqs(t)
    BY <1>3 DEF Replaced, ReplaceFirstSubSeq
<1> QED BY <1>2, <1>3

TriedSteps(patches)    == [k \in 1 .. Len(patches) |-> [x \in State |-> Tried(x, patches[k])]]
ReplacedSteps(patches) == [k \in 1 .. Len(patches) |-> [x \in Text |-> Replaced(x, patches[k])]]

\* The patches of a call are tried one after the other.
LEMMA PatchedRun ==
    ASSUME NEW text \in Text, NEW patches \in Seq(Patch)
    PROVE  \E f : /\ IsRun(f, Len(patches), State, [ok |-> TRUE, text |-> text], TriedSteps(patches))
                  /\ f[Len(patches)] = Patched(text, patches)
<1> DEFINE n == Len(patches)
           H == TriedSteps(patches)
           base == [ok |-> TRUE, text |-> text]
           Fold(it) == [u \in SUBSET DOMAIN patches |->
                          IF u = {} THEN base ELSE Tried(it[u \ {Max(u)}], patches[Max(u)])]
           iter == CHOOSE it : it = Fold(it)
<1>1. n \in Nat /\ DOMAIN patches = 1 .. n /\ \A k \in 1 .. n : patches[k] \in Patch
    BY LenProperties, ElementOfSeq
<1>2. H \in [1 .. n -> [State -> State]] /\ \A k \in 1 .. n : \A x \in State : H[k][x] = Tried(x, patches[k])
    BY <1>1, TriedType DEF TriedSteps
<1>3. Patched(text, patches) = iter[DOMAIN patches]
    BY DEF Patched, FoldLeft, MapThenFoldSet
<1>4. base \in State
    BY DEF State
<1> HIDE DEF H, n, base
<1>5. PICK it \in [SUBSET (1 .. n) -> State] : IsFold(it, n, base, H)
    BY <1>1, <1>2, <1>4, FoldExists
<1>6. it = Fold(it)
    <2>1. ASSUME NEW u \in SUBSET (1 .. n), u # {}
          PROVE  H[Max(u)][it[u \ {Max(u)}]] = Tried(it[u \ {Max(u)}], patches[Max(u)])
        <3>1. Max(u) \in u
            BY <1>1, <2>1, MaxOf
        <3>2. u \ {Max(u)} \in SUBSET (1 .. n) /\ it[u \ {Max(u)}] \in State
            BY <2>1
        <3> QED BY <1>2, <3>1, <3>2
    <2> QED BY <1>1, <1>5, <2>1 DEF IsFold
<1> HIDE DEF Fold
<1>7. iter = Fold(iter)
    BY <1>6
<1> HIDE DEF iter
<1>8. iter[{}] = base
    BY <1>7 DEF Fold
<1>9. GoesBy(iter, n, State, H)
    <2> SUFFICES ASSUME NEW u \in SUBSET (1 .. n), u # {}, iter[u \ {Max(u)}] \in State
                 PROVE  iter[u] = H[Max(u)][iter[u \ {Max(u)}]]
        BY DEF GoesBy
    <2>1. Max(u) \in u
        BY <1>1, MaxOf
    <2>2. iter[u] = Tried(iter[u \ {Max(u)}], patches[Max(u)])
        BY <1>1, <1>7 DEF Fold
    <2> QED BY <1>2, <2>1, <2>2
<1>10. PICK f : IsRun(f, n, State, base, H) /\ f[n] = iter[1 .. n]
    <2>1. H \in [1 .. n -> [State -> State]] /\ n \in Nat /\ base \in State
        BY <1>1, <1>2, <1>4
    <2> QED BY <1>8, <1>9, <2>1, FoldRun
<1> QED BY <1>1, <1>3, <1>10 DEF H, n, base

\* What is asked for is a replacement after the other.
LEMMA ReplacedRun ==
    ASSUME NEW text \in Text, NEW patches \in Seq(Patch)
    PROVE  \E f : /\ IsRun(f, Len(patches), Text, text, ReplacedSteps(patches))
                  /\ f[Len(patches)] = AllReplaced(text, patches)
<1> DEFINE n == Len(patches)
           H == ReplacedSteps(patches)
           Fold(it) == [u \in SUBSET DOMAIN patches |->
                          IF u = {} THEN text ELSE Replaced(it[u \ {Max(u)}], patches[Max(u)])]
           iter == CHOOSE it : it = Fold(it)
<1>1. n \in Nat /\ DOMAIN patches = 1 .. n /\ \A k \in 1 .. n : patches[k] \in Patch
    BY LenProperties, ElementOfSeq
<1>2. H \in [1 .. n -> [Text -> Text]] /\ \A k \in 1 .. n : \A x \in Text : H[k][x] = Replaced(x, patches[k])
    BY <1>1, ReplacedType DEF ReplacedSteps
<1>3. AllReplaced(text, patches) = iter[DOMAIN patches]
    BY DEF AllReplaced, FoldLeft, MapThenFoldSet
<1> HIDE DEF H, n
<1>4. PICK it \in [SUBSET (1 .. n) -> Text] : IsFold(it, n, text, H)
    BY <1>1, <1>2, FoldExists
<1>5. it = Fold(it)
    <2>1. ASSUME NEW u \in SUBSET (1 .. n), u # {}
          PROVE  H[Max(u)][it[u \ {Max(u)}]] = Replaced(it[u \ {Max(u)}], patches[Max(u)])
        <3>1. Max(u) \in u
            BY <1>1, <2>1, MaxOf
        <3>2. u \ {Max(u)} \in SUBSET (1 .. n) /\ it[u \ {Max(u)}] \in Text
            BY <2>1
        <3> QED BY <1>2, <3>1, <3>2
    <2> QED BY <1>1, <1>4, <2>1 DEF IsFold
<1> HIDE DEF Fold
<1>6. iter = Fold(iter)
    BY <1>5
<1> HIDE DEF iter
<1>7. iter[{}] = text
    BY <1>6 DEF Fold
<1>8. GoesBy(iter, n, Text, H)
    <2> SUFFICES ASSUME NEW u \in SUBSET (1 .. n), u # {}, iter[u \ {Max(u)}] \in Text
                 PROVE  iter[u] = H[Max(u)][iter[u \ {Max(u)}]]
        BY DEF GoesBy
    <2>1. Max(u) \in u
        BY <1>1, MaxOf
    <2>2. iter[u] = Replaced(iter[u \ {Max(u)}], patches[Max(u)])
        BY <1>1, <1>6 DEF Fold
    <2> QED BY <1>2, <2>1, <2>2
<1>9. PICK f : IsRun(f, n, Text, text, H) /\ f[n] = iter[1 .. n]
    <2>1. H \in [1 .. n -> [Text -> Text]] /\ n \in Nat /\ text \in Text
        BY <1>1, <1>2
    <2> QED BY <1>7, <1>8, <2>1, FoldRun
<1> QED BY <1>1, <1>3, <1>9 DEF H, n

\* Patches that all match do what was asked, in a text or in none.
LEMMA PatchedAsAsked ==
    ASSUME NEW text \in Text, NEW patches \in Seq(Patch)
    PROVE  /\ Patched(text, patches) \in State
           /\ Patched(text, patches).ok => Patched(text, patches).text = AllReplaced(text, patches)
<1> DEFINE n == Len(patches)
<1>1. n \in Nat /\ \A k \in 1 .. n : patches[k] \in Patch
    BY LenProperties, ElementOfSeq
<1>2. PICK f : IsRun(f, n, State, [ok |-> TRUE, text |-> text], TriedSteps(patches)) /\ f[n] = Patched(text, patches)
    BY PatchedRun
<1>3. PICK g : IsRun(g, n, Text, text, ReplacedSteps(patches)) /\ g[n] = AllReplaced(text, patches)
    BY ReplacedRun
<1>4. \A k \in 1 .. n : f[k - 1] \in State /\ f[k] = Tried(f[k - 1], patches[k])
    <2>1. \A k \in 1 .. n : k - 1 \in 0 .. n
        BY <1>1
    <2> QED BY <1>2, <2>1 DEF IsRun, TriedSteps
<1>5. \A k \in 1 .. n : g[k - 1] \in Text /\ g[k] = Replaced(g[k - 1], patches[k])
    <2>1. \A k \in 1 .. n : k - 1 \in 0 .. n
        BY <1>1
    <2> QED BY <1>3, <2>1 DEF IsRun, ReplacedSteps
<1>6. f[0].text = text /\ g[0] = text /\ f[n] \in State
    BY <1>1, <1>2, <1>3 DEF IsRun
<1> HIDE DEF n
<1> DEFINE S == {k \in Nat : k > n \/ (f[k].ok => f[k].text = g[k])}
<1>7. 0 \in S
    BY <1>6
<1>8. ASSUME NEW k \in Nat, k \in S PROVE k + 1 \in S
    <2>1. CASE k + 1 > n
        BY <2>1
    <2>2. CASE ~(k + 1 > n)
        <3>1. ~(k > n) /\ k + 1 \in 1 .. n /\ (k + 1) - 1 = k
            BY <1>1, <2>2
        <3>2. f[k] \in State /\ f[k + 1] = Tried(f[k], patches[k + 1]) /\ g[k + 1] = Replaced(g[k], patches[k + 1])
            BY <1>4, <1>5, <3>1
        <3>3. f[k + 1].ok => f[k].ok /\ f[k + 1].text = Replaced(f[k].text, patches[k + 1])
            BY <1>1, <3>1, <3>2, TriedType
        <3>4. f[k].ok => f[k].text = g[k]
            BY <1>8, <3>1
        <3>5. f[k + 1].ok => f[k + 1].text = g[k + 1]
            BY <3>2, <3>3, <3>4
        <3> QED BY <3>5
    <2> QED BY <2>1, <2>2
<1> HIDE DEF S
<1>9. n \in S
    BY <1>1, <1>7, <1>8, NatInduct
<1>10. f[n].ok => f[n].text = g[n]
    BY <1>1, <1>9 DEF S
<1> QED BY <1>2, <1>3, <1>6, <1>10
-----------------------------------------------------------------------------
(* The invariant.                                                          *)

Job == [call : Calls \cup {[tool |-> "none"]},
        at : {"begin", "pass", "load", "open", "write", "end"},
        size : Nat, text : Text, more : Nat,
        result : {"none", "ok", "error", "excuse"}]

\* Types; a call that has looked at its file, or opened it, has found one.
Typed ==
    /\ jobs \in [Workers -> Job]
    /\ files \in [Paths -> Text \cup {None}] /\ before \in [Paths -> Text \cup {None}]
    /\ repo \in BOOLEAN /\ cancelled \in BOOLEAN

\* The tools whose calls have a step there.
ToolAt == [begin |-> {"read", "write", "patch", "grep", "git_grep"}, pass |-> {"read"},
           load |-> {"patch"}, open |-> {"patch"}, write |-> {"write", "patch"},
           end |-> {"read", "write", "patch", "grep", "git_grep", "none"}]

Placed(w) ==
    /\ jobs[w].call.tool \in ToolAt[jobs[w].at]
    /\ jobs[w].at \in {"pass", "load", "open", "write"} => files[jobs[w].call.path] \in Text

\* A file no call of the batch writes is as it was.
Untouched == \A p \in Paths : (\A v \in Writers : jobs[v].call.path # p) => files[p] = before[p]

\* What a patch makes of the file of the beginning.
Wanted(task) == Patched(before[task.call.path], task.call.patches)

\* The text a call may write: a patch's only when every replacement has matched.
Agreed(task) ==
    IF task.call.tool = "write" THEN task.text = task.call.content
    ELSE /\ before[task.call.path] \in Text
         /\ Wanted(task).ok /\ task.text = Wanted(task).text

\* A writer with its file to itself, step by step.
WriterInv(w) ==
    LET task == jobs[w]  path == task.call.path
    IN (w \in Writers /\ Alone(w, path)) =>
          /\ task.at \in {"begin", "load", "open"} => files[path] = before[path]
          /\ task.at = "load" => before[path] \in Text /\ task.size = Len(before[path])
          /\ task.at \in {"open", "write"} => Agreed(task)
          /\ task.at = "write" => files[path] = << >>
          /\ task.at = "end" =>
                IF task.result = "error" THEN files[path] = before[path]
                ELSE Agreed(task) /\ files[path] = task.text

\* A reader of a file nobody writes.
ReaderInv(w) ==
    LET task == jobs[w]  file == before[task.call.path]
    IN (task.call.tool = "read" /\ Alone(w, task.call.path)) =>
          /\ task.at = "pass" => file \in Text /\ task.size = Len(file)
          /\ task.at = "pass" \/ (task.at = "end" /\ task.result = "ok") =>
                task.call.to = None \/ task.call.from <= task.call.to
          /\ task.at = "end" /\ task.result = "ok" =>
                file \in Text /\ task.text = InRange(file, task.call) /\ task.more = ReadHint(task.call, Len(file))

\* A search of files nobody writes.
SearchInv(w) ==
    (Over(w, {"grep"}) /\ jobs[w].result # "error" /\ Writers = {} /\ jobs[w].text = << >>) =>
        Matching(Paths, jobs[w].call.pattern) = << >>

FileInv ==
    /\ Typed /\ Untouched
    /\ \A w \in Workers : Placed(w) /\ WriterInv(w) /\ ReaderInv(w) /\ SearchInv(w)
-----------------------------------------------------------------------------
(* Calls and what they return.                                             *)

\* The parts of a call.
LEMMA CallParts ==
    ASSUME NEW call \in Calls
    PROVE  /\ call.tool \in {"read", "write", "patch", "grep", "git_grep"}
           /\ call.tool \in {"read", "write", "patch"} => call.path \in Paths
           /\ call.tool = "read" => call.from \in Nat /\ (call.to = None \/ call.to \in Nat)
           /\ call.tool = "write" => call.content \in Text
           /\ call.tool = "patch" => call.patches \in Seq(Patch)
           /\ call.tool \in {"grep", "git_grep"} => call.pattern \in Lines
<1>1. CASE call \in [tool : {"read"}, path : Paths, from : Starts, to : Ends \cup {None}]
    BY <1>1, FileToolsAssumption
<1>2. CASE call \in [tool : {"write"}, path : Paths, content : Contents]
    <2>1. call.content \in Seq(Lines)
        BY <1>2, FileToolsAssumption
    <2>2. call.content \in Text
        BY <2>1, LinesText
    <2> QED BY <1>2, <2>2
<1>3. CASE call \in [tool : {"patch"}, path : Paths, patches : Patches]
    BY <1>3, FileToolsAssumption DEF Patch
<1>4. CASE call \in [tool : {"grep", "git_grep"}, pattern : Lines]
    BY <1>4
<1> QED BY <1>1, <1>2, <1>3, <1>4 DEF Calls

\* A call at one of its steps is one a model has asked for.
LEMMA CallOfJob ==
    ASSUME NEW task \in Job, task.call.tool # "none"
    PROVE  task.call \in Calls
BY DEF Job

\* The matching lines of some files are a text.
LEMMA MatchingText ==
    ASSUME files \in [Paths -> Text \cup {None}], NEW paths \in SUBSET Paths, NEW pattern \in Lines
    PROVE  Matching(paths, pattern) \in Text
<1> DEFINE hits(p) == IF files[p] = None THEN {} ELSE {i \in DOMAIN files[p] : files[p][i] = pattern}
           found   == UNION {{p} \X hits(p) : p \in paths}
<1>1. IsFiniteSet(paths)
    BY FileToolsAssumption, FS_Subset
<1>2. ASSUME NEW p \in paths PROVE IsFiniteSet({p} \X hits(p))
    <2>1. IsFiniteSet(hits(p))
        <3>1. CASE files[p] = None
            BY <3>1, FS_EmptySet
        <3>2. CASE files[p] # None
            <4>1. files[p] \in Text
                BY <3>2
            <4>2. DOMAIN files[p] = 1 .. Len(files[p]) /\ 1 \in Int /\ Len(files[p]) \in Int
                BY <4>1, LenProperties DEF Text
            <4>3. IsFiniteSet(1 .. Len(files[p])) /\ hits(p) \subseteq 1 .. Len(files[p])
                BY <3>2, <4>2, FS_Interval
            <4> HIDE DEF hits
            <4> QED BY <4>3, FS_Subset
        <3> QED BY <3>1, <3>2
    <2>2. IsFiniteSet({p})
        BY FS_Singleton
    <2> HIDE DEF hits
    <2> QED BY <2>1, <2>2, FS_Product
<1> HIDE DEF hits
<1>3. IsFiniteSet({{p} \X hits(p) : p \in paths})
    <2> DEFINE f == [p \in paths |-> {p} \X hits(p)]
               T == {{p} \X hits(p) : p \in paths}
    <2>1. f \in Surjection(paths, T)
        BY DEF Surjection
    <2> HIDE DEF T, f
    <2>2. IsFiniteSet(T)
        BY <1>1, <2>1, FS_Surjection
    <2> QED BY <2>2 DEF T
<1>4. IsFiniteSet(found)
    BY <1>2, <1>3, FS_UNION
<1> HIDE DEF found
<1>5. Cardinality(found) \in Nat
    BY <1>4, FS_CardinalityType
<1>6. Matching(paths, pattern) = [i \in 1 .. Cardinality(found) |-> pattern]
    BY DEF Matching, found, hits
<1>7. \A i \in 1 .. Cardinality(found) : pattern \in Lines \cup {Nul}
    OBVIOUS
<1> QED BY <1>5, <1>6, <1>7, IsASeq DEF Text

\* A task of which only the place and the outcome have changed.
Later(task, next) == next \in Job /\ next.call = task.call

\* A call that has ended.
LEMMA EndedJob ==
    ASSUME NEW task \in Job, NEW outcome \in {"ok", "error", "excuse"}
    PROVE  /\ Later(task, Ended(task, outcome))
           /\ Ended(task, outcome).at = "end" /\ Ended(task, outcome).result = outcome
           /\ Ended(task, outcome).text = task.text
BY DEF Job, Ended, Later

\* What a search shows: nothing only of nothing.
LEMMA ShownJob ==
    ASSUME NEW task \in Job, NEW lines \in Text, NEW limit \in Nat
    PROVE  /\ Later(task, Shown(task, lines, limit))
           /\ Shown(task, lines, limit).at = "end" /\ Shown(task, lines, limit).result = "ok"
           /\ limit # 0 /\ Shown(task, lines, limit).text = << >> => lines = << >>
<1> DEFINE n == Lesser(limit, Len(lines))
           text == SubSeq(lines, 1, n)
           more == IF Len(lines) > limit + 1 THEN 1 ELSE 0
<1>1. Len(lines) \in Nat
    BY LenProperties DEF Text
<1>2. n \in Int /\ n <= Len(lines) /\ 1 \in Nat \ {0}
    BY <1>1 DEF Lesser
<1> HIDE DEF n
<1>3. text \in Text /\ Len(text) = IF 1 <= n THEN n - 1 + 1 ELSE 0
    BY <1>2, Part DEF Text
<1>4. more \in Nat
    OBVIOUS
<1>5. PICK e : e = Ended(task, "ok")
    OBVIOUS
<1>6. e \in Job /\ e.call = task.call /\ e.at = "end" /\ e.result = "ok"
    BY <1>5, EndedJob DEF Later
<1>7. Shown(task, lines, limit) = [e EXCEPT !.text = text, !.more = more]
    BY <1>5 DEF Shown, n
<1>8. limit # 0 /\ text = << >> => lines = << >>
    <2> SUFFICES ASSUME limit # 0, text = << >> PROVE lines = << >>
        OBVIOUS
    <2>1. Len(text) = 0
        BY EmptySeq
    <2>2. Len(lines) = 0
        BY <1>1, <1>2, <1>3, <2>1 DEF n, Lesser
    <2> QED BY <2>2, EmptySeq DEF Text
<1> HIDE DEF text, more
<1> QED BY <1>3, <1>4, <1>6, <1>7, <1>8 DEF Job, Later
-----------------------------------------------------------------------------
(* The beginning, and one step of one call.                                *)

\* What the parts of the invariant say of a call.
CallInv(w) == Placed(w) /\ WriterInv(w) /\ ReaderInv(w) /\ SearchInv(w)

\* A place without a call.
LEMMA FreeJob == Free \in Job /\ Free.at = "end" /\ Free.call = [tool |-> "none"] /\ Free.result = "none"
<1>1. << >> \in Text
    BY EmptySeq DEF Text
<1>2. Free = [call |-> [tool |-> "none"], at |-> "end", size |-> 0, text |-> << >>, more |-> 0, result |-> "none"]
    BY DEF Free, Fresh
<1> QED BY <1>1, <1>2 DEF Job

\* A call that begins.
LEMMA FreshJob ==
    ASSUME NEW call \in Calls
    PROVE  Fresh(call) \in Job /\ Fresh(call).at = "begin" /\ Fresh(call).call = call
<1>1. << >> \in Text
    BY EmptySeq DEF Text
<1> QED BY <1>1 DEF Job, Fresh

\* The files as the program finds them.
LEMMA FileInit == Init => FileInv
<1> SUFFICES ASSUME Init PROVE FileInv
    OBVIOUS
<1>1. Contents \subseteq Text
    BY LinesText, FileToolsAssumption
<1>2. Typed
    BY <1>1, FreeJob DEF Init, Typed
<1>3. Untouched
    BY DEF Init, Untouched
<1>4. \A w \in Workers : CallInv(w)
    BY FreeJob DEF Init, CallInv, Placed, ToolAt, WriterInv, ReaderInv, SearchInv, Writers, Over
<1> QED BY <1>2, <1>3, <1>4 DEF FileInv, CallInv

\* One step of one call: it goes on as next, and writes nothing, or its own file.
Stepped(w, next) ==
    /\ Later(jobs[w], next) /\ jobs' = [jobs EXCEPT ![w] = next]
    /\ repo' = repo /\ cancelled' = cancelled /\ before' = before
    /\ \/ files' = files
       \/ w \in Writers /\ \E x \in Text : files' = [files EXCEPT ![jobs[w].call.path] = x]

\* Who writes what stays as it was.
LEMMA WritersStay ==
    ASSUME FileInv, NEW w \in Workers, NEW next, Stepped(w, next)
    PROVE  /\ Writers' = Writers /\ jobs'[w] = next
           /\ \A v \in Workers : jobs'[v].call = jobs[v].call
           /\ \A v \in Workers : v # w => jobs'[v] = jobs[v]
           /\ \A v \in Workers : \A p : Alone(v, p)' <=> Alone(v, p)
<1>1. jobs \in [Workers -> Job] /\ jobs'[w] = next /\ \A v \in Workers : v # w => jobs'[v] = jobs[v]
    BY DEF FileInv, Typed, Stepped
<1>2. \A v \in Workers : jobs'[v].call = jobs[v].call
    BY <1>1 DEF Stepped, Later
<1>3. Writers' = Writers
    BY <1>2 DEF Writers
<1>4. \A v \in Workers : \A p : Alone(v, p)' <=> Alone(v, p)
    <2>1. Writers \subseteq Workers
        BY DEF Writers
    <2> QED BY <1>2, <1>3, <2>1 DEF Alone
<1> QED BY <1>1, <1>2, <1>3, <1>4

\* The invariant needs to be looked at for the call that goes on only.
LEMMA OwnStep ==
    ASSUME FileInv, NEW w \in Workers, NEW next, Stepped(w, next), CallInv(w)'
    PROVE  FileInv'
<1>1. /\ Writers' = Writers /\ jobs'[w] = next
      /\ \A v \in Workers : jobs'[v].call = jobs[v].call
      /\ \A v \in Workers : v # w => jobs'[v] = jobs[v]
      /\ \A v \in Workers : \A p : Alone(v, p)' <=> Alone(v, p)
    BY WritersStay
<1>2. Typed /\ Untouched /\ Writers \subseteq Workers
    BY DEF FileInv, Writers
<1>3. files' = files \/ (w \in Writers /\ \E x \in Text : files' = [files EXCEPT ![jobs[w].call.path] = x])
    BY DEF Stepped
<1>4. \A p \in Paths : files'[p] = files[p] \/ (files'[p] \in Text /\ w \in Writers /\ p = jobs[w].call.path)
    BY <1>2, <1>3 DEF Typed
<1>5. Typed'
    BY <1>2, <1>3 DEF Typed, Stepped, Later
<1>6. Untouched'
    <2> SUFFICES ASSUME NEW p \in Paths, \A v \in Writers : jobs[v].call.path # p
                 PROVE  files'[p] = before[p]
        BY <1>1, <1>2 DEF Untouched, Stepped
    <2>1. files'[p] = files[p]
        BY <1>4
    <2> QED BY <1>2, <2>1 DEF Untouched
<1>7. ASSUME NEW v \in Workers, v # w PROVE CallInv(v)'
    <2>1. /\ jobs'[v] = jobs[v] /\ before' = before
          /\ Placed(v) /\ WriterInv(v) /\ ReaderInv(v) /\ SearchInv(v)
        BY <1>1, <1>7 DEF FileInv, Stepped
    <2>2. jobs[v] \in Job
        BY <1>2 DEF Typed
    <2>3. jobs[v].call.tool \in {"read", "write", "patch"} => jobs[v].call.path \in Paths
        <3>1. jobs[v].call.tool # "none" => jobs[v].call \in Calls
            BY <2>2, CallOfJob
        <3> QED BY <3>1, CallParts
    <2>4. Placed(v)'
        <3>1. jobs[v].at \in {"pass", "load", "open", "write"} =>
                 files[jobs[v].call.path] \in Text /\ jobs[v].call.path \in Paths
            BY <2>1, <2>3 DEF Placed, ToolAt
        <3> QED BY <1>4, <2>1, <3>1 DEF Placed, ToolAt
    <2>5. WriterInv(v)'
        <3> SUFFICES ASSUME v \in Writers, Alone(v, jobs[v].call.path) PROVE WriterInv(v)'
            BY <1>1, <2>1 DEF WriterInv
        <3>1. files'[jobs[v].call.path] = files[jobs[v].call.path]
            <4>1. jobs[v].call.path \in Paths
                BY <2>3 DEF Writers
            <4>2. w \in Writers => jobs[w].call.path # jobs[v].call.path
                BY <1>7 DEF Alone
            <4> QED BY <1>4, <4>1, <4>2
        <3> QED BY <1>1, <2>1, <3>1 DEF WriterInv, Agreed, Wanted
    <2>6. ReaderInv(v)'
        BY <1>1, <2>1 DEF ReaderInv
    <2>7. SearchInv(v)'
        <3> SUFFICES ASSUME Writers = {} PROVE SearchInv(v)'
            BY <1>1 DEF SearchInv
        <3>1. files' = files
            BY <1>3
        <3> QED BY <1>1, <2>1, <3>1 DEF SearchInv, Over, Matching
    <2> QED BY <2>4, <2>5, <2>6, <2>7 DEF CallInv
<1> QED BY <1>5, <1>6, <1>7 DEF FileInv, CallInv
-----------------------------------------------------------------------------
(* The steps of the tools.                                                 *)

\* What is known of a call at a step.
LEMMA AtStep ==
    ASSUME FileInv, NEW w \in Workers, jobs[w].call.tool # "none"
    PROVE  /\ jobs[w] \in Job /\ jobs[w].call \in Calls
           /\ Placed(w) /\ WriterInv(w) /\ ReaderInv(w) /\ SearchInv(w)
           /\ files \in [Paths -> Text \cup {None}] /\ before \in [Paths -> Text \cup {None}]
BY CallOfJob DEF FileInv, Typed

\* A file that only others read is as it was.
LEMMA AloneUntouched ==
    ASSUME FileInv, NEW w \in Workers, w \notin Writers, NEW p \in Paths, Alone(w, p)
    PROVE  files[p] = before[p]
BY DEF FileInv, Untouched, Alone

\* A step that leaves the files.
LEMMA StepOf ==
    ASSUME NEW w \in Workers, NEW at, NEW tools, NEW next, Step(w, at, tools, next),
           Later(jobs[w], next), UNCHANGED files
    PROVE  Stepped(w, next)
BY DEF Step, Stepped

\* A call that fails leaves nothing to be said of it, where it has written nothing.
LEMMA FailedStep ==
    ASSUME FileInv, NEW w \in Workers, jobs[w].call.tool # "none", jobs[w].at \in {"begin", "load", "open"},
           Stepped(w, Ended(jobs[w], "error")), UNCHANGED files
    PROVE  FileInv'
<1> DEFINE next == Ended(jobs[w], "error")
<1>1. jobs[w] \in Job /\ jobs[w].call \in Calls /\ WriterInv(w)
    BY AtStep
<1>2. next.call = jobs[w].call /\ next.at = "end" /\ next.result = "error"
    BY <1>1, EndedJob DEF Later
<1>3. /\ Writers' = Writers /\ jobs'[w] = next /\ \A p : Alone(w, p)' <=> Alone(w, p)
    BY WritersStay
<1>4. before' = before
    BY DEF Stepped
<1>5. jobs[w].call.tool \in {"read", "write", "patch", "grep", "git_grep"}
    BY <1>1, CallParts
<1> HIDE DEF next
<1>6. Placed(w)'
    BY <1>2, <1>3, <1>5 DEF Placed, ToolAt
<1>7. WriterInv(w)'
    BY <1>1, <1>2, <1>3, <1>4 DEF WriterInv
<1>8. ReaderInv(w)' /\ SearchInv(w)'
    BY <1>2, <1>3 DEF ReaderInv, SearchInv
<1>9. CallInv(w)'
    BY <1>6, <1>7, <1>8 DEF CallInv
<1> QED BY <1>9, OwnStep DEF next

\* The dispatcher's look.
LEMMA SkipStep == ASSUME FileInv, NEW w \in Workers, Skip(w) PROVE FileInv'
<1>1. /\ Step(w, "begin", {"read", "write", "patch", "grep", "git_grep"}, Ended(jobs[w], "error"))
      /\ UNCHANGED files
    BY DEF Skip
<1>2. jobs[w].at = "begin" /\ jobs[w].call.tool # "none"
    BY <1>1 DEF Step
<1>3. Later(jobs[w], Ended(jobs[w], "error"))
    BY <1>2, AtStep, EndedJob
<1>4. Stepped(w, Ended(jobs[w], "error"))
    BY <1>1, <1>3, StepOf
<1> QED BY <1>1, <1>2, <1>4, FailedStep

\* read_file counts the lines.
LEMMA ReadBegins ==
    ASSUME FileInv, NEW w \in Workers, UNCHANGED files,
           jobs[w].call.tool = "read",
           jobs[w].call.to = None \/ ~(jobs[w].call.from > jobs[w].call.to),
           files[jobs[w].call.path] # None,
           Step(w, "begin", {"read"}, [jobs[w] EXCEPT !.at = "pass", !.size = Len(files[jobs[w].call.path])])
    PROVE  FileInv'
<1> DEFINE path == jobs[w].call.path
           next == [jobs[w] EXCEPT !.at = "pass", !.size = Len(files[path])]
<1>1. jobs[w] \in Job /\ jobs[w].call \in Calls /\ files \in [Paths -> Text \cup {None}]
    BY AtStep
<1>2. path \in Paths /\ jobs[w].call.from \in Nat /\ (jobs[w].call.to = None \/ jobs[w].call.to \in Nat)
    BY <1>1, CallParts
<1>3. files[path] \in Text /\ Len(files[path]) \in Nat
    BY <1>1, <1>2, LenProperties DEF Text
<1>4. Later(jobs[w], next) /\ next.at = "pass" /\ next.size = Len(files[path]) /\ next.call = jobs[w].call
    BY <1>1, <1>3 DEF Job, Later
<1>5. Stepped(w, next)
    BY <1>4, StepOf
<1>6. /\ Writers' = Writers /\ jobs'[w] = next /\ \A p : Alone(w, p)' <=> Alone(w, p)
    BY <1>5, WritersStay
<1>7. before' = before /\ w \notin Writers
    BY <1>5 DEF Stepped, Writers
<1>8. Alone(w, path) => files[path] = before[path]
    BY <1>2, <1>7, AloneUntouched
<1> HIDE DEF next
<1>9. Placed(w)' /\ WriterInv(w)' /\ SearchInv(w)'
    BY <1>3, <1>4, <1>6, <1>7 DEF Placed, ToolAt, WriterInv, SearchInv, Over
<1>10. ReaderInv(w)'
    BY <1>2, <1>3, <1>4, <1>6, <1>7, <1>8 DEF ReaderInv
<1>11. CallInv(w)'
    BY <1>9, <1>10 DEF CallInv
<1> QED BY <1>5, <1>11, OwnStep

\* read_file reads them.
LEMMA ReadPasses ==
    ASSUME FileInv, NEW w \in Workers, UNCHANGED files,
           Step(w, "pass", {"read"},
                [Ended(jobs[w], "ok") EXCEPT !.text = InRange(files[jobs[w].call.path], jobs[w].call),
                                             !.more = ReadHint(jobs[w].call, jobs[w].size)])
    PROVE  FileInv'
<1> DEFINE path == jobs[w].call.path
           text == InRange(files[path], jobs[w].call)
           more == ReadHint(jobs[w].call, jobs[w].size)
           next == [Ended(jobs[w], "ok") EXCEPT !.text = text, !.more = more]
<1>1. jobs[w].at = "pass" /\ jobs[w].call.tool = "read"
    BY DEF Step
<1>2. /\ jobs[w] \in Job /\ jobs[w].call \in Calls /\ Placed(w) /\ ReaderInv(w)
    BY <1>1, AtStep
<1>3. path \in Paths /\ jobs[w].call.from \in Nat /\ (jobs[w].call.to = None \/ jobs[w].call.to \in Nat)
    BY <1>1, <1>2, CallParts
<1>4. text \in Text
    BY <1>1, <1>2, <1>3, RangeText DEF Placed, Text
<1>5. more \in Nat
    <2>1. jobs[w].size \in Nat
        BY <1>2 DEF Job
    <2> QED BY <1>3, <2>1 DEF ReadHint
<1>6. Later(jobs[w], next) /\ next.at = "end" /\ next.result = "ok" /\ next.text = text /\ next.more = more
      /\ next.call = jobs[w].call
    <2>1. PICK e : e = Ended(jobs[w], "ok")
        OBVIOUS
    <2>2. e \in Job /\ e.call = jobs[w].call /\ e.at = "end" /\ e.result = "ok"
        BY <1>2, <2>1, EndedJob DEF Later
    <2>3. next = [e EXCEPT !.text = text, !.more = more]
        BY <2>1
    <2> HIDE DEF text, more, next
    <2> QED BY <1>4, <1>5, <2>2, <2>3 DEF Job, Later
<1>7. Stepped(w, next)
    BY <1>6, StepOf
<1>8. /\ Writers' = Writers /\ jobs'[w] = next /\ \A p : Alone(w, p)' <=> Alone(w, p)
    BY <1>7, WritersStay
<1>9. before' = before /\ w \notin Writers
    BY <1>1, <1>7 DEF Stepped, Writers
<1>10. Alone(w, path) => files[path] = before[path]
    BY <1>3, <1>9, AloneUntouched
<1> HIDE DEF next
<1>11. Placed(w)' /\ WriterInv(w)' /\ SearchInv(w)'
    BY <1>1, <1>6, <1>8, <1>9 DEF Placed, ToolAt, WriterInv, SearchInv, Over
<1>12. ReaderInv(w)'
    BY <1>1, <1>2, <1>6, <1>8, <1>9, <1>10 DEF ReaderInv
<1>13. CallInv(w)'
    BY <1>11, <1>12 DEF CallInv
<1> QED BY <1>7, <1>13, OwnStep

\* Both steps of read_file.
LEMMA ReadStep == ASSUME FileInv, NEW w \in Workers, ReadFile(w) PROVE FileInv'
<1> DEFINE call == jobs[w].call
           file == files[call.path]
           next == IF (call.to # None /\ call.from > call.to) \/ file = None THEN Ended(jobs[w], "error")
                   ELSE [jobs[w] EXCEPT !.at = "pass", !.size = Len(file)]
<1>1. CASE Step(w, "begin", {"read"}, next)
    <2>1. jobs[w].at = "begin" /\ call.tool = "read" /\ UNCHANGED files
        BY <1>1 DEF Step, ReadFile
    <2>2. CASE (call.to # None /\ call.from > call.to) \/ file = None
        <3>1. Step(w, "begin", {"read"}, Ended(jobs[w], "error"))
            BY <1>1, <2>2
        <3>2. Later(jobs[w], Ended(jobs[w], "error"))
            BY <2>1, AtStep, EndedJob
        <3>3. Stepped(w, Ended(jobs[w], "error"))
            BY <2>1, <3>1, <3>2, StepOf
        <3> QED BY <2>1, <3>3, FailedStep
    <2>3. CASE ~((call.to # None /\ call.from > call.to) \/ file = None)
        <3>1. Step(w, "begin", {"read"}, [jobs[w] EXCEPT !.at = "pass", !.size = Len(file)])
            BY <1>1, <2>3
        <3> QED BY <2>1, <2>3, <3>1, ReadBegins
    <2> QED BY <2>2, <2>3
<1>2. CASE Step(w, "pass", {"read"},
                [Ended(jobs[w], "ok") EXCEPT !.text = InRange(file, call), !.more = ReadHint(call, jobs[w].size)])
    <2>1. UNCHANGED files
        BY DEF ReadFile
    <2> QED BY <1>2, <2>1, ReadPasses
<1> QED BY <1>1, <1>2 DEF ReadFile
\* A call that opens its file: the file is empty, the text is still to be written.
LEMMA OpenStep ==
    ASSUME FileInv, NEW w \in Writers, NEW next, Later(jobs[w], next), next.at = "write",
           jobs' = [jobs EXCEPT ![w] = next], UNCHANGED <<repo, cancelled, before>>,
           files' = [files EXCEPT ![jobs[w].call.path] = << >>],
           Alone(w, jobs[w].call.path) => Agreed(next)
    PROVE  FileInv'
<1> DEFINE path == jobs[w].call.path
<1>1. w \in Workers /\ jobs[w].call.tool \in {"write", "patch"}
    BY DEF Writers
<1>2. jobs[w].call \in Calls /\ files \in [Paths -> Text \cup {None}]
    BY <1>1, AtStep
<1>3. path \in Paths
    BY <1>1, <1>2, CallParts
<1>4. << >> \in Text
    BY EmptySeq DEF Text
<1>5. Stepped(w, next)
    BY <1>4 DEF Stepped
<1>6. /\ Writers' = Writers /\ jobs'[w] = next /\ \A p : Alone(w, p)' <=> Alone(w, p)
    BY <1>1, <1>5, WritersStay
<1>7. next.call = jobs[w].call /\ files'[path] = << >>
    BY <1>2, <1>3 DEF Later
<1>8. Placed(w)'
    BY <1>1, <1>4, <1>6, <1>7 DEF Placed, ToolAt
<1>9. WriterInv(w)'
    BY <1>6, <1>7 DEF WriterInv, Agreed, Wanted
<1>10. ReaderInv(w)' /\ SearchInv(w)'
    BY <1>1, <1>6, <1>7 DEF ReaderInv, SearchInv, Over
<1>11. CallInv(w)'
    BY <1>8, <1>9, <1>10 DEF CallInv
<1> QED BY <1>1, <1>5, <1>11, OwnStep

\* The stream is written and closed.
LEMMA CloseStep ==
    ASSUME FileInv, NEW w \in Workers, Step(w, "write", {"write", "patch"}, Ended(jobs[w], "ok")),
           files' = [files EXCEPT ![jobs[w].call.path] = Overwrite(@, jobs[w].text)]
    PROVE  FileInv'
<1> DEFINE path == jobs[w].call.path
           text == Overwrite(files[path], jobs[w].text)
<1>0. PICK next : next = Ended(jobs[w], "ok")
    OBVIOUS
<1>1. jobs[w].at = "write" /\ jobs[w].call.tool \in {"write", "patch"} /\ w \in Writers
    BY DEF Step, Writers
<1>2. jobs[w] \in Job /\ jobs[w].call \in Calls /\ Placed(w) /\ WriterInv(w) /\ files \in [Paths -> Text \cup {None}]
    BY <1>1, AtStep
<1>3. path \in Paths
    BY <1>1, <1>2, CallParts
<1>4. files[path] \in Text /\ jobs[w].text \in Text
    BY <1>1, <1>2 DEF Placed, Job
<1>5. text \in Text /\ (files[path] = << >> => text = jobs[w].text)
    BY <1>4, OverwriteText DEF Text
<1>6. Later(jobs[w], next) /\ next.at = "end" /\ next.result = "ok" /\ next.text = jobs[w].text /\ next.call = jobs[w].call
    BY <1>0, <1>2, EndedJob DEF Later
<1>7. files' = [files EXCEPT ![path] = text]
    OBVIOUS
<1> HIDE DEF text
<1>8. Stepped(w, next)
    BY <1>0, <1>1, <1>5, <1>6, <1>7 DEF Stepped, Step
<1>9. /\ Writers' = Writers /\ jobs'[w] = next /\ \A p : Alone(w, p)' <=> Alone(w, p)
    BY <1>8, WritersStay
<1>10. before' = before /\ files'[path] = text
    BY <1>2, <1>3, <1>7, <1>8 DEF Stepped
<1>11. Placed(w)'
    BY <1>1, <1>6, <1>9 DEF Placed, ToolAt
<1>12. WriterInv(w)'
    <2>1. Agreed(jobs[w]) => Agreed(next)'
        BY <1>6, <1>10 DEF Agreed, Wanted
    <2> QED BY <1>1, <1>2, <1>5, <1>6, <1>9, <1>10, <2>1 DEF WriterInv, Agreed, Wanted
<1>13. ReaderInv(w)' /\ SearchInv(w)'
    BY <1>1, <1>6, <1>9 DEF ReaderInv, SearchInv, Over
<1>14. CallInv(w)'
    BY <1>11, <1>12, <1>13 DEF CallInv
<1> QED BY <1>8, <1>14, OwnStep

\* The steps of write_file, for itself or at the end of a patch.
LEMMA WriteStep == ASSUME FileInv, NEW w \in Workers, WriteFile(w) PROVE FileInv'
<1> DEFINE path == jobs[w].call.path
<1>1. CASE /\ Step(w, "begin", {"write"}, [jobs[w] EXCEPT !.at = "write", !.text = jobs[w].call.content])
           /\ files' = [files EXCEPT ![path] = << >>]
    <2> DEFINE next == [jobs[w] EXCEPT !.at = "write", !.text = jobs[w].call.content]
    <2>1. jobs[w].call.tool = "write" /\ w \in Writers
        BY <1>1 DEF Step, Writers
    <2>2. jobs[w] \in Job /\ jobs[w].call \in Calls
        BY <2>1, AtStep
    <2>3. jobs[w].call.content \in Text
        BY <2>1, <2>2, CallParts
    <2>4. Later(jobs[w], next) /\ next.at = "write" /\ next.call = jobs[w].call /\ next.text = jobs[w].call.content
        BY <2>2, <2>3 DEF Job, Later
    <2>5. Agreed(next)
        BY <2>1, <2>4 DEF Agreed
    <2>6. jobs' = [jobs EXCEPT ![w] = next] /\ UNCHANGED <<repo, cancelled, before>>
        BY <1>1 DEF Step
    <2> HIDE DEF next
    <2> QED BY <1>1, <2>1, <2>4, <2>5, <2>6, OpenStep
<1>2. CASE /\ Step(w, "open", {"patch"}, [jobs[w] EXCEPT !.at = "write"])
           /\ files' = [files EXCEPT ![path] = << >>]
    <2> DEFINE next == [jobs[w] EXCEPT !.at = "write"]
    <2>1. jobs[w].call.tool = "patch" /\ jobs[w].at = "open" /\ w \in Writers
        BY <1>2 DEF Step, Writers
    <2>2. jobs[w] \in Job /\ jobs[w].call \in Calls /\ WriterInv(w)
        BY <2>1, AtStep
    <2>3. Later(jobs[w], next) /\ next.at = "write" /\ next.call = jobs[w].call /\ next.text = jobs[w].text
        BY <2>2 DEF Job, Later
    <2>4. jobs' = [jobs EXCEPT ![w] = next] /\ UNCHANGED <<repo, cancelled, before>>
        BY <1>2 DEF Step
    <2> HIDE DEF next
    <2>5. Alone(w, path) => Agreed(next)
        BY <2>1, <2>2, <2>3 DEF WriterInv, Agreed, Wanted
    <2> QED BY <1>2, <2>1, <2>3, <2>4, <2>5, OpenStep
<1>3. CASE /\ Step(w, "write", {"write", "patch"}, Ended(jobs[w], "ok"))
           /\ files' = [files EXCEPT ![path] = Overwrite(@, jobs[w].text)]
    BY <1>3, CloseStep
<1> QED BY <1>1, <1>2, <1>3 DEF WriteFile

\* apply_patch asks for the size.
LEMMA PatchBegins ==
    ASSUME FileInv, NEW w \in Workers, UNCHANGED files, jobs[w].call.tool = "patch", jobs[w].at = "begin",
           files[jobs[w].call.path] # None,
           Step(w, "begin", {"patch"}, [jobs[w] EXCEPT !.at = "load", !.size = Len(files[jobs[w].call.path])])
    PROVE  FileInv'
<1> DEFINE path == jobs[w].call.path
           next == [jobs[w] EXCEPT !.at = "load", !.size = Len(files[path])]
<1>1. jobs[w] \in Job /\ jobs[w].call \in Calls /\ WriterInv(w) /\ files \in [Paths -> Text \cup {None}]
    BY AtStep
<1>2. path \in Paths
    BY <1>1, CallParts
<1>3. files[path] \in Text /\ Len(files[path]) \in Nat
    BY <1>1, <1>2, LenProperties DEF Text
<1>4. Later(jobs[w], next) /\ next.at = "load" /\ next.size = Len(files[path]) /\ next.call = jobs[w].call
    BY <1>1, <1>3 DEF Job, Later
<1>5. Stepped(w, next)
    BY <1>4, StepOf
<1>6. /\ Writers' = Writers /\ jobs'[w] = next /\ \A p : Alone(w, p)' <=> Alone(w, p)
    BY <1>5, WritersStay
<1>7. before' = before
    BY <1>5 DEF Stepped
<1> HIDE DEF next
<1>8. Placed(w)' /\ ReaderInv(w)' /\ SearchInv(w)'
    BY <1>3, <1>4, <1>6 DEF Placed, ToolAt, ReaderInv, SearchInv, Over
<1>9. WriterInv(w)'
    BY <1>1, <1>3, <1>4, <1>6, <1>7 DEF WriterInv, Writers
<1>10. CallInv(w)'
    BY <1>8, <1>9 DEF CallInv
<1> QED BY <1>5, <1>10, OwnStep

\* What was not read is NUL, and all is read where nothing has changed.
LEMMA Buffer ==
    ASSUME NEW text \in Text, NEW size \in Nat
    PROVE  LET buffer == [i \in 1..size |-> IF i <= Len(text) THEN text[i] ELSE Nul]
           IN buffer \in Text /\ (size = Len(text) => buffer = text)
<1> DEFINE buffer == [i \in 1..size |-> IF i <= Len(text) THEN text[i] ELSE Nul]
<1>1. Len(text) \in Nat /\ DOMAIN text = 1 .. Len(text) /\ text = [i \in 1 .. Len(text) |-> text[i]]
      /\ \A i \in 1 .. Len(text) : text[i] \in Lines \cup {Nul}
    BY LenProperties, ElementOfSeq DEF Text
<1>2. \A i \in 1 .. size : (IF i <= Len(text) THEN text[i] ELSE Nul) \in Lines \cup {Nul}
    BY <1>1
<1>3. buffer \in Text
    BY <1>2, IsASeq DEF Text
<1>4. size = Len(text) => buffer = text
    BY <1>1
<1> QED BY <1>3, <1>4

\* apply_patch reads, and tries the patches on what it has read.
LEMMA PatchLoads ==
    ASSUME FileInv, NEW w \in Workers, UNCHANGED files,
           Step(w, "load", {"patch"}, PatchLoaded(jobs[w], files[jobs[w].call.path]))
    PROVE  FileInv'
<1> DEFINE path == jobs[w].call.path
           text == files[path]
           buffer == [i \in 1..jobs[w].size |-> IF i <= Len(text) THEN text[i] ELSE Nul]
           state == Patched(buffer, jobs[w].call.patches)
<1>1. jobs[w].at = "load" /\ jobs[w].call.tool = "patch" /\ w \in Writers
    BY DEF Step, Writers
<1>2. /\ jobs[w] \in Job /\ jobs[w].call \in Calls /\ Placed(w) /\ WriterInv(w)
    BY <1>1, AtStep
<1>3. path \in Paths /\ jobs[w].call.patches \in Seq(Patch)
    BY <1>1, <1>2, CallParts
<1>4. text \in Text /\ jobs[w].size \in Nat
    BY <1>1, <1>2 DEF Placed, Job
<1>5. buffer \in Text /\ (jobs[w].size = Len(text) => buffer = text)
    BY <1>4, Buffer
<1>6. PatchLoaded(jobs[w], text) =
         IF state.ok THEN [jobs[w] EXCEPT !.at = "open", !.text = state.text] ELSE Ended(jobs[w], "error")
    BY DEF PatchLoaded
<1> HIDE DEF buffer, text
<1>7. state \in State
    BY <1>3, <1>5, PatchedAsAsked
<1>8. CASE ~state.ok
    <2>1. Step(w, "load", {"patch"}, Ended(jobs[w], "error"))
        BY <1>6, <1>8 DEF text
    <2>2. Later(jobs[w], Ended(jobs[w], "error"))
        BY <1>2, EndedJob
    <2>3. Stepped(w, Ended(jobs[w], "error"))
        BY <2>1, <2>2, StepOf
    <2> QED BY <1>1, <2>3, FailedStep
<1>9. CASE state.ok
    <2>0. PICK next : next = [jobs[w] EXCEPT !.at = "open", !.text = state.text]
        OBVIOUS
    <2>1. Step(w, "load", {"patch"}, next)
        BY <1>6, <1>9, <2>0 DEF text
    <2>2. state.text \in Text
        BY <1>7 DEF State
    <2>3. Later(jobs[w], next) /\ next.at = "open" /\ next.call = jobs[w].call /\ next.text = state.text
        BY <1>2, <2>0, <2>2 DEF Job, Later
    <2>4. Stepped(w, next)
        BY <2>1, <2>3, StepOf
    <2>5. /\ Writers' = Writers /\ jobs'[w] = next /\ \A p : Alone(w, p)' <=> Alone(w, p)
        BY <2>4, WritersStay
    <2>6. before' = before
        BY <2>4 DEF Stepped
    <2>7. Placed(w)' /\ ReaderInv(w)' /\ SearchInv(w)'
        BY <1>1, <1>4, <2>3, <2>5 DEF Placed, ToolAt, ReaderInv, SearchInv, Over, text
    <2>8. Alone(w, path) => before[path] = text /\ state = Wanted(jobs[w]) /\ text \in Text
        BY <1>1, <1>2, <1>4, <1>5 DEF WriterInv, Wanted, text
    <2>9. Alone(w, path) => before[path] \in Text /\ Wanted(jobs[w]) = state /\ files[path] = before[path]
        BY <2>8 DEF text
    <2> HIDE DEF state
    <2>10. Alone(w, path) => Agreed(next)'
        BY <1>1, <1>9, <2>3, <2>6, <2>9 DEF Agreed, Wanted
    <2>11. WriterInv(w)'
        BY <2>3, <2>5, <2>6, <2>9, <2>10 DEF WriterInv, Agreed, Wanted
    <2>12. CallInv(w)'
        BY <2>7, <2>11 DEF CallInv
    <2> QED BY <2>4, <2>12, OwnStep
<1> QED BY <1>8, <1>9

\* Both steps of apply_patch before it writes.
LEMMA PatchStep == ASSUME FileInv, NEW w \in Workers, ApplyPatch(w) PROVE FileInv'
<1> DEFINE file == files[jobs[w].call.path]
           next == IF file = None THEN Ended(jobs[w], "error") ELSE [jobs[w] EXCEPT !.at = "load", !.size = Len(file)]
<1>1. CASE Step(w, "begin", {"patch"}, next)
    <2>1. jobs[w].at = "begin" /\ jobs[w].call.tool = "patch" /\ UNCHANGED files
        BY <1>1 DEF Step, ApplyPatch
    <2>2. CASE file = None
        <3>1. Step(w, "begin", {"patch"}, Ended(jobs[w], "error"))
            BY <1>1, <2>2
        <3>2. Later(jobs[w], Ended(jobs[w], "error"))
            BY <2>1, AtStep, EndedJob
        <3>3. Stepped(w, Ended(jobs[w], "error"))
            BY <2>1, <3>1, <3>2, StepOf
        <3> QED BY <2>1, <3>3, FailedStep
    <2>3. CASE file # None
        <3>1. Step(w, "begin", {"patch"}, [jobs[w] EXCEPT !.at = "load", !.size = Len(file)])
            BY <1>1, <2>3
        <3> QED BY <2>1, <2>3, <3>1, PatchBegins
    <2> QED BY <2>2, <2>3
<1>2. CASE Step(w, "load", {"patch"}, PatchLoaded(jobs[w], file))
    <2>1. UNCHANGED files
        BY DEF ApplyPatch
    <2> QED BY <1>2, <2>1, PatchLoads
<1> QED BY <1>1, <1>2 DEF ApplyPatch
\* What git grep returns to its caller, and grep.
LEMMA GrepJobs ==
    ASSUME files \in [Paths -> Text \cup {None}], NEW task \in Job, task.call \in Calls,
           task.call.tool \in {"grep", "git_grep"}
    PROVE  /\ Later(task, GitGrep(task)) /\ GitGrep(task).at = "end"
           /\ Later(task, Grep(task)) /\ Grep(task).at = "end"
           /\ Grep(task).result # "error" /\ Grep(task).text = << >> => Matching(Paths, task.call.pattern) = << >>
<1> DEFINE pattern == task.call.pattern
<1>1. pattern \in Lines
    BY CallParts
<1>2. Tracked \in SUBSET Paths /\ Paths \in SUBSET Paths /\ GitLimit \in Nat /\ GrepLimit \in Nat /\ GrepLimit # 0
    BY FileToolsAssumption
<1>3. Matching(Tracked, pattern) \in Text /\ Matching(Paths, pattern) \in Text
    BY <1>1, <1>2, MatchingText
<1>4. Later(task, GitGrep(task)) /\ GitGrep(task).at = "end"
    <2>1. CASE cancelled \/ ~repo
        BY <2>1, EndedJob DEF GitGrep
    <2>2. CASE ~(cancelled \/ ~repo)
        <3>1. GitGrep(task) = Shown(task, Matching(Tracked, pattern), GitLimit)
            BY <2>2 DEF GitGrep
        <3> QED BY <1>2, <1>3, <3>1, ShownJob
    <2> QED BY <2>1, <2>2
<1>5. CASE cancelled
    <2>1. Grep(task) = Ended(task, "error")
        BY <1>5 DEF Grep
    <2> QED BY <1>4, <2>1, EndedJob
<1>6. CASE ~cancelled
    <2>1. Grep(task) = Shown(task, Matching(Paths, pattern), GrepLimit)
        BY <1>6 DEF Grep
    <2> QED BY <1>2, <1>3, <1>4, <2>1, ShownJob
<1> QED BY <1>5, <1>6

\* A search ends at once.
LEMMA SearchEnds ==
    ASSUME FileInv, NEW w \in Workers, jobs[w].call.tool \in {"grep", "git_grep"}, UNCHANGED files,
           NEW next, Later(jobs[w], next), next.at = "end", Step(w, "begin", {jobs[w].call.tool}, next),
           jobs[w].call.tool = "grep" /\ next.result # "error" /\ next.text = << >>
              => Matching(Paths, jobs[w].call.pattern) = << >>
    PROVE  FileInv'
<1>1. Stepped(w, next)
    BY StepOf
<1>2. /\ Writers' = Writers /\ jobs'[w] = next /\ \A p : Alone(w, p)' <=> Alone(w, p)
    BY <1>1, WritersStay
<1>3. next.call = jobs[w].call
    BY DEF Later
<1>4. Placed(w)' /\ ReaderInv(w)' /\ WriterInv(w)'
    BY <1>2, <1>3 DEF Placed, ToolAt, ReaderInv, WriterInv, Writers
<1>5. SearchInv(w)'
    BY <1>2, <1>3 DEF SearchInv, Over, Matching
<1>6. CallInv(w)'
    BY <1>4, <1>5 DEF CallInv
<1> QED BY <1>1, <1>6, OwnStep

\* grep_tool, with git grep where it may, and search_code.
LEMMA SearchStep == ASSUME FileInv, NEW w \in Workers, Search(w) PROVE FileInv'
<1> DEFINE task == jobs[w]
<1>1. UNCHANGED files
    BY DEF Search
<1>2. task.call.tool \in {"grep", "git_grep"}
    BY DEF Search, Step
<1>3. task \in Job /\ task.call \in Calls /\ files \in [Paths -> Text \cup {None}]
    BY <1>2, AtStep
<1>4. /\ Later(task, GitGrep(task)) /\ GitGrep(task).at = "end"
      /\ Later(task, Grep(task)) /\ Grep(task).at = "end"
      /\ Grep(task).result # "error" /\ Grep(task).text = << >> => Matching(Paths, task.call.pattern) = << >>
    BY <1>2, <1>3, GrepJobs
<1>5. CASE Step(w, "begin", {"grep"}, GrepTool(task))
    <2>1. task.call.tool = "grep"
        BY <1>5 DEF Step
    <2>2. GrepTool(task) = Grep(task) \/ (GrepTool(task) = GitGrep(task) /\ GitGrep(task).text # << >>)
        BY DEF GrepTool
    <2>3. PICK next : next = GrepTool(task)
        OBVIOUS
    <2>4. Later(task, next) /\ next.at = "end"
        BY <1>4, <2>2, <2>3
    <2>5. next.result # "error" /\ next.text = << >> => Matching(Paths, task.call.pattern) = << >>
        BY <1>4, <2>2, <2>3
    <2>6. Step(w, "begin", {task.call.tool}, next)
        BY <1>5, <2>1, <2>3
    <2> QED BY <1>1, <1>2, <2>4, <2>5, <2>6, SearchEnds
<1>6. CASE Step(w, "begin", {"git_grep"}, GitGrep(task))
    <2>1. task.call.tool = "git_grep"
        BY <1>6 DEF Step
    <2>2. PICK next : next = GitGrep(task)
        OBVIOUS
    <2>3. Later(task, next) /\ next.at = "end" /\ Step(w, "begin", {task.call.tool}, next)
        BY <1>4, <1>6, <2>1, <2>2
    <2> QED BY <1>1, <1>2, <2>1, <2>3, SearchEnds
<1> QED BY <1>5, <1>6 DEF Search

\* A batch begins, or ends: from here the files are what they are now.
LEMMA BatchStep == FileInv /\ (StartBatch \/ EndBatch) => FileInv'
<1> SUFFICES ASSUME FileInv, StartBatch \/ EndBatch PROVE FileInv'
    OBVIOUS
<1>1. Typed
    BY DEF FileInv
<1>2. /\ jobs' \in [Workers -> Job]
      /\ \A w \in Workers : jobs'[w] = Free \/ \E call \in Calls : jobs'[w] = Fresh(call)
    <2>1. CASE StartBatch
        <3>1. PICK workers \in (SUBSET Workers) \ {{}} : \E calls \in [workers -> Calls] :
                 jobs' = [w \in Workers |-> IF w \in workers THEN Fresh(calls[w]) ELSE Free]
            BY <2>1 DEF StartBatch
        <3>2. PICK calls \in [workers -> Calls] :
                 jobs' = [w \in Workers |-> IF w \in workers THEN Fresh(calls[w]) ELSE Free]
            BY <3>1
        <3>3. \A w \in workers : calls[w] \in Calls /\ Fresh(calls[w]) \in Job
            BY FreshJob
        <3> QED BY <3>2, <3>3, FreeJob
    <2>2. CASE EndBatch
        BY <2>2, FreeJob DEF EndBatch
    <2> QED BY <2>1, <2>2
<1>3. files' = files /\ before' = files /\ repo' = repo /\ cancelled' = FALSE
    BY DEF StartBatch, EndBatch
<1>4. Typed'
    BY <1>1, <1>2, <1>3 DEF Typed
<1>5. Untouched'
    BY <1>3 DEF Untouched
<1>6. ASSUME NEW w \in Workers PROVE CallInv(w)'
    <2>1. CASE jobs'[w] = Free
        BY <2>1, FreeJob DEF CallInv, Placed, ToolAt, WriterInv, ReaderInv, SearchInv, Writers, Over
    <2>2. CASE \E call \in Calls : jobs'[w] = Fresh(call)
        <3>1. PICK call \in Calls : jobs'[w] = Fresh(call)
            BY <2>2
        <3>2. jobs'[w].at = "begin" /\ jobs'[w].call = call
            BY <3>1, FreshJob
        <3>3. call.tool \in {"read", "write", "patch", "grep", "git_grep"}
            BY CallParts
        <3> QED BY <1>3, <3>2, <3>3 DEF CallInv, Placed, ToolAt, WriterInv, ReaderInv, SearchInv, Writers, Over
    <2> QED BY <1>2, <2>1, <2>2
<1> QED BY <1>4, <1>5, <1>6 DEF FileInv, CallInv

\* Esc, and steps of nobody, leave calls and files.
LEMMA StillStep == FileInv /\ (PressEsc \/ UNCHANGED vars) => FileInv'
<1> SUFFICES ASSUME FileInv, PressEsc \/ UNCHANGED vars PROVE FileInv'
    OBVIOUS
<1>1. UNCHANGED <<files, repo, jobs, before>> /\ cancelled' \in BOOLEAN
    BY DEF PressEsc, vars, FileInv, Typed
<1>2. Typed'
    BY <1>1 DEF FileInv, Typed
<1>3. Untouched'
    BY <1>1 DEF FileInv, Untouched, Writers
<1>4. ASSUME NEW w \in Workers PROVE CallInv(w)'
    <2>1. Placed(w) /\ WriterInv(w) /\ ReaderInv(w) /\ SearchInv(w)
        BY DEF FileInv
    <2>2. Placed(w)'
        BY <1>1, <2>1 DEF Placed
    <2>3. WriterInv(w)'
        BY <1>1, <2>1 DEF WriterInv, Writers, Alone, Agreed, Wanted
    <2>4. ReaderInv(w)'
        BY <1>1, <2>1 DEF ReaderInv, Writers, Alone
    <2>5. SearchInv(w)'
        BY <1>1, <2>1 DEF SearchInv, Over, Writers, Matching
    <2> QED BY <2>2, <2>3, <2>4, <2>5 DEF CallInv
<1> QED BY <1>2, <1>3, <1>4 DEF FileInv, CallInv

\* The invariant is inductive.
LEMMA FileStep == FileInv /\ [Next]_vars => FileInv'
<1> SUFFICES ASSUME FileInv, [Next]_vars PROVE FileInv'
    OBVIOUS
<1>1. CASE StartBatch \/ EndBatch
    BY <1>1, BatchStep
<1>2. CASE PressEsc \/ UNCHANGED vars
    BY <1>2, StillStep
<1>3. ASSUME NEW w \in Workers, Skip(w) \/ ReadFile(w) \/ WriteFile(w) \/ ApplyPatch(w) \/ Search(w)
      PROVE  FileInv'
    BY <1>3, SkipStep, ReadStep, WriteStep, PatchStep, SearchStep
<1> QED BY <1>1, <1>2, <1>3 DEF Next

-----------------------------------------------------------------------------
\* The invariant holds whatever the calls of a batch do beside each other.
THEOREM FilesInvariance == Spec => []FileInv
BY FileInit, FileStep, PTL DEF Spec

\* Types.
THEOREM FilesTypeCorrect == Spec => []TypeOK
<1>1. FileInv => TypeOK
    BY DEF FileInv, Typed, Job, TypeOK
<1> QED BY <1>1, FilesInvariance, PTL

\* A call with its file to itself does all of what was asked or nothing: a patch
\* that fails, at its first replacement or its last, leaves the file as it was, one
\* that does not has made every replacement, and the report says which.
THEOREM WholeOrNot == Spec => []AllOrNothing
<1>1. FileInv => AllOrNothing
    <2> SUFFICES ASSUME FileInv, NEW w \in Writers, jobs[w].at = "end", Alone(w, jobs[w].call.path)
                 PROVE  files[jobs[w].call.path] =
                          IF jobs[w].result = "error" THEN before[jobs[w].call.path]
                          ELSE IF jobs[w].call.tool = "write" THEN jobs[w].call.content
                          ELSE AllReplaced(before[jobs[w].call.path], jobs[w].call.patches)
        BY DEF AllOrNothing
    <2> DEFINE task == jobs[w]
               path == task.call.path
    <2>1. w \in Workers /\ task.call.tool \in {"write", "patch"}
        BY DEF Writers
    <2>2. WriterInv(w) /\ task.call \in Calls
        BY <2>1, AtStep
    <2>3. CASE task.result = "error"
        BY <2>2, <2>3 DEF WriterInv
    <2>4. CASE task.result # "error" /\ task.call.tool = "write"
        BY <2>2, <2>4 DEF WriterInv, Agreed
    <2>5. CASE task.result # "error" /\ task.call.tool = "patch"
        <3>1. before[path] \in Text /\ Wanted(task).ok /\ files[path] = Wanted(task).text
            BY <2>2, <2>5 DEF WriterInv, Agreed
        <3>2. task.call.patches \in Seq(Patch)
            BY <2>2, <2>5, CallParts
        <3>3. files[path] = AllReplaced(before[path], task.call.patches)
            BY <3>1, <3>2, PatchedAsAsked DEF Wanted
        <3> QED BY <2>5, <3>3
    <2> QED BY <2>1, <2>3, <2>4, <2>5
<1> QED BY <1>1, FilesInvariance, PTL

\* A reader who follows the hint to its end sees every line once, from the one asked
\* for to the last.
THEOREM HintsLeadOn == Spec => []ReaderMissesNothing
<1>1. FileInv => ReaderMissesNothing
    <2> SUFFICES ASSUME FileInv, NEW w \in Workers, Over(w, {"read"}), jobs[w].result = "ok",
                        Alone(w, jobs[w].call.path)
                 PROVE  LET task == jobs[w]  file == before[task.call.path]
                        IN task.text \o (IF task.more = 0 THEN << >> ELSE SubSeq(file, task.more, Len(file)))
                             = SubSeq(file, Greater(1, task.call.from), Len(file))
        BY DEF ReaderMissesNothing
    <2> DEFINE call == jobs[w].call
               file == before[call.path]
    <2>1. jobs[w].at = "end" /\ call.tool = "read"
        BY DEF Over
    <2>2. ReaderInv(w) /\ call \in Calls
        BY <2>1, AtStep
    <2>3. call.from \in Nat /\ (call.to = None \/ call.to \in Nat)
        BY <2>1, <2>2, CallParts
    <2>4. /\ file \in Text /\ (call.to = None \/ call.from <= call.to)
          /\ jobs[w].text = InRange(file, call) /\ jobs[w].more = ReadHint(call, Len(file))
        BY <2>1, <2>2 DEF ReaderInv
    <2> HIDE DEF call, file
    <2>5. LET more == ReadHint(call, Len(file))
          IN InRange(file, call) \o (IF more = 0 THEN << >> ELSE SubSeq(file, more, Len(file)))
                = SubSeq(file, Greater(1, call.from), Len(file))
        BY <2>3, <2>4, RangeAndRest DEF Text
    <2> QED BY <2>4, <2>5 DEF call, file
<1> QED BY <1>1, FilesInvariance, PTL

\* grep_tool finds nothing only where there is nothing, tracked or not.
THEOREM SearchIsThorough == Spec => []NothingIsNothing
<1>1. FileInv => NothingIsNothing
    BY DEF FileInv, SearchInv, NothingIsNothing
<1> QED BY <1>1, FilesInvariance, PTL
-----------------------------------------------------------------------------
(* Commands.                                                               *)

\* A child that has ended without a signal ran a script that ends.
EndedByItself(c) ==
    /\ pc[c] \in {"forked", "feeding", "polling"} /\ child[c] = "zombie"
         => script[c].ends
    /\ pc[c] = "signalled" /\ child[c] = "zombie" /\ result[c] = "cancelled"
       /\ (c \in missed \/ script[c].ignores)
         => script[c].ends

\* What SIGTERM and SIGKILL have left by the time of the second look, and what
\* the second look leaves.
AfterSignal(c) ==
    /\ pc[c] \in {"signalled", "reaping"} => result[c] \in {"cancelled", "timeout"}
    /\ pc[c] = "signalled" /\ result[c] = "timeout" => ~GroupAlive(c)
    /\ pc[c] = "signalled" /\ result[c] = "cancelled" /\ c \notin missed =>
         /\ grouped[c]
         /\ script[c].job # "ignores" => job[c] # "running"
    /\ pc[c] = "reaping" => ~GroupAlive(c)

\* Before the fork there is no child, and a job has a group; only a signalled
\* command is in missed.
Beginnings(c) ==
    /\ pc[c] \in {"idle", "piped"} => child[c] = "none"
    /\ job[c] = "running" => grouped[c]
    /\ c \in missed => pc[c] \in {"signalled", "reaping", "done"}

Reaped(c) == pc[c] = "done" /\ result[c] # "error" => child[c] = "reaped"

GroupGone(c) ==
    pc[c] = "done" /\ result[c] \in {"cancelled", "timeout"} /\ GroupAlive(c)
    => /\ result[c] = "cancelled"
       /\ \/ c \in missed /\ script[c].ends
          \/ script[c].job = "ignores" /\ (script[c].ignores => script[c].ends)

CommandInv(c) ==
    EndedByItself(c) /\ AfterSignal(c) /\ Beginnings(c) /\ Reaped(c) /\ GroupGone(c)

ShellInv == ShellTypeOK /\ \A c \in Commands : CommandInv(c)

-----------------------------------------------------------------------------
LEMMA ShellBegins == ShellInit => ShellInv
<1> SUFFICES ASSUME ShellInit PROVE ShellInv
  OBVIOUS
<1>1. ShellTypeOK
  BY DEF ShellInit, ShellTypeOK, Places, WriteEnds
<1>2. \A c \in Commands : CommandInv(c)
  BY DEF ShellInit, CommandInv, EndedByItself, AfterSignal, Beginnings, Reaped, GroupGone, GroupAlive
<1> QED
  BY <1>1, <1>2 DEF ShellInv

-----------------------------------------------------------------------------
\* Every step keeps the types.
LEMMA ShellTypes ==
    ASSUME ShellTypeOK, [ShellNext]_shellVars
    PROVE  ShellTypeOK'
<1> USE DEF ShellTypeOK, Places
<1> DEFINE pipes == held' \in [Commands \cup {Slop} -> SUBSET WriteEnds]
                    /\ \A c \in Commands : In(c) \notin held'[c]
<1>1. ASSUME NEW c \in Commands, MakePipes(c) PROVE ShellTypeOK'
  <2>1. {In(c), Out(c)} \subseteq WriteEnds
    BY DEF In, Out, WriteEnds
  <2>2. pipes
    BY <1>1, <2>1, SlopAssumption DEF MakePipes
  <2> QED
    BY <1>1, <2>2 DEF MakePipes, Goto, procs
<1>2. ASSUME NEW c \in Commands, FailFork(c) PROVE ShellTypeOK'
  <2>1. pipes
    BY <1>2 DEF FailFork, Close
  <2> QED
    BY <1>2, <2>1 DEF FailFork, Goto, procs
<1>3. ASSUME NEW c \in Commands, Fork(c) PROVE ShellTypeOK'
  <2>1. pipes
    BY <1>3 DEF Fork, Inherited
  <2> QED
    BY <1>3, <2>1 DEF Fork, Goto
<1>4. ASSUME NEW c \in Commands, CloseOutputs(c) PROVE ShellTypeOK'
  <2>1. pipes
    BY <1>4 DEF CloseOutputs, Close
  <2> QED
    BY <1>4, <2>1 DEF CloseOutputs, Goto, procs
<1>5. ASSUME NEW c \in Commands, CloseInput(c) PROVE ShellTypeOK'
  <2>1. pipes
    BY <1>5 DEF CloseInput, Close
  <2> QED
    BY <1>5, <2>1 DEF CloseInput, Goto, procs
<1>6. ASSUME NEW c \in Commands, SeeCancel(c) PROVE ShellTypeOK'
  BY <1>6 DEF SeeCancel, Goto, Terminate, KillChild, KillJob
<1>7. ASSUME NEW c \in Commands, SeeTimeout(c) PROVE ShellTypeOK'
  BY <1>7 DEF SeeTimeout, Goto, Kill, KillChild, KillJob
<1>8. ASSUME NEW c \in Commands, Look(c) PROVE ShellTypeOK'
  BY <1>8 DEF Look, Goto, Kill, KillChild, KillJob
<1>9. ASSUME NEW c \in Commands, ReapKilled(c) PROVE ShellTypeOK'
  BY <1>9 DEF ReapKilled, Reap, Goto
<1>10. ASSUME NEW c \in Commands, SeeEnd(c) PROVE ShellTypeOK'
  BY <1>10 DEF SeeEnd, Goto, procs
<1>11. ASSUME NEW c \in Commands, WaitForChild(c) PROVE ShellTypeOK'
  BY <1>11 DEF WaitForChild, Reap, Goto
<1>12. ASSUME NEW c \in Commands, BeginScript(c) PROVE ShellTypeOK'
  BY <1>12 DEF BeginScript
<1>13. ASSUME NEW c \in Commands, FallSilent(c) PROVE ShellTypeOK'
  BY <1>13 DEF FallSilent
<1>14. ASSUME NEW c \in Commands, Exit(c) PROVE ShellTypeOK'
  BY <1>14 DEF Exit, KillChild
<1>15. ASSUME NEW c \in Commands, EndJob(c) PROVE ShellTypeOK'
  BY <1>15 DEF EndJob
<1>16. CASE Cancel
  BY <1>16 DEF Cancel, procs
<1>17. CASE UNCHANGED shellVars
  BY <1>17 DEF shellVars, procs
<1> QED
  BY <1>1, <1>2, <1>3, <1>4, <1>5, <1>6, <1>7, <1>8, <1>9, <1>10, <1>11, <1>12,
     <1>13, <1>14, <1>15, <1>16, <1>17 DEF ShellNext, Parent

-----------------------------------------------------------------------------
\* What CommandInv says of d depends on d's own entries only.
LEMMA OwnEntries ==
    ASSUME NEW d \in Commands, CommandInv(d),
           pc'[d] = pc[d], script' = script, child'[d] = child[d],
           grouped'[d] = grouped[d], job'[d] = job[d], result'[d] = result[d],
           d \in missed' <=> d \in missed
    PROVE  CommandInv(d)'
BY DEF CommandInv, EndedByItself, AfterSignal, Beginnings, Reaped, GroupGone, GroupAlive

\* Every step keeps what the invariant says of each command.
LEMMA CommandStep ==
    ASSUME ShellInv, ShellNext, NEW d \in Commands
    PROVE  CommandInv(d)'
<1>1. ShellTypeOK /\ ShellTypeOK' /\ CommandInv(d)
  BY ShellTypes DEF ShellInv
<1> USE DEF ShellTypeOK, Places
<1> DEFINE own == UNCHANGED <<pc[d], script, child[d], grouped[d], job[d], result[d]>>
                  /\ (d \in missed' <=> d \in missed)
<1>2. own => CommandInv(d)'
  BY <1>1, OwnEntries
<1> USE DEF CommandInv, EndedByItself, AfterSignal, Beginnings, Reaped, GroupGone, GroupAlive
<1>3. ASSUME NEW c \in Commands, MakePipes(c) PROVE CommandInv(d)'
  BY <1>1, <1>3 DEF MakePipes, Goto, procs
<1>4. ASSUME NEW c \in Commands, FailFork(c) PROVE CommandInv(d)'
  BY <1>1, <1>4 DEF FailFork, Goto, procs
<1>5. ASSUME NEW c \in Commands, Fork(c) PROVE CommandInv(d)'
  BY <1>1, <1>5 DEF Fork, Goto
<1>6. ASSUME NEW c \in Commands, CloseOutputs(c) PROVE CommandInv(d)'
  BY <1>1, <1>6 DEF CloseOutputs, Goto, procs
<1>7. ASSUME NEW c \in Commands, CloseInput(c) PROVE CommandInv(d)'
  BY <1>1, <1>7 DEF CloseInput, Goto, procs
<1>8. ASSUME NEW c \in Commands, SeeCancel(c) PROVE CommandInv(d)'
  <2>1. CASE c # d
    BY <1>1, <1>2, <1>8, <2>1 DEF SeeCancel, Goto, Terminate, KillChild, KillJob
  <2>2. CASE c = d
    BY <1>1, <1>8, <2>2 DEF SeeCancel, Goto, Terminate, KillChild, KillJob
  <2> QED
    BY <2>1, <2>2
<1>9. ASSUME NEW c \in Commands, SeeTimeout(c) PROVE CommandInv(d)'
  <2>1. CASE c # d
    BY <1>1, <1>2, <1>9, <2>1 DEF SeeTimeout, Goto, Kill, KillChild, KillJob
  <2>2. CASE c = d
    BY <1>1, <1>9, <2>2 DEF SeeTimeout, Goto, Kill, KillChild, KillJob
  <2> QED
    BY <2>1, <2>2
<1>10. ASSUME NEW c \in Commands, Look(c) PROVE CommandInv(d)'
  <2>1. CASE c # d
    BY <1>1, <1>2, <1>10, <2>1 DEF Look, Goto, Kill, KillChild, KillJob
  <2>2. CASE c = d /\ ChildEnded(c)
    BY <1>1, <1>10, <2>2 DEF Look, Goto, ChildEnded
  <2>3. CASE c = d /\ ~ChildEnded(c)
    BY <1>1, <1>10, <2>3 DEF Look, Goto, ChildEnded, Kill, KillChild, KillJob
  <2> QED
    BY <2>1, <2>2, <2>3
<1>11. ASSUME NEW c \in Commands, ReapKilled(c) PROVE CommandInv(d)'
  BY <1>1, <1>11 DEF ReapKilled, Reap, Goto
<1>12. ASSUME NEW c \in Commands, SeeEnd(c) PROVE CommandInv(d)'
  BY <1>1, <1>12 DEF SeeEnd, Goto, procs
<1>13. ASSUME NEW c \in Commands, WaitForChild(c) PROVE CommandInv(d)'
  BY <1>1, <1>13 DEF WaitForChild, Reap, Goto
<1>14. ASSUME NEW c \in Commands, BeginScript(c) PROVE CommandInv(d)'
  BY <1>1, <1>14 DEF BeginScript
<1>15. ASSUME NEW c \in Commands, FallSilent(c) PROVE CommandInv(d)'
  BY <1>1, <1>2, <1>15 DEF FallSilent
<1>16. ASSUME NEW c \in Commands, Exit(c) PROVE CommandInv(d)'
  BY <1>1, <1>16 DEF Exit, KillChild
<1>17. ASSUME NEW c \in Commands, EndJob(c) PROVE CommandInv(d)'
  BY <1>1, <1>17 DEF EndJob
<1>18. CASE Cancel
  BY <1>1, <1>2, <1>18 DEF Cancel, procs
<1> QED
  BY <1>3, <1>4, <1>5, <1>6, <1>7, <1>8, <1>9, <1>10, <1>11, <1>12, <1>13, <1>14,
     <1>15, <1>16, <1>17, <1>18 DEF ShellNext, Parent

\* The invariant is inductive.
LEMMA ShellStep ==
    ASSUME ShellInv, [ShellNext]_shellVars
    PROVE  ShellInv'
<1>1. ShellTypeOK'
  BY ShellTypes DEF ShellInv
<1>2. CASE ShellNext
  BY <1>1, <1>2, CommandStep DEF ShellInv
<1>3. CASE UNCHANGED shellVars
  <2>1. \A d \in Commands : CommandInv(d)'
    BY <1>3, OwnEntries DEF ShellInv, shellVars, procs
  <2> QED
    BY <1>1, <2>1 DEF ShellInv
<1> QED
  BY <1>2, <1>3

-----------------------------------------------------------------------------
\* The invariant holds in every state RunCommand's callers can bring about.
THEOREM ShellInvariance == ShellSpec => []ShellInv
<1>1. ShellInit => ShellInv
  BY ShellBegins
<1>2. ShellInv /\ [ShellNext]_shellVars => ShellInv'
  BY ShellStep
<1> QED
  BY <1>1, <1>2, PTL DEF ShellSpec

\* Types: in particular no child is given the write end of its own stdin, which
\* would keep it from ever seeing the end of its input.
THEOREM ShellTypeCorrect == ShellSpec => []ShellTypeOK
<1>1. ShellInv => ShellTypeOK
  BY DEF ShellInv
<1> QED
  BY <1>1, ShellInvariance, PTL

\* Whatever the children do, however many workers are in RunCommand, and
\* whichever way it returns, the child it forked is reaped.
THEOREM NoZombies == ShellSpec => []ChildReaped
<1>1. ShellInv => ChildReaped
  BY DEF ShellInv, CommandInv, Reaped, ChildReaped
<1> QED
  BY <1>1, ShellInvariance, PTL

\* A command that was timed out leaves no process, and one that was interrupted
\* only a job whose parent ended in the 50 ms between the two signals.
THEOREM GroupsEnd == ShellSpec => []KilledGroupIsGone
<1>1. ShellInv => KilledGroupIsGone
  BY DEF ShellInv, CommandInv, GroupGone, KilledGroupIsGone
<1> QED
  BY <1>1, ShellInvariance, PTL
=============================================================================
