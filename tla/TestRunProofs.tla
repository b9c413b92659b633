--------------------------- MODULE TestRunProofs ---------------------------
(***************************************************************************)
(* Proofs about TestRun and TestResults: however TCP cuts the frames of    *)
(* the launchers, whichever of them is killed and in whatever order runs   *)
(* overlap, no result is lost, doubled or garbled; the status bar and the  *)
(* tree agree with the results.  For any tree, selections and runs.        *)
(*                                                                         *)
(* The loops of the source are recursive functions or folds here.  Their   *)
(* equations are derived from the CHOOSE that defines them, by an          *)
(* induction that is proved of sets, not of formulas.                      *)
(***************************************************************************)
EXTENDS TestRun, SequenceTheorems, FiniteSetTheorems, FunctionTheorems,
        WellFoundedInduction, TLAPS

-----------------------------------------------------------------------------
(* Induction, and functions that are defined by recursion.                 *)

\* A set of numbers with 0 and the next of each of its numbers has every number.
LEMMA SetInduction ==
    ASSUME NEW S \in SUBSET Nat, 0 \in S, \A n \in S : n + 1 \in S
    PROVE  S = Nat
<1> SUFFICES ASSUME S # Nat
             PROVE  FALSE
  OBVIOUS
<1> DEFINE T == {0 .. k : k \in Nat \ S}
<1>1. T \subseteq FiniteSubsetsOf(Nat) /\ T # {}
  <2>1. ASSUME NEW k \in Nat \ S
        PROVE  0 .. k \in FiniteSubsetsOf(Nat)
    <3>1. IsFiniteSet(0 .. k)
      BY FS_Interval
    <3>2. 0 .. k \in SUBSET Nat
      OBVIOUS
    <3> QED
      BY <3>1, <3>2 DEF FiniteSubsetsOf
  <2>2. PICK k \in Nat : k \notin S
    OBVIOUS
  <2>3. 0 .. k \in T
    BY <2>2
  <2> QED
    BY <2>1, <2>3
<1>2. IsWellFoundedOn(StrictSubsetOrdering(Nat), FiniteSubsetsOf(Nat))
  BY FS_StrictSubsetOrderingWellFounded
<1>3. PICK x \in T : \A y \in T : ~(<<y, x>> \in StrictSubsetOrdering(Nat))
  <2> HIDE DEF T
  <2> QED
    BY <1>1, <1>2, WFMin
<1>4. PICK k \in Nat \ S : x = 0 .. k
  OBVIOUS
<1>5. k # 0
  OBVIOUS
<1>6. k - 1 \in Nat \ S
  BY <1>5
<1>7. 0 .. (k - 1) \in T
  BY <1>6
<1>8. /\ 0 .. (k - 1) \in SUBSET Nat /\ 0 .. k \in SUBSET Nat
      /\ 0 .. (k - 1) \subseteq 0 .. k /\ k \in 0 .. k /\ k \notin 0 .. (k - 1)
  BY <1>4
<1>9. <<0 .. (k - 1), 0 .. k>> \in StrictSubsetOrdering(Nat)
  <2> DEFINE a == 0 .. (k - 1)
             b == 0 .. k
  <2>1. a \in SUBSET Nat /\ b \in SUBSET Nat /\ a \subseteq b /\ a # b
    BY <1>8
  <2> HIDE DEF a, b
  <2>2. <<a, b>> \in {ss \in (SUBSET Nat) \X (SUBSET Nat) : ss[1] \subseteq ss[2] /\ ss[1] # ss[2]}
    BY <2>1
  <2> QED
    BY <2>2 DEF StrictSubsetOrdering, a, b
<1> QED
  BY <1>3, <1>4, <1>7, <1>9

\* From m up to n.
LEMMA IntervalInduction ==
    ASSUME NEW m \in Nat, NEW n \in Nat, NEW P, m \in P, \A i \in m .. n - 1 : i \in P => i + 1 \in P
    PROVE  \A i \in m .. n : i \in P
<1> DEFINE S == {k \in Nat : m + k <= n => m + k \in P}
<1>1. 0 \in S
  OBVIOUS
<1>2. ASSUME NEW k \in S
      PROVE  k + 1 \in S
  <2>1. k \in Nat /\ (m + k <= n => m + k \in P)
    BY <1>2
  <2>2. ASSUME m + (k + 1) <= n
        PROVE  m + (k + 1) \in P
    <3>1. m + k \in m .. n - 1 /\ m + k <= n /\ m + (k + 1) = (m + k) + 1
      BY <2>1, <2>2
    <3> QED
      BY <2>1, <3>1
  <2> QED
    BY <2>1, <2>2
<1>3. S = Nat
  <2>1. S \in SUBSET Nat
    OBVIOUS
  <2> HIDE DEF S
  <2> QED
    BY <1>1, <1>2, <2>1, SetInduction
<1>4. ASSUME NEW i \in m .. n
      PROVE  i \in P
  <2>1. i - m \in Nat /\ m + (i - m) = i /\ m + (i - m) <= n
    OBVIOUS
  <2>2. i - m \in S
    <3> HIDE DEF S
    <3> QED
      BY <1>3, <2>1
  <2> QED
    BY <2>1, <2>2
<1> QED
  BY <1>4

\* What holds of an element when it holds of all of lower rank holds of every one.
LEMMA RankInduction ==
    ASSUME NEW D, NEW rank \in [D -> Nat], NEW P,
           \A d \in D : (\A e \in D : rank[e] < rank[d] => e \in P) => d \in P
    PROVE  \A d \in D : d \in P
<1> DEFINE S == {n \in Nat : \A d \in D : rank[d] < n => d \in P}
<1>1. 0 \in S
  OBVIOUS
<1>2. ASSUME NEW n \in S
      PROVE  n + 1 \in S
  <2>1. n \in Nat /\ \A d \in D : rank[d] < n => d \in P
    BY <1>2
  <2>2. ASSUME NEW d \in D, rank[d] < n + 1
        PROVE  d \in P
    <3>1. \A a, b \in Nat : a < n + 1 /\ b < a => b < n
      BY <2>1
    <3>2. \A e \in D : rank[e] < rank[d] => e \in P
      BY <2>1, <2>2, <3>1
    <3> QED
      BY <3>2
  <2> QED
    BY <2>1, <2>2
<1>3. S = Nat
  <2>1. S \in SUBSET Nat
    OBVIOUS
  <2> HIDE DEF S
  <2> QED
    BY <1>1, <1>2, <2>1, SetInduction
<1>4. ASSUME NEW d \in D
      PROVE  d \in P
  <2>1. rank[d] \in Nat /\ rank[d] + 1 \in Nat /\ rank[d] < rank[d] + 1
    OBVIOUS
  <2>2. rank[d] + 1 \in S
    <3> HIDE DEF S
    <3> QED
      BY <1>3, <2>1
  <2> QED
    BY <2>1, <2>2
<1> QED
  BY <1>4

\* What F says of an element depends on elements of lower rank only.
Recurs(F, D, V, rank) ==
    /\ F \in [D -> [[D -> V] -> V]]
    /\ \A d \in D : \A g, h \in [D -> V] :
          (\A e \in D : rank[e] < rank[d] => g[e] = h[e]) => F[d][g] = F[d][h]

\* Such an F has a function that satisfies the recursive equation, so the one that is
\* chosen for the definition satisfies it.
LEMMA Recursion ==
    ASSUME NEW D, NEW V, V # {}, NEW N \in Nat, NEW rank \in [D -> 0 .. N], NEW F,
           Recurs(F, D, V, rank)
    PROVE  \E up \in [D -> V] : \A d \in D : up[d] = F[d][up]
<1> DEFINE Good(n, g) == \A d \in D : rank[d] < n => g[d] = F[d][g]
           S == {n \in Nat : \E g \in [D -> V] : Good(n, g)}
<1>a. /\ F \in [D -> [[D -> V] -> V]]
      /\ \A d \in D : \A g, h \in [D -> V] :
          (\A e \in D : rank[e] < rank[d] => g[e] = h[e]) => F[d][g] = F[d][h]
  BY DEF Recurs
<1>0. \A d \in D : rank[d] \in Nat /\ rank[d] < N + 1
  OBVIOUS
<1>1. 0 \in S
  <2>1. PICK v \in V : TRUE
    OBVIOUS
  <2>2. [d \in D |-> v] \in [D -> V]
    OBVIOUS
  <2>3. Good(0, [d \in D |-> v])
    BY <1>0
  <2> QED
    BY <2>2, <2>3
<1>2. ASSUME NEW n \in S
      PROVE  n + 1 \in S
  <2>1. /\ n \in Nat
        /\ \E g \in [D -> V] : Good(n, g)
    BY <1>2
  <2>b. n \in Nat
    BY <2>1
  <2>a. PICK g \in [D -> V] : Good(n, g)
    BY <2>1
  <2> DEFINE h == [d \in D |-> IF rank[d] = n THEN F[d][g] ELSE g[d]]
  <2>2. h \in [D -> V]
    BY <1>a
  <2>3. ASSUME NEW d \in D, rank[d] < n + 1
        PROVE  h[d] = F[d][h]
    <3>1. \A e \in D : rank[e] < rank[d] => h[e] = g[e]
      BY <1>0, <2>3
    <3>2. F[d][h] = F[d][g]
      <4> HIDE DEF h
      <4> QED
        BY <1>a, <2>2, <3>1
    <3>3. h[d] = F[d][g]
      <4>1. CASE rank[d] = n
        BY <4>1
      <4>2. CASE rank[d] # n
        <5>1. rank[d] < n
          <6>1. rank[d] \in Nat /\ rank[d] < n + 1
            BY <1>0, <2>3
          <6>2. \A a, b \in Nat : a < b + 1 /\ a # b => a < b
            OBVIOUS
          <6> HIDE DEF h, S, Good
          <6> QED
            BY <2>b, <4>2, <6>1, <6>2
        <5>2. h[d] = g[d]
          BY <4>2
        <5> QED
          BY <2>a, <5>1, <5>2
      <4> QED
        BY <4>1, <4>2
    <3> QED
      BY <3>2, <3>3
  <2>4. Good(n + 1, h)
    <3> HIDE DEF h
    <3> QED
      BY <2>3
  <2> HIDE DEF h
  <2> QED
    BY <2>2, <2>4
<1>3. S = Nat
  <2>1. S \in SUBSET Nat
    OBVIOUS
  <2> HIDE DEF S
  <2> QED
    BY <1>1, <1>2, <2>1, SetInduction
<1>4. N + 1 \in S
  <2> HIDE DEF S
  <2> QED
    BY <1>3
<1>5. PICK up \in [D -> V] : Good(N + 1, up)
  BY <1>4
<1>6. \A d \in D : up[d] = F[d][up]
  BY <1>0, <1>5
<1> QED
  BY <1>6

\* The concatenation of sequences is made from the first to the last.
LEMMA FlattenEquation ==
    ASSUME NEW S, NEW seqs \in Seq(Seq(S)), seqs # <<>>
    PROVE  \E flat \in [1 .. Len(seqs) -> Seq(S)] :
              /\ FlattenSeq(seqs) = flat[Len(seqs)]
              /\ flat[1] = seqs[1]
              /\ \A i \in 1 .. Len(seqs) - 1 : flat[i + 1] = flat[i] \o seqs[i + 1]
<1> DEFINE n == Len(seqs)
           D == 1 .. n
           Step(i, g) == IF i = 1 THEN seqs[i] ELSE g[i - 1] \o seqs[i]
           F == [i \in D |-> [g \in [D -> Seq(S)] |-> Step(i, g)]]
           rank == [i \in D |-> i]
           flatten == CHOOSE f : f = [i \in D |-> Step(i, f)]
<1>1. n \in Nat /\ n > 0 /\ \A i \in D : seqs[i] \in Seq(S)
  BY EmptySeq, LenProperties, ElementOfSeq
<1>2. FlattenSeq(seqs) = flatten[n]
  BY <1>1 DEF FlattenSeq
<1>3. flatten \in [D -> Seq(S)] /\ flatten = [i \in D |-> Step(i, flatten)]
  <2>1. ASSUME NEW i \in D, NEW g \in [D -> Seq(S)]
        PROVE  Step(i, g) \in Seq(S)
    <3>1. CASE i = 1
      BY <1>1, <3>1
    <3>2. CASE i # 1
      <4>1. i - 1 \in D
        BY <1>1, <3>2
      <4>2. g[i - 1] \in Seq(S) /\ seqs[i] \in Seq(S)
        BY <1>1, <4>1
      <4> QED
        BY <3>2, <4>2, ConcatProperties
    <3> QED
      BY <3>1, <3>2
  <2>2. F \in [D -> [[D -> Seq(S)] -> Seq(S)]]
    <3> HIDE DEF Step, D
    <3> QED
      BY <2>1
  <2>3. ASSUME NEW i \in D, NEW g \in [D -> Seq(S)], NEW h \in [D -> Seq(S)],
               \A e \in D : rank[e] < rank[i] => g[e] = h[e]
        PROVE  F[i][g] = F[i][h]
    <3>1. Step(i, g) = Step(i, h)
      <4>1. CASE i = 1
        BY <4>1
      <4>2. CASE i # 1
        <5>1. i - 1 \in D /\ rank[i - 1] < rank[i]
          BY <1>1, <4>2
        <5>2. g[i - 1] = h[i - 1]
          BY <2>3, <5>1
        <5> QED
          BY <5>2
      <4> QED
        BY <4>1, <4>2
    <3> HIDE DEF Step
    <3> QED
      BY <3>1
  <2>4. Seq(S) # {} /\ rank \in [D -> 0 .. n]
    BY <1>1, EmptySeq
  <2>a. \A i \in D : \A g, h \in [D -> Seq(S)] :
           (\A e \in D : rank[e] < rank[i] => g[e] = h[e]) => F[i][g] = F[i][h]
    BY <2>3
  <2>5. PICK up \in [D -> Seq(S)] : \A i \in D : up[i] = F[i][up]
    <3> DEFINE V == Seq(S)
    <3>1. n \in Nat
      BY <1>1
    <3>2. V # {}
      BY <2>4
    <3>3. rank \in [D -> 0 .. n]
      BY <2>4
    <3>4. Recurs(F, D, V, rank)
      <4> HIDE DEF F, rank, D, n
      <4> QED
        BY <2>2, <2>a DEF Recurs
    <3> HIDE DEF F, rank, D, n, V
    <3>6. \E up \in [D -> V] : \A i \in D : up[i] = F[i][up]
      BY ONLY <3>1, <3>2, <3>3, <3>4, Recursion
    <3> QED
      BY <3>6 DEF V
  <2>7. up = [i \in D |-> Step(i, up)]
    <3> HIDE DEF Step, D
    <3> QED
      BY <2>5
  <2>8. flatten = [i \in D |-> Step(i, flatten)]
    <3> HIDE DEF Step, D
    <3> QED
      BY <2>7
  <2>9. ASSUME NEW i \in D, \A e \in D : rank[e] < rank[i] => flatten[e] = up[e]
        PROVE  flatten[i] = up[i]
    <3>1. flatten[i] = Step(i, flatten) /\ up[i] = Step(i, up)
      <4> HIDE DEF Step, D, flatten
      <4> QED
        BY <2>7, <2>8
    <3>2. Step(i, flatten) = Step(i, up)
      <4> HIDE DEF flatten
      <4>1. CASE i = 1
        BY <4>1
      <4>2. CASE i # 1
        <5>1. i - 1 \in D /\ rank[i - 1] < rank[i]
          BY <1>1, <4>2
        <5>2. flatten[i - 1] = up[i - 1]
          BY <2>9, <5>1
        <5> QED
          BY <5>2
      <4> QED
        BY <4>1, <4>2
    <3> QED
      BY <3>1, <3>2
  <2>10. \A i \in D : flatten[i] = up[i]
    <3> DEFINE P == {i \in D : flatten[i] = up[i]}
    <3>1. rank \in [D -> Nat]
      BY <2>4
    <3>2. \A d \in D : (\A e \in D : rank[e] < rank[d] => e \in P) => d \in P
      <4> HIDE DEF flatten, rank, D
      <4> QED
        BY <2>9
    <3>3. \A d \in D : d \in P
      <4> HIDE DEF P, rank, D
      <4> QED
        BY ONLY <3>1, <3>2, RankInduction
    <3> QED
      BY <3>3
  <2>11. flatten = up
    <3>1. flatten = [i \in D |-> flatten[i]]
      <4> HIDE DEF Step, D, flatten
      <4> QED
        BY <2>8
    <3> HIDE DEF flatten, D
    <3> QED
      BY <2>10, <3>1
  <2> QED
    <3> HIDE DEF flatten, Step, D
    <3> QED
      BY <2>8, <2>11
<1>4. \A i \in D : flatten[i] = Step(i, flatten)
  <2> HIDE DEF flatten, Step, D
  <2> QED
    BY <1>3
<1> HIDE DEF flatten
<1>5. flatten[1] = seqs[1]
  BY <1>1, <1>4
<1>6. ASSUME NEW i \in 1 .. n - 1
      PROVE  flatten[i + 1] = flatten[i] \o seqs[i + 1]
  <2>1. i + 1 \in D /\ i + 1 # 1 /\ i + 1 - 1 = i
    BY <1>1
  <2>2. flatten[i + 1] = Step(i + 1, flatten)
    <3> HIDE DEF Step, D
    <3> QED
      BY <1>4, <2>1
  <2>3. Step(i + 1, flatten) = flatten[i] \o seqs[i + 1]
    <3> DEFINE j == i + 1
    <3>1. j # 1 /\ j - 1 = i
      BY <2>1
    <3> HIDE DEF j
    <3>2. Step(j, flatten) = flatten[j - 1] \o seqs[j]
      BY <3>1
    <3> HIDE DEF Step
    <3> QED
      BY <3>1, <3>2 DEF j
  <2> QED
    BY <2>1, <2>2, <2>3
<1> QED
  BY <1>2, <1>3, <1>5, <1>6

\* The concatenation of one sequence.
LEMMA FlattenOne ==
    ASSUME NEW S, NEW x \in Seq(S)
    PROVE  FlattenSeq(<<x>>) = x
<1> DEFINE seqs == <<x>>
<1>1. seqs \in Seq(Seq(S)) /\ seqs # <<>> /\ Len(seqs) = 1 /\ seqs[1] = x
  OBVIOUS
<1>2. PICK flat \in [1 .. Len(seqs) -> Seq(S)] :
              /\ FlattenSeq(seqs) = flat[Len(seqs)]
              /\ flat[1] = seqs[1]
  <2> HIDE DEF seqs
  <2> QED
    BY ONLY <1>1, FlattenEquation
<1> HIDE DEF seqs
<1>5. FlattenSeq(seqs) = x
  BY <1>1, <1>2
<1> QED
  BY <1>5 DEF seqs

\* The concatenation of none.
LEMMA FlattenNone == FlattenSeq(<<>>) = <<>>
<1>1. Len(<<>>) = 0
  BY EmptySeq
<1> QED
  BY <1>1 DEF FlattenSeq

\* The concatenation of sequences is one of the same elements.
LEMMA FlattenType ==
    ASSUME NEW S, NEW seqs \in Seq(Seq(S))
    PROVE  FlattenSeq(seqs) \in Seq(S)
<1>1. CASE seqs = <<>>
  BY <1>1, FlattenNone, EmptySeq
<1>2. CASE seqs # <<>>
  <2>1. PICK flat \in [1 .. Len(seqs) -> Seq(S)] : FlattenSeq(seqs) = flat[Len(seqs)]
    BY <1>2, FlattenEquation
  <2>2. Len(seqs) \in 1 .. Len(seqs)
    BY <1>2, EmptySeq
  <2> QED
    BY <2>1, <2>2
<1> QED
  BY <1>1, <1>2

\* One more sequence is concatenated at the end.
LEMMA FlattenAppend ==
    ASSUME NEW S, NEW seqs \in Seq(Seq(S)), NEW x \in Seq(S)
    PROVE  FlattenSeq(Append(seqs, x)) = FlattenSeq(seqs) \o x
<1> DEFINE more == Append(seqs, x)
           n == Len(seqs)
<1>1. /\ n \in Nat /\ more \in Seq(Seq(S)) /\ more # <<>> /\ Len(more) = n + 1
      /\ \A i \in 1 .. n : more[i] = seqs[i]
      /\ more[n + 1] = x
  BY LenProperties, AppendProperties
<1>2. CASE seqs = <<>>
  <2>1. more = <<x>>
    BY <1>2
  <2> QED
    BY <1>2, <2>1, FlattenOne, FlattenNone, ConcatEmptySeq
<1>3. CASE seqs # <<>>
  <2>1. PICK f \in [1 .. n -> Seq(S)] :
              /\ FlattenSeq(seqs) = f[n]
              /\ f[1] = seqs[1]
              /\ \A i \in 1 .. n - 1 : f[i + 1] = f[i] \o seqs[i + 1]
    BY <1>3, FlattenEquation
  <2> HIDE DEF more
  <2>2. PICK g \in [1 .. n + 1 -> Seq(S)] :
              /\ FlattenSeq(more) = g[n + 1]
              /\ g[1] = more[1]
              /\ \A i \in 1 .. n : g[i + 1] = g[i] \o more[i + 1]
    <3>1. PICK g \in [1 .. Len(more) -> Seq(S)] :
              /\ FlattenSeq(more) = g[Len(more)]
              /\ g[1] = more[1]
              /\ \A i \in 1 .. Len(more) - 1 : g[i + 1] = g[i] \o more[i + 1]
      BY ONLY <1>1, FlattenEquation
    <3>2. Len(more) = n + 1 /\ Len(more) - 1 = n
      BY <1>1
    <3> QED
      BY <3>1, <3>2
  <2>3. n \in Nat /\ n > 0
    BY <1>1, <1>3, EmptySeq
  <2> DEFINE P == {i \in 1 .. n : f[i] = g[i]}
  <2>4. 1 \in P
    BY <1>1, <2>1, <2>2, <2>3
  <2>5. ASSUME NEW i \in 1 .. n - 1, i \in P
        PROVE  i + 1 \in P
    <3>1. i \in 1 .. n /\ i + 1 \in 1 .. n
      BY <2>3
    <3>2. f[i + 1] = f[i] \o seqs[i + 1] /\ g[i + 1] = g[i] \o more[i + 1]
      BY <2>1, <2>2, <3>1
    <3>3. f[i] = g[i] /\ more[i + 1] = seqs[i + 1]
      BY <1>1, <2>5, <3>1
    <3> QED
      BY <3>1, <3>2, <3>3
  <2>6. f[n] = g[n]
    <3>1. \A i \in 1 .. n : i \in P
      <4> HIDE DEF n, P
      <4> QED
        BY <2>3, <2>4, <2>5, IntervalInduction
    <3> QED
      BY <2>3, <3>1
  <2>7. g[n + 1] = g[n] \o more[n + 1]
    <3>1. n \in 1 .. n
      BY <2>3
    <3> QED
      BY <2>2, <3>1
  <2> QED
    BY <1>1, <2>1, <2>2, <2>6, <2>7 DEF more
<1> QED
  BY <1>2, <1>3

-----------------------------------------------------------------------------
(* Parts of sequences.                                                     *)

\* The first n elements of a sequence.
LEMMA PrefixProperties ==
    ASSUME NEW S, NEW q \in Seq(S), NEW n \in 0 .. Len(q)
    PROVE  /\ SubSeq(q, 1, n) \in Seq(S)
           /\ Len(SubSeq(q, 1, n)) = n
           /\ \A i \in 1 .. n : SubSeq(q, 1, n)[i] = q[i]
<1>1. Len(q) \in Nat
  BY LenProperties
<1>2. \A i \in 1 .. n : q[i] \in S
  BY <1>1, ElementOfSeq
<1>3. /\ SubSeq(q, 1, n) \in Seq(S)
      /\ Len(SubSeq(q, 1, n)) = IF 1 <= n THEN n - 1 + 1 ELSE 0
      /\ \A i \in 1 .. n - 1 + 1 : SubSeq(q, 1, n)[i] = q[1 + i - 1]
  BY <1>1, <1>2, SubSeqProperties
<1> QED
  BY <1>1, <1>3

\* The elements after the n-th of a sequence.
LEMMA SuffixProperties ==
    ASSUME NEW S, NEW q \in Seq(S), NEW n \in 0 .. Len(q)
    PROVE  /\ SubSeq(q, n + 1, Len(q)) \in Seq(S)
           /\ Len(SubSeq(q, n + 1, Len(q))) = Len(q) - n
           /\ \A i \in 1 .. Len(q) - n : SubSeq(q, n + 1, Len(q))[i] = q[i + n]
<1>1. Len(q) \in Nat
  BY LenProperties
<1>2. \A i \in n + 1 .. Len(q) : q[i] \in S
  BY <1>1, ElementOfSeq
<1> QED
  BY <1>1, <1>2, SubSeqProperties

\* One more of the first elements.
LEMMA PrefixGrows ==
    ASSUME NEW S, NEW q \in Seq(S), NEW n \in 0 .. Len(q) - 1
    PROVE  SubSeq(q, 1, n + 1) = Append(SubSeq(q, 1, n), q[n + 1])
<1>1. Len(q) \in Nat /\ n \in 0 .. Len(q) /\ n + 1 \in 0 .. Len(q) /\ n + 1 \in 1 .. Len(q)
  BY LenProperties
<1> DEFINE p == SubSeq(q, 1, n)
           x == q[n + 1]
<1>2. x \in S
  BY <1>1, ElementOfSeq
<1>3. p \in Seq(S) /\ Len(p) = n /\ \A i \in 1 .. n : p[i] = q[i]
  BY <1>1, PrefixProperties
<1> HIDE DEF p, x
<1>4. /\ Append(p, x) \in Seq(S) /\ Len(Append(p, x)) = n + 1
      /\ \A i \in 1 .. n : Append(p, x)[i] = p[i]
      /\ Append(p, x)[n + 1] = x
  BY <1>2, <1>3, AppendProperties
<1> DEFINE r == SubSeq(q, 1, n + 1)
<1>5. r \in Seq(S) /\ Len(r) = n + 1 /\ \A i \in 1 .. n + 1 : r[i] = q[i]
  BY <1>1, PrefixProperties
<1> HIDE DEF r
<1>6. \A i \in 1 .. n + 1 : r[i] = Append(p, x)[i]
  BY <1>1, <1>3, <1>4, <1>5 DEF x
<1>7. r = Append(p, x)
  BY <1>4, <1>5, <1>6, SeqEqual
<1> QED
  BY <1>7 DEF r, p, x

\* Concatenating sequences in two parts is concatenating them at once.
LEMMA FlattenConcat ==
    ASSUME NEW S, NEW a \in Seq(Seq(S)), NEW b \in Seq(Seq(S))
    PROVE  FlattenSeq(a \o b) = FlattenSeq(a) \o FlattenSeq(b)
<1> DEFINE T == Seq(S)
           part(i) == SubSeq(b, 1, i)
           P == {i \in 0 .. Len(b) : FlattenSeq(a \o part(i)) = FlattenSeq(a) \o FlattenSeq(part(i))}
<1>1. Len(b) \in Nat /\ FlattenSeq(a) \in Seq(S)
  BY LenProperties, FlattenType
<1>2. 0 \in P
  <2>1. part(0) = <<>>
    BY SubSeqEmpty
  <2>2. a \o <<>> = a /\ FlattenSeq(a) \o <<>> = FlattenSeq(a)
    BY <1>1, ConcatEmptySeq
  <2>3. FlattenSeq(a \o part(0)) = FlattenSeq(a) \o FlattenSeq(part(0))
    <3> HIDE DEF part
    <3> QED
      BY <2>1, <2>2, FlattenNone
  <2> HIDE DEF part
  <2> QED
    BY <1>1, <2>3
<1>3. ASSUME NEW i \in 0 .. Len(b) - 1, i \in P
      PROVE  i + 1 \in P
  <2>1. i \in 0 .. Len(b) /\ i + 1 \in 0 .. Len(b) /\ i + 1 \in 1 .. Len(b)
    BY <1>1
  <2> DEFINE p == part(i)
             x == b[i + 1]
  <2>2. part(i + 1) = Append(p, x)
    BY PrefixGrows
  <2>3. p \in Seq(T) /\ x \in T
    BY <2>1, PrefixProperties, ElementOfSeq
  <2>4. FlattenSeq(a \o p) = FlattenSeq(a) \o FlattenSeq(p)
    BY <1>3
  <2> HIDE DEF p, x
  <2>5. a \o p \in Seq(T) /\ a \o Append(p, x) = Append(a \o p, x)
    <3>1. a \o p \in Seq(T) /\ <<x>> \in Seq(T)
      BY <2>3, ConcatProperties
    <3>2. Append(p, x) = p \o <<x>> /\ Append(a \o p, x) = (a \o p) \o <<x>>
      BY <2>3, <3>1, AppendIsConcat
    <3> HIDE DEF T
    <3>3. (a \o p) \o <<x>> = a \o (p \o <<x>>)
      <4>1. a \in Seq(T)
        BY DEF T
      <4>2. p \in Seq(T) /\ <<x>> \in Seq(T)
        BY <2>3, <3>1
      <4> DEFINE e == <<x>>
      <4>3. e \in Seq(T)
        BY <4>2
      <4> HIDE DEF e
      <4>4. \A u, v, w \in Seq(T) : (u \o v) \o w = u \o (v \o w)
        BY ONLY ConcatAssociative
      <4>5. (a \o p) \o e = a \o (p \o e)
        BY ONLY <4>1, <4>2, <4>3, <4>4
      <4> QED
        BY <4>5 DEF e
    <3> QED
      BY <3>1, <3>2, <3>3
  <2>6. FlattenSeq(Append(a \o p, x)) = FlattenSeq(a \o p) \o x
    BY <2>3, <2>5, FlattenAppend
  <2>7. FlattenSeq(Append(p, x)) = FlattenSeq(p) \o x
    BY <2>3, FlattenAppend
  <2>8. (FlattenSeq(a) \o FlattenSeq(p)) \o x = FlattenSeq(a) \o (FlattenSeq(p) \o x)
    <3>1. FlattenSeq(p) \in Seq(S)
      BY <2>3, FlattenType
    <3>2. x \in Seq(S)
      BY <2>3
    <3> DEFINE fa == FlattenSeq(a)
               fp == FlattenSeq(p)
    <3>3. fa \in Seq(S) /\ fp \in Seq(S)
      BY <1>1, <3>1
    <3> HIDE DEF fa, fp
    <3>4. \A u, v, w \in Seq(S) : (u \o v) \o w = u \o (v \o w)
      BY ONLY ConcatAssociative
    <3>5. (fa \o fp) \o x = fa \o (fp \o x)
      BY ONLY <3>2, <3>3, <3>4
    <3> QED
      BY <3>5 DEF fa, fp
  <2>9. FlattenSeq(a \o part(i + 1)) = FlattenSeq(a) \o FlattenSeq(part(i + 1))
    BY <2>2, <2>4, <2>5, <2>6, <2>7, <2>8
  <2> QED
    BY <2>1, <2>9
<1>4. Len(b) \in P
  <2>1. \A i \in 0 .. Len(b) : i \in P
    <3>1. \A i \in 0 .. Len(b) - 1 : i \in P => i + 1 \in P
      BY <1>3
    <3> DEFINE n == Len(b)
    <3>2. n \in Nat /\ 0 \in Nat /\ (\A i \in 0 .. n - 1 : i \in P => i + 1 \in P)
      BY <1>1, <3>1
    <3> HIDE DEF P, n
    <3>3. \A i \in 0 .. n : i \in P
      BY ONLY <1>2, <3>2, IntervalInduction
    <3> QED
      BY <3>3 DEF n
  <2> QED
    BY <1>1, <2>1
<1>5. part(Len(b)) = b
  BY SubSeqFull
<1> QED
  BY <1>4, <1>5

-----------------------------------------------------------------------------
(* The results that wait in a part of the stream.                          *)

\* Results, and tokens, are put after one another in any grouping.
LEMMA ResultsAssociative == \A a, b, c \in Seq(Results) : (a \o b) \o c = a \o (b \o c)
  BY ConcatAssociative

LEMMA TokensAssociative == \A a, b, c \in Seq(Tokens) : (a \o b) \o c = a \o (b \o c)
  BY ConcatAssociative

\* What each token of a part of the stream begins.
Begun(b) == [i \in DOMAIN b |-> IF b[i].part = 1 THEN <<b[i].of>> ELSE << >>]

\* They are sequences of at most one result.
LEMMA BegunType ==
    ASSUME NEW b \in Seq(Tokens)
    PROVE  /\ Begun(b) \in Seq(Seq(Results))
           /\ Len(Begun(b)) = Len(b)
           /\ \A i \in 1 .. Len(b) : Begun(b)[i] = IF b[i].part = 1 THEN <<b[i].of>> ELSE <<>>
<1>1. Len(b) \in Nat /\ DOMAIN b = 1 .. Len(b) /\ \A i \in 1 .. Len(b) : b[i] \in Tokens
  BY LenProperties, ElementOfSeq
<1> DEFINE e(i) == IF b[i].part = 1 THEN <<b[i].of>> ELSE <<>>
<1>2. ASSUME NEW i \in 1 .. Len(b)
      PROVE  e(i) \in Seq(Results)
  <2>1. b[i].of \in Results
    BY <1>1 DEF Tokens
  <2> QED
    BY <2>1
<1>3. Begun(b) = [i \in 1 .. Len(b) |-> e(i)]
  BY <1>1 DEF Begun
<1> HIDE DEF e
<1>4. [i \in 1 .. Len(b) |-> e(i)] \in [1 .. Len(b) -> Seq(Results)]
  BY <1>2
<1>5. Begun(b) \in Seq(Seq(Results))
  BY <1>1, <1>3, <1>4, SeqDef
<1>6. Len(Begun(b)) = Len(b)
  <2>1. DOMAIN Begun(b) = 1 .. Len(b) /\ DOMAIN Begun(b) = 1 .. Len(Begun(b)) /\ Len(Begun(b)) \in Nat
    BY <1>3, <1>5, LenProperties
  <2> QED
    BY <1>1, <2>1
<1> QED
  BY <1>3, <1>5, <1>6 DEF e

\* What waits in a part of the stream is a sequence of results.
LEMMA WaitingType ==
    ASSUME NEW b \in Seq(Tokens)
    PROVE  Waiting(b) \in Seq(Results)
  BY BegunType, FlattenType DEF Waiting, Begun

\* What waits in two parts of the stream is what waits in the first, then in the second,
\* wherever TCP cuts it.
LEMMA WaitingConcat ==
    ASSUME NEW a \in Seq(Tokens), NEW b \in Seq(Tokens)
    PROVE  Waiting(a \o b) = Waiting(a) \o Waiting(b)
<1> DEFINE T == Seq(Results)
<1>1. /\ a \o b \in Seq(Tokens) /\ Len(a \o b) = Len(a) + Len(b)
      /\ \A i \in 1 .. Len(a) + Len(b) :
            (a \o b)[i] = IF i <= Len(a) THEN a[i] ELSE b[i - Len(a)]
      /\ Len(a) \in Nat /\ Len(b) \in Nat
  BY ConcatProperties, LenProperties
<1>2. /\ Begun(a) \in Seq(T) /\ Len(Begun(a)) = Len(a)
      /\ Begun(b) \in Seq(T) /\ Len(Begun(b)) = Len(b)
      /\ Begun(a \o b) \in Seq(T) /\ Len(Begun(a \o b)) = Len(a) + Len(b)
  BY <1>1, BegunType
<1>3. /\ Begun(a) \o Begun(b) \in Seq(T)
      /\ Len(Begun(a) \o Begun(b)) = Len(a) + Len(b)
      /\ \A i \in 1 .. Len(a) + Len(b) :
            (Begun(a) \o Begun(b))[i] =
               IF i <= Len(a) THEN Begun(a)[i] ELSE Begun(b)[i - Len(a)]
  <2> DEFINE p == Begun(a)
             q == Begun(b)
  <2>1. p \in Seq(T) /\ q \in Seq(T) /\ Len(p) = Len(a) /\ Len(q) = Len(b)
    BY <1>2
  <2> HIDE DEF p, q
  <2>2. /\ p \o q \in Seq(T)
        /\ Len(p \o q) = Len(p) + Len(q)
        /\ \A i \in 1 .. Len(p) + Len(q) :
              (p \o q)[i] = IF i <= Len(p) THEN p[i] ELSE q[i - Len(p)]
    BY ONLY <2>1, ConcatProperties
  <2> QED
    BY <2>1, <2>2 DEF p, q
<1>4. ASSUME NEW i \in 1 .. Len(a) + Len(b)
      PROVE  Begun(a \o b)[i] = (Begun(a) \o Begun(b))[i]
  <2>1. Begun(a \o b)[i] = IF (a \o b)[i].part = 1 THEN <<(a \o b)[i].of>> ELSE <<>>
    BY <1>1, BegunType
  <2>2. CASE i <= Len(a)
    <3>1. i \in 1 .. Len(a)
      BY <1>1, <2>2
    <3>2. Begun(a)[i] = IF a[i].part = 1 THEN <<a[i].of>> ELSE <<>>
      BY <3>1, BegunType
    <3> QED
      BY <1>1, <1>3, <2>1, <2>2, <3>2
  <2>3. CASE ~(i <= Len(a))
    <3>1. i - Len(a) \in 1 .. Len(b)
      BY <1>1, <2>3
    <3>2. Begun(b)[i - Len(a)] =
             IF b[i - Len(a)].part = 1 THEN <<b[i - Len(a)].of>> ELSE <<>>
      BY <3>1, BegunType
    <3> QED
      BY <1>1, <1>3, <2>1, <2>3, <3>2
  <2> QED
    BY <2>2, <2>3
<1>5. Begun(a \o b) = Begun(a) \o Begun(b)
  <2> HIDE DEF T
  <2> QED
    BY <1>2, <1>3, <1>4, SeqEqual
<1>6. FlattenSeq(Begun(a) \o Begun(b)) = FlattenSeq(Begun(a)) \o FlattenSeq(Begun(b))
  BY <1>2, FlattenConcat
<1> QED
  BY <1>5, <1>6 DEF Waiting, Begun

\* A token begins a result or none.
LEMMA WaitingOne ==
    ASSUME NEW t \in Tokens
    PROVE  Waiting(<<t>>) = IF t.part = 1 THEN <<t.of>> ELSE <<>>
<1>1. Begun(<<t>>) = <<IF t.part = 1 THEN <<t.of>> ELSE <<>>>>
  BY DEF Begun
<1>2. (IF t.part = 1 THEN <<t.of>> ELSE <<>>) \in Seq(Results)
  <2>1. t.of \in Results
    BY DEF Tokens
  <2> QED
    BY <2>1
<1>3. Waiting(<<t>>) = FlattenSeq(Begun(<<t>>))
  BY DEF Waiting, Begun
<1> DEFINE x == IF t.part = 1 THEN <<t.of>> ELSE <<>>
<1> HIDE DEF x
<1>4. FlattenSeq(<<x>>) = x
  BY <1>2, FlattenOne DEF x
<1> QED
  BY <1>1, <1>3, <1>4 DEF x

\* Nothing waits where nothing is.
LEMMA WaitingNone == Waiting(<<>>) = <<>>
<1>1. [i \in DOMAIN <<>> |-> IF <<>>[i].part = 1 THEN <<<<>>[i].of>> ELSE <<>>] = <<>>
  OBVIOUS
<1> QED
  BY <1>1, FlattenNone DEF Waiting

\* A part of the stream in which no body begins.
LEMMA WaitingNothing ==
    ASSUME NEW b \in Seq(Tokens), \A i \in 1 .. Len(b) : b[i].part # 1
    PROVE  Waiting(b) = <<>>
<1> DEFINE p(n) == SubSeq(b, 1, n)
           P == {n \in 0 .. Len(b) : Waiting(p(n)) = <<>>}
<1>1. Len(b) \in Nat
  BY LenProperties
<1>2. 0 \in P
  <2>1. p(0) = <<>>
    BY SubSeqEmpty
  <2>2. Waiting(p(0)) = <<>>
    <3> HIDE DEF p
    <3> QED
      BY <2>1, WaitingNone
  <2> HIDE DEF p
  <2> QED
    BY <1>1, <2>2
<1>3. ASSUME NEW n \in 0 .. Len(b) - 1, n \in P
      PROVE  n + 1 \in P
  <2>1. n \in 0 .. Len(b) /\ n + 1 \in 0 .. Len(b) /\ n + 1 \in 1 .. Len(b)
    BY <1>1
  <2> DEFINE q == p(n)
             t == b[n + 1]
  <2>2. p(n + 1) = Append(q, t)
    BY PrefixGrows
  <2>3. q \in Seq(Tokens) /\ t \in Tokens /\ t.part # 1
    BY <2>1, PrefixProperties, ElementOfSeq
  <2>4. Waiting(q) = <<>>
    BY <1>3
  <2> HIDE DEF q, t
  <2>5. Append(q, t) = q \o <<t>> /\ <<t>> \in Seq(Tokens)
    BY <2>3, AppendIsConcat
  <2>6. Waiting(<<t>>) = <<>>
    BY <2>3, WaitingOne
  <2>7. Waiting(q \o <<t>>) = Waiting(q) \o Waiting(<<t>>)
    BY <2>3, <2>5, WaitingConcat
  <2>8. <<>> \o <<>> = <<>>
    BY EmptySeq, ConcatEmptySeq
  <2>9. Waiting(p(n + 1)) = <<>>
    <3> HIDE DEF p
    <3> QED
      BY <2>2, <2>4, <2>5, <2>6, <2>7, <2>8
  <2> HIDE DEF p
  <2> QED
    BY <2>1, <2>9
<1>4. Len(b) \in P
  <2>1. \A i \in 0 .. Len(b) : i \in P
    <3>1. \A i \in 0 .. Len(b) - 1 : i \in P => i + 1 \in P
      BY <1>3
    <3> DEFINE n == Len(b)
    <3>2. n \in Nat /\ 0 \in Nat /\ (\A i \in 0 .. n - 1 : i \in P => i + 1 \in P)
      BY <1>1, <3>1
    <3> HIDE DEF P, n
    <3>3. \A i \in 0 .. n : i \in P
      BY ONLY <1>2, <3>2, IntervalInduction
    <3> QED
      BY <3>3 DEF n
  <2> QED
    BY <1>1, <2>1
<1>5. p(Len(b)) = b
  BY SubSeqFull
<1> QED
  BY <1>4, <1>5

-----------------------------------------------------------------------------
(* Frames and messages.                                                    *)

\* The least of a set of numbers.
LEMMA MinProperties ==
    ASSUME NEW S \in SUBSET Nat, S # {}
    PROVE  Min(S) \in S /\ \A y \in S : Min(S) <= y
<1>1. \E x \in S : \A y \in S : x <= y
  <2> SUFFICES ASSUME \A x \in S : \E y \in S : ~(x <= y)
               PROVE  FALSE
    OBVIOUS
  <2> DEFINE T == {n \in Nat : \A y \in S : n <= y}
  <2>1. 0 \in T
    OBVIOUS
  <2>2. ASSUME NEW n \in T
        PROVE  n + 1 \in T
    <3>1. n \in Nat /\ \A y \in S : n <= y
      BY <2>2
    <3>2. n \notin S
      BY <3>1
    <3>3. ASSUME NEW y \in S
          PROVE  n + 1 <= y
      <4>1. n <= y /\ y # n /\ y \in Nat
        BY <3>1, <3>2
      <4> QED
        BY <3>1, <4>1
    <3> QED
      BY <3>1, <3>3
  <2>3. T = Nat
    <3>1. T \in SUBSET Nat
      OBVIOUS
    <3> HIDE DEF T
    <3> QED
      BY <2>1, <2>2, <3>1, SetInduction
  <2>4. PICK y \in S : TRUE
    OBVIOUS
  <2>5. y + 1 \in Nat
    OBVIOUS
  <2>6. y + 1 \in T
    <3> HIDE DEF T
    <3> QED
      BY <2>3, <2>5
  <2> QED
    BY <2>6
<1> QED
  BY <1>1 DEF Min

\* The greatest of a bounded set of numbers.
LEMMA MaxProperties ==
    ASSUME NEW N \in Nat, NEW S \in SUBSET (1 .. N), S # {}
    PROVE  Max(S) \in S /\ \A y \in S : Max(S) >= y
<1> DEFINE T == {n \in Nat : \A y \in S : y <= n}
<1>1. T # {} /\ T \in SUBSET Nat
  <2>1. N \in T
    OBVIOUS
  <2> QED
    BY <2>1
<1>2. Min(T) \in T /\ \A n \in T : Min(T) <= n
  <2> HIDE DEF T
  <2> QED
    BY <1>1, MinProperties
<1> DEFINE m == Min(T)
<1>3. m \in Nat /\ (\A y \in S : y <= m) /\ \A n \in T : m <= n
  BY <1>2
<1> HIDE DEF m
<1>4. m \in S
  <2> SUFFICES ASSUME m \notin S
               PROVE  FALSE
    OBVIOUS
  <2>1. ASSUME NEW y \in S
        PROVE  y <= m - 1 /\ m - 1 \in Nat
    <3>1. y \in 1 .. N /\ y <= m /\ y # m
      BY <1>3
    <3> QED
      BY <1>3, <3>1
  <2>2. m - 1 \in T
    BY <2>1
  <2>3. m <= m - 1
    <3> HIDE DEF T
    <3> QED
      BY <1>3, <2>2
  <2> QED
    BY <1>3, <2>3
<1>5. \E x \in S : \A y \in S : x >= y
  <2>1. \A y \in S : m >= y
    BY <1>3
  <2> QED
    BY <1>4, <2>1
<1> QED
  BY <1>5 DEF Max

\* The lengths of a body.
LEMMA LengthType == \A result : Length(result) \in {1, 2}
  BY DEF Length

\* The tokens of a frame.
LEMMA FrameProperties ==
    ASSUME NEW x \in Results
    PROVE  /\ Header(x) \in Seq(Tokens) /\ Len(Header(x)) = 1
           /\ Header(x)[1] = [of |-> x, part |-> 0]
           /\ Body(x) \in Seq(Tokens) /\ Len(Body(x)) = Length(x)
           /\ \A i \in 1 .. Length(x) : Body(x)[i] = [of |-> x, part |-> i]
<1>1. \A i \in 0 .. 2 : [of |-> x, part |-> i] \in Tokens
  BY DEF Tokens
<1>2. [of |-> x, part |-> 0] \in Tokens
  BY <1>1
<1>3. Header(x) \in Seq(Tokens) /\ Len(Header(x)) = 1 /\ Header(x)[1] = [of |-> x, part |-> 0]
  BY <1>2 DEF Header
<1> DEFINE n == Length(x)
<1>4. n \in 1 .. 2 /\ n \in Nat
  BY LengthType
<1> HIDE DEF n
<1>5. Body(x) = [i \in 1 .. n |-> [of |-> x, part |-> i]]
  BY DEF Body, n
<1>6. Body(x) \in [1 .. n -> Tokens]
  <2>1. \A i \in 1 .. n : [of |-> x, part |-> i] \in Tokens
    BY <1>1, <1>4
  <2> QED
    BY <1>5, <2>1
<1>7. Body(x) \in Seq(Tokens)
  BY <1>4, <1>6, SeqDef
<1>8. Len(Body(x)) = n
  <2>1. DOMAIN Body(x) = 1 .. n /\ DOMAIN Body(x) = 1 .. Len(Body(x)) /\ Len(Body(x)) \in Nat
    BY <1>5, <1>7, LenProperties
  <2> QED
    BY <1>4, <2>1
<1> QED
  BY <1>3, <1>5, <1>7, <1>8 DEF n

\* In a header nothing waits, and in a body its result.
LEMMA WaitingFrame ==
    ASSUME NEW x \in Results
    PROVE  Waiting(Header(x)) = <<>> /\ Waiting(Body(x)) = <<x>>
<1> DEFINE t(i) == [of |-> x, part |-> i]
<1>1. t(0) \in Tokens /\ t(1) \in Tokens /\ t(2) \in Tokens
  BY DEF Tokens
<1>2. Waiting(<<t(0)>>) = <<>> /\ Waiting(<<t(1)>>) = <<x>> /\ Waiting(<<t(2)>>) = <<>>
  <2>1. t(0).part # 1 /\ t(1).part = 1 /\ t(1).of = x /\ t(2).part # 1
    OBVIOUS
  <2> HIDE DEF t
  <2> QED
    BY <1>1, <2>1, WaitingOne
<1>3. Waiting(Header(x)) = <<>>
  BY <1>2 DEF Header
<1>4. /\ Body(x) \in Seq(Tokens) /\ Len(Body(x)) = Length(x)
      /\ \A i \in 1 .. Length(x) : Body(x)[i] = t(i)
  BY FrameProperties
<1> HIDE DEF t
<1>5. CASE Length(x) = 1
  <2>1. <<t(1)>> \in Seq(Tokens) /\ Len(<<t(1)>>) = 1 /\ <<t(1)>>[1] = t(1)
    BY <1>1
  <2> DEFINE s == <<t(1)>>
  <2>2. s \in Seq(Tokens) /\ Len(s) = 1 /\ s[1] = t(1)
    BY <2>1
  <2> HIDE DEF s
  <2>3. Body(x) = s
    BY <1>4, <1>5, <2>2, SeqEqual
  <2> QED
    BY <1>2, <1>3, <2>3 DEF s
<1>6. CASE Length(x) = 2
  <2> DEFINE s1 == <<t(1)>>
             s2 == <<t(2)>>
  <2>1. /\ s1 \in Seq(Tokens) /\ Len(s1) = 1 /\ s1[1] = t(1)
        /\ s2 \in Seq(Tokens) /\ Len(s2) = 1 /\ s2[1] = t(2)
    BY <1>1
  <2>2. Waiting(s1) = <<x>> /\ Waiting(s2) = <<>>
    BY <1>2
  <2> HIDE DEF s1, s2
  <2>3. /\ s1 \o s2 \in Seq(Tokens) /\ Len(s1 \o s2) = 2
        /\ (s1 \o s2)[1] = t(1) /\ (s1 \o s2)[2] = t(2)
    <3> DEFINE s == s1 \o s2
    <3>1. /\ s \in Seq(Tokens) /\ Len(s) = Len(s1) + Len(s2)
          /\ \A i \in 1 .. Len(s1) + Len(s2) :
                s[i] = IF i <= Len(s1) THEN s1[i] ELSE s2[i - Len(s1)]
      BY <2>1, ConcatProperties
    <3> HIDE DEF s
    <3>2. Len(s) = 2 /\ \A i \in 1 .. 2 : s[i] = IF i <= 1 THEN s1[i] ELSE s2[i - 1]
      BY <2>1, <3>1
    <3>3. s[1] = s1[1]
      BY <3>2
    <3>4. s[2] = s2[1]
      BY <3>2
    <3> QED
      BY <2>1, <3>1, <3>2, <3>3, <3>4 DEF s
  <2>4. \A i \in 1 .. 2 : Body(x)[i] = (s1 \o s2)[i]
    BY <1>4, <1>6, <2>3
  <2>5. Body(x) = s1 \o s2
    BY <1>4, <1>6, <2>3, <2>4, SeqEqual
  <2>6. Waiting(s1 \o s2) = Waiting(s1) \o Waiting(s2)
    BY <2>1, WaitingConcat
  <2>7. <<x>> \o <<>> = <<x>>
    <3>1. <<x>> \in Seq(Results)
      OBVIOUS
    <3> QED
      BY <3>1, ConcatEmptySeq
  <2> QED
    BY <1>3, <2>2, <2>5, <2>6, <2>7
<1> QED
  BY <1>5, <1>6, LengthType

\* The first body of a part of the stream.
LEMMA StartProperties ==
    ASSUME NEW b \in Seq(Tokens)
    PROVE  \/ StartIndex(b) = 0 /\ \A i \in 1 .. Len(b) : b[i].part # 1
           \/ /\ StartIndex(b) \in 1 .. Len(b)
              /\ b[StartIndex(b)].part = 1
              /\ \A i \in 1 .. StartIndex(b) - 1 : b[i].part # 1
<1> DEFINE I == {i \in 1 .. Len(b) : b[i].part = 1}
<1>1. Len(b) \in Nat
  BY LenProperties
<1>2. StartIndex(b) = IF I # {} THEN Min(I) ELSE 0
  BY DEF StartIndex, SelectInSeq
<1>3. CASE I = {}
  BY <1>2, <1>3
<1>4. CASE I # {}
  <2>1. I \in SUBSET Nat
    BY <1>1
  <2>2. Min(I) \in I /\ \A y \in I : Min(I) <= y
    <3> HIDE DEF I
    <3> QED
      BY <1>4, <2>1, MinProperties
  <2> DEFINE m == Min(I)
  <2>3. m \in 1 .. Len(b) /\ b[m].part = 1 /\ \A y \in I : m <= y
    BY <2>2
  <2> HIDE DEF m
  <2>4. ASSUME NEW i \in 1 .. m - 1
        PROVE  b[i].part # 1
    <3>1. i \in 1 .. Len(b) /\ ~(m <= i)
      BY <1>1, <2>3
    <3> QED
      BY <2>3, <3>1
  <2>5. StartIndex(b) = m
    BY <1>2, <1>4 DEF m
  <2> QED
    BY <2>3, <2>4, <2>5
<1> QED
  BY <1>3, <1>4

\* A whole message at the front of a part of the stream.
LEMMA MessageProperties ==
    ASSUME NEW b \in Seq(Tokens), HasMessage(b)
    PROVE  /\ StartIndex(b) \in 1 .. Len(b) /\ b[StartIndex(b)].part = 1
           /\ \A i \in 1 .. StartIndex(b) - 1 : b[i].part # 1
           /\ LengthOfMessage(b) \in 1 .. 2
           /\ StartIndex(b) + LengthOfMessage(b) - 1 \in 1 .. Len(b)
           /\ Message(b) \in Seq(Tokens) /\ Len(Message(b)) = LengthOfMessage(b)
           /\ \A i \in 1 .. LengthOfMessage(b) : Message(b)[i] = b[StartIndex(b) + i - 1]
           /\ Rest(b) \in Seq(Tokens)
           /\ Len(Rest(b)) = Len(b) - (StartIndex(b) + LengthOfMessage(b) - 1)
           /\ \A i \in 1 .. Len(Rest(b)) :
                 Rest(b)[i] = b[i + (StartIndex(b) + LengthOfMessage(b) - 1)]
<1> DEFINE s == StartIndex(b)
           n == LengthOfMessage(b)
           e == s + n - 1
           N == Len(b)
<1>1. s # 0 /\ N >= s + n - 1
  BY DEF HasMessage
<1>2. s \in 1 .. N /\ b[s].part = 1 /\ \A i \in 1 .. s - 1 : b[i].part # 1
  BY <1>1, StartProperties
<1>3. n \in 1 .. 2
  BY LengthType DEF LengthOfMessage
<1>4. N \in Nat /\ \A i \in 1 .. N : b[i] \in Tokens
  BY LenProperties, ElementOfSeq
<1>5. Message(b) = SubSeq(b, s, e) /\ Rest(b) = SubSeq(b, s + n, N)
  BY DEF Message, Rest
<1> HIDE DEF s, n, N
<1>6. e \in 1 .. N /\ s \in Int /\ e \in Int /\ s + n = e + 1 /\ e - s + 1 = n /\ s <= e
  BY <1>1, <1>2, <1>3, <1>4
<1>7. \A i \in s .. e : b[i] \in Tokens
  BY <1>2, <1>4, <1>6
<1> HIDE DEF e
<1>8. /\ SubSeq(b, s, e) \in Seq(Tokens)
      /\ Len(SubSeq(b, s, e)) = n
      /\ \A i \in 1 .. n : SubSeq(b, s, e)[i] = b[s + i - 1]
  BY <1>6, <1>7, SubSeqProperties
<1>9. /\ SubSeq(b, e + 1, N) \in Seq(Tokens)
      /\ Len(SubSeq(b, e + 1, N)) = N - e
      /\ \A i \in 1 .. N - e : SubSeq(b, e + 1, N)[i] = b[i + e]
  <2>1. e \in 0 .. N
    BY <1>4, <1>6
  <2> QED
    BY <2>1, SuffixProperties DEF N
<1>10. s + n = e + 1
  BY <1>6
<1>11. e = s + n - 1
  BY DEF e
<1> QED
  BY <1>2, <1>3, <1>5, <1>6, <1>8, <1>9, <1>10, <1>11 DEF s, n, N

\* A part of the stream is what is before a message, the message, and the rest.
LEMMA MessageSplits ==
    ASSUME NEW b \in Seq(Tokens), HasMessage(b)
    PROVE  b = (SubSeq(b, 1, StartIndex(b) - 1) \o Message(b)) \o Rest(b)
<1> DEFINE s == StartIndex(b)
           n == LengthOfMessage(b)
           e == s + n - 1
           N == Len(b)
<1>1. N \in Nat /\ s \in 1 .. N /\ n \in 1 .. 2 /\ e \in 1 .. N
  BY MessageProperties, LenProperties
<1>2. Message(b) = SubSeq(b, s, e) /\ Rest(b) = SubSeq(b, s + n, N)
  BY DEF Message, Rest
<1> HIDE DEF s, n, N
<1>3. s + n = e + 1 /\ s = (s - 1) + 1 /\ e >= s
  BY <1>1
<1>a. s - 1 \in Nat /\ s - 1 \in 0 .. N /\ s - 1 <= e
  BY <1>1, <1>3
<1> HIDE DEF e
<1>4. SubSeq(b, 1, s - 1) \o SubSeq(b, s, e) = SubSeq(b, 1, e)
  <2> DEFINE k == s - 1
  <2>1. 1 \in 1 .. N + 1 /\ k \in 1 - 1 .. N /\ e \in k .. N
    BY <1>1, <1>a
  <2>2. s = k + 1
    BY <1>3
  <2> HIDE DEF k
  <2>3. SubSeq(b, 1, k) \o SubSeq(b, k + 1, e) = SubSeq(b, 1, e)
    BY <2>1, ConcatAdjacentSubSeq DEF N
  <2> QED
    BY <2>2, <2>3 DEF k
<1>5. SubSeq(b, 1, e) \o SubSeq(b, e + 1, N) = SubSeq(b, 1, N)
  <2>1. 1 \in 1 .. N + 1 /\ e \in 1 - 1 .. N /\ N \in e .. N
    BY <1>1
  <2> QED
    BY <2>1, ConcatAdjacentSubSeq DEF N
<1>6. SubSeq(b, 1, N) = b
  BY SubSeqFull DEF N
<1>7. SubSeq(b, s + n, N) = SubSeq(b, e + 1, N)
  BY <1>3
<1> QED
  BY <1>2, <1>4, <1>5, <1>6, <1>7 DEF s

\* One turn of the loop takes the first result that waits.
LEMMA DrainStep ==
    ASSUME NEW b \in Seq(Tokens), HasMessage(b), Parses(Message(b))
    PROVE  /\ Message(b)[1].of \in Results
           /\ Waiting(b) = <<Message(b)[1].of>> \o Waiting(Rest(b))
<1> DEFINE a == SubSeq(b, 1, StartIndex(b) - 1)
           m == Message(b)
           r == Rest(b)
           x == m[1].of
<1>1. /\ StartIndex(b) \in 1 .. Len(b) /\ Len(b) \in Nat
      /\ \A i \in 1 .. StartIndex(b) - 1 : b[i].part # 1
      /\ m \in Seq(Tokens) /\ Len(m) \in 1 .. 2 /\ r \in Seq(Tokens)
  BY MessageProperties, LenProperties
<1>2. a \in Seq(Tokens) /\ Waiting(a) = <<>>
  <2> DEFINE k == StartIndex(b) - 1
  <2>1. k \in 0 .. Len(b)
    BY <1>1
  <2> HIDE DEF k
  <2>2. /\ SubSeq(b, 1, k) \in Seq(Tokens) /\ Len(SubSeq(b, 1, k)) = k
        /\ \A i \in 1 .. k : SubSeq(b, 1, k)[i] = b[i]
    BY <2>1, PrefixProperties
  <2>3. \A i \in 1 .. Len(SubSeq(b, 1, k)) : SubSeq(b, 1, k)[i].part # 1
    BY <1>1, <2>2 DEF k
  <2>4. Waiting(SubSeq(b, 1, k)) = <<>>
    <3> DEFINE pre == SubSeq(b, 1, k)
    <3>1. pre \in Seq(Tokens) /\ \A i \in 1 .. Len(pre) : pre[i].part # 1
      BY <2>2, <2>3
    <3> HIDE DEF pre
    <3>2. Waiting(pre) = <<>>
      BY <3>1, WaitingNothing
    <3> QED
      BY <3>2 DEF pre
  <2> QED
    BY <2>2, <2>4 DEF k
<1>3. x \in Results
  <2>1. m[1] \in Tokens
    <3> HIDE DEF m
    <3>0. Len(m) \in 1 .. 2
      BY <1>1
    <3>1. 1 \in 1 .. Len(m)
      BY <3>0
    <3> QED
      BY <1>1, <3>1, ElementOfSeq
  <2> HIDE DEF m
  <2> QED
    BY <2>1 DEF Tokens
<1>4. m = Body(x)
  BY DEF Parses
<1>5. b = (a \o m) \o r
  BY MessageSplits
<1> HIDE DEF a, m, r, x
<1>6. Waiting(m) = <<x>>
  BY <1>3, <1>4, WaitingFrame
<1>7. a \o m \in Seq(Tokens)
  BY <1>1, <1>2, ConcatProperties
<1>8. Waiting((a \o m) \o r) = Waiting(a \o m) \o Waiting(r)
  <2> DEFINE am == a \o m
  <2>1. am \in Seq(Tokens)
    BY <1>7
  <2> HIDE DEF am
  <2>2. Waiting(am \o r) = Waiting(am) \o Waiting(r)
    BY <1>1, <2>1, WaitingConcat
  <2> QED
    BY <2>2 DEF am
<1>9. Waiting(a \o m) = Waiting(a) \o Waiting(m)
  BY <1>1, <1>2, WaitingConcat
<1>10. <<>> \o <<x>> = <<x>>
  <2>1. <<x>> \in Seq(Results)
    BY <1>3
  <2> QED
    BY <2>1, ConcatEmptySeq
<1>11. Waiting(b) = <<x>> \o Waiting(r)
  BY <1>2, <1>5, <1>6, <1>8, <1>9, <1>10
<1> QED
  BY <1>3, <1>11 DEF m, r, x

-----------------------------------------------------------------------------
(* Whole frames.                                                           *)

\* The frame that begins at i is whole, and another one follows it if anything does.
FrameAt(s, i) ==
    LET n == Length(s[i].of)
    IN /\ i + n <= Len(s)
       /\ \A j \in 1 .. n : s[i + j] = [of |-> s[i].of, part |-> j]
       /\ i + n < Len(s) => s[i + n + 1].part = 0

\* A part of the stream is a sequence of whole frames.
Framed(s) ==
    /\ s # << >> => s[1].part = 0
    /\ \A i \in 1 .. Len(s) : s[i].part = 0 => FrameAt(s, i)

\* From the beginning of a frame on.
LEMMA FramedSuffix ==
    ASSUME NEW q \in Seq(Tokens), NEW r \in Seq(Tokens), NEW k \in 0 .. Len(q),
           Framed(q), Len(r) = Len(q) - k, \A i \in 1 .. Len(r) : r[i] = q[i + k],
           k < Len(q) => q[k + 1].part = 0
    PROVE  Framed(r)
<1>1. Len(q) \in Nat /\ Len(r) \in Nat
  BY LenProperties
<1>2. ASSUME r # <<>>
      PROVE  r[1].part = 0
  <2>1. Len(r) > 0
    BY <1>2, EmptySeq
  <2>2. 1 \in 1 .. Len(r) /\ k < Len(q)
    BY <1>1, <2>1
  <2>3. r[1] = q[1 + k] /\ 1 + k = k + 1
    BY <2>2
  <2> QED
    BY <2>2, <2>3
<1>3. ASSUME NEW i \in 1 .. Len(r), r[i].part = 0
      PROVE  FrameAt(r, i)
  <2> DEFINE n == Length(r[i].of)
             m == i + k
  <2>1. m \in 1 .. Len(q) /\ q[m] = r[i]
    BY <1>1
  <2>2. FrameAt(q, m)
    <3>1. q[m].part = 0
      BY <1>3, <2>1
    <3> HIDE DEF m
    <3> QED
      BY <2>1, <3>1 DEF Framed
  <2>3. /\ m + n <= Len(q)
        /\ \A j \in 1 .. n : q[m + j] = [of |-> r[i].of, part |-> j]
        /\ m + n < Len(q) => q[m + n + 1].part = 0
    <3> HIDE DEF m
    <3> QED
      BY <2>1, <2>2 DEF FrameAt
  <2>4. n \in 1 .. 2
    BY LengthType
  <2> HIDE DEF n
  <2>5. i + n <= Len(r)
    BY <1>1, <2>3, <2>4
  <2>6. ASSUME NEW j \in 1 .. n
        PROVE  r[i + j] = [of |-> r[i].of, part |-> j]
    <3>1. i + j \in 1 .. Len(r) /\ (i + j) + k = m + j
      BY <1>1, <2>4, <2>5
    <3>2. r[i + j] = q[m + j]
      <4> HIDE DEF m
      <4> QED
        BY <3>1
    <3> QED
      BY <2>3, <3>2
  <2>7. ASSUME i + n < Len(r)
        PROVE  r[i + n + 1].part = 0
    <3>1. i + n + 1 \in 1 .. Len(r) /\ (i + n + 1) + k = m + n + 1 /\ m + n < Len(q)
      BY <1>1, <2>4, <2>7
    <3>2. r[i + n + 1] = q[m + n + 1]
      <4> HIDE DEF m
      <4> QED
        BY <3>1
    <3> QED
      BY <2>3, <3>1, <3>2
  <2> QED
    BY <2>5, <2>6, <2>7 DEF FrameAt, n
<1> QED
  BY <1>2, <1>3 DEF Framed

\* One more frame.
LEMMA FramedMore ==
    ASSUME NEW q \in Seq(Tokens), NEW r \in Seq(Tokens), NEW x \in Results,
           Framed(q), Len(r) = Len(q) + 1 + Length(x), \A i \in 1 .. Len(q) : r[i] = q[i],
           \A j \in 0 .. Length(x) : r[Len(q) + 1 + j] = [of |-> x, part |-> j]
    PROVE  Framed(r)
<1> DEFINE l == Length(x)
           m == Len(q)
<1>1. m \in Nat /\ l \in 1 .. 2
  BY LenProperties, LengthType
<1>2. Len(r) = m + 1 + l /\ \A j \in 0 .. l : r[m + 1 + j] = [of |-> x, part |-> j]
  OBVIOUS
<1>3. /\ q # <<>> => q[1].part = 0
      /\ \A i \in 1 .. m : q[i].part = 0 => FrameAt(q, i)
  BY DEF Framed
<1>4. m = 0 => q = <<>>
  BY EmptySeq
<1>5. \A i \in 1 .. m : r[i] = q[i]
  OBVIOUS
<1>0. \A i \in 1 .. m : q[i].part = 0 =>
         LET n == Length(q[i].of)
         IN /\ i + n <= m
            /\ \A j \in 1 .. n : q[i + j] = [of |-> q[i].of, part |-> j]
            /\ i + n < m => q[i + n + 1].part = 0
  BY <1>3 DEF FrameAt
<1> HIDE DEF l, m
<1>6. r[m + 1] = [of |-> x, part |-> 0]
  <2>1. 0 \in 0 .. l /\ m + 1 + 0 = m + 1
    BY <1>1
  <2>2. r[m + 1 + 0] = [of |-> x, part |-> 0]
    BY <1>2, <2>1
  <2> QED
    BY <2>1, <2>2
<1>7. r[1].part = 0
  <2>1. CASE m = 0
    <3>1. m + 1 = 1
      BY <2>1
    <3> QED
      BY <1>6, <3>1
  <2>2. CASE m # 0
    <3>1. 1 \in 1 .. m /\ q # <<>>
      BY <1>1, <2>2, EmptySeq DEF m
    <3> QED
      BY <1>3, <1>5, <3>1
  <2> QED
    BY <2>1, <2>2
<1>8. ASSUME NEW i \in 1 .. Len(r), r[i].part = 0
      PROVE  FrameAt(r, i)
  <2> DEFINE n == Length(r[i].of)
  <2>1. n \in 1 .. 2
    BY LengthType
  <2>2. CASE i <= m
    <3>1. i \in 1 .. m /\ r[i] = q[i]
      BY <1>1, <1>5, <2>2
    <3>2. /\ i + n <= m
          /\ \A j \in 1 .. n : q[i + j] = [of |-> r[i].of, part |-> j]
          /\ i + n < m => q[i + n + 1].part = 0
      BY <1>0, <1>8, <3>1
    <3> HIDE DEF n
    <3>3. i + n <= Len(r)
      BY <1>1, <1>2, <2>1, <3>1, <3>2
    <3>4. ASSUME NEW j \in 1 .. n
          PROVE  r[i + j] = [of |-> r[i].of, part |-> j]
      <4>1. i + j \in 1 .. m
        BY <1>1, <2>1, <3>1, <3>2
      <4> QED
        BY <1>5, <3>2, <4>1
    <3>5. ASSUME i + n < Len(r)
          PROVE  r[i + n + 1].part = 0
      <4>1. CASE i + n < m
        <5>1. i + n + 1 \in 1 .. m
          BY <1>1, <2>1, <3>1, <4>1
        <5> QED
          BY <1>5, <3>2, <4>1, <5>1
      <4>2. CASE ~(i + n < m)
        <5>1. i + n + 1 = m + 1
          BY <1>1, <2>1, <3>1, <3>2, <4>2
        <5> QED
          BY <1>6, <5>1
      <4> QED
        BY <4>1, <4>2
    <3> QED
      BY <3>3, <3>4, <3>5 DEF FrameAt, n
  <2>3. CASE ~(i <= m)
    <3> DEFINE k == i - (m + 1)
    <3>1. k \in 0 .. l /\ i = m + 1 + k
      BY <1>1, <1>2, <2>3
    <3> HIDE DEF k
    <3>2. r[i] = [of |-> x, part |-> k]
      BY <1>2, <3>1
    <3>3. k = 0 /\ r[i].of = x
      BY <1>8, <3>2
    <3>4. i = m + 1 /\ n = l
      BY <1>1, <3>1, <3>3 DEF l
    <3> HIDE DEF n
    <3>5. i + n = Len(r)
      BY <1>1, <1>2, <3>4
    <3>6. ASSUME NEW j \in 1 .. n
          PROVE  r[i + j] = [of |-> r[i].of, part |-> j]
      <4>1. j \in 0 .. l /\ i + j = m + 1 + j
        BY <1>1, <3>4
      <4> QED
        BY <1>2, <3>3, <4>1
    <3>7. Len(r) \in Nat
      BY LenProperties
    <3> QED
      BY <3>5, <3>6, <3>7 DEF FrameAt, n
  <2> QED
    BY <1>1, <2>2, <2>3
<1> QED
  BY <1>7, <1>8 DEF Framed

\* If the stream is framed then the message at the front of what arrived parses, and
\* what follows it is framed.
LEMMA FramedStep ==
    ASSUME NEW b \in Seq(Tokens), NEW p \in Seq(Tokens), Framed(b \o p), HasMessage(b)
    PROVE  Parses(Message(b)) /\ Framed(Rest(b) \o p)
<1> DEFINE q == b \o p
           N == Len(b)
           s == StartIndex(b)
           n == LengthOfMessage(b)
           m == Message(b)
           r == Rest(b)
<1>1. /\ s \in 1 .. N /\ b[s].part = 1 /\ \A i \in 1 .. s - 1 : b[i].part # 1
      /\ n \in 1 .. 2 /\ s + n - 1 \in 1 .. N
      /\ m \in Seq(Tokens) /\ Len(m) = n
      /\ \A i \in 1 .. n : m[i] = b[s + i - 1]
      /\ r \in Seq(Tokens)
      /\ Len(r) = N - (s + n - 1)
      /\ \A i \in 1 .. Len(r) : r[i] = b[i + (s + n - 1)]
  BY MessageProperties
<1>2. /\ q \in Seq(Tokens) /\ Len(q) = N + Len(p)
      /\ \A i \in 1 .. N + Len(p) : q[i] = IF i <= N THEN b[i] ELSE p[i - N]
  BY ConcatProperties
<1>3. N \in Nat /\ Len(p) \in Nat /\ Len(q) \in Nat
  BY <1>2, LenProperties
<1>4. n = Length(b[1].of)
  BY DEF LengthOfMessage
<1>5. Framed(q)
  OBVIOUS
<1> HIDE DEF q, N, s, n, m, r
<1>6. N >= 1 /\ q[1] = b[1]
  <2>1. 1 \in 1 .. N + Len(p) /\ 1 <= N
    BY <1>1, <1>3
  <2> QED
    BY <1>2, <2>1
<1>7. /\ q[1].part = 0
      /\ 1 + n <= Len(q)
      /\ \A j \in 1 .. n : q[1 + j] = [of |-> b[1].of, part |-> j]
      /\ 1 + n < Len(q) => q[1 + n + 1].part = 0
  <2>1. q # <<>>
    BY <1>2, <1>3, <1>6, EmptySeq
  <2>2. q[1].part = 0
    BY <1>5, <2>1 DEF Framed
  <2>3. 1 \in 1 .. Len(q)
    BY <1>2, <1>3, <1>6
  <2>4. FrameAt(q, 1)
    BY <1>5, <2>2, <2>3 DEF Framed
  <2>5. Length(q[1].of) = n
    BY <1>4, <1>6
  <2>6. LET k == Length(q[1].of)
        IN /\ 1 + k <= Len(q)
           /\ \A j \in 1 .. k : q[1 + j] = [of |-> q[1].of, part |-> j]
           /\ 1 + k < Len(q) => q[1 + k + 1].part = 0
    BY <2>4 DEF FrameAt
  <2> QED
    BY <1>6, <2>2, <2>5, <2>6
<1>8. s = 2
  <2>1. s # 1
    BY <1>1, <1>6, <1>7
  <2>2. 2 \in 1 .. N /\ s \in Nat /\ s >= 2
    <3>1. s \in 1 .. N /\ N \in Nat
      BY <1>1, <1>3
    <3> QED
      BY ONLY <2>1, <3>1
  <2>3. q[2] = b[2]
    <3>1. 2 \in 1 .. N + Len(p) /\ 2 <= N
      BY <1>3, <2>2
    <3> QED
      BY <1>2, <3>1
  <2>4. q[2].part = 1
    <3>1. 1 \in 1 .. n /\ 1 + 1 = 2
      BY <1>1
    <3>2. q[1 + 1] = [of |-> b[1].of, part |-> 1]
      BY <1>7, <3>1
    <3> QED
      BY <3>1, <3>2
  <2>5. ~(2 \in 1 .. s - 1)
    BY <1>1, <2>3, <2>4
  <2> QED
    BY <2>2, <2>5
<1>9. ASSUME NEW i \in 1 .. n
      PROVE  m[i] = [of |-> b[1].of, part |-> i]
  <2>1. s + i - 1 = 1 + i /\ 1 + i \in 1 .. N + Len(p) /\ 1 + i <= N
    <3>1. i \in Nat /\ i >= 1 /\ i <= n /\ n \in Nat /\ s + n - 1 <= N /\ N \in Nat /\ Len(p) \in Nat
      BY <1>1, <1>3
    <3> QED
      BY ONLY <1>8, <3>1
  <2>2. m[i] = b[1 + i] /\ q[1 + i] = b[1 + i]
    BY <1>1, <1>2, <2>1
  <2> QED
    BY <1>7, <2>2
<1>10. Parses(m)
  <2> DEFINE x == b[1].of
  <2>1. x \in Results
    <3>1. b[1] \in Tokens
      <4>1. 1 \in 1 .. N
        BY <1>3, <1>6
      <4> QED
        BY <4>1, ElementOfSeq DEF N
    <3> QED
      BY <3>1 DEF Tokens
  <2>2. m[1].of = x
    <3>1. 1 \in 1 .. n
      BY <1>1
    <3>2. m[1] = [of |-> b[1].of, part |-> 1]
      BY <1>9, <3>1
    <3> QED
      BY <3>2
  <2>3. \A i \in 1 .. n : m[i] = [of |-> x, part |-> i]
    BY <1>9
  <2>4. n = Length(x)
    BY <1>4
  <2> HIDE DEF x
  <2>5. /\ Body(x) \in Seq(Tokens) /\ Len(Body(x)) = n
        /\ \A i \in 1 .. n : Body(x)[i] = [of |-> x, part |-> i]
    BY <2>1, <2>4, FrameProperties
  <2>6. m = Body(x)
    <3>1. m \in Seq(Tokens) /\ Len(m) = n /\ n \in Nat
      BY <1>1
    <3> DEFINE y == Body(x)
    <3>2. y \in Seq(Tokens) /\ Len(y) = n /\ \A i \in 1 .. n : y[i] = m[i]
      BY <2>3, <2>5
    <3> HIDE DEF y
    <3>3. m = y
      BY ONLY <3>1, <3>2, SeqEqual
    <3> QED
      BY <3>3 DEF y
  <2> QED
    BY <2>2, <2>6 DEF Parses
<1> DEFINE rp == r \o p
<1>11. /\ rp \in Seq(Tokens) /\ Len(rp) = Len(r) + Len(p)
       /\ \A i \in 1 .. Len(r) + Len(p) : rp[i] = IF i <= Len(r) THEN r[i] ELSE p[i - Len(r)]
  BY <1>1, ConcatProperties
<1> HIDE DEF rp
<1>12. Framed(rp)
  <2> DEFINE k == n + 1
  <2>1. k \in 0 .. Len(q) /\ k \in Nat /\ Len(r) = N - k /\ Len(r) \in Nat /\ Len(rp) = Len(q) - k
    BY <1>1, <1>2, <1>3, <1>8, <1>11
  <2>2. k < Len(q) => q[k + 1].part = 0
    <3>1. 1 + n = k /\ 1 + n + 1 = k + 1
      BY <1>1
    <3> QED
      BY <1>7, <3>1
  <2>a. s + n - 1 = k
    BY <1>1, <1>8
  <2> HIDE DEF k
  <2>3. ASSUME NEW i \in 1 .. Len(rp)
        PROVE  rp[i] = q[i + k]
    <3>0. i \in 1 .. Len(r) + Len(p) /\ i + k \in 1 .. N + Len(p)
      BY <1>2, <1>3, <1>11, <2>1
    <3>1. CASE i <= Len(r)
      <4>0. i \in 1 .. Len(r)
        BY <2>1, <3>0, <3>1
      <4>1. rp[i] = r[i]
        BY <1>11, <3>0, <3>1
      <4>3. r[i] = b[i + k]
        BY <1>1, <2>a, <4>0
      <4>2. i + k <= N
        BY <1>3, <2>1, <3>1
      <4> QED
        BY <1>2, <3>0, <4>1, <4>2, <4>3
    <3>2. CASE ~(i <= Len(r))
      <4>1. rp[i] = p[i - Len(r)]
        BY <1>11, <3>0, <3>2
      <4>2. ~(i + k <= N) /\ (i + k) - N = i - Len(r)
        BY <1>3, <2>1, <3>2
      <4> QED
        BY <1>2, <3>0, <4>1, <4>2
    <3> QED
      BY <3>1, <3>2
  <2> QED
    BY <1>2, <1>5, <1>11, <2>1, <2>2, <2>3, FramedSuffix
<1> QED
  BY <1>10, <1>12 DEF m, rp, r

-----------------------------------------------------------------------------
(* The loop of the server.                                                 *)

Drained == [rest : Seq(Tokens), results : Seq(Results)]

\* A turn of the loop.
Turn(p) == IF HasMessage(p.rest) /\ Parses(Message(p.rest))
           THEN [rest |-> Rest(p.rest), results |-> Append(p.results, Message(p.rest)[1].of)]
           ELSE p

\* A turn of the loop keeps the types.
LEMMA TurnType ==
    ASSUME NEW p \in Drained
    PROVE  Turn(p) \in Drained
<1> DEFINE b == p.rest
<1>1. b \in Seq(Tokens) /\ p.results \in Seq(Results)
  BY DEF Drained
<1> HIDE DEF b
<1>2. CASE HasMessage(b) /\ Parses(Message(b))
  <2>1. Rest(b) \in Seq(Tokens) /\ Message(b)[1].of \in Results
    BY <1>1, <1>2, MessageProperties, DrainStep
  <2>2. Append(p.results, Message(b)[1].of) \in Seq(Results)
    BY <1>1, <2>1, AppendProperties
  <2>3. Turn(p) = [rest |-> Rest(b), results |-> Append(p.results, Message(b)[1].of)]
    BY <1>2 DEF Turn, b
  <2> QED
    BY <2>1, <2>2, <2>3 DEF Drained
<1>3. CASE ~(HasMessage(b) /\ Parses(Message(b)))
  BY <1>3 DEF Turn, b
<1> QED
  BY <1>2, <1>3

\* The loop over the data is its turns, one after the other.
LEMMA DrainEquation ==
    ASSUME NEW b \in Seq(Tokens)
    PROVE  \E after \in [0 .. Len(b) -> Drained] :
              /\ Drain(b) = after[Len(b)]
              /\ after[0] = [rest |-> b, results |-> << >>]
              /\ \A k \in 0 .. Len(b) - 1 : after[k + 1] = Turn(after[k])
<1> DEFINE n == Len(b)
           D == 0 .. n
           first == [rest |-> b, results |-> << >>]
           Step(k, g) == IF k = 0 THEN first ELSE Turn(g[k - 1])
           F == [k \in D |-> [g \in [D -> Drained] |-> Step(k, g)]]
           rank == [k \in D |-> k]
           drain == CHOOSE f : f = [k \in D |-> Step(k, f)]
<1>1. n \in Nat
  BY LenProperties
<1>2. Drain(b) = drain[n]
  BY DEF Drain, Turn
<1>a. first \in Drained
  <2>1. <<>> \in Seq(Results)
    BY EmptySeq
  <2> QED
    BY <2>1 DEF Drained
<1> HIDE DEF first, n
<1>3. drain \in [D -> Drained] /\ drain = [k \in D |-> Step(k, drain)]
  <2>1. ASSUME NEW k \in D, NEW g \in [D -> Drained]
        PROVE  Step(k, g) \in Drained
    <3>1. CASE k = 0
      BY <1>a, <3>1
    <3>2. CASE k # 0
      <4>1. k - 1 \in D
        BY <1>1, <3>2
      <4>2. g[k - 1] \in Drained
        BY <4>1
      <4> QED
        BY <3>2, <4>2, TurnType
    <3> QED
      BY <3>1, <3>2
  <2>2. F \in [D -> [[D -> Drained] -> Drained]]
    <3> HIDE DEF Step, D
    <3> QED
      BY <2>1
  <2>3. ASSUME NEW k \in D, NEW g, NEW h,
               \A e \in D : rank[e] < rank[k] => g[e] = h[e]
        PROVE  Step(k, g) = Step(k, h)
    <3>1. CASE k = 0
      BY <3>1
    <3>2. CASE k # 0
      <4>1. k - 1 \in D /\ rank[k - 1] < rank[k]
        BY <1>1, <3>2
      <4>2. g[k - 1] = h[k - 1]
        BY <2>3, <4>1
      <4> QED
        BY <4>2
    <3> QED
      BY <3>1, <3>2
  <2>4. rank \in [D -> 0 .. n] /\ rank \in [D -> Nat] /\ Drained # {}
    BY <1>1, <1>a
  <2>5. \E up \in [D -> Drained] : \A k \in D : up[k] = F[k][up]
    <3>1. \A d \in D : \A g, h \in [D -> Drained] :
             (\A e \in D : rank[e] < rank[d] => g[e] = h[e]) => F[d][g] = F[d][h]
      <4> HIDE DEF rank, D, Step
      <4> QED
        BY <2>3
    <3> HIDE DEF F, rank, D
    <3>2. Recurs(F, D, Drained, rank)
      BY <2>2, <3>1 DEF Recurs
    <3> QED
      BY <1>1, <2>4, <3>2, Recursion
  <2>6. PICK up \in [D -> Drained] : \A k \in D : up[k] = F[k][up]
    BY <2>5
  <2>7. up = [k \in D |-> Step(k, up)]
    <3> HIDE DEF Step, D
    <3> QED
      BY <2>6
  <2>8. drain = [k \in D |-> Step(k, drain)]
    <3> HIDE DEF Step, D
    <3> QED
      BY <2>7
  <2>9. drain = up
    <3> HIDE DEF drain
    <3>1. drain = [k \in D |-> drain[k]] /\ up = [k \in D |-> up[k]]
      <4> HIDE DEF Step, D
      <4> QED
        BY <2>8
    <3>2. ASSUME NEW k \in D, \A e \in D : rank[e] < rank[k] => drain[e] = up[e]
          PROVE  drain[k] = up[k]
      <4>1. drain[k] = Step(k, drain) /\ up[k] = Step(k, up)
        <5> HIDE DEF Step, D, rank
        <5> QED
          BY <2>7, <2>8
      <4>2. Step(k, drain) = Step(k, up)
        <5> HIDE DEF Step, D, rank
        <5> QED
          BY <2>3, <3>2
      <4> QED
        BY <4>1, <4>2
    <3> DEFINE P == {k \in D : drain[k] = up[k]}
    <3>3. rank \in [D -> Nat]
      BY <2>4
    <3>4. \A k \in D : (\A e \in D : rank[e] < rank[k] => e \in P) => k \in P
      <4> HIDE DEF rank, D
      <4> QED
        BY <3>2
    <3>5. \A k \in D : k \in P
      <4> HIDE DEF P, rank, D
      <4> QED
        BY ONLY <3>3, <3>4, RankInduction
    <3> HIDE DEF D
    <3> QED
      BY <3>1, <3>5
  <2> QED
    <3> HIDE DEF drain, Step, D
    <3> QED
      BY <2>8, <2>9
<1> HIDE DEF drain
<1>4. \A k \in D : drain[k] = Step(k, drain)
  <2> HIDE DEF Step, D
  <2> QED
    BY <1>3
<1>5. drain[0] = first
  <2>1. 0 \in D
    BY <1>1
  <2>2. drain[0] = Step(0, drain)
    <3> HIDE DEF Step, D
    <3> QED
      BY <1>4, <2>1
  <2> QED
    BY <2>2
<1>6. ASSUME NEW k \in 0 .. n - 1
      PROVE  drain[k + 1] = Turn(drain[k])
  <2> DEFINE j == k + 1
  <2>1. j \in D /\ j # 0 /\ j - 1 = k
    BY <1>1
  <2> HIDE DEF j
  <2>2. drain[j] = Step(j, drain)
    <3> HIDE DEF Step, D
    <3> QED
      BY <1>4, <2>1
  <2>3. Step(j, drain) = Turn(drain[j - 1])
    BY <2>1
  <2>4. drain[j] = Turn(drain[k])
    <3> HIDE DEF Step
    <3> QED
      BY <2>1, <2>2, <2>3
  <2> QED
    BY <2>4 DEF j
<1> QED
  BY <1>2, <1>3, <1>5, <1>6 DEF first, n

\* Whatever arrived, the loop handles the results that waited first and leaves the
\* others in the buffer, of which it cannot take another one; and what is still to
\* come leaves a framed stream framed.
LEMMA DrainProperties ==
    ASSUME NEW b \in Seq(Tokens)
    PROVE  /\ Drain(b) \in Drained
           /\ Waiting(b) = Drain(b).results \o Waiting(Drain(b).rest)
           /\ ~(HasMessage(Drain(b).rest) /\ Parses(Message(Drain(b).rest)))
           /\ \A p \in Seq(Tokens) : Framed(b \o p) => Framed(Drain(b).rest \o p)
<1>1. PICK after \in [0 .. Len(b) -> Drained] :
              /\ Drain(b) = after[Len(b)]
              /\ after[0] = [rest |-> b, results |-> << >>]
              /\ \A k \in 0 .. Len(b) - 1 : after[k + 1] = Turn(after[k])
  BY DrainEquation
<1>2. Len(b) \in Nat
  BY LenProperties
<1> DEFINE Stuck(q) == ~(HasMessage(q) /\ Parses(Message(q)))
           Good(k) == /\ Waiting(b) = after[k].results \o Waiting(after[k].rest)
                      /\ Len(after[k].rest) <= Len(b) - k \/ Stuck(after[k].rest)
                      /\ \A p \in Seq(Tokens) : Framed(b \o p) => Framed(after[k].rest \o p)
           P == {k \in 0 .. Len(b) : Good(k)}
<1>3. 0 \in P
  <2>1. Waiting(b) = <<>> \o Waiting(b)
    BY WaitingType, ConcatEmptySeq
  <2>2. after[0].rest = b /\ after[0].results = <<>>
    BY <1>1
  <2>3. Len(b) <= Len(b) - 0
    BY <1>2
  <2>4. Good(0)
    BY <2>1, <2>2, <2>3
  <2> HIDE DEF Good
  <2> QED
    BY <1>2, <2>4
<1>4. ASSUME NEW k \in 0 .. Len(b) - 1, k \in P
      PROVE  k + 1 \in P
  <2> DEFINE q == after[k].rest
             rs == after[k].results
             x == Message(q)[1].of
  <2>0. k \in 0 .. Len(b) /\ k + 1 \in 0 .. Len(b)
    BY <1>2
  <2>1. k \in 0 .. Len(b) /\ k + 1 \in 0 .. Len(b) /\ Good(k)
    <3> HIDE DEF Good
    <3> QED
      BY <1>4, <2>0
  <2>2. after[k] \in Drained /\ after[k + 1] = Turn(after[k])
    BY <1>1, <2>1
  <2>3. q \in Seq(Tokens) /\ rs \in Seq(Results)
    BY <2>2 DEF Drained
  <2>4. CASE Stuck(q)
    <3>1. after[k + 1] = after[k]
      BY <2>2, <2>4 DEF Turn
    <3>2. Good(k + 1)
      BY <2>1, <2>4, <3>1
    <3> HIDE DEF Good
    <3> QED
      BY <2>1, <3>2
  <2>5. CASE ~Stuck(q)
    <3>1. after[k + 1].rest = Rest(q) /\ after[k + 1].results = Append(rs, x)
      BY <2>2, <2>5 DEF Turn
    <3>2. Waiting(b) = rs \o Waiting(q)
      BY <2>1
    <3>3. Len(q) <= Len(b) - k
      BY <2>1, <2>5
    <3>4. \A p \in Seq(Tokens) : Framed(b \o p) => Framed(q \o p)
      BY <2>1
    <3> HIDE DEF q, rs, x
    <3>5. HasMessage(q) /\ Parses(Message(q))
      BY <2>5
    <3>6. /\ x \in Results /\ Rest(q) \in Seq(Tokens)
          /\ Waiting(q) = <<x>> \o Waiting(Rest(q))
      BY <2>3, <3>5, MessageProperties, DrainStep DEF x
    <3>7. Len(Rest(q)) < Len(q)
      <4>1. /\ Len(Rest(q)) = Len(q) - (StartIndex(q) + LengthOfMessage(q) - 1)
            /\ StartIndex(q) + LengthOfMessage(q) - 1 \in 1 .. Len(q)
        BY <2>3, <3>5, MessageProperties
      <4>2. Len(q) \in Nat
        BY <2>3, LenProperties
      <4> QED
        BY <4>1, <4>2
    <3>8. Waiting(b) = Append(rs, x) \o Waiting(Rest(q))
      <4> DEFINE w == Waiting(Rest(q))
                 e == <<x>>
      <4>1. w \in Seq(Results) /\ e \in Seq(Results)
        BY <3>6, WaitingType
      <4>2. Append(rs, x) = rs \o e
        BY <2>3, <3>6, AppendIsConcat
      <4>3. Waiting(b) = rs \o (e \o w)
        BY <3>2, <3>6
      <4> HIDE DEF w, e
      <4>4. (rs \o e) \o w = rs \o (e \o w)
        BY <2>3, <4>1, ResultsAssociative
      <4> QED
        BY <4>2, <4>3, <4>4 DEF w
    <3>9. Len(Rest(q)) <= Len(b) - (k + 1)
      <4>1. Len(q) \in Nat /\ Len(Rest(q)) \in Nat
        BY <2>3, <3>6, LenProperties
      <4> QED
        BY <1>2, <3>3, <3>7, <4>1
    <3>10. ASSUME NEW p \in Seq(Tokens), Framed(b \o p)
           PROVE  Framed(Rest(q) \o p)
      <4>1. Framed(q \o p)
        BY <3>4, <3>10
      <4> QED
        BY <2>3, <3>5, <4>1, FramedStep
    <3>11. Good(k + 1)
      BY <3>1, <3>8, <3>9, <3>10
    <3> HIDE DEF Good
    <3> QED
      BY <2>1, <3>11
  <2> QED
    BY <2>4, <2>5
<1>5. Len(b) \in P
  <2> DEFINE n == Len(b)
  <2>1. n \in Nat /\ 0 \in Nat /\ n \in 0 .. n /\ (\A i \in 0 .. n - 1 : i \in P => i + 1 \in P)
    BY <1>2, <1>4
  <2> HIDE DEF P, n
  <2>2. \A i \in 0 .. n : i \in P
    BY ONLY <1>3, <2>1, IntervalInduction
  <2> QED
    BY <2>1, <2>2 DEF n
<1> DEFINE q == after[Len(b)].rest
<1>6. Good(Len(b)) /\ Len(b) \in 0 .. Len(b)
  BY <1>2, <1>5
<1>7. after[Len(b)] \in Drained /\ q \in Seq(Tokens)
  <2>1. after[Len(b)] \in Drained
    BY <1>6
  <2> QED
    BY <2>1 DEF Drained
<1>8. Stuck(q)
  <2>1. Len(q) <= Len(b) - Len(b) \/ Stuck(q)
    BY <1>6
  <2> HIDE DEF q
  <2>2. Len(q) \in Nat
    BY <1>7, LenProperties
  <2>3. SUFFICES ASSUME HasMessage(q)
                 PROVE  Stuck(q)
    OBVIOUS
  <2>4. StartIndex(q) \in 1 .. Len(q)
    BY <1>7, <2>3, MessageProperties
  <2>5. ~(Len(q) <= Len(b) - Len(b))
    BY <1>2, <2>2, <2>4
  <2> QED
    BY <2>1, <2>5
<1> QED
  BY <1>1, <1>6, <1>7, <1>8

-----------------------------------------------------------------------------
(* Counts, and the last result of a test.                                  *)

\* The results of a test, and those with an outcome, in a sequence and in what is
\* added to it.
LEMMA CountConcat ==
    ASSUME NEW a \in Seq(Results), NEW b \in Seq(Results), NEW o
    PROVE  /\ Count(a, o) \in Nat /\ Count(b, o) \in Nat
           /\ Count(a \o b, o) = Count(a, o) + Count(b, o)
<1> DEFINE c == a \o b
           m == Len(a)
           n == Len(b)
           I == {i \in 1 .. m : a[i].outcome = o}
           J == {i \in 1 .. n : b[i].outcome = o}
           K == {i \in m + 1 .. m + n : b[i - m].outcome = o}
           C == {i \in 1 .. m + n : c[i].outcome = o}
<1>1. m \in Nat /\ n \in Nat /\ DOMAIN a = 1 .. m /\ DOMAIN b = 1 .. n
  BY LenProperties
<1>2. /\ c \in Seq(Results) /\ Len(c) = m + n
      /\ \A i \in 1 .. m + n : c[i] = IF i <= m THEN a[i] ELSE b[i - m]
  BY ConcatProperties
<1> HIDE DEF c, m, n
<1>3. DOMAIN c = 1 .. m + n
  BY <1>2, LenProperties
<1>4. Count(a, o) = Cardinality(I) /\ Count(b, o) = Cardinality(J) /\ Count(c, o) = Cardinality(C)
  BY <1>1, <1>3 DEF Count
<1>5. IsFiniteSet(I) /\ IsFiniteSet(J) /\ IsFiniteSet(K)
  <2>1. IsFiniteSet(1 .. m) /\ IsFiniteSet(1 .. n) /\ IsFiniteSet(m + 1 .. m + n)
    BY <1>1, FS_Interval
  <2>2. I \in SUBSET (1 .. m) /\ J \in SUBSET (1 .. n) /\ K \in SUBSET (m + 1 .. m + n)
    OBVIOUS
  <2> HIDE DEF I, J, K
  <2> QED
    BY <2>1, <2>2, FS_Subset
<1>6. Cardinality(I) \in Nat /\ Cardinality(J) \in Nat /\ Cardinality(K) \in Nat
  <2> HIDE DEF I, J, K
  <2> QED
    BY <1>5, FS_CardinalityType
<1>7. C = I \cup K /\ I \cap K = {}
  BY <1>1, <1>2
<1>8. Cardinality(K) = Cardinality(J)
  <2> DEFINE f == [i \in J |-> i + m]
  <2>1. f \in [J -> K]
    BY <1>1
  <2>2. \A i, j \in J : f[i] = f[j] => i = j
    BY <1>1
  <2>3. \A k \in K : \E i \in J : f[i] = k
    <3>1. ASSUME NEW k \in K
          PROVE  k - m \in J /\ f[k - m] = k
      BY <1>1
    <3> QED
      BY <3>1
  <2> HIDE DEF f, J, K
  <2>4. f \in Bijection(J, K)
    BY <2>1, <2>2, <2>3 DEF Bijection, Injection, Surjection, IsInjective
  <2> QED
    BY <1>5, <2>4, FS_Bijection DEF ExistsBijection
<1> HIDE DEF I, J, K, C
<1>9. Cardinality(I \cup K) = Cardinality(I) + Cardinality(K)
  <2>1. Cardinality(I \cup K) = Cardinality(I) + Cardinality(K) - Cardinality(I \cap K)
    BY <1>5, FS_Union
  <2>2. Cardinality(I \cap K) = 0
    BY <1>7, FS_EmptySet
  <2> QED
    BY <1>6, <2>1, <2>2
<1> QED
  BY <1>4, <1>6, <1>7, <1>8, <1>9 DEF c

\* None of no results has an outcome.
LEMMA CountNone == \A o : Count(<<>>, o) = 0
<1>1. \A o : {i \in DOMAIN <<>> : <<>>[i].outcome = o} = {}
  OBVIOUS
<1> QED
  BY <1>1, FS_EmptySet DEF Count

\* None of no results is of a test.
LEMMA OfTestNone == \A t : OfTest(<<>>, t) = {}
  BY DEF OfTest

\* The outcome of the last result of a test.
LEMMA LatestProperties ==
    ASSUME NEW a \in Seq(Results), NEW t, OfTest(a, t) # {}
    PROVE  /\ Max(OfTest(a, t)) \in 1 .. Len(a)
           /\ Max(OfTest(a, t)) \in OfTest(a, t)
           /\ \A i \in OfTest(a, t) : Max(OfTest(a, t)) >= i
           /\ Latest(a, t) \in Outcomes
<1>1. Len(a) \in Nat /\ DOMAIN a = 1 .. Len(a)
  BY LenProperties
<1>2. OfTest(a, t) \in SUBSET (1 .. Len(a))
  BY <1>1 DEF OfTest
<1>3. Max(OfTest(a, t)) \in OfTest(a, t) /\ \A i \in OfTest(a, t) : Max(OfTest(a, t)) >= i
  BY <1>1, <1>2, MaxProperties
<1>4. Max(OfTest(a, t)) \in 1 .. Len(a)
  BY <1>2, <1>3
<1>5. a[Max(OfTest(a, t))] \in Results
  BY <1>4, ElementOfSeq
<1> QED
  BY <1>3, <1>4, <1>5 DEF Latest, Results

\* The last result of a test, in two sequences one after the other, is that of the second
\* if it has one.
LEMMA LatestConcat ==
    ASSUME NEW a \in Seq(Results), NEW b \in Seq(Results), NEW t
    PROVE  /\ OfTest(a \o b, t) # {} <=> OfTest(a, t) # {} \/ OfTest(b, t) # {}
           /\ OfTest(b, t) # {} => Latest(a \o b, t) = Latest(b, t)
           /\ OfTest(b, t) = {} /\ OfTest(a, t) # {} => Latest(a \o b, t) = Latest(a, t)
<1> DEFINE c == a \o b
           m == Len(a)
           n == Len(b)
           I == {i \in 1 .. m : a[i].test = t}
           J == {i \in 1 .. n : b[i].test = t}
           C == {i \in 1 .. m + n : c[i].test = t}
<1>1. m \in Nat /\ n \in Nat /\ DOMAIN a = 1 .. m /\ DOMAIN b = 1 .. n
  BY LenProperties
<1>2. /\ c \in Seq(Results) /\ Len(c) = m + n
      /\ \A i \in 1 .. m + n : c[i] = IF i <= m THEN a[i] ELSE b[i - m]
  BY ConcatProperties
<1> HIDE DEF c, m, n
<1>3. DOMAIN c = 1 .. m + n
  BY <1>2, LenProperties
<1>4. OfTest(a, t) = I /\ OfTest(b, t) = J /\ OfTest(c, t) = C
  BY <1>1, <1>3 DEF OfTest
<1>5. ASSUME NEW i \in 1 .. m
      PROVE  i \in C <=> i \in I
  <2>1. i \in 1 .. m + n /\ i <= m
    BY <1>1
  <2>2. c[i] = a[i]
    BY <1>2, <2>1
  <2> QED
    BY <2>1, <2>2
<1>6. ASSUME NEW j \in 1 .. n
      PROVE  /\ j + m \in 1 .. m + n /\ c[j + m] = b[j]
             /\ j + m \in C <=> j \in J
  <2>1. j + m \in 1 .. m + n /\ ~(j + m <= m) /\ (j + m) - m = j
    BY <1>1
  <2>2. c[j + m] = b[j]
    BY <1>2, <2>1
  <2> QED
    BY <2>1, <2>2
<1>7. ASSUME NEW i \in C
      PROVE  i \in I \/ (i - m \in J /\ i - m \in 1 .. n)
  <2>0. i \in 1 .. m + n
    OBVIOUS
  <2>1. CASE i <= m
    <3>1. i \in 1 .. m
      BY <1>1, <2>0, <2>1
    <3> QED
      BY <1>5, <3>1
  <2>2. CASE ~(i <= m)
    <3>1. i - m \in 1 .. n /\ (i - m) + m = i
      BY <1>1, <2>0, <2>2
    <3>2. (i - m) + m \in C <=> i - m \in J
      <4> HIDE DEF C, J
      <4> QED
        BY <1>6, <3>1
    <3> QED
      BY <3>1, <3>2
  <2> QED
    BY <2>1, <2>2
<1>8. I \in SUBSET (1 .. m) /\ J \in SUBSET (1 .. n) /\ C \in SUBSET (1 .. m + n)
  OBVIOUS
<1> HIDE DEF I, J, C
<1>9. C # {} <=> I # {} \/ J # {}
  <2>1. ASSUME C # {} PROVE I # {} \/ J # {}
    BY <1>7, <2>1
  <2>2. ASSUME I # {} PROVE C # {}
    BY <1>5, <1>8, <2>2
  <2>3. ASSUME J # {} PROVE C # {}
    BY <1>6, <1>8, <2>3
  <2> QED
    BY <2>1, <2>2, <2>3
<1>10. ASSUME J # {}
       PROVE  Latest(c, t) = Latest(b, t)
  <2> DEFINE x == Max(C)
             y == Max(J)
  <2>1. y \in 1 .. n /\ y \in J /\ \A j \in J : y >= j
    BY <1>4, <1>10, LatestProperties DEF n
  <2>2. x \in 1 .. m + n /\ x \in C /\ \A i \in C : x >= i
    BY <1>2, <1>4, <1>9, <1>10, LatestProperties
  <2>3. Latest(c, t) = c[x].outcome /\ Latest(b, t) = b[y].outcome
    BY <1>4 DEF Latest
  <2> HIDE DEF x, y
  <2>4. y + m \in C
    BY <1>6, <2>1
  <2>5. x >= y + m
    BY <2>2, <2>4
  <2>6. x \notin I
    <3>1. ~(x <= m)
      BY <1>1, <2>1, <2>2, <2>5
    <3>2. \A i \in I : i <= m
      BY <1>1, <1>8
    <3> QED
      BY <3>1, <3>2
  <2>7. x - m \in J
    BY <1>7, <2>2, <2>6
  <2>8. y >= x - m
    BY <2>1, <2>7
  <2>9. x = y + m
    BY <1>1, <2>1, <2>2, <2>5, <2>8
  <2>10. c[y + m] = b[y]
    BY <1>6, <2>1
  <2> QED
    BY <2>3, <2>9, <2>10
<1>11. ASSUME J = {}, I # {}
       PROVE  Latest(c, t) = Latest(a, t)
  <2> DEFINE x == Max(C)
             y == Max(I)
  <2>1. y \in 1 .. m /\ y \in I /\ \A i \in I : y >= i
    BY <1>4, <1>11, LatestProperties DEF m
  <2>2. x \in 1 .. m + n /\ x \in C /\ \A i \in C : x >= i
    BY <1>2, <1>4, <1>9, <1>11, LatestProperties
  <2>3. Latest(c, t) = c[x].outcome /\ Latest(a, t) = a[y].outcome
    BY <1>4 DEF Latest
  <2> HIDE DEF x, y
  <2>4. y \in C
    BY <1>5, <2>1
  <2>5. x \in I
    BY <1>7, <1>11, <2>2
  <2>6. x >= y /\ y >= x
    BY <2>1, <2>2, <2>4, <2>5
  <2>7. x = y
    BY <1>1, <2>1, <2>2, <2>6
  <2>8. y \in 1 .. m + n /\ y <= m
    BY <1>1, <2>1
  <2>9. c[y] = a[y]
    BY <1>2, <2>8
  <2> QED
    BY <2>3, <2>7, <2>9
<1> QED
  BY <1>4, <1>9, <1>10, <1>11 DEF c

\* A sequence of the elements of a finite set.
LEMMA SetToSeqType ==
    ASSUME NEW S, IsFiniteSet(S)
    PROVE  SetToSeq(S) \in Seq(S)
<1> DEFINE n == Cardinality(S)
<1>1. n \in Nat /\ ExistsBijection(1 .. n, S)
  BY FS_CardinalityType
<1> HIDE DEF n
<1>2. \E f \in [1 .. n -> S] : IsInjective(f)
  BY <1>1 DEF ExistsBijection, Bijection, Injection
<1>3. SetToSeq(S) \in [1 .. n -> S]
  BY <1>2 DEF SetToSeq, n
<1> QED
  BY <1>1, <1>3, SeqDef

-----------------------------------------------------------------------------
(* What the launchers and the server do to a stream.                       *)

\* A launcher sends a frame.
LEMMA StreamSends ==
    ASSUME NEW b \in Seq(Tokens), NEW p \in Seq(Tokens), NEW x \in Results
    PROVE  /\ (p \o Header(x)) \o Body(x) \in Seq(Tokens)
           /\ Waiting(b \o ((p \o Header(x)) \o Body(x))) = Append(Waiting(b \o p), x)
           /\ Framed(b \o p) => Framed(b \o ((p \o Header(x)) \o Body(x)))
<1> DEFINE h == Header(x)
           y == Body(x)
           l == Length(x)
           q == b \o p
           u == h \o y
           z == (p \o h) \o y
           r == b \o z
<1>1. /\ h \in Seq(Tokens) /\ Len(h) = 1 /\ h[1] = [of |-> x, part |-> 0]
      /\ y \in Seq(Tokens) /\ Len(y) = l
      /\ \A i \in 1 .. l : y[i] = [of |-> x, part |-> i]
  BY FrameProperties
<1>2. Waiting(h) = <<>> /\ Waiting(y) = <<x>>
  BY WaitingFrame
<1>3. l \in 1 .. 2 /\ Len(b) \in Nat /\ Len(p) \in Nat
  BY LengthType, LenProperties
<1> HIDE DEF h, y, l
<1>4. p \o h \in Seq(Tokens) /\ u \in Seq(Tokens) /\ q \in Seq(Tokens)
  BY <1>1, ConcatProperties
<1>5. Len(u) = 1 + l /\ \A i \in 1 .. 1 + l : u[i] = IF i <= 1 THEN h[i] ELSE y[i - 1]
  <2>1. /\ Len(u) = Len(h) + Len(y)
        /\ \A i \in 1 .. Len(h) + Len(y) : u[i] = IF i <= Len(h) THEN h[i] ELSE y[i - Len(h)]
    BY <1>1, ConcatProperties
  <2> HIDE DEF u
  <2> QED
    BY <1>1, <2>1
<1>6. (p \o h) \o y = p \o u
  <2> HIDE DEF u
  <2> QED
    BY <1>1, TokensAssociative DEF u
<1>7. b \o (p \o u) = (b \o p) \o u
  <2> HIDE DEF u
  <2> QED
    BY <1>4, TokensAssociative
<1>8. z \in Seq(Tokens)
  <2> DEFINE ph == p \o h
  <2>1. ph \in Seq(Tokens)
    BY <1>4
  <2> HIDE DEF ph
  <2>2. ph \o y \in Seq(Tokens)
    BY <1>1, <2>1, ConcatProperties
  <2> QED
    BY <2>2 DEF ph
<1>9. r = q \o u
  BY <1>6, <1>7
<1>10. Waiting(u) = <<x>>
  <2>1. Waiting(u) = Waiting(h) \o Waiting(y)
    BY <1>1, WaitingConcat
  <2>2. <<x>> \in Seq(Results)
    OBVIOUS
  <2>3. <<>> \o <<x>> = <<x>>
    BY <2>2, ConcatEmptySeq
  <2> QED
    BY <1>2, <2>1, <2>3
<1> HIDE DEF q, u, z, r
<1>11. Waiting(r) = Append(Waiting(q), x)
  <2>1. Waiting(q \o u) = Waiting(q) \o Waiting(u)
    BY <1>4, WaitingConcat
  <2> DEFINE w == Waiting(q)
  <2>2. w \in Seq(Results)
    BY <1>4, WaitingType
  <2> HIDE DEF w
  <2>3. Append(w, x) = w \o <<x>>
    BY <2>2, AppendIsConcat
  <2> QED
    BY <1>9, <1>10, <2>1, <2>3 DEF w
<1>12. ASSUME Framed(q)
       PROVE  Framed(r)
  <2> DEFINE m == Len(q)
  <2>1. m \in Nat
    BY <1>4, LenProperties
  <2>2. /\ q \o u \in Seq(Tokens) /\ Len(q \o u) = m + Len(u)
        /\ \A i \in 1 .. m + Len(u) : (q \o u)[i] = IF i <= m THEN q[i] ELSE u[i - m]
    BY <1>4, ConcatProperties
  <2> HIDE DEF m
  <2>3. /\ r \in Seq(Tokens) /\ Len(r) = m + 1 + l
        /\ \A i \in 1 .. m + 1 + l : r[i] = IF i <= m THEN q[i] ELSE u[i - m]
    BY <1>3, <1>4, <1>5, <1>9, <2>1, <2>2
  <2>4. \A i \in 1 .. m : r[i] = q[i]
    BY <1>3, <2>1, <2>3
  <2>5. ASSUME NEW j \in 0 .. l
        PROVE  r[m + 1 + j] = [of |-> x, part |-> j]
    <3>1. /\ m + 1 + j \in 1 .. m + 1 + l /\ ~(m + 1 + j <= m) /\ (m + 1 + j) - m = j + 1
          /\ j + 1 \in 1 .. 1 + l /\ (j + 1) - 1 = j
      BY <1>3, <2>1
    <3>2. r[m + 1 + j] = u[j + 1]
      BY <2>3, <3>1
    <3>3. u[j + 1] = IF j + 1 <= 1 THEN h[j + 1] ELSE y[j]
      BY <1>5, <3>1
    <3>4. CASE j = 0
      <4>1. u[j + 1] = h[1]
        BY <3>3, <3>4
      <4> QED
        BY <1>1, <3>2, <3>4, <4>1
    <3>5. CASE j # 0
      <4>1. ~(j + 1 <= 1) /\ j \in 1 .. l
        BY <1>3, <3>5
      <4> QED
        BY <1>1, <3>2, <3>3, <4>1
    <3> QED
      BY <3>4, <3>5
  <2> QED
    BY <1>4, <1>12, <2>3, <2>4, <2>5, FramedMore DEF m, l
<1> QED
  BY <1>8, <1>11, <1>12 DEF h, y, q, z, r

\* A launcher is killed after the header.
LEMMA StreamDies ==
    ASSUME NEW b \in Seq(Tokens), NEW p \in Seq(Tokens), NEW x \in Results
    PROVE  /\ p \o Header(x) \in Seq(Tokens)
           /\ Waiting(b \o (p \o Header(x))) = Waiting(b \o p)
<1> DEFINE h == Header(x)
           q == b \o p
<1>1. h \in Seq(Tokens) /\ Waiting(h) = <<>>
  BY FrameProperties, WaitingFrame
<1> HIDE DEF h
<1>2. p \o h \in Seq(Tokens) /\ q \in Seq(Tokens)
  BY <1>1, ConcatProperties
<1>3. b \o (p \o h) = q \o h
  BY <1>1, TokensAssociative
<1> HIDE DEF q
<1>4. Waiting(q \o h) = Waiting(q) \o Waiting(h)
  BY <1>1, <1>2, WaitingConcat
<1> DEFINE w == Waiting(q)
<1>5. w \in Seq(Results)
  BY <1>2, WaitingType
<1> HIDE DEF w
<1>6. w \o <<>> = w
  BY <1>5, ConcatEmptySeq
<1> QED
  BY <1>1, <1>2, <1>3, <1>4, <1>6 DEF w, h, q

\* The server reads a part of what was sent.
LEMMA StreamReads ==
    ASSUME NEW b \in Seq(Tokens), NEW p \in Seq(Tokens), NEW n \in 1 .. Len(p)
    PROVE  LET d == Drain(b \o SubSeq(p, 1, n))
               post == SubSeq(p, n + 1, Len(p))
           IN /\ d \in Drained /\ post \in Seq(Tokens)
              /\ Waiting(b \o p) = d.results \o Waiting(d.rest \o post)
              /\ Framed(b \o p) => Framed(d.rest \o post) /\ ~HasMessage(d.rest)
<1> DEFINE d == Drain(b \o SubSeq(p, 1, n))
           post == SubSeq(p, n + 1, Len(p))
           pre == SubSeq(p, 1, n)
           c == b \o pre
           w == Waiting(d.rest)
<1>1. Len(p) \in Nat /\ n \in 0 .. Len(p)
  BY LenProperties
<1>2. pre \in Seq(Tokens) /\ post \in Seq(Tokens)
  BY <1>1, PrefixProperties, SuffixProperties
<1>3. p = pre \o post
  <2>1. 1 \in 1 .. Len(p) + 1 /\ n \in 1 - 1 .. Len(p) /\ Len(p) \in n .. Len(p)
    BY <1>1
  <2>2. SubSeq(p, 1, n) \o SubSeq(p, n + 1, Len(p)) = SubSeq(p, 1, Len(p))
    BY <2>1, ConcatAdjacentSubSeq
  <2> QED
    BY <2>2, SubSeqFull
<1>6. d = Drain(c)
  OBVIOUS
<1> HIDE DEF pre, post, d
<1>4. c \in Seq(Tokens)
  BY <1>2, ConcatProperties
<1>5. b \o p = c \o post
  <2>1. (b \o pre) \o post = b \o (pre \o post)
    <3>1. b \in Seq(Tokens) /\ pre \in Seq(Tokens) /\ post \in Seq(Tokens)
      BY <1>2
    <3> QED
      BY ONLY <3>1, TokensAssociative
  <2>2. b \o p = b \o (pre \o post)
    BY <1>3, Zenon
  <2> QED
    BY <2>1, <2>2, Zenon
<1> HIDE DEF c
<1>7. /\ d \in Drained
      /\ Waiting(c) = d.results \o Waiting(d.rest)
      /\ ~(HasMessage(d.rest) /\ Parses(Message(d.rest)))
      /\ \A t \in Seq(Tokens) : Framed(c \o t) => Framed(d.rest \o t)
  BY <1>4, <1>6, DrainProperties
<1>8. d.results \in Seq(Results) /\ d.rest \in Seq(Tokens)
  BY <1>7 DEF Drained
<1>9. w \in Seq(Results)
  BY <1>8, WaitingType
<1> DEFINE v == Waiting(post)
<1>10. v \in Seq(Results)
  BY <1>2, WaitingType
<1>11. Waiting(c \o post) = Waiting(c) \o v /\ Waiting(d.rest \o post) = w \o v
  BY <1>2, <1>4, <1>8, WaitingConcat
<1>12. Waiting(c) = d.results \o w
  BY <1>7
<1> HIDE DEF w, v
<1>13. (d.results \o w) \o v = d.results \o (w \o v)
  <2> DEFINE rs == d.results
  <2>1. rs \in Seq(Results)
    BY <1>8
  <2> HIDE DEF rs
  <2>3. w \in Seq(Results)
    BY <1>9
  <2>4. v \in Seq(Results)
    BY <1>10
  <2>2. (rs \o w) \o v = rs \o (w \o v)
    BY ONLY <2>1, <2>3, <2>4, ResultsAssociative
  <2> QED
    BY <2>2 DEF rs
<1>14. ASSUME Framed(b \o p)
       PROVE  Framed(d.rest \o post) /\ ~HasMessage(d.rest)
  <2>1. Framed(d.rest \o post)
    BY <1>2, <1>5, <1>7, <1>14
  <2>2. HasMessage(d.rest) => Parses(Message(d.rest))
    BY <1>2, <1>8, <2>1, FramedStep
  <2> QED
    BY <1>7, <2>1, <2>2
<1> QED
  BY <1>2, <1>5, <1>7, <1>11, <1>12, <1>13, <1>14 DEF d, post

-----------------------------------------------------------------------------
(* The tree of tests: suites and files.                                    *)

Nodes == Suites \union Files

\* The suites and files of the tree have bounded heights.
LEMMA NodesHaveHeights ==
    /\ Cardinality(Suites) \in Nat
    /\ \E height \in [Nodes -> 0 .. Cardinality(Suites)] :
          \A n \in Nodes : \A s \in SuitesOf[n] : s \in Nodes /\ height[s] < height[n]
<1>1. Cardinality(Suites) \in Nat
  BY TreeAssumption, FS_CardinalityType
<1>2. \A n \in Nodes : SuitesOf[n] \in SUBSET Suites
  BY TreeAssumption DEF Nodes
<1>3. \A n \in Nodes : \A s \in SuitesOf[n] : s \in Nodes
  BY <1>2 DEF Nodes
<1>4. PICK height \in [Nodes -> 0 .. Cardinality(Suites)] :
          \A n \in Nodes : \A s \in SuitesOf[n] : height[s] < height[n]
  BY TreeAssumption DEF Nodes
<1> QED
  BY <1>1, <1>3, <1>4

\* The definition of the functions below a suite or a file is one.
LEMMA FunctionsEquation ==
    /\ Functions \in [Nodes -> SUBSET TestFunctions]
    /\ \A n \in Nodes : Functions[n] = FunctionsOf[n] \union UNION {Functions[s] : s \in SuitesOf[n]}
<1> DEFINE N == Cardinality(Suites)
           D == Nodes
           V == SUBSET TestFunctions
           Step(n, g) == FunctionsOf[n] \union UNION {g[s] : s \in SuitesOf[n]}
           F == [n \in D |-> [g \in [D -> V] |-> Step(n, g)]]
           chosen == CHOOSE f : f = [n \in D |-> Step(n, f)]
<1>1. N \in Nat
  BY NodesHaveHeights
<1>2. PICK height \in [D -> 0 .. N] : \A n \in D : \A s \in SuitesOf[n] : s \in D /\ height[s] < height[n]
  BY NodesHaveHeights
<1>3. Functions = chosen
  BY DEF Functions, Nodes
<1>4. \A n \in D : FunctionsOf[n] \in V
  BY TreeAssumption DEF Nodes
<1> HIDE DEF N, chosen, D, V
<1>5. ASSUME NEW n \in D, NEW g \in [D -> V]
      PROVE  Step(n, g) \in V
  <2>1. \A s \in SuitesOf[n] : g[s] \in V
    BY <1>2
  <2> QED
    BY <1>4, <2>1 DEF V
<1>6. ASSUME NEW n \in D, NEW g, NEW h, \A e \in D : height[e] < height[n] => g[e] = h[e]
      PROVE  Step(n, g) = Step(n, h)
  <2>1. \A s \in SuitesOf[n] : g[s] = h[s]
    BY <1>2, <1>6
  <2>2. {g[s] : s \in SuitesOf[n]} = {h[s] : s \in SuitesOf[n]}
    BY <2>1
  <2> QED
    BY <2>2
<1>7. PICK up \in [D -> V] : \A n \in D : up[n] = F[n][up]
  <2>1. F \in [D -> [[D -> V] -> V]]
    <3> HIDE DEF Step
    <3> QED
      BY <1>5
  <2>2. \A n \in D : \A g, h \in [D -> V] :
           (\A e \in D : height[e] < height[n] => g[e] = h[e]) => F[n][g] = F[n][h]
    <3> HIDE DEF Step
    <3> QED
      BY <1>6
  <2> HIDE DEF F
  <2>3. Recurs(F, D, V, height)
    BY <2>1, <2>2 DEF Recurs
  <2>4. V # {}
    BY DEF V
  <2> QED
    BY <1>1, <2>3, <2>4, Recursion
<1>8. up = [n \in D |-> Step(n, up)]
  <2> HIDE DEF Step
  <2> QED
    BY <1>7
<1>9. chosen = [n \in D |-> Step(n, chosen)]
  <2> HIDE DEF Step
  <2> QED
    BY <1>8 DEF chosen
<1>10. chosen = up
  <2>1. ASSUME NEW n \in D, \A e \in D : height[e] < height[n] => chosen[e] = up[e]
        PROVE  chosen[n] = up[n]
    <3>1. chosen[n] = Step(n, chosen) /\ up[n] = Step(n, up)
      <4> HIDE DEF Step
      <4> QED
        BY <1>8, <1>9
    <3>2. Step(n, chosen) = Step(n, up)
      <4> HIDE DEF Step
      <4> QED
        BY <1>6, <2>1
    <3> QED
      BY <3>1, <3>2
  <2> DEFINE P == {n \in D : chosen[n] = up[n]}
  <2>2. height \in [D -> Nat]
    BY <1>1
  <2>3. \A n \in D : (\A e \in D : height[e] < height[n] => e \in P) => n \in P
    BY <2>1
  <2>4. \A n \in D : n \in P
    <3> HIDE DEF P
    <3> QED
      BY ONLY <2>2, <2>3, RankInduction
  <2>5. chosen = [n \in D |-> chosen[n]] /\ up = [n \in D |-> up[n]]
    <3> HIDE DEF Step
    <3> QED
      BY <1>9
  <2> QED
    BY <2>4, <2>5
<1> QED
  BY <1>3, <1>7, <1>10 DEF D, V

\* A verdict is one.
LEMMA VerdictType ==
    ASSUME NEW parts \in SUBSET Verdicts
    PROVE  Verdict(parts) \in Verdicts
  BY DEF Verdict, Verdicts

\* The definition of what suites and files are said to be is one: each is the verdict of
\* its own functions and suites (testResultsService.ts:66-111).
LEMMA SuitesEquation ==
    ASSUME NEW p \in [TestFunctions -> Verdicts]
    PROVE  /\ UpdateTestSuiteAndFileResults(p) \in [Nodes -> Verdicts]
           /\ \A n \in Nodes : UpdateTestSuiteAndFileResults(p)[n] =
                 Verdict({p[f] : f \in FunctionsOf[n]}
                         \union {UpdateTestSuiteAndFileResults(p)[s] : s \in SuitesOf[n]})
<1> DEFINE N == Cardinality(Suites)
           D == Nodes
           V == Verdicts
           Step(n, g) == Verdict({p[f] : f \in FunctionsOf[n]} \union {g[s] : s \in SuitesOf[n]})
           F == [n \in D |-> [g \in [D -> V] |-> Step(n, g)]]
           chosen == CHOOSE f : f = [n \in D |-> Step(n, f)]
<1>1. N \in Nat
  BY NodesHaveHeights
<1>2. PICK height \in [D -> 0 .. N] : \A n \in D : \A s \in SuitesOf[n] : s \in D /\ height[s] < height[n]
  BY NodesHaveHeights
<1>3. UpdateTestSuiteAndFileResults(p) = chosen
  BY DEF UpdateTestSuiteAndFileResults, Nodes
<1>4. \A n \in D : {p[f] : f \in FunctionsOf[n]} \in SUBSET V
  <2>1. \A n \in D : FunctionsOf[n] \in SUBSET TestFunctions
    BY TreeAssumption DEF Nodes
  <2> QED
    BY <2>1
<1> HIDE DEF N, chosen, D
<1>5. ASSUME NEW n \in D, NEW g \in [D -> V]
      PROVE  Step(n, g) \in V
  <2>1. \A s \in SuitesOf[n] : g[s] \in V
    BY <1>2
  <2>2. {p[f] : f \in FunctionsOf[n]} \union {g[s] : s \in SuitesOf[n]} \in SUBSET V
    BY <1>4, <2>1
  <2> QED
    BY <2>2, VerdictType
<1> HIDE DEF V
<1>6. ASSUME NEW n \in D, NEW g, NEW h, \A e \in D : height[e] < height[n] => g[e] = h[e]
      PROVE  Step(n, g) = Step(n, h)
  <2>1. \A s \in SuitesOf[n] : g[s] = h[s]
    BY <1>2, <1>6
  <2>2. {g[s] : s \in SuitesOf[n]} = {h[s] : s \in SuitesOf[n]}
    BY <2>1
  <2> QED
    BY <2>2
<1>7. PICK up \in [D -> V] : \A n \in D : up[n] = F[n][up]
  <2>1. F \in [D -> [[D -> V] -> V]]
    <3> HIDE DEF Step
    <3> QED
      BY <1>5
  <2>2. \A n \in D : \A g, h \in [D -> V] :
           (\A e \in D : height[e] < height[n] => g[e] = h[e]) => F[n][g] = F[n][h]
    <3> HIDE DEF Step
    <3> QED
      BY <1>6
  <2> HIDE DEF F
  <2>3. Recurs(F, D, V, height)
    BY <2>1, <2>2 DEF Recurs
  <2>4. V # {}
    BY DEF V, Verdicts
  <2> QED
    BY <1>1, <2>3, <2>4, Recursion
<1>8. up = [n \in D |-> Step(n, up)]
  <2> HIDE DEF Step
  <2> QED
    BY <1>7
<1>9. chosen = [n \in D |-> Step(n, chosen)]
  <2> HIDE DEF Step
  <2> QED
    BY <1>8 DEF chosen
<1>10. chosen = up
  <2>1. ASSUME NEW n \in D, \A e \in D : height[e] < height[n] => chosen[e] = up[e]
        PROVE  chosen[n] = up[n]
    <3>1. chosen[n] = Step(n, chosen) /\ up[n] = Step(n, up)
      <4> HIDE DEF Step
      <4> QED
        BY <1>8, <1>9
    <3>2. Step(n, chosen) = Step(n, up)
      <4> HIDE DEF Step
      <4> QED
        BY <1>6, <2>1
    <3> QED
      BY <3>1, <3>2
  <2> DEFINE P == {n \in D : chosen[n] = up[n]}
  <2>2. height \in [D -> Nat]
    BY <1>1
  <2>3. \A n \in D : (\A e \in D : height[e] < height[n] => e \in P) => n \in P
    BY <2>1
  <2>4. \A n \in D : n \in P
    <3> HIDE DEF P
    <3> QED
      BY ONLY <2>2, <2>3, RankInduction
  <2>5. chosen = [n \in D |-> chosen[n]] /\ up = [n \in D |-> up[n]]
    <3> HIDE DEF Step
    <3> QED
      BY <1>9
  <2> QED
    BY <2>4, <2>5
<1>11. \A n \in D : chosen[n] = Step(n, chosen)
  <2> HIDE DEF Step
  <2> QED
    BY <1>9
<1>12. chosen \in [D -> V]
  BY <1>10
<1> DEFINE whole == UpdateTestSuiteAndFileResults(p)
<1>13. whole = chosen
  BY <1>3
<1> HIDE DEF whole
<1>14. whole \in [D -> V] /\ \A n \in D : whole[n] = Step(n, whole)
  <2> HIDE DEF Step
  <2> QED
    BY <1>11, <1>12, <1>13
<1> QED
  BY <1>14 DEF D, V, whole

\* What a suite or a file is said to be is what its functions are.
LEMMA SuitesTell ==
    ASSUME NEW p \in [TestFunctions -> Verdicts],
           NEW n \in Nodes
    PROVE  LET v == UpdateTestSuiteAndFileResults(p)[n]
           IN /\ v = "none" <=> \E f \in Functions[n] : p[f] = "none"
              /\ v = "yes" <=> \A f \in Functions[n] : p[f] = "yes"
<1> DEFINE N == Cardinality(Suites)
           up == UpdateTestSuiteAndFileResults(p)
           None_(m) == up[m] = "none" <=> \E f \in Functions[m] : p[f] = "none"
           Yes(m) == up[m] = "yes" <=> \A f \in Functions[m] : p[f] = "yes"
           P == {m \in Nodes : None_(m) /\ Yes(m)}
<1>1. N \in Nat
  BY NodesHaveHeights
<1>2. PICK height \in [Nodes -> 0 .. N] :
         \A m \in Nodes : \A s \in SuitesOf[m] : s \in Nodes /\ height[s] < height[m]
  BY NodesHaveHeights
<1>3. up \in [Nodes -> Verdicts] /\ \A m \in Nodes : up[m] =
         Verdict({p[f] : f \in FunctionsOf[m]} \union {up[s] : s \in SuitesOf[m]})
  BY SuitesEquation
<1>4. \A m \in Nodes : Functions[m] = FunctionsOf[m] \union UNION {Functions[s] : s \in SuitesOf[m]}
  BY FunctionsEquation
<1>5. \A m \in Nodes : FunctionsOf[m] \in SUBSET TestFunctions
  BY TreeAssumption DEF Nodes
<1> HIDE DEF N, up
<1>6. ASSUME NEW m \in Nodes, \A e \in Nodes : height[e] < height[m] => e \in P
      PROVE  m \in P
  <2>1. \A s \in SuitesOf[m] : s \in Nodes /\ None_(s) /\ Yes(s)
    BY <1>2, <1>6
  <2> DEFINE parts == {p[f] : f \in FunctionsOf[m]} \union {up[s] : s \in SuitesOf[m]}
  <2>2. up[m] = Verdict(parts)
    BY <1>3
  <2>3. \A x : x \in parts <=> (\E f \in FunctionsOf[m] : x = p[f]) \/ (\E s \in SuitesOf[m] : x = up[s])
    OBVIOUS
  <2>4. \A f : f \in Functions[m] <=> f \in FunctionsOf[m] \/ \E s \in SuitesOf[m] : f \in Functions[s]
    BY <1>4
  <2>5. parts \in SUBSET Verdicts
    BY <1>2, <1>3, <1>5
  <2> HIDE DEF parts
  <2>6. "none" \in parts <=> \E f \in Functions[m] : p[f] = "none"
    BY <2>1, <2>3, <2>4
  <2>7. (\A x \in parts : x = "yes") <=> \A f \in Functions[m] : p[f] = "yes"
    <3>1. ASSUME \A x \in parts : x = "yes", NEW f \in Functions[m]
          PROVE  p[f] = "yes"
      <4>1. CASE f \in FunctionsOf[m]
        BY <2>3, <3>1, <4>1
      <4>2. ASSUME NEW s \in SuitesOf[m], f \in Functions[s]
            PROVE  p[f] = "yes"
        <5>1. up[s] = "yes"
          BY <2>3, <3>1
        <5> QED
          BY <2>1, <4>2, <5>1
      <4> QED
        BY <2>4, <4>1, <4>2
    <3>2. ASSUME \A f \in Functions[m] : p[f] = "yes", NEW x \in parts
          PROVE  x = "yes"
      <4>1. ASSUME NEW f \in FunctionsOf[m], x = p[f]
            PROVE  x = "yes"
        BY <2>4, <3>2, <4>1
      <4>2. ASSUME NEW s \in SuitesOf[m], x = up[s]
            PROVE  x = "yes"
        <5>1. \A f \in Functions[s] : p[f] = "yes"
          BY <2>4, <3>2
        <5> QED
          BY <2>1, <4>2, <5>1
      <4> QED
        BY <2>3, <4>1, <4>2
    <3> QED
      BY <3>1, <3>2
  <2>8. up[m] = "none" <=> "none" \in parts
    BY <2>2 DEF Verdict
  <2>9. up[m] = "yes" <=> \A x \in parts : x = "yes"
    BY <2>2, <2>5 DEF Verdict, Verdicts
  <2>10. None_(m)
    BY <2>6, <2>8
  <2>11. Yes(m)
    BY <2>7, <2>9
  <2> HIDE DEF None_, Yes
  <2> QED
    BY <2>10, <2>11
<1>7. \A m \in Nodes : m \in P
  <2>1. height \in [Nodes -> Nat]
    BY <1>1
  <2>2. \A m \in Nodes : (\A e \in Nodes : height[e] < height[m] => e \in P) => m \in P
    BY <1>6
  <2> HIDE DEF P
  <2> QED
    BY ONLY <2>1, <2>2, RankInduction
<1>8. n \in P
  BY <1>7
<1> QED
  BY <1>8 DEF up

-----------------------------------------------------------------------------
(* The tree of tests: folders.                                             *)

Sums == [passed : BOOLEAN, ran : BOOLEAN]

\* A turn of the loop over the parts of a folder.
AddPart(v, sum) ==
    IF sum.passed /\ v # "none" THEN [sum EXCEPT !.passed = v = "yes"] ELSE [sum EXCEPT !.ran = FALSE]

\* A turn of the loop keeps the types.
LEMMA AddPartType ==
    ASSUME NEW sum \in Sums, NEW v
    PROVE  AddPart(v, sum) \in Sums
  BY DEF AddPart, Sums

\* The loop goes from the first to the last.
LEMMA RollUpEquation ==
    ASSUME NEW V, NEW vs \in Seq(V)
    PROVE  \E up \in [0 .. Len(vs) -> Sums] :
              /\ RollUp(vs) = up[Len(vs)]
              /\ up[0] = [passed |-> TRUE, ran |-> TRUE]
              /\ \A k \in 0 .. Len(vs) - 1 : up[k + 1] = AddPart(vs[k + 1], up[k])
<1> DEFINE n == Len(vs)
           I == 1 .. n
           D == SUBSET I
           base == [passed |-> TRUE, ran |-> TRUE]
           Step(s, g) == IF s = {} THEN base ELSE AddPart(vs[Max(s)], g[s \ {Max(s)}])
           F == [s \in D |-> [g \in [D -> Sums] |-> Step(s, g)]]
           rank == [s \in D |-> Cardinality(s)]
           chosen == CHOOSE f : f = [s \in D |-> Step(s, f)]
<1>1. n \in Nat /\ DOMAIN vs = I
  BY LenProperties
<1>2. RollUp(vs) = chosen[I]
  BY <1>1 DEF RollUp, FoldLeft, MapThenFoldSet, AddPart
<1>3. base \in Sums
  BY DEF Sums
<1> HIDE DEF n, chosen, base
<1>4. ASSUME NEW s \in D, s # {}
      PROVE  s \ {Max(s)} \in D /\ Cardinality(s \ {Max(s)}) < Cardinality(s)
  <2>1. Max(s) \in s
    BY <1>1, <1>4, MaxProperties
  <2>2. IsFiniteSet(I)
    BY <1>1, FS_Interval
  <2>3. s \in SUBSET I
    OBVIOUS
  <2> HIDE DEF I
  <2>4. IsFiniteSet(s)
    BY <2>2, <2>3, FS_Subset
  <2>5. Cardinality(s \ {Max(s)}) = Cardinality(s) - 1
    BY <2>1, <2>4, FS_RemoveElement
  <2>6. Cardinality(s) \in Nat
    BY <2>4, FS_CardinalityType
  <2> QED
    BY <2>3, <2>5, <2>6
<1>5. \A s \in D : Cardinality(s) \in 0 .. n
  <2>1. IsFiniteSet(I) /\ Cardinality(I) = n
    BY <1>1, FS_Interval
  <2>2. ASSUME NEW s \in D
        PROVE  Cardinality(s) \in 0 .. n
    <3> s \in SUBSET I
      OBVIOUS
    <3> HIDE DEF D, I
    <3>1. IsFiniteSet(s) /\ Cardinality(s) <= n
      BY <2>1, FS_Subset
    <3>2. Cardinality(s) \in Nat
      BY <3>1, FS_CardinalityType
    <3> QED
      BY <1>1, <3>1, <3>2
  <2> QED
    BY <2>2
<1>6. rank \in [D -> 0 .. n] /\ rank \in [D -> Nat]
  BY <1>1, <1>5
<1>7. ASSUME NEW s \in D, s # {}
      PROVE  s \ {Max(s)} \in D /\ rank[s \ {Max(s)}] < rank[s]
  BY <1>4, <1>7
<1> HIDE DEF D, rank
<1>8. ASSUME NEW s \in D, NEW g \in [D -> Sums]
      PROVE  Step(s, g) \in Sums
  <2>1. CASE s = {}
    BY <1>3, <2>1
  <2>2. CASE s # {}
    <3>1. g[s \ {Max(s)}] \in Sums
      BY <1>7, <2>2
    <3> QED
      BY <2>2, <3>1, AddPartType
  <2> QED
    BY <2>1, <2>2
<1>9. ASSUME NEW s \in D, NEW g, NEW h, \A e \in D : rank[e] < rank[s] => g[e] = h[e]
      PROVE  Step(s, g) = Step(s, h)
  <2>1. CASE s = {}
    BY <2>1
  <2>2. CASE s # {}
    <3>1. g[s \ {Max(s)}] = h[s \ {Max(s)}]
      BY <1>7, <1>9, <2>2
    <3> QED
      BY <3>1
  <2> QED
    BY <2>1, <2>2
<1>10. PICK up \in [D -> Sums] : \A s \in D : up[s] = F[s][up]
  <2>1. F \in [D -> [[D -> Sums] -> Sums]]
    <3> HIDE DEF Step
    <3> QED
      BY <1>8
  <2>2. \A s \in D : \A g, h \in [D -> Sums] :
           (\A e \in D : rank[e] < rank[s] => g[e] = h[e]) => F[s][g] = F[s][h]
    <3> HIDE DEF Step
    <3> QED
      BY <1>9
  <2> HIDE DEF F
  <2>3. Recurs(F, D, Sums, rank)
    BY <2>1, <2>2 DEF Recurs
  <2>4. Sums # {}
    BY <1>3
  <2>5. n \in Nat /\ rank \in [D -> 0 .. n]
    BY <1>1, <1>6
  <2> QED
    BY ONLY <2>3, <2>4, <2>5, Recursion
<1>11. up = [s \in D |-> Step(s, up)]
  <2> HIDE DEF Step
  <2> QED
    BY <1>10
<1>12. chosen = [s \in D |-> Step(s, chosen)]
  <2> HIDE DEF Step
  <2> QED
    BY <1>11 DEF chosen
<1>13. \A s \in D : chosen[s] = up[s]
  <2>1. ASSUME NEW s \in D, \A e \in D : rank[e] < rank[s] => chosen[e] = up[e]
        PROVE  chosen[s] = up[s]
    <3>1. chosen[s] = Step(s, chosen) /\ up[s] = Step(s, up)
      <4> HIDE DEF Step
      <4> QED
        BY <1>11, <1>12
    <3>2. Step(s, chosen) = Step(s, up)
      <4> HIDE DEF Step
      <4> QED
        BY <1>9, <2>1
    <3> QED
      BY <3>1, <3>2
  <2> DEFINE P == {s \in D : chosen[s] = up[s]}
  <2>2. rank \in [D -> Nat]
    BY <1>6
  <2>3. \A s \in D : (\A e \in D : rank[e] < rank[s] => e \in P) => s \in P
    BY <2>1
  <2>4. \A s \in D : s \in P
    <3> HIDE DEF P
    <3> QED
      BY ONLY <2>2, <2>3, RankInduction
  <2> QED
    BY <2>4
<1>14. \A s \in D : up[s] = Step(s, up)
  <2> HIDE DEF Step
  <2> QED
    BY <1>11
<1>15. \A k \in 0 .. n : 1 .. k \in D
  BY <1>1 DEF D
<1> DEFINE sum == [k \in 0 .. n |-> up[1 .. k]]
<1>16. sum \in [0 .. n -> Sums]
  BY <1>15
<1>17. RollUp(vs) = sum[n]
  <2>1. n \in 0 .. n /\ I \in D
    BY <1>1, <1>15
  <2> QED
    BY <1>2, <1>13, <2>1
<1>18. sum[0] = base
  <2>1. 0 \in 0 .. n /\ 1 .. 0 = {}
    BY <1>1
  <2>2. {} \in D
    BY <1>15, <2>1
  <2>3. up[{}] = Step({}, up)
    <3> HIDE DEF Step
    <3> QED
      BY <1>14, <2>2
  <2> QED
    BY <2>1, <2>3
<1>19. ASSUME NEW k \in 0 .. n - 1
       PROVE  sum[k + 1] = AddPart(vs[k + 1], sum[k])
  <2> DEFINE s == 1 .. k + 1
  <2>1. /\ k \in 0 .. n /\ k + 1 \in 0 .. n /\ k \in Nat /\ k + 1 \in s /\ s \ {k + 1} = 1 .. k
        /\ \A y \in s : k + 1 >= y
    BY <1>1
  <2>2. Max(s) = k + 1
    <3>1. s \in SUBSET (1 .. k + 1) /\ s # {} /\ k + 1 \in Nat
      BY <2>1
    <3> HIDE DEF s
    <3>2. Max(s) \in s /\ \A y \in s : Max(s) >= y
      BY <3>1, MaxProperties
    <3>3. Max(s) \in 1 .. k + 1 /\ Max(s) >= k + 1
      BY <2>1, <3>1, <3>2
    <3> QED
      BY <2>1, <3>3
  <2>3. s \in D
    BY <1>15, <2>1
  <2>4. up[s] = Step(s, up)
    <3> HIDE DEF Step, s
    <3> QED
      BY <1>14, <2>3
  <2>5. Step(s, up) = AddPart(vs[Max(s)], up[s \ {Max(s)}])
    <3>1. s # {}
      BY <2>1
    <3> HIDE DEF s
    <3> QED
      BY <3>1
  <2>6. sum[k + 1] = up[s] /\ sum[k] = up[1 .. k]
    BY <2>1
  <2> HIDE DEF sum, Step, s
  <2> QED
    BY <2>1, <2>2, <2>4, <2>5, <2>6
<1> HIDE DEF sum
<1> QED
  BY <1>16, <1>17, <1>18, <1>19 DEF n, base

\* A folder whose parts all passed is said to have passed, and no other; and one that is
\* said to have failed has a part that did.
LEMMA RollUpTells ==
    ASSUME NEW vs \in Seq(Verdicts)
    PROVE  /\ RollUp(vs) \in Sums
           /\ RollUp(vs).ran /\ RollUp(vs).passed <=> \A i \in 1 .. Len(vs) : vs[i] = "yes"
           /\ ~RollUp(vs).passed => \E i \in 1 .. Len(vs) : vs[i] = "no"
<1> DEFINE n == Len(vs)
<1>1. PICK up \in [0 .. n -> Sums] :
              /\ RollUp(vs) = up[n]
              /\ up[0] = [passed |-> TRUE, ran |-> TRUE]
              /\ \A k \in 0 .. n - 1 : up[k + 1] = AddPart(vs[k + 1], up[k])
  BY RollUpEquation
<1>2. n \in Nat /\ \A i \in 1 .. n : vs[i] \in Verdicts
  BY LenProperties, ElementOfSeq
<1> HIDE DEF n
<1> DEFINE Good(k) == /\ up[k].ran /\ up[k].passed <=> \A i \in 1 .. k : vs[i] = "yes"
                      /\ ~up[k].passed => \E i \in 1 .. k : vs[i] = "no"
           P == {k \in 0 .. n : Good(k)}
<1>3. 0 \in P
  <2>1. up[0].ran /\ up[0].passed /\ 1 .. 0 = {}
    BY <1>1
  <2>2. Good(0)
    BY <2>1
  <2> HIDE DEF Good
  <2> QED
    BY <1>2, <2>2
<1>4. ASSUME NEW k \in 0 .. n - 1, k \in P
      PROVE  k + 1 \in P
  <2> DEFINE v == vs[k + 1]
             sum == up[k]
  <2>1. /\ k \in 0 .. n /\ k + 1 \in 0 .. n /\ k + 1 \in 1 .. k + 1 /\ v \in Verdicts
        /\ \A i \in 1 .. k + 1 : i \in 1 .. k \/ i = k + 1
        /\ \A i \in 1 .. k : i \in 1 .. k + 1
    BY <1>2
  <2>2. up[k + 1] = AddPart(v, sum) /\ sum \in Sums
    BY <1>1, <2>1
  <2>3. Good(k)
    <3> HIDE DEF Good
    <3> QED
      BY <1>4
  <2>4. /\ sum.ran /\ sum.passed <=> \A i \in 1 .. k : vs[i] = "yes"
        /\ ~sum.passed => \E i \in 1 .. k : vs[i] = "no"
    BY <2>3
  <2>5. (\A i \in 1 .. k + 1 : vs[i] = "yes") <=> (\A i \in 1 .. k : vs[i] = "yes") /\ v = "yes"
    BY <2>1
  <2> HIDE DEF sum
  <2>6. CASE sum.passed /\ v # "none"
    <3>1. up[k + 1] = [sum EXCEPT !.passed = v = "yes"]
      BY <2>2, <2>6 DEF AddPart
    <3>2. up[k + 1].ran = sum.ran /\ up[k + 1].passed = (v = "yes")
      BY <2>2, <3>1 DEF Sums
    <3>3. up[k + 1].ran /\ up[k + 1].passed <=> \A i \in 1 .. k + 1 : vs[i] = "yes"
      BY <2>4, <2>5, <2>6, <3>2
    <3>4. ASSUME ~up[k + 1].passed
          PROVE  \E i \in 1 .. k + 1 : vs[i] = "no"
      <4>1. v = "no"
        BY <2>1, <2>6, <3>2, <3>4 DEF Verdicts
      <4> QED
        BY <2>1, <4>1
    <3>5. Good(k + 1)
      BY <3>3, <3>4
    <3> HIDE DEF Good
    <3> QED
      BY <2>1, <3>5
  <2>7. CASE ~(sum.passed /\ v # "none")
    <3>1. up[k + 1] = [sum EXCEPT !.ran = FALSE]
      BY <2>2, <2>7 DEF AddPart
    <3>2. ~up[k + 1].ran /\ up[k + 1].passed = sum.passed
      BY <2>2, <3>1 DEF Sums
    <3>3. ~(\A i \in 1 .. k + 1 : vs[i] = "yes")
      BY <2>4, <2>5, <2>7
    <3>4. ASSUME ~up[k + 1].passed
          PROVE  \E i \in 1 .. k + 1 : vs[i] = "no"
      BY <2>1, <2>4, <3>2, <3>4
    <3>5. Good(k + 1)
      BY <3>2, <3>3, <3>4
    <3> HIDE DEF Good
    <3> QED
      BY <2>1, <3>5
  <2> QED
    BY <2>6, <2>7
<1>5. \A k \in 0 .. n : k \in P
  <2>1. \A k \in 0 .. n - 1 : k \in P => k + 1 \in P
    BY <1>4
  <2>2. 0 \in Nat
    OBVIOUS
  <2> HIDE DEF P
  <2> QED
    BY ONLY <1>2, <1>3, <2>1, <2>2, IntervalInduction
<1>6. Good(n) /\ up[n] \in Sums
  <2>1. n \in 0 .. n
    BY <1>2
  <2> QED
    BY <1>5, <2>1
<1> QED
  BY <1>1, <1>6 DEF n

\* The folders of the tree have bounded heights.
LEMMA FoldersHaveHeights ==
    /\ Cardinality(Folders) \in Nat
    /\ \E height \in [Folders -> 0 .. Cardinality(Folders)] :
          \A d \in Folders : \A e \in ToSet(FoldersOf[d]) : e \in Folders /\ height[e] < height[d]
<1>1. Cardinality(Folders) \in Nat
  BY TreeAssumption, FS_CardinalityType
<1>2. ASSUME NEW d \in Folders, NEW e \in ToSet(FoldersOf[d])
      PROVE  e \in Folders
  <2>1. FoldersOf[d] \in Seq(Folders)
    BY TreeAssumption
  <2>2. PICK i \in DOMAIN FoldersOf[d] : e = FoldersOf[d][i]
    BY DEF ToSet
  <2> DEFINE s == FoldersOf[d]
  <2>3. s \in Seq(Folders) /\ i \in DOMAIN s
    BY <2>1, <2>2
  <2> HIDE DEF s
  <2>4. i \in 1 .. Len(s)
    BY <2>3, LenProperties
  <2>5. s[i] \in Folders
    BY <2>3, <2>4, ElementOfSeq
  <2> QED
    BY <2>2, <2>5 DEF s
<1>3. PICK height \in [Folders -> 0 .. Cardinality(Folders)] :
          \A d \in Folders : \A e \in ToSet(FoldersOf[d]) : height[e] < height[d]
  BY TreeAssumption
<1> QED
  BY <1>1, <1>2, <1>3

\* The files and folders of a folder.
LEMMA FilesOfFolder ==
    ASSUME NEW d \in Folders
    PROVE  /\ ToSet(FilesOf[d]) \in SUBSET Files
           /\ ToSet(FoldersOf[d]) \in SUBSET Folders
           /\ FilesOf[d] \in Seq(Files) /\ FoldersOf[d] \in Seq(Folders)
<1>1. FilesOf[d] \in Seq(Files) /\ FoldersOf[d] \in Seq(Folders)
  BY TreeAssumption
<1> DEFINE s == FilesOf[d]
<1>2. s \in Seq(Files)
  BY <1>1
<1> HIDE DEF s
<1>3. DOMAIN s = 1 .. Len(s) /\ \A i \in 1 .. Len(s) : s[i] \in Files
  BY <1>2, LenProperties, ElementOfSeq
<1>4. ToSet(s) \in SUBSET Files
  BY <1>3 DEF ToSet
<1>5. ToSet(FoldersOf[d]) \in SUBSET Folders
  BY FoldersHaveHeights
<1> QED
  BY <1>1, <1>4, <1>5 DEF s

\* The definition of the files below a folder is one.
LEMMA FilesBelowEquation ==
    /\ FilesBelow \in [Folders -> SUBSET Files]
    /\ \A d \in Folders :
          FilesBelow[d] = ToSet(FilesOf[d]) \union UNION {FilesBelow[e] : e \in ToSet(FoldersOf[d])}
<1> DEFINE N == Cardinality(Folders)
           D == Folders
           V == SUBSET Files
           Step(d, g) == ToSet(FilesOf[d]) \union UNION {g[e] : e \in ToSet(FoldersOf[d])}
           F == [d \in D |-> [g \in [D -> V] |-> Step(d, g)]]
           chosen == CHOOSE f : f = [d \in D |-> Step(d, f)]
<1>1. N \in Nat
  BY FoldersHaveHeights
<1>2. PICK height \in [D -> 0 .. N] :
         \A d \in D : \A e \in ToSet(FoldersOf[d]) : e \in D /\ height[e] < height[d]
  BY FoldersHaveHeights
<1>3. FilesBelow = chosen
  BY DEF FilesBelow
<1>4. \A d \in D : ToSet(FilesOf[d]) \in V
  BY FilesOfFolder
<1> HIDE DEF N, chosen, D, V
<1>5. ASSUME NEW n \in D, NEW g \in [D -> V]
      PROVE  Step(n, g) \in V
  <2>1. \A s \in ToSet(FoldersOf[n]) : g[s] \in V
    BY <1>2
  <2> QED
    BY <1>4, <2>1 DEF V
<1>6. ASSUME NEW n \in D, NEW g, NEW h, \A e \in D : height[e] < height[n] => g[e] = h[e]
      PROVE  Step(n, g) = Step(n, h)
  <2>1. \A s \in ToSet(FoldersOf[n]) : g[s] = h[s]
    BY <1>2, <1>6
  <2>2. {g[s] : s \in ToSet(FoldersOf[n])} = {h[s] : s \in ToSet(FoldersOf[n])}
    BY <2>1
  <2> QED
    BY <2>2
<1>7. PICK up \in [D -> V] : \A n \in D : up[n] = F[n][up]
  <2>1. F \in [D -> [[D -> V] -> V]]
    <3> HIDE DEF Step
    <3> QED
      BY <1>5
  <2>2. \A n \in D : \A g, h \in [D -> V] :
           (\A e \in D : height[e] < height[n] => g[e] = h[e]) => F[n][g] = F[n][h]
    <3> HIDE DEF Step
    <3> QED
      BY <1>6
  <2> HIDE DEF F
  <2>3. Recurs(F, D, V, height)
    BY <2>1, <2>2 DEF Recurs
  <2>4. V # {}
    BY DEF V
  <2> QED
    BY <1>1, <2>3, <2>4, Recursion
<1>8. up = [n \in D |-> Step(n, up)]
  <2> HIDE DEF Step
  <2> QED
    BY <1>7
<1>9. chosen = [n \in D |-> Step(n, chosen)]
  <2> HIDE DEF Step
  <2> QED
    BY <1>8 DEF chosen
<1>10. chosen = up
  <2>1. ASSUME NEW n \in D, \A e \in D : height[e] < height[n] => chosen[e] = up[e]
        PROVE  chosen[n] = up[n]
    <3>1. chosen[n] = Step(n, chosen) /\ up[n] = Step(n, up)
      <4> HIDE DEF Step
      <4> QED
        BY <1>8, <1>9
    <3>2. Step(n, chosen) = Step(n, up)
      <4> HIDE DEF Step
      <4> QED
        BY <1>6, <2>1
    <3> QED
      BY <3>1, <3>2
  <2> DEFINE P == {n \in D : chosen[n] = up[n]}
  <2>2. height \in [D -> Nat]
    BY <1>1
  <2>3. \A n \in D : (\A e \in D : height[e] < height[n] => e \in P) => n \in P
    BY <2>1
  <2>4. \A n \in D : n \in P
    <3> HIDE DEF P
    <3> QED
      BY ONLY <2>2, <2>3, RankInduction
  <2>5. chosen = [n \in D |-> chosen[n]] /\ up = [n \in D |-> up[n]]
    <3> HIDE DEF Step
    <3> QED
      BY <1>9
  <2> QED
    BY <2>4, <2>5
<1> QED
  BY <1>3, <1>7, <1>10 DEF D, V

\* The verdict of a folder, from those of its files and folders.
FolderVerdict(fs, ds) ==
    IF ~(fs.ran /\ ds.ran) THEN "none" ELSE IF fs.passed /\ ds.passed THEN "yes" ELSE "no"

PartsOf(g, s) == RollUp([i \in DOMAIN s |-> g[s[i]]])

\* The loop over the parts of a folder tells of them.
LEMMA PartsProperties ==
    ASSUME NEW D, NEW g \in [D -> Verdicts], NEW s \in Seq(D)
    PROVE  /\ PartsOf(g, s) \in Sums
           /\ PartsOf(g, s).ran /\ PartsOf(g, s).passed <=> \A e \in ToSet(s) : g[e] = "yes"
           /\ ~PartsOf(g, s).passed => \E e \in ToSet(s) : g[e] = "no"
<1> DEFINE vs == [i \in DOMAIN s |-> g[s[i]]]
<1>1. Len(s) \in Nat /\ DOMAIN s = 1 .. Len(s) /\ \A i \in 1 .. Len(s) : s[i] \in D
  BY LenProperties, ElementOfSeq
<1>2. vs \in [1 .. Len(s) -> Verdicts]
  BY <1>1
<1>3. \A i \in 1 .. Len(s) : vs[i] = g[s[i]]
  BY <1>1
<1> HIDE DEF vs
<1>4. vs \in Seq(Verdicts)
  BY <1>1, <1>2, SeqDef
<1>5. Len(vs) = Len(s)
  <2>1. DOMAIN vs = 1 .. Len(s) /\ DOMAIN vs = 1 .. Len(vs) /\ Len(vs) \in Nat
    BY <1>2, <1>4, LenProperties
  <2> QED
    BY <1>1, <2>1
<1>6. \A e : e \in ToSet(s) <=> \E i \in 1 .. Len(s) : e = s[i]
  BY <1>1 DEF ToSet
<1>7. /\ RollUp(vs) \in Sums
      /\ RollUp(vs).ran /\ RollUp(vs).passed <=> \A i \in 1 .. Len(s) : vs[i] = "yes"
      /\ ~RollUp(vs).passed => \E i \in 1 .. Len(s) : vs[i] = "no"
  BY <1>4, <1>5, RollUpTells
<1>8. (\A i \in 1 .. Len(s) : vs[i] = "yes") <=> \A e \in ToSet(s) : g[e] = "yes"
  BY <1>3, <1>6
<1>9. (\E i \in 1 .. Len(s) : vs[i] = "no") => \E e \in ToSet(s) : g[e] = "no"
  BY <1>3, <1>6
<1> QED
  BY <1>7, <1>8, <1>9 DEF PartsOf, vs

\* It depends on nothing but them.
LEMMA SamePartsOf ==
    ASSUME NEW g, NEW h, NEW s, \A e \in ToSet(s) : g[e] = h[e]
    PROVE  PartsOf(g, s) = PartsOf(h, s)
<1>1. \A i \in DOMAIN s : g[s[i]] = h[s[i]]
  BY DEF ToSet
<1>2. [i \in DOMAIN s |-> g[s[i]]] = [i \in DOMAIN s |-> h[s[i]]]
  BY <1>1
<1> QED
  BY <1>2 DEF PartsOf

\* The definition of what folders are said to be is one: each is the verdict of its own
\* files and folders (testResultsService.ts:24-65).
LEMMA FoldersEquation ==
    ASSUME NEW files
    PROVE  /\ UpdateTestFolderResults(files) \in [Folders -> Verdicts]
           /\ \A d \in Folders : UpdateTestFolderResults(files)[d] =
                 FolderVerdict(PartsOf(files, FilesOf[d]),
                               PartsOf(UpdateTestFolderResults(files), FoldersOf[d]))
<1> DEFINE N == Cardinality(Folders)
           D == Folders
           V == Verdicts
           Step(d, g) == FolderVerdict(PartsOf(files, FilesOf[d]), PartsOf(g, FoldersOf[d]))
           F == [d \in D |-> [g \in [D -> V] |-> Step(d, g)]]
           chosen == CHOOSE f : f = [d \in D |-> Step(d, f)]
<1>1. N \in Nat
  BY FoldersHaveHeights
<1>2. PICK height \in [D -> 0 .. N] :
         \A d \in D : \A e \in ToSet(FoldersOf[d]) : e \in D /\ height[e] < height[d]
  BY FoldersHaveHeights
<1>3. UpdateTestFolderResults(files) = chosen
  BY DEF UpdateTestFolderResults, FolderVerdict, PartsOf
<1> HIDE DEF N, chosen, D
<1>5. ASSUME NEW n \in D, NEW g \in [D -> V]
      PROVE  Step(n, g) \in V
  BY DEF FolderVerdict, Verdicts
<1> HIDE DEF V
<1>6. ASSUME NEW n \in D, NEW g, NEW h, \A e \in D : height[e] < height[n] => g[e] = h[e]
      PROVE  Step(n, g) = Step(n, h)
  <2>1. \A s \in ToSet(FoldersOf[n]) : g[s] = h[s]
    BY <1>2, <1>6
  <2>2. PartsOf(g, FoldersOf[n]) = PartsOf(h, FoldersOf[n])
    BY <2>1, SamePartsOf
  <2> QED
    BY <2>2
<1>7. PICK up \in [D -> V] : \A n \in D : up[n] = F[n][up]
  <2>1. F \in [D -> [[D -> V] -> V]]
    <3> HIDE DEF Step
    <3> QED
      BY <1>5
  <2>2. \A n \in D : \A g, h \in [D -> V] :
           (\A e \in D : height[e] < height[n] => g[e] = h[e]) => F[n][g] = F[n][h]
    <3> HIDE DEF Step
    <3> QED
      BY <1>6
  <2> HIDE DEF F
  <2>3. Recurs(F, D, V, height)
    BY <2>1, <2>2 DEF Recurs
  <2>4. V # {}
    BY DEF V, Verdicts
  <2> QED
    BY <1>1, <2>3, <2>4, Recursion
<1>8. up = [n \in D |-> Step(n, up)]
  <2> HIDE DEF Step
  <2> QED
    BY <1>7
<1>9. chosen = [n \in D |-> Step(n, chosen)]
  <2> HIDE DEF Step
  <2> QED
    BY <1>8 DEF chosen
<1>10. chosen = up
  <2>1. ASSUME NEW n \in D, \A e \in D : height[e] < height[n] => chosen[e] = up[e]
        PROVE  chosen[n] = up[n]
    <3>1. chosen[n] = Step(n, chosen) /\ up[n] = Step(n, up)
      <4> HIDE DEF Step
      <4> QED
        BY <1>8, <1>9
    <3>2. Step(n, chosen) = Step(n, up)
      <4> HIDE DEF Step
      <4> QED
        BY <1>6, <2>1
    <3> QED
      BY <3>1, <3>2
  <2> DEFINE P == {n \in D : chosen[n] = up[n]}
  <2>2. height \in [D -> Nat]
    BY <1>1
  <2>3. \A n \in D : (\A e \in D : height[e] < height[n] => e \in P) => n \in P
    BY <2>1
  <2>4. \A n \in D : n \in P
    <3> HIDE DEF P
    <3> QED
      BY ONLY <2>2, <2>3, RankInduction
  <2>5. chosen = [n \in D |-> chosen[n]] /\ up = [n \in D |-> up[n]]
    <3> HIDE DEF Step
    <3> QED
      BY <1>9
  <2> QED
    BY <2>4, <2>5
<1>11. \A n \in D : chosen[n] = Step(n, chosen)
  <2> HIDE DEF Step
  <2> QED
    BY <1>9
<1>12. chosen \in [D -> V]
  BY <1>10
<1> DEFINE whole == UpdateTestFolderResults(files)
<1>13. whole = chosen
  BY <1>3
<1> HIDE DEF whole
<1>14. whole \in [D -> V] /\ \A n \in D : whole[n] = Step(n, whole)
  <2> HIDE DEF Step
  <2> QED
    BY <1>11, <1>12, <1>13
<1> QED
  BY <1>14 DEF D, V, whole

\* What a folder is said to be is what the files below it are, as far as it goes.
LEMMA FoldersTell ==
    ASSUME NEW files \in [Nodes -> Verdicts], NEW d \in Folders
    PROVE  LET v == UpdateTestFolderResults(files)[d]
           IN /\ v = "yes" <=> \A f \in FilesBelow[d] : files[f] = "yes"
              /\ v = "no" => \E f \in FilesBelow[d] : files[f] = "no"
<1> DEFINE N == Cardinality(Folders)
           up == UpdateTestFolderResults(files)
           Yes(c) == up[c] = "yes" <=> \A f \in FilesBelow[c] : files[f] = "yes"
           No(c) == up[c] = "no" => \E f \in FilesBelow[c] : files[f] = "no"
           P == {c \in Folders : Yes(c) /\ No(c)}
<1>1. N \in Nat
  BY FoldersHaveHeights
<1>2. PICK height \in [Folders -> 0 .. N] :
         \A c \in Folders : \A e \in ToSet(FoldersOf[c]) : e \in Folders /\ height[e] < height[c]
  BY FoldersHaveHeights
<1>3. /\ up \in [Folders -> Verdicts]
      /\ \A c \in Folders : up[c] = FolderVerdict(PartsOf(files, FilesOf[c]), PartsOf(up, FoldersOf[c]))
  BY FoldersEquation
<1>4. \A c \in Folders :
         FilesBelow[c] = ToSet(FilesOf[c]) \union UNION {FilesBelow[e] : e \in ToSet(FoldersOf[c])}
  BY FilesBelowEquation
<1> HIDE DEF N, up
<1>5. ASSUME NEW c \in Folders, \A e \in Folders : height[e] < height[c] => e \in P
      PROVE  c \in P
  <2> DEFINE fs == PartsOf(files, FilesOf[c])
             ds == PartsOf(up, FoldersOf[c])
  <2>1. \A e \in ToSet(FoldersOf[c]) : Yes(e) /\ No(e)
    BY <1>2, <1>5
  <2>2. up[c] = FolderVerdict(fs, ds)
    BY <1>3
  <2>3. \A f : f \in FilesBelow[c] <=>
           f \in ToSet(FilesOf[c]) \/ \E e \in ToSet(FoldersOf[c]) : f \in FilesBelow[e]
    BY <1>4
  <2>4. /\ fs \in Sums
        /\ fs.ran /\ fs.passed <=> \A e \in ToSet(FilesOf[c]) : files[e] = "yes"
        /\ ~fs.passed => \E e \in ToSet(FilesOf[c]) : files[e] = "no"
    <3>1. FilesOf[c] \in Seq(Nodes)
      <4>1. FilesOf[c] \in Seq(Files) /\ Files \subseteq Nodes
        BY FilesOfFolder DEF Nodes
      <4> DEFINE s == FilesOf[c]
      <4>2. s \in Seq(Files)
        BY <4>1
      <4> HIDE DEF s
      <4>3. s \in Seq(Nodes)
        BY <4>1, <4>2, SeqMonotonic
      <4> QED
        BY <4>3 DEF s
    <3> QED
      BY <3>1, PartsProperties
  <2>5. /\ ds \in Sums
        /\ ds.ran /\ ds.passed <=> \A e \in ToSet(FoldersOf[c]) : up[e] = "yes"
        /\ ~ds.passed => \E e \in ToSet(FoldersOf[c]) : up[e] = "no"
    <3>1. FoldersOf[c] \in Seq(Folders)
      BY FilesOfFolder
    <3> QED
      BY <1>3, <3>1, PartsProperties
  <2> HIDE DEF fs, ds
  <2>6. up[c] = "yes" <=> fs.ran /\ ds.ran /\ fs.passed /\ ds.passed
    BY <2>2 DEF FolderVerdict
  <2>7. up[c] = "no" => ~fs.passed \/ ~ds.passed
    BY <2>2 DEF FolderVerdict
  <2>8. (\A e \in ToSet(FoldersOf[c]) : up[e] = "yes") <=>
           \A e \in ToSet(FoldersOf[c]) : \A f \in FilesBelow[e] : files[f] = "yes"
    BY <2>1
  <2>9. Yes(c)
    BY <2>3, <2>4, <2>5, <2>6, <2>8
  <2>10. No(c)
    <3>1. ASSUME NEW e \in ToSet(FoldersOf[c]), up[e] = "no"
          PROVE  \E f \in FilesBelow[c] : files[f] = "no"
      BY <2>1, <2>3, <3>1
    <3> QED
      BY <2>3, <2>4, <2>5, <2>7, <3>1
  <2> HIDE DEF Yes, No
  <2> QED
    BY <2>9, <2>10
<1>6. \A c \in Folders : c \in P
  <2>1. height \in [Folders -> Nat]
    BY <1>1
  <2>2. \A c \in Folders : (\A e \in Folders : height[e] < height[c] => e \in P) => c \in P
    BY <1>5
  <2> HIDE DEF P
  <2> QED
    BY ONLY <2>1, <2>2, RankInduction
<1>7. d \in P
  BY <1>6
<1> QED
  BY <1>7 DEF up

\* Whatever is known of the functions, updateResults tells of them.
LEMMA UpdateResultsTells ==
    ASSUME NEW p \in [TestFunctions -> Verdicts]
    PROVE  /\ UpdateResults(p) \in [Suites \union Files \union Folders -> Verdicts]
           /\ TellsOfFunctions(UpdateResults(p), p)
<1> DEFINE files == UpdateTestSuiteAndFileResults(p)
           folders == UpdateTestFolderResults(files)
           all == UpdateResults(p)
<1>1. files \in [Nodes -> Verdicts]
  BY SuitesEquation
<1>2. folders \in [Folders -> Verdicts]
  BY FoldersEquation
<1>3. all = [n \in Suites \union Files \union Folders |->
               IF n \in Folders THEN folders[n] ELSE files[n]]
  BY DEF UpdateResults
<1>4. \A n \in Nodes : n \in Suites \union Files \union Folders /\ n \notin Folders
  BY TreeAssumption DEF Nodes
<1>5. ASSUME NEW n \in Nodes
      PROVE  /\ files[n] = "none" <=> \E f \in Functions[n] : p[f] = "none"
             /\ files[n] = "yes" <=> \A f \in Functions[n] : p[f] = "yes"
  BY SuitesTell
<1>6. ASSUME NEW d \in Folders
      PROVE  /\ folders[d] = "yes" <=> \A f \in FilesBelow[d] : files[f] = "yes"
             /\ folders[d] = "no" => \E f \in FilesBelow[d] : files[f] = "no"
  BY <1>1, FoldersTell
<1> HIDE DEF files, folders, all
<1>7. all \in [Suites \union Files \union Folders -> Verdicts]
  BY <1>1, <1>2, <1>3 DEF Nodes
<1>8. (\A n \in Nodes : all[n] = files[n]) /\ \A d \in Folders : all[d] = folders[d]
  BY <1>3, <1>4
<1>9. ASSUME NEW n \in Nodes
      PROVE  /\ all[n] = "yes" <=> \A f \in Functions[n] : p[f] = "yes"
             /\ all[n] = "no" <=> /\ \A f \in Functions[n] : p[f] # "none"
                                  /\ \E f \in Functions[n] : p[f] = "no"
  <2>1. Functions[n] \in SUBSET TestFunctions
    BY FunctionsEquation
  <2>2. \A f \in Functions[n] : p[f] \in Verdicts
    BY <2>1
  <2>3. all[n] = files[n] /\ files[n] \in Verdicts
    BY <1>1, <1>8
  <2> QED
    BY <1>5, <2>2, <2>3 DEF Verdicts
<1>10. ASSUME NEW d \in Folders
       PROVE  /\ all[d] = "yes" <=> \A f \in FilesBelow[d] : all[f] = "yes"
              /\ all[d] = "no" => \E f \in FilesBelow[d] : all[f] = "no"
  <2>1. FilesBelow[d] \in SUBSET Files
    BY FilesBelowEquation
  <2>2. \A f \in FilesBelow[d] : all[f] = files[f]
    BY <1>8, <2>1 DEF Nodes
  <2> QED
    BY <1>6, <1>8, <2>2
<1>11. TellsOfFunctions(all, p)
  BY <1>9, <1>10 DEF TellsOfFunctions, Nodes
<1> QED
  BY <1>7, <1>11 DEF all

-----------------------------------------------------------------------------
(* The invariant, and the types.                                           *)

Statuses == {"unknown", "pass", "fail", "error", "skipped"}

\* What a run is to run is typed, and something.
LEMMA SelectionType ==
    ASSUME TypeOK, NEW selection \in TestsToRun
    PROVE  /\ selection \in Seq(Seq(Tests)) /\ selection # <<>>
           /\ FlattenSeq(selection) \in Seq(Tests)
<1> DEFINE failed == {f \in TestFunctions : status[f] \in {"fail", "error"}}
           ff == FailedFunctions
           ones == [i \in DOMAIN ff |-> <<ff[i]>>]
<1>1. framework \in Frameworks
  BY DEF TypeOK
<1>2. \A s \in Selections[framework] : s \in Seq(Seq(Tests)) /\ s # <<>>
  BY <1>1, RunAssumption DEF Tests
<1>3. AllTests[framework] \in Selections[framework]
  BY <1>1, RunAssumption
<1>4. ff \in Seq(failed)
  <2>1. failed \in SUBSET TestFunctions
    OBVIOUS
  <2>2. ff = SetToSeq(failed)
    BY DEF FailedFunctions
  <2> HIDE DEF failed, ff
  <2>3. IsFiniteSet(failed)
    BY <2>1, TreeAssumption, FS_Subset
  <2> QED
    BY <2>2, <2>3, SetToSeqType
<1>5. failed \subseteq Tests
  BY DEF Tests
<1> HIDE DEF failed, ff
<1>6. Len(ff) \in Nat /\ DOMAIN ff = 1 .. Len(ff) /\ \A i \in 1 .. Len(ff) : ff[i] \in Tests
  BY <1>4, <1>5, LenProperties, ElementOfSeq
<1>7. ones \in Seq(Seq(Tests)) /\ DOMAIN ones = 1 .. Len(ff)
  <2>1. \A i \in 1 .. Len(ff) : <<ff[i]>> \in Seq(Tests)
    BY <1>6
  <2>2. ones \in [1 .. Len(ff) -> Seq(Tests)]
    BY <1>6, <2>1
  <2> HIDE DEF ones
  <2> QED
    BY <1>6, <2>2, SeqDef
<1>8. ASSUME ff # <<>>
      PROVE  ones # <<>>
  <2>1. Len(ff) > 0
    BY <1>4, <1>8, EmptySeq
  <2>2. 1 \in DOMAIN ones
    BY <1>6, <1>7, <2>1
  <2> HIDE DEF ones
  <2> QED
    BY <2>2
<1>9. \/ selection \in Selections[framework]
      \/ selection = IF ff = <<>> THEN AllTests[framework] ELSE ones
  BY DEF TestsToRun, ff
<1>10. selection \in Seq(Seq(Tests)) /\ selection # <<>>
  <2> HIDE DEF ones
  <2> QED
    BY <1>2, <1>3, <1>7, <1>8, <1>9
<1>11. FlattenSeq(selection) \in Seq(Tests)
  BY <1>10, FlattenType
<1> QED
  BY <1>10, <1>11

\* The statuses that results give are statuses.
LEMMA NewStatusType ==
    ASSUME status \in [TestFunctions -> Statuses], NEW rs \in Seq(Results)
    PROVE  NewStatus(rs) \in [TestFunctions -> Statuses]
<1>1. ASSUME NEW f \in TestFunctions, OfTest(rs, f) # {}
      PROVE  StatusOf(Latest(rs, f)) \in Statuses
  <2>1. Latest(rs, f) \in Outcomes
    BY <1>1, LatestProperties
  <2> QED
    BY <2>1 DEF StatusOf, Outcomes, Statuses
<1> QED
  BY <1>1 DEF NewStatus

\* Counts of results are numbers.
LEMMA CountType ==
    ASSUME NEW rs \in Seq(Results)
    PROVE  \A o \in Outcomes : Count(rs, o) \in Nat
  BY CountConcat

\* The next target is started.
LEMMA StartLauncherType ==
    ASSUME TypeOK, NEW r \in Runs, targets[r] # <<>>, StartLauncher(r)
    PROVE  /\ launcher' \in [Runs -> {"none", "spawning", "running", "exited"}]
           /\ todo' \in [Runs -> Seq(Tests)]
           /\ targets' \in [Runs -> Seq(Seq(Tests))]
<1>1. targets[r] \in Seq(Seq(Tests))
  BY DEF TypeOK
<1>2. Head(targets[r]) \in Seq(Tests) /\ Tail(targets[r]) \in Seq(Seq(Tests))
  <2> DEFINE ts == targets[r]
  <2>1. ts \in Seq(Seq(Tests)) /\ ts # <<>>
    BY <1>1
  <2> HIDE DEF ts
  <2>2. Head(ts) \in Seq(Tests) /\ Tail(ts) \in Seq(Seq(Tests))
    BY <2>1, HeadTailProperties
  <2> QED
    BY <2>2 DEF ts
<1> QED
  BY <1>2 DEF StartLauncher, TypeOK

\* How far the runs are: what is true of one that is not going yet, and which of the
\* frameworks uses what.
Stages ==
    /\ framework = "xml" => \A r \in Runs : pipe[r] = << >>
    /\ \A r \in Runs :
          /\ phase[r] \in {"new", "starting"} => launcher[r] = "none"
          /\ phase[r] = "new" => pipe[r] = << >> /\ handled[r] = << >>
          /\ phase[r] = "starting" => targets[r] # << >>
          /\ phase[r] = "reading" => framework = "xml"

\* A run that was not stopped has nothing but whole frames on the way.
FramedStreams == \A r \in Runs : r \notin stopped => Framed(buffer[r] \o pipe[r])

\* The initial states are typed.
LEMMA InitType == Init => TypeOK
<1> SUFFICES ASSUME Init
             PROVE  TypeOK
  OBVIOUS
<1>1. <<>> \in Seq(Seq(Tests)) /\ <<>> \in Seq(Tests) /\ <<>> \in Seq(Tokens) /\ <<>> \in Seq(Results)
  BY EmptySeq
<1>2. failFast \in BOOLEAN
  BY DEF Init
<1> QED
  BY <1>1, <1>2 DEF Init, TypeOK, Verdicts, NoSummary

USE DEF results, process, stream, tokens, ghosts

\* Every step keeps the types.
LEMMA TypeStep ==
    ASSUME TypeOK, Stages, Next
    PROVE  TypeOK'
<1>0. <<>> \in Seq(Tokens) /\ <<>> \in Seq(Results)
  BY EmptySeq
<1>1. CASE Stop
  BY <1>1 DEF Stop, TypeOK
<1> SUFFICES ASSUME NEW r \in Runs, RunTest(r) \/ ProcessEvent(r) \/ RunEvent(r) \/ ReadSocket(r)
             PROVE  TypeOK'
  BY <1>1 DEF Next
<1>2. CASE RunTest(r)
  <2>1. PICK selection \in TestsToRun :
          targets' = [targets EXCEPT ![r] =
             IF framework = "unittest" THEN selection ELSE <<FlattenSeq(selection)>>]
    BY <1>2 DEF RunTest
  <2>2. selection \in Seq(Seq(Tests)) /\ FlattenSeq(selection) \in Seq(Tests)
    BY SelectionType
  <2>3. <<FlattenSeq(selection)>> \in Seq(Seq(Tests))
    BY <2>2
  <2>4. targets' \in [Runs -> Seq(Seq(Tests))]
    BY <2>1, <2>2, <2>3 DEF TypeOK
  <2>5. summary' \in [Outcomes -> Nat]
    BY <1>2 DEF RunTest, StartSummary, NoSummary, TypeOK
  <2> QED
    BY <1>2, <2>4, <2>5 DEF RunTest, TypeOK
<1>3. CASE ProcessStarts(r)
  BY <1>3 DEF ProcessStarts, TypeOK
<1>4. CASE SendResult(r)
  <2>1. todo[r] \in Seq(Tests) /\ todo[r] # <<>>
    BY <1>4 DEF SendResult, TypeOK
  <2>2. Head(todo[r]) \in Tests /\ Tail(todo[r]) \in Seq(Tests)
    <3> DEFINE ts == todo[r]
    <3>1. ts \in Seq(Tests) /\ ts # <<>>
      BY <2>1
    <3> HIDE DEF ts
    <3>2. Head(ts) \in Tests /\ Tail(ts) \in Seq(Tests)
      BY <3>1, HeadTailProperties
    <3> QED
      BY <3>2 DEF ts
  <2>3. PICK o \in Reportable :
          LET result == [test |-> Head(todo[r]), outcome |-> o]
          IN /\ pipe' = [pipe EXCEPT ![r] = @ \o Header(result) \o Body(result)]
             /\ reported' = [reported EXCEPT ![r] = Append(@, result)]
    BY <1>4 DEF SendResult
  <2> DEFINE x == [test |-> Head(todo[r]), outcome |-> o]
  <2>4. x \in Results
    BY <2>2, RunAssumption DEF Results
  <2>5. /\ pipe' = [pipe EXCEPT ![r] = @ \o Header(x) \o Body(x)]
        /\ reported' = [reported EXCEPT ![r] = Append(@, x)]
    BY <2>3
  <2> HIDE DEF x
  <2>6. (pipe[r] \o Header(x)) \o Body(x) \in Seq(Tokens)
    BY <2>4, StreamSends DEF TypeOK
  <2>7. Append(reported[r], x) \in Seq(Results)
    BY <2>4, AppendProperties DEF TypeOK
  <2>8. pipe' \in [Runs -> Seq(Tokens)]
    BY <2>5, <2>6 DEF TypeOK
  <2>9. reported' \in [Runs -> Seq(Results)]
    BY <2>5, <2>7 DEF TypeOK
  <2>10. todo' \in [Runs -> Seq(Tests)]
    BY <1>4, <2>2 DEF SendResult, TypeOK
  <2> QED
    BY <1>4, <2>8, <2>9, <2>10 DEF SendResult, TypeOK
<1>5. CASE ProcessEnds(r)
  <2>1. xml' \in [Runs -> Seq(Results) \union {None}]
    <3>1. CASE framework = "unittest"
      BY <1>5, <3>1 DEF ProcessEnds, TypeOK
    <3>2. CASE framework # "unittest"
      <4>1. PICK outcomes \in [DOMAIN todo[r] -> Reportable] :
               xml' = [xml EXCEPT ![r] =
                  [i \in DOMAIN todo[r] |-> [test |-> todo[r][i], outcome |-> outcomes[i]]]]
        BY <1>5, <3>2 DEF ProcessEnds
      <4> DEFINE ts == todo[r]
                 rs == [i \in DOMAIN ts |-> [test |-> ts[i], outcome |-> outcomes[i]]]
      <4>2. ts \in Seq(Tests) /\ outcomes \in [DOMAIN ts -> Reportable]
        BY DEF TypeOK
      <4>3. xml' = [xml EXCEPT ![r] = rs]
        BY <4>1
      <4> HIDE DEF ts
      <4>4. Len(ts) \in Nat /\ DOMAIN ts = 1 .. Len(ts) /\ \A i \in 1 .. Len(ts) : ts[i] \in Tests
        BY <4>2, LenProperties, ElementOfSeq
      <4>5. \A i \in 1 .. Len(ts) : [test |-> ts[i], outcome |-> outcomes[i]] \in Results
        BY <4>2, <4>4, RunAssumption DEF Results
      <4>6. rs \in [1 .. Len(ts) -> Results]
        BY <4>4, <4>5
      <4> HIDE DEF rs
      <4>7. rs \in Seq(Results)
        BY <4>4, <4>6, SeqDef
      <4> QED
        BY <4>3, <4>7 DEF TypeOK
    <3> QED
      BY <3>1, <3>2
  <2> QED
    BY <1>5, <2>1 DEF ProcessEnds, TypeOK
<1>6. CASE ProcessDies(r)
  <2>1. pipe' \in [Runs -> Seq(Tokens)]
    <3>1. CASE UNCHANGED pipe
      BY <3>1 DEF TypeOK
    <3>2. CASE ~UNCHANGED pipe
      <4>1. PICK o \in Reportable :
              pipe' = [pipe EXCEPT ![r] = @ \o Header([test |-> Head(todo[r]), outcome |-> o])]
        BY <1>6, <3>2 DEF ProcessDies
      <4>2. todo[r] # <<>> /\ todo[r] \in Seq(Tests)
        BY <1>6, <3>2 DEF ProcessDies, TypeOK
      <4>3. Head(todo[r]) \in Tests
        <5> DEFINE ts == todo[r]
        <5>1. ts \in Seq(Tests) /\ ts # <<>>
          BY <4>2
        <5> HIDE DEF ts
        <5>2. Head(ts) \in Tests
          BY <5>1, HeadTailProperties
        <5> QED
          BY <5>2 DEF ts
      <4> DEFINE x == [test |-> Head(todo[r]), outcome |-> o]
      <4>4. x \in Results
        BY <4>3, RunAssumption DEF Results
      <4>5. pipe' = [pipe EXCEPT ![r] = @ \o Header(x)]
        BY <4>1
      <4> HIDE DEF x
      <4>6. pipe[r] \o Header(x) \in Seq(Tokens)
        BY <4>4, StreamDies DEF TypeOK
      <4> QED
        BY <4>5, <4>6 DEF TypeOK
    <3> QED
      BY <3>1, <3>2
  <2> QED
    BY <1>6, <2>1 DEF ProcessDies, TypeOK
<1>7. CASE Started(r)
  <2>1. targets[r] # <<>> /\ StartLauncher(r)
    BY <1>7 DEF Started, Stages
  <2>2. /\ launcher' \in [Runs -> {"none", "spawning", "running", "exited"}]
        /\ todo' \in [Runs -> Seq(Tests)]
        /\ targets' \in [Runs -> Seq(Seq(Tests))]
    BY <2>1, StartLauncherType
  <2> QED
    BY <1>7, <2>2 DEF Started, TypeOK
<1>8. CASE RunFails(r)
  BY <1>8 DEF RunFails, Settle, TypeOK
<1>9. CASE TargetEnds(r)
  <2>1. CASE targets[r] # <<>>
    <3>1. /\ launcher' \in [Runs -> {"none", "spawning", "running", "exited"}]
          /\ todo' \in [Runs -> Seq(Tests)]
          /\ targets' \in [Runs -> Seq(Seq(Tests))]
      BY <1>9, <2>1, StartLauncherType DEF TargetEnds
    <3> QED
      BY <1>9, <2>1, <3>1 DEF TargetEnds, TypeOK
  <2>2. CASE targets[r] = <<>>
    <3>1. tree' \in [Suites \union Files \union Folders -> Verdicts]
      BY <1>9, <2>2, UpdateResultsTells DEF TargetEnds, TypeOK
    <3> QED
      BY <1>9, <2>2, <3>1 DEF TargetEnds, Settle, TypeOK
  <2> QED
    BY <2>1, <2>2
<1>10. CASE XmlRunEnds(r)
  BY <1>10 DEF XmlRunEnds, TypeOK
<1>11. CASE ReadXml(r)
  <2>1. xml[r] \in Seq(Results)
    BY <1>11 DEF ReadXml, TypeOK
  <2>2. UpdateFromXml(r) /\ handled' = [handled EXCEPT ![r] = xml[r]] /\ shown' = r
    BY <1>11 DEF ReadXml
  <2>3. status' \in [TestFunctions -> {"unknown", "pass", "fail", "error", "skipped"}]
    BY <2>1, <2>2, NewStatusType DEF UpdateFromXml, TypeOK, Statuses
  <2>4. passed' \in [TestFunctions -> Verdicts]
    BY <2>2 DEF UpdateFromXml, TypeOK, Verdicts
  <2>5. tree' = UpdateResults(passed')
    BY <2>2 DEF UpdateFromXml
  <2>6. tree' \in [Suites \union Files \union Folders -> Verdicts]
    BY <2>4, <2>5, UpdateResultsTells
  <2>7. summary' \in [Outcomes -> Nat]
    BY <2>1, <2>2, CountType DEF UpdateFromXml
  <2>8. handled' \in [Runs -> Seq(Results)]
    BY <2>1, <2>2 DEF TypeOK
  <2> QED
    BY <1>11, <2>2, <2>3, <2>4, <2>6, <2>7, <2>8 DEF ReadXml, Settle, TypeOK
<1>13. CASE ReadXmlFails(r)
  BY <1>13 DEF ReadXmlFails, Settle, TypeOK
<1>12. CASE ReadSocket(r)
  <2>1. PICK n \in 1 .. Len(pipe[r]) :
          LET drained == Drain(buffer[r] \o SubSeq(pipe[r], 1, n))
              rs == drained.results
          IN /\ pipe' = [pipe EXCEPT ![r] = SubSeq(@, n + 1, Len(@))]
             /\ buffer' = [buffer EXCEPT ![r] = drained.rest]
             /\ handled' = [handled EXCEPT ![r] = @ \o rs]
             /\ status' = NewStatus(rs)
             /\ summary' = [o \in Outcomes |-> summary[o] + Count(rs, o)]
             /\ stopped' = IF FailureStops(rs) THEN stopped \union ({runnerToken} \ {None})
                           ELSE stopped
             /\ mixed' = (mixed \/ (rs # << >> /\ r # shown))
    BY <1>12 DEF ReadSocket
  <2> DEFINE d == Drain(buffer[r] \o SubSeq(pipe[r], 1, n))
             post == SubSeq(pipe[r], n + 1, Len(pipe[r]))
  <2>2. d \in Drained /\ post \in Seq(Tokens)
    <3> DEFINE b == buffer[r]
               p == pipe[r]
    <3>1. b \in Seq(Tokens) /\ p \in Seq(Tokens)
      BY DEF TypeOK
    <3>2. n \in 1 .. Len(p)
      OBVIOUS
    <3> HIDE DEF b, p
    <3>3. Drain(b \o SubSeq(p, 1, n)) \in Drained /\ SubSeq(p, n + 1, Len(p)) \in Seq(Tokens)
      BY ONLY <3>1, <3>2, StreamReads
    <3> QED
      BY <3>3 DEF b, p
  <2>3. /\ pipe' = [pipe EXCEPT ![r] = post]
        /\ buffer' = [buffer EXCEPT ![r] = d.rest]
        /\ handled' = [handled EXCEPT ![r] = @ \o d.results]
        /\ status' = NewStatus(d.results)
        /\ summary' = [o \in Outcomes |-> summary[o] + Count(d.results, o)]
        /\ stopped' = IF FailureStops(d.results) THEN stopped \union ({runnerToken} \ {None})
                      ELSE stopped
        /\ mixed' = (mixed \/ (d.results # << >> /\ r # shown))
    BY <2>1
  <2> DEFINE rs == d.results
  <2>4. rs \in Seq(Results) /\ d.rest \in Seq(Tokens)
    BY <2>2 DEF Drained
  <2> HIDE DEF d, post
  <2>5. pipe' \in [Runs -> Seq(Tokens)] /\ buffer' \in [Runs -> Seq(Tokens)]
    BY <2>2, <2>3, <2>4 DEF TypeOK
  <2> HIDE DEF rs
  <2>6. handled' \in [Runs -> Seq(Results)]
    <3>1. handled[r] \o rs \in Seq(Results)
      BY <2>4, ConcatProperties DEF TypeOK
    <3> QED
      BY <2>3, <3>1 DEF TypeOK, rs
  <2>7. status' \in [TestFunctions -> {"unknown", "pass", "fail", "error", "skipped"}]
    BY <2>3, <2>4, NewStatusType DEF TypeOK, Statuses, rs
  <2>8. summary' \in [Outcomes -> Nat]
    <3>0. ASSUME NEW o \in Outcomes
          PROVE  summary[o] \in Nat /\ Count(rs, o) \in Nat
      BY <2>4, CountType DEF TypeOK
    <3>1. \A o \in Outcomes : summary[o] + Count(rs, o) \in Nat
      BY <3>0
    <3> QED
      BY <2>3, <3>1 DEF rs
  <2>9. stopped' \subseteq Runs /\ mixed' \in BOOLEAN
    BY <2>3 DEF TypeOK
  <2> QED
    BY <1>12, <2>5, <2>6, <2>7, <2>8, <2>9 DEF ReadSocket, TypeOK
<1> QED
  BY <1>2, <1>3, <1>4, <1>5, <1>6, <1>7, <1>8, <1>9, <1>10, <1>11, <1>12, <1>13
  DEF ProcessEvent, RunEvent

-----------------------------------------------------------------------------
(* The stages.                                                             *)

\* Every step keeps the stages of the runs, their launchers and files in step.
LEMMA StagesStep ==
    ASSUME TypeOK, Stages, Next
    PROVE  Stages'
<1>1. CASE Stop
  BY <1>1 DEF Stop, Stages
<1> SUFFICES ASSUME NEW r \in Runs, RunTest(r) \/ ProcessEvent(r) \/ RunEvent(r) \/ ReadSocket(r)
             PROVE  Stages'
  BY <1>1 DEF Next
<1>a. "unittest" # "xml"
  OBVIOUS
<1>2. CASE RunTest(r)
  <2>1. PICK selection \in TestsToRun :
          targets' = [targets EXCEPT ![r] =
             IF framework = "unittest" THEN selection ELSE <<FlattenSeq(selection)>>]
    BY <1>2 DEF RunTest
  <2>2. selection # <<>>
    BY SelectionType
  <2>3. targets'[r] # <<>> /\ \A q \in Runs \ {r} : targets'[q] = targets[q]
    BY <2>1, <2>2 DEF TypeOK
  <2> QED
    BY <1>2, <2>3 DEF RunTest, Stages, TypeOK
<1>3. CASE ProcessStarts(r)
  BY <1>3 DEF ProcessStarts, Stages, TypeOK
<1>4. CASE SendResult(r)
  <2>1. \A q \in Runs \ {r} : pipe'[q] = pipe[q]
    BY <1>4 DEF SendResult, TypeOK
  <2>2. /\ UNCHANGED <<framework, phase, launcher, targets, handled>>
        /\ framework = "unittest" /\ launcher[r] = "running"
    BY <1>4 DEF SendResult
  <2>3. phase[r] # "new"
    BY <2>2 DEF Stages
  <2> QED
    BY <2>1, <2>2, <2>3 DEF Stages
<1>5. CASE ProcessEnds(r)
  BY <1>5 DEF ProcessEnds, Stages, TypeOK
<1>6. CASE ProcessDies(r)
  <2>1. /\ \A q \in Runs \ {r} : pipe'[q] = pipe[q]
        /\ framework # "unittest" => pipe' = pipe
    BY <1>6 DEF ProcessDies, TypeOK
  <2>2. /\ UNCHANGED <<framework, phase, targets, handled>>
        /\ launcher[r] # "none"
        /\ \A q \in Runs \ {r} : launcher'[q] = launcher[q]
    BY <1>6 DEF ProcessDies, TypeOK
  <2>3. phase[r] \notin {"new", "starting"}
    BY <2>2 DEF Stages
  <2> QED
    BY <1>a, <2>1, <2>2, <2>3 DEF Stages, TypeOK
<1>7. CASE Started(r)
  BY <1>7 DEF Started, StartLauncher, Stages, TypeOK
<1>8. CASE RunFails(r)
  BY <1>8 DEF RunFails, Settle, Stages, TypeOK
<1>9. CASE TargetEnds(r)
  <2>1. launcher[r] = "exited" /\ UNCHANGED <<framework, pipe, handled>>
    BY <1>9 DEF TargetEnds, Closed
  <2>2. phase[r] \notin {"new", "starting"}
    BY <2>1 DEF Stages
  <2>3. \A q \in Runs \ {r} : phase'[q] = phase[q] /\ launcher'[q] = launcher[q] /\ targets'[q] = targets[q]
    BY <1>9 DEF TargetEnds, StartLauncher, Settle, TypeOK
  <2>4. phase'[r] = phase[r] \/ phase'[r] = "resolved"
    BY <1>9 DEF TargetEnds, Settle, TypeOK
  <2> QED
    BY <2>1, <2>2, <2>3, <2>4 DEF Stages
<1>10. CASE XmlRunEnds(r)
  BY <1>10 DEF XmlRunEnds, Stages, TypeOK
<1>11. CASE ReadXml(r) \/ ReadXmlFails(r)
  <2>1. phase[r] = "reading" /\ UNCHANGED <<framework, pipe, targets, launcher>>
    BY <1>11 DEF ReadXml, ReadXmlFails
  <2>2. \A q \in Runs \ {r} : phase'[q] = phase[q] /\ handled'[q] = handled[q]
    BY <1>11 DEF ReadXml, ReadXmlFails, Settle, TypeOK
  <2>3. phase'[r] \in {"resolved", "rejected", "hung"}
    BY <1>11 DEF ReadXml, ReadXmlFails, Settle, TypeOK
  <2> QED
    BY <2>1, <2>2, <2>3 DEF Stages
<1>12. CASE ReadSocket(r)
  <2>1. PICK n \in 1 .. Len(pipe[r]) : TRUE
    BY <1>12 DEF ReadSocket
  <2>2. pipe[r] # <<>>
    BY <2>1, EmptySeq
  <2>3. framework # "xml" /\ phase[r] # "new"
    BY <2>2 DEF Stages
  <2>4. \A q \in Runs \ {r} : pipe'[q] = pipe[q] /\ handled'[q] = handled[q]
    BY <1>12 DEF ReadSocket, TypeOK
  <2>5. UNCHANGED <<framework, phase, targets, launcher>>
    BY <1>12 DEF ReadSocket
  <2> QED
    BY <2>3, <2>4, <2>5 DEF Stages
<1> QED
  BY <1>2, <1>3, <1>4, <1>5, <1>6, <1>7, <1>8, <1>9, <1>10, <1>11, <1>12 DEF ProcessEvent, RunEvent

\* What the other actions leave of the streams.
LEMMA StreamFrame ==
    ASSUME ResultsConserved, FramedStreams, UNCHANGED <<framework, reported, handled, buffer, pipe>>,
           stopped \subseteq stopped'
    PROVE  ResultsConserved' /\ FramedStreams'
  BY DEF ResultsConserved, FramedStreams

\* The stream of one run changes.
LEMMA StreamOfOne ==
    ASSUME ResultsConserved, FramedStreams, NEW r \in Runs, framework = "unittest",
           framework' = framework, stopped \subseteq stopped',
           \A q \in Runs \ {r} : /\ reported'[q] = reported[q] /\ handled'[q] = handled[q]
                                 /\ buffer'[q] = buffer[q] /\ pipe'[q] = pipe[q],
           reported'[r] = handled'[r] \o Waiting(buffer'[r] \o pipe'[r]),
           r \notin stopped' => ~HasMessage(buffer'[r]) /\ Framed(buffer'[r] \o pipe'[r])
    PROVE  ResultsConserved' /\ FramedStreams'
<1>1. ASSUME NEW q \in Runs
      PROVE  /\ reported'[q] = handled'[q] \o Waiting(buffer'[q] \o pipe'[q])
             /\ q \notin stopped' => ~HasMessage(buffer'[q]) /\ Framed(buffer'[q] \o pipe'[q])
  BY DEF ResultsConserved, FramedStreams
<1> QED
  BY <1>1 DEF ResultsConserved, FramedStreams

-----------------------------------------------------------------------------
(* The streams.                                                            *)

\* The step of a server that reads, in parts.
LEMMA ReadSocketStep ==
    ASSUME TypeOK, NEW r \in Runs, ReadSocket(r)
    PROVE  \E d \in Drained, post \in Seq(Tokens) :
              /\ Waiting(buffer[r] \o pipe[r]) = d.results \o Waiting(d.rest \o post)
              /\ Framed(buffer[r] \o pipe[r]) => Framed(d.rest \o post) /\ ~HasMessage(d.rest)
              /\ pipe' = [pipe EXCEPT ![r] = post]
              /\ buffer' = [buffer EXCEPT ![r] = d.rest]
              /\ handled' = [handled EXCEPT ![r] = @ \o d.results]
              /\ status' = NewStatus(d.results)
              /\ summary' = [o \in Outcomes |-> summary[o] + Count(d.results, o)]
              /\ stopped \subseteq stopped'
              /\ mixed' = (mixed \/ (d.results # << >> /\ r # shown))
<1>1. PICK n \in 1 .. Len(pipe[r]) :
          LET drained == Drain(buffer[r] \o SubSeq(pipe[r], 1, n))
              rs == drained.results
          IN /\ pipe' = [pipe EXCEPT ![r] = SubSeq(@, n + 1, Len(@))]
             /\ buffer' = [buffer EXCEPT ![r] = drained.rest]
             /\ handled' = [handled EXCEPT ![r] = @ \o rs]
             /\ status' = NewStatus(rs)
             /\ summary' = [o \in Outcomes |-> summary[o] + Count(rs, o)]
             /\ stopped' = IF FailureStops(rs) THEN stopped \union ({runnerToken} \ {None})
                           ELSE stopped
             /\ mixed' = (mixed \/ (rs # << >> /\ r # shown))
  BY DEF ReadSocket
<1> DEFINE d == Drain(buffer[r] \o SubSeq(pipe[r], 1, n))
           post == SubSeq(pipe[r], n + 1, Len(pipe[r]))
<1>2. /\ d \in Drained /\ post \in Seq(Tokens)
      /\ Waiting(buffer[r] \o pipe[r]) = d.results \o Waiting(d.rest \o post)
      /\ Framed(buffer[r] \o pipe[r]) => Framed(d.rest \o post) /\ ~HasMessage(d.rest)
  <2> DEFINE b == buffer[r]
             p == pipe[r]
  <2>1. b \in Seq(Tokens) /\ p \in Seq(Tokens)
    BY DEF TypeOK
  <2>2. n \in 1 .. Len(p)
    OBVIOUS
  <2> HIDE DEF b, p
  <2>3. LET e == Drain(b \o SubSeq(p, 1, n))
            t == SubSeq(p, n + 1, Len(p))
        IN /\ e \in Drained /\ t \in Seq(Tokens)
           /\ Waiting(b \o p) = e.results \o Waiting(e.rest \o t)
           /\ Framed(b \o p) => Framed(e.rest \o t) /\ ~HasMessage(e.rest)
    BY ONLY <2>1, <2>2, StreamReads
  <2> QED
    BY <2>3 DEF b, p
<1>3. /\ pipe' = [pipe EXCEPT ![r] = post]
      /\ buffer' = [buffer EXCEPT ![r] = d.rest]
      /\ handled' = [handled EXCEPT ![r] = @ \o d.results]
      /\ status' = NewStatus(d.results)
      /\ summary' = [o \in Outcomes |-> summary[o] + Count(d.results, o)]
      /\ mixed' = (mixed \/ (d.results # << >> /\ r # shown))
  BY <1>1
<1>4. stopped \subseteq stopped'
  BY <1>1
<1> HIDE DEF d, post
<1> QED
  BY <1>2, <1>3, <1>4

\* Every step keeps the streams: what was sent is what was handled, then what waits.
LEMMA StreamStep ==
    ASSUME TypeOK, Stages, ResultsConserved, FramedStreams, Next
    PROVE  ResultsConserved' /\ FramedStreams'
<1>1. CASE Stop
  <2>1. UNCHANGED <<framework, reported, handled, buffer, pipe>> /\ stopped \subseteq stopped'
    BY <1>1 DEF Stop
  <2> QED
    BY <2>1, StreamFrame
<1> SUFFICES ASSUME NEW r \in Runs, RunTest(r) \/ ProcessEvent(r) \/ RunEvent(r) \/ ReadSocket(r)
             PROVE  ResultsConserved' /\ FramedStreams'
  BY <1>1 DEF Next
<1>2. CASE RunTest(r)
  <2>1. UNCHANGED <<framework, reported, handled, buffer, pipe>> /\ stopped \subseteq stopped'
    BY <1>2 DEF RunTest
  <2> QED
    BY <2>1, StreamFrame
<1>3. CASE ProcessStarts(r) \/ ProcessEnds(r) \/ (RunEvent(r) /\ ~ReadXml(r))
  <2>1. UNCHANGED <<framework, reported, handled, buffer, pipe, stopped>>
    BY <1>3 DEF ProcessStarts, ProcessEnds, RunEvent, Started, RunFails, TargetEnds, XmlRunEnds,
                ReadXmlFails
  <2> QED
    BY <2>1, StreamFrame
<1>4. CASE SendResult(r)
  <2>1. todo[r] \in Seq(Tests) /\ todo[r] # <<>>
    BY <1>4 DEF SendResult, TypeOK
  <2>2. Head(todo[r]) \in Tests
    <3> DEFINE ts == todo[r]
    <3>1. ts \in Seq(Tests) /\ ts # <<>>
      BY <2>1
    <3> HIDE DEF ts
    <3>2. Head(ts) \in Tests
      BY <3>1, HeadTailProperties
    <3> QED
      BY <3>2 DEF ts
  <2>3. PICK o \in Reportable :
          LET result == [test |-> Head(todo[r]), outcome |-> o]
          IN /\ pipe' = [pipe EXCEPT ![r] = @ \o Header(result) \o Body(result)]
             /\ reported' = [reported EXCEPT ![r] = Append(@, result)]
    BY <1>4 DEF SendResult
  <2> DEFINE x == [test |-> Head(todo[r]), outcome |-> o]
  <2>4. x \in Results
    BY <2>2, RunAssumption DEF Results
  <2>5. /\ pipe' = [pipe EXCEPT ![r] = @ \o Header(x) \o Body(x)]
        /\ reported' = [reported EXCEPT ![r] = Append(@, x)]
    BY <2>3
  <2> HIDE DEF x
  <2>6. /\ framework = "unittest" /\ UNCHANGED <<framework, handled, buffer, stopped>>
    BY <1>4 DEF SendResult
  <2>7. /\ pipe'[r] = (pipe[r] \o Header(x)) \o Body(x)
        /\ reported'[r] = Append(reported[r], x)
        /\ \A q \in Runs \ {r} : pipe'[q] = pipe[q] /\ reported'[q] = reported[q]
    BY <2>5 DEF TypeOK
  <2> DEFINE w == Waiting(buffer[r] \o pipe[r])
             h == handled[r]
  <2>8. /\ Waiting(buffer[r] \o pipe'[r]) = Append(w, x)
        /\ Framed(buffer[r] \o pipe[r]) => Framed(buffer[r] \o pipe'[r])
    BY <2>4, <2>7, StreamSends DEF TypeOK
  <2>9. w \in Seq(Results) /\ h \in Seq(Results)
    <3>1. buffer[r] \o pipe[r] \in Seq(Tokens)
      BY ConcatProperties DEF TypeOK
    <3> QED
      BY <3>1, WaitingType DEF TypeOK
  <2>10. reported[r] = h \o w
    BY <2>6 DEF ResultsConserved
  <2> HIDE DEF w, h
  <2>11. Append(h \o w, x) = h \o Append(w, x)
    <3> DEFINE e == <<x>>
    <3>1. e \in Seq(Results) /\ h \o w \in Seq(Results)
      BY <2>4, <2>9, ConcatProperties
    <3>2. Append(h \o w, x) = (h \o w) \o e /\ Append(w, x) = w \o e
      BY <2>4, <2>9, <3>1, AppendIsConcat
    <3> HIDE DEF e
    <3>3. (h \o w) \o e = h \o (w \o e)
      BY ONLY <2>9, <3>1, ResultsAssociative
    <3> QED
      BY <3>2, <3>3
  <2>12. reported'[r] = handled'[r] \o Waiting(buffer'[r] \o pipe'[r])
    BY <2>6, <2>7, <2>8, <2>10, <2>11 DEF h
  <2>13. r \notin stopped' => ~HasMessage(buffer'[r]) /\ Framed(buffer'[r] \o pipe'[r])
    BY <2>6, <2>8 DEF ResultsConserved, FramedStreams
  <2>14. \A q \in Runs \ {r} : /\ reported'[q] = reported[q] /\ handled'[q] = handled[q]
                                 /\ buffer'[q] = buffer[q] /\ pipe'[q] = pipe[q]
    BY <2>6, <2>7
  <2> QED
    BY <2>6, <2>12, <2>13, <2>14, StreamOfOne
<1>5. CASE ProcessDies(r)
  <2>1. UNCHANGED <<framework, reported, handled, buffer, stopped>>
    BY <1>5 DEF ProcessDies
  <2>2. CASE UNCHANGED pipe
    BY <2>1, <2>2, StreamFrame
  <2>3. CASE ~UNCHANGED pipe
    <3>1. PICK o \in Reportable :
            pipe' = [pipe EXCEPT ![r] = @ \o Header([test |-> Head(todo[r]), outcome |-> o])]
      BY <1>5, <2>3 DEF ProcessDies
    <3>2. framework = "unittest" /\ r \in stopped /\ todo[r] # <<>> /\ todo[r] \in Seq(Tests)
      BY <1>5, <2>3 DEF ProcessDies, TypeOK
    <3>3. Head(todo[r]) \in Tests
      <4> DEFINE ts == todo[r]
      <4>1. ts \in Seq(Tests) /\ ts # <<>>
        BY <3>2
      <4> HIDE DEF ts
      <4>2. Head(ts) \in Tests
        BY <4>1, HeadTailProperties
      <4> QED
        BY <4>2 DEF ts
    <3> DEFINE x == [test |-> Head(todo[r]), outcome |-> o]
    <3>4. x \in Results
      BY <3>3, RunAssumption DEF Results
    <3>5. pipe' = [pipe EXCEPT ![r] = @ \o Header(x)]
      BY <3>1
    <3> HIDE DEF x
    <3>6. pipe'[r] = pipe[r] \o Header(x) /\ \A q \in Runs \ {r} : pipe'[q] = pipe[q]
      BY <3>5 DEF TypeOK
    <3>7. Waiting(buffer[r] \o pipe'[r]) = Waiting(buffer[r] \o pipe[r])
      BY <3>4, <3>6, StreamDies DEF TypeOK
    <3>8. reported'[r] = handled'[r] \o Waiting(buffer'[r] \o pipe'[r])
      BY <2>1, <3>2, <3>7 DEF ResultsConserved
    <3> QED
      BY <2>1, <3>2, <3>6, <3>8, StreamOfOne
  <2> QED
    BY <2>2, <2>3
<1>6. CASE ReadXml(r)
  <2>1. framework = "xml"
    BY <1>6 DEF ReadXml, Stages
  <2>2. UNCHANGED <<framework, buffer, pipe, stopped>>
    BY <1>6 DEF ReadXml
  <2> QED
    BY <2>1, <2>2 DEF ResultsConserved, FramedStreams
<1>7. CASE ReadSocket(r)
  <2>1. PICK d \in Drained, post \in Seq(Tokens) :
              /\ Waiting(buffer[r] \o pipe[r]) = d.results \o Waiting(d.rest \o post)
              /\ Framed(buffer[r] \o pipe[r]) => Framed(d.rest \o post) /\ ~HasMessage(d.rest)
              /\ pipe' = [pipe EXCEPT ![r] = post]
              /\ buffer' = [buffer EXCEPT ![r] = d.rest]
              /\ handled' = [handled EXCEPT ![r] = @ \o d.results]
              /\ stopped \subseteq stopped'
    BY <1>7, ReadSocketStep
  <2>2. /\ pipe'[r] = post /\ buffer'[r] = d.rest /\ handled'[r] = handled[r] \o d.results
        /\ \A q \in Runs \ {r} : pipe'[q] = pipe[q] /\ buffer'[q] = buffer[q] /\ handled'[q] = handled[q]
    BY <2>1 DEF TypeOK
  <2>3. UNCHANGED <<framework, reported>>
    BY <1>7 DEF ReadSocket
  <2>4. PICK n \in 1 .. Len(pipe[r]) : TRUE
    BY <1>7 DEF ReadSocket
  <2>5. framework = "unittest"
    <3>1. pipe[r] # <<>>
      BY <2>4, EmptySeq
    <3>2. framework # "xml" /\ framework \in Frameworks
      BY <3>1 DEF Stages, TypeOK
    <3> QED
      BY <3>2 DEF Frameworks
  <2> DEFINE h == handled[r]
             rs == d.results
             w == Waiting(d.rest \o post)
  <2>6. h \in Seq(Results) /\ rs \in Seq(Results) /\ w \in Seq(Results)
    <3>1. d.rest \in Seq(Tokens) /\ rs \in Seq(Results)
      BY DEF Drained
    <3>2. d.rest \o post \in Seq(Tokens)
      BY <3>1, ConcatProperties
    <3> QED
      BY <3>1, <3>2, WaitingType DEF TypeOK
  <2>7. reported[r] = h \o (rs \o w)
    BY <2>1, <2>5 DEF ResultsConserved
  <2>8. handled'[r] = h \o rs /\ Waiting(buffer'[r] \o pipe'[r]) = w
    BY <2>2
  <2> HIDE DEF h, rs, w
  <2>9. (h \o rs) \o w = h \o (rs \o w)
    BY ONLY <2>6, ResultsAssociative
  <2>10. reported'[r] = handled'[r] \o Waiting(buffer'[r] \o pipe'[r])
    BY <2>3, <2>7, <2>8, <2>9
  <2>11. r \notin stopped' => ~HasMessage(buffer'[r]) /\ Framed(buffer'[r] \o pipe'[r])
    <3>1. r \notin stopped' => Framed(buffer[r] \o pipe[r])
      BY <2>1 DEF FramedStreams
    <3> QED
      BY <2>1, <2>2, <3>1
  <2>12. \A q \in Runs \ {r} : /\ reported'[q] = reported[q] /\ handled'[q] = handled[q]
                               /\ buffer'[q] = buffer[q] /\ pipe'[q] = pipe[q]
    BY <2>2, <2>3
  <2> QED
    BY <2>1, <2>3, <2>5, <2>10, <2>11, <2>12, StreamOfOne
<1> QED
  BY <1>2, <1>3, <1>4, <1>5, <1>6, <1>7 DEF ProcessEvent, RunEvent

-----------------------------------------------------------------------------
(* The summary, the tree and the theorems.                                 *)

\* The action leaves what is shown, and what was handled, alone.
LEMMA SummaryFrame ==
    ASSUME SummaryAgrees, UNCHANGED <<shown, mixed, summary, status, handled>>
    PROVE  SummaryAgrees'
  BY DEF SummaryAgrees

\* Every step keeps the summary and the statuses in agreement with what was handled.
LEMMA SummaryStep ==
    ASSUME TypeOK, Stages, SummaryAgrees, Next
    PROVE  SummaryAgrees'
<1>1. CASE Stop
  <2>1. UNCHANGED <<shown, mixed, summary, status, handled>>
    BY <1>1 DEF Stop
  <2> QED
    BY <2>1, SummaryFrame
<1> SUFFICES ASSUME NEW r \in Runs, RunTest(r) \/ ProcessEvent(r) \/ RunEvent(r) \/ ReadSocket(r)
             PROVE  SummaryAgrees'
  BY <1>1 DEF Next
<1>2. CASE RunTest(r)
  <2>1. CASE framework = "unittest"
    <3>1. /\ shown' = r /\ UNCHANGED <<status, handled>>
          /\ summary' = NoSummary
      BY <1>2, <2>1 DEF RunTest, StartSummary
    <3>2. handled[r] = <<>>
      BY <1>2 DEF RunTest, Stages
    <3>3. \A o \in Outcomes : summary'[o] = Count(<<>>, o)
      BY <3>1, CountNone DEF NoSummary
    <3>4. \A f \in TestFunctions : OfTest(<<>>, f) = {}
      BY OfTestNone
    <3> QED
      BY <3>1, <3>2, <3>3, <3>4 DEF SummaryAgrees
  <2>2. CASE framework # "unittest"
    <3>1. UNCHANGED <<shown, mixed, summary, status, handled>>
      BY <1>2, <2>2 DEF RunTest, StartSummary
    <3> QED
      BY <3>1, SummaryFrame
  <2> QED
    BY <2>1, <2>2
<1>3. CASE ProcessEvent(r) \/ (RunEvent(r) /\ ~ReadXml(r))
  <2>1. UNCHANGED <<shown, mixed, summary, status, handled>>
    BY <1>3 DEF ProcessEvent, RunEvent, ProcessStarts, SendResult, ProcessEnds, ProcessDies,
                Started, RunFails, TargetEnds, XmlRunEnds, ReadXmlFails
  <2> QED
    BY <2>1, SummaryFrame
<1>4. CASE ReadXml(r)
  <2> DEFINE rs == xml[r]
  <2>1. /\ shown' = r /\ handled' = [handled EXCEPT ![r] = rs]
        /\ status' = NewStatus(rs)
        /\ summary' = [o \in Outcomes |-> Count(rs, o)]
    BY <1>4 DEF ReadXml, UpdateFromXml
  <2>2. handled'[r] = rs
    BY <2>1 DEF TypeOK
  <2> HIDE DEF rs
  <2>3. \A o \in Outcomes : summary'[o] = Count(rs, o)
    BY <2>1
  <2>4. \A f \in TestFunctions : OfTest(rs, f) # {} => status'[f] = StatusOf(Latest(rs, f))
    BY <2>1 DEF NewStatus
  <2> QED
    BY <2>1, <2>2, <2>3, <2>4 DEF SummaryAgrees
<1>5. CASE ReadSocket(r)
  <2>1. PICK d \in Drained, post \in Seq(Tokens) :
              /\ handled' = [handled EXCEPT ![r] = @ \o d.results]
              /\ status' = NewStatus(d.results)
              /\ summary' = [o \in Outcomes |-> summary[o] + Count(d.results, o)]
              /\ mixed' = (mixed \/ (d.results # << >> /\ r # shown))
    BY <1>5, ReadSocketStep
  <2>2. shown' = shown
    BY <1>5 DEF ReadSocket
  <2> DEFINE rs == d.results
  <2>3. rs \in Seq(Results)
    BY DEF Drained
  <2>4. /\ status' = NewStatus(rs)
        /\ summary' = [o \in Outcomes |-> summary[o] + Count(rs, o)]
        /\ mixed' = (mixed \/ (rs # << >> /\ r # shown))
        /\ handled'[r] = handled[r] \o rs
        /\ \A q \in Runs \ {r} : handled'[q] = handled[q]
    BY <2>1 DEF TypeOK
  <2> HIDE DEF rs
  <2> SUFFICES ASSUME shown # None, ~mixed'
               PROVE  /\ \A o \in Outcomes : summary'[o] = Count(handled'[shown], o)
                      /\ \A f \in TestFunctions : OfTest(handled'[shown], f) # {} =>
                            status'[f] = StatusOf(Latest(handled'[shown], f))
    BY <2>2 DEF SummaryAgrees
  <2> DEFINE h == handled[shown]
  <2>5. shown \in Runs /\ h \in Seq(Results)
    BY DEF TypeOK
  <2>6. /\ \A o \in Outcomes : summary[o] = Count(h, o)
        /\ \A f \in TestFunctions : OfTest(h, f) # {} => status[f] = StatusOf(Latest(h, f))
    BY <2>4 DEF SummaryAgrees
  <2>7. handled'[shown] = h \o rs
    <3>1. CASE r = shown
      BY <2>4, <3>1
    <3>2. CASE r # shown
      <4>1. rs = <<>> /\ handled'[shown] = h
        BY <2>4, <2>5, <3>2
      <4> HIDE DEF h
      <4>2. h \o <<>> = h
        BY <2>5, ConcatEmptySeq
      <4> QED
        BY <4>1, <4>2
    <3> QED
      BY <3>1, <3>2
  <2> HIDE DEF h
  <2>8. ASSUME NEW o \in Outcomes
        PROVE  summary'[o] = Count(h \o rs, o)
    <3>1. summary'[o] = Count(h, o) + Count(rs, o)
      BY <2>4, <2>6
    <3>2. Count(h \o rs, o) = Count(h, o) + Count(rs, o)
      BY <2>3, <2>5, CountConcat
    <3> QED
      BY <3>1, <3>2
  <2>9. ASSUME NEW f \in TestFunctions, OfTest(h \o rs, f) # {}
        PROVE  status'[f] = StatusOf(Latest(h \o rs, f))
    <3>1. status'[f] = IF OfTest(rs, f) = {} THEN status[f] ELSE StatusOf(Latest(rs, f))
      BY <2>4 DEF NewStatus
    <3>2. CASE OfTest(rs, f) # {}
      <4>1. Latest(h \o rs, f) = Latest(rs, f)
        BY <2>3, <2>5, <3>2, LatestConcat
      <4> QED
        BY <3>1, <3>2, <4>1
    <3>3. CASE OfTest(rs, f) = {}
      <4>1. OfTest(h, f) # {}
        BY <2>3, <2>5, <2>9, <3>3, LatestConcat
      <4>2. Latest(h \o rs, f) = Latest(h, f)
        BY <2>3, <2>5, <3>3, <4>1, LatestConcat
      <4> QED
        BY <2>6, <3>1, <3>3, <4>1, <4>2
    <3> QED
      BY <3>2, <3>3
  <2> QED
    BY <2>7, <2>8, <2>9
<1> QED
  BY <1>2, <1>3, <1>4, <1>5 DEF RunEvent

\* A run does not come to have ended, and the tree stays.
LEMMA RollUpFrame ==
    ASSUME RollUpAgrees, UNCHANGED <<tree, passed>>,
           \A q \in Runs : phase'[q] = "resolved" => phase[q] = "resolved"
    PROVE  RollUpAgrees'
  BY DEF RollUpAgrees

\* Every step keeps the tree in agreement with the functions.
LEMMA RollUpStep ==
    ASSUME TypeOK, Stages, RollUpAgrees, Next
    PROVE  RollUpAgrees'
<1>1. CASE Stop
  <2>1. UNCHANGED <<tree, passed, phase>>
    BY <1>1 DEF Stop
  <2> QED
    BY <2>1, RollUpFrame
<1> SUFFICES ASSUME NEW r \in Runs, RunTest(r) \/ ProcessEvent(r) \/ RunEvent(r) \/ ReadSocket(r)
             PROVE  RollUpAgrees'
  BY <1>1 DEF Next
<1>2. CASE RunTest(r) \/ Started(r) \/ RunFails(r) \/ XmlRunEnds(r)
  <2>1. UNCHANGED <<tree, passed>> /\ \A q \in Runs : phase'[q] = "resolved" => phase[q] = "resolved"
    BY <1>2 DEF RunTest, Started, RunFails, XmlRunEnds, Settle, TypeOK
  <2> QED
    BY <2>1, RollUpFrame
<1>3. CASE ProcessEvent(r) \/ ReadSocket(r)
  <2>1. UNCHANGED <<tree, passed, phase>>
    BY <1>3 DEF ProcessEvent, ProcessStarts, SendResult, ProcessEnds, ProcessDies, ReadSocket
  <2> QED
    BY <2>1, RollUpFrame
<1>4. CASE TargetEnds(r)
  <2>1. passed' = passed /\ passed \in [TestFunctions -> Verdicts]
    BY <1>4 DEF TargetEnds, TypeOK
  <2>2. CASE targets[r] # <<>>
    <3>1. UNCHANGED <<tree, phase>>
      BY <1>4, <2>2 DEF TargetEnds
    <3> QED
      BY <2>1, <3>1, RollUpFrame
  <2>3. CASE targets[r] = <<>>
    <3>1. tree' = UpdateResults(passed)
      BY <1>4, <2>3 DEF TargetEnds
    <3>2. TellsOfFunctions(tree', passed')
      BY <2>1, <3>1, UpdateResultsTells
    <3> QED
      BY <3>2 DEF RollUpAgrees
  <2> QED
    BY <2>2, <2>3
<1>5. CASE ReadXml(r)
  <2>1. UpdateFromXml(r)
    BY <1>5 DEF ReadXml
  <2>2. passed' \in [TestFunctions -> Verdicts] /\ tree' = UpdateResults(passed')
    BY <2>1 DEF UpdateFromXml, TypeOK, Verdicts
  <2>3. TellsOfFunctions(tree', passed')
    BY <2>2, UpdateResultsTells
  <2> QED
    BY <2>3 DEF RollUpAgrees
<1>6. CASE ReadXmlFails(r)
  <2>1. /\ UNCHANGED <<tree, passed>>
        /\ \A q \in Runs : phase'[q] = "resolved" => phase[q] = "resolved"
    BY <1>6 DEF ReadXmlFails, Settle, TypeOK
  <2> QED
    BY <2>1, RollUpFrame
<1> QED
  BY <1>2, <1>3, <1>4, <1>5, <1>6 DEF RunEvent

\* The types, how far the runs are, the streams, and what is shown and rolled up.
IndInvariant ==
    /\ TypeOK /\ Stages
    /\ ResultsConserved /\ FramedStreams
    /\ SummaryAgrees /\ RollUpAgrees

\* The initial states satisfy the inductive invariant.
LEMMA InitInd == Init => IndInvariant
<1> SUFFICES ASSUME Init
             PROVE  IndInvariant
  OBVIOUS
<1>1. TypeOK
  BY InitType
<1>2. Stages
  BY DEF Init, Stages
<1>3. <<>> \o <<>> = <<>> /\ <<>> \in Seq(Tokens) /\ Len(<<>>) = 0
  BY EmptySeq, ConcatEmptySeq
<1>4. ~HasMessage(<<>>)
  <2>1. StartIndex(<<>>) = 0
    <3>1. StartIndex(<<>>) \notin 1 .. Len(<<>>)
      BY <1>3
    <3> QED
      BY <1>3, <3>1, StartProperties
  <2> QED
    BY <2>1 DEF HasMessage
<1>5. Framed(<<>>)
  BY <1>3 DEF Framed
<1>6. ResultsConserved /\ FramedStreams
  BY <1>3, <1>4, <1>5, WaitingNone DEF Init, ResultsConserved, FramedStreams
<1>7. SummaryAgrees /\ RollUpAgrees
  BY DEF Init, SummaryAgrees, RollUpAgrees
<1> QED
  BY <1>1, <1>2, <1>6, <1>7 DEF IndInvariant

\* It says nothing of anything else.
LEMMA StutterInd ==
    ASSUME IndInvariant, UNCHANGED vars
    PROVE  IndInvariant'
<1>1. UNCHANGED <<framework, failFast, status, passed, tree, summary, phase, targets, launcher, todo,
                  pipe, buffer, xml, runnerToken, stopped, reported, handled, shown, mixed>>
  BY DEF vars
<1>2. TypeOK'
  BY <1>1 DEF IndInvariant, TypeOK
<1>3. Stages' /\ ResultsConserved' /\ FramedStreams'
  BY <1>1 DEF IndInvariant, Stages, ResultsConserved, FramedStreams
<1>4. SummaryAgrees' /\ RollUpAgrees'
  BY <1>1 DEF IndInvariant, SummaryAgrees, RollUpAgrees
<1> QED
  BY <1>2, <1>3, <1>4 DEF IndInvariant

\* It is inductive.
LEMMA Invariance == Spec => []IndInvariant
<1>1. IndInvariant /\ [Next]_vars => IndInvariant'
  <2> SUFFICES ASSUME IndInvariant, [Next]_vars
               PROVE  IndInvariant'
    OBVIOUS
  <2>1. CASE Next
    BY <2>1, TypeStep, StagesStep, StreamStep, SummaryStep, RollUpStep DEF IndInvariant
  <2>2. CASE UNCHANGED vars
    BY <2>2, StutterInd
  <2> QED
    BY <2>1, <2>2
<1> QED
  BY InitInd, <1>1, PTL DEF Spec

\* No result of a run is lost, doubled, garbled or out of order on its way through the
\* socket, however TCP cuts it and whichever launcher is killed in the middle of one.
THEOREM RunsConserveResults == Spec => []RunInvariant
<1>1. IndInvariant => RunInvariant
  BY DEF IndInvariant, RunInvariant
<1> QED
  BY Invariance, <1>1, PTL

\* The status bar and the code lenses agree with the results that the run was given.
THEOREM SummariesAgree == Spec => []SummaryAgrees
<1>1. IndInvariant => SummaryAgrees
  BY DEF IndInvariant
<1> QED
  BY Invariance, <1>1, PTL

\* Classes, files and folders agree with the functions below them once a run ended.
THEOREM RollUpsAgree == Spec => []RollUpAgrees
<1>1. IndInvariant => RollUpAgrees
  BY DEF IndInvariant
<1> QED
  BY Invariance, <1>1, PTL
=============================================================================
