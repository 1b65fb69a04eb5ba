---------------------------- MODULE ReportsProofs -----------------------------
(***************************************************************************)
(* Proofs about what is shown and told of a project's checks, for any      *)
(* number of runs, people, notifications, projects and stacks: the score   *)
(* of a commit (CheckRuns), the branch heads and the notifications of a    *)
(* failure (Notifications), and the stack maps (Topology).                 *)
(***************************************************************************)
EXTENDS CheckRuns, Notifications, Topology, FiniteSetTheorems, SequenceTheorems, WellFoundedInduction, TLAPS

TypeOK == expected \subseteq Standards /\ runs \in Seq(Run)

LEMMA TypeStep == TypeOK /\ [Next]_vars => TypeOK'
<1>. SUFFICES ASSUME TypeOK, [Next]_vars PROVE TypeOK'
  OBVIOUS
<1>1. CASE AddRun
  <2>1. PICK run \in Run : runs' = <<run>> \o runs
    BY <1>1 DEF AddRun
  <2>2. <<run>> \in Seq(Run) /\ runs \in Seq(Run)
    BY DEF TypeOK
  <2>3. runs' \in Seq(Run)
    BY <2>1, <2>2, ConcatProperties
  <2>. QED
    BY <1>1, <2>3 DEF AddRun, TypeOK
<1>2. CASE UNCHANGED vars
  BY <1>2 DEF TypeOK, vars
<1>. QED
  BY <1>1, <1>2 DEF Next, Full

LEMMA TypeCorrect == Spec => []TypeOK
<1>1. Init => TypeOK
  BY DEF Init, TypeOK
<1>. QED
  BY <1>1, TypeStep, PTL DEF Spec

\* The runs that were there move one place down, and the new one hides those of
\* its standard if it is finished.
LEMMA NewestOfLonger ==
  ASSUME NEW S, NEW old \in Seq(S), NEW run \in S, NEW exp,
         NEW i \in DOMAIN old
  PROVE  /\ i + 1 \in DOMAIN (<<run>> \o old) /\ (<<run>> \o old)[i + 1] = old[i]
         /\ i + 1 \in NewestFinished(<<run>> \o old, exp) <=>
              /\ i \in NewestFinished(old, exp)
              /\ run.standard = old[i].standard => run.status \notin Finished
<1>. DEFINE new == <<run>> \o old
<1>1. /\ Len(new) = Len(old) + 1 /\ new[1] = run /\ DOMAIN new = 1..(Len(old) + 1)
      /\ DOMAIN old = 1..Len(old)
      /\ \A k \in 1..Len(old) : new[k + 1] = old[k]
  OBVIOUS
<1>. HIDE DEF new
<1>2. ASSUME \A k \in 1..i : new[k].standard = old[i].standard => new[k].status \notin Finished
      PROVE  /\ \A k \in 1..(i - 1) : old[k].standard = old[i].standard => old[k].status \notin Finished
             /\ run.standard = old[i].standard => run.status \notin Finished
  <2>1. ASSUME NEW k \in 1..(i - 1) PROVE k + 1 \in 1..i /\ new[k + 1] = old[k]
    BY <1>1
  <2>2. 1 \in 1..i
    BY <1>1
  <2>. QED
    BY <1>1, <1>2, <2>1, <2>2
<1>3. ASSUME \A k \in 1..(i - 1) : old[k].standard = old[i].standard => old[k].status \notin Finished,
             run.standard = old[i].standard => run.status \notin Finished,
             NEW k \in 1..i
      PROVE  new[k].standard = old[i].standard => new[k].status \notin Finished
  <2>1. CASE k = 1
    BY <1>1, <1>3, <2>1
  <2>2. CASE k # 1
    <3>1. k - 1 \in 1..(i - 1) /\ k - 1 \in 1..Len(old) /\ (k - 1) + 1 = k
      BY <1>1, <2>2
    <3>2. new[k] = old[k - 1]
      BY <1>1, <3>1
    <3>. QED
      BY <1>3, <3>1, <3>2
  <2>. QED
    BY <2>1, <2>2
<1>4. i + 1 \in DOMAIN new /\ new[i + 1] = old[i] /\ (i + 1) - 1 = i
  BY <1>1
<1>5. i + 1 \in NewestFinished(new, exp) <=>
        /\ i \in NewestFinished(old, exp)
        /\ run.standard = old[i].standard => run.status \notin Finished
  BY <1>1, <1>2, <1>3, <1>4 DEF NewestFinished
<1>. QED
  BY <1>4, <1>5 DEF new

\* The new run counts exactly when it is finished and expected.
LEMMA FirstOfLonger ==
  ASSUME NEW S, NEW old \in Seq(S), NEW run \in S, NEW exp
  PROVE  /\ (<<run>> \o old)[1] = run
         /\ 1 \in NewestFinished(<<run>> \o old, exp) <=>
              run.status \in Finished /\ run.standard \in exp
<1>. DEFINE new == <<run>> \o old
<1>1. new[1] = run /\ 1 \in DOMAIN new /\ 1..(1 - 1) = {}
  OBVIOUS
<1>. QED
  BY <1>1 DEF NewestFinished

LEMMA PickedOfLonger ==
  ASSUME NEW S, NEW old \in Seq(S), NEW run \in S, NEW exp
  PROVE  Picked(<<run>> \o old, exp) =
           IF run.status \in Finished /\ run.standard \in exp
           THEN {r \in Picked(old, exp) : r.standard # run.standard} \cup {run}
           ELSE Picked(old, exp)
<1>. DEFINE new == <<run>> \o old
            counts == run.status \in Finished /\ run.standard \in exp
<1>1. /\ DOMAIN new = 1..(Len(old) + 1) /\ DOMAIN old = 1..Len(old) /\ Len(old) \in Nat
  OBVIOUS
<1>2. NewestFinished(new, exp) \subseteq DOMAIN new /\ NewestFinished(old, exp) \subseteq DOMAIN old
  BY DEF NewestFinished
<1>3. ASSUME NEW r \in Picked(new, exp)
      PROVE  (counts /\ r = run) \/ (r \in Picked(old, exp) /\ ~(counts /\ r.standard = run.standard))
  <2>1. PICK i \in NewestFinished(new, exp) : r = new[i]
    BY DEF Picked
  <2>2. CASE i = 1
    BY <2>1, <2>2, FirstOfLonger
  <2>3. CASE i # 1
    <3>1. i - 1 \in DOMAIN old /\ (i - 1) + 1 = i
      BY <1>1, <1>2, <2>3
    <3>2. /\ r = old[i - 1] /\ i - 1 \in NewestFinished(old, exp)
          /\ run.standard = old[i - 1].standard => run.status \notin Finished
      BY <2>1, <3>1, NewestOfLonger
    <3>. QED
      BY <3>2 DEF Picked
  <2>. QED
    BY <2>2, <2>3
<1>4. ASSUME counts PROVE run \in Picked(new, exp)
  BY <1>4, FirstOfLonger DEF Picked
<1>5. ASSUME NEW r \in Picked(old, exp), ~(counts /\ r.standard = run.standard)
      PROVE  r \in Picked(new, exp)
  <2>1. PICK i \in NewestFinished(old, exp) : r = old[i]
    BY DEF Picked
  <2>2. i \in DOMAIN old /\ old[i].standard \in exp
    BY <2>1 DEF NewestFinished
  <2>3. run.standard = old[i].standard => run.status \notin Finished
    BY <1>5, <2>1, <2>2
  <2>4. i + 1 \in NewestFinished(new, exp) /\ new[i + 1] = old[i]
    BY <2>1, <2>2, <2>3, NewestOfLonger
  <2>. QED
    BY <2>1, <2>4 DEF Picked
<1>. QED
  BY <1>3, <1>4, <1>5

\* A standard run again on the commit replaces its earlier result and nothing
\* else, however long the history of the check is.
THEOREM RerunReplacesItsStandardHolds == Spec => RerunReplacesItsStandard
<1>1. ASSUME TypeOK, [Next]_vars, runs' # runs
      PROVE  LET run == Head(runs') IN
             Now' = IF run.status \in Finished /\ run.standard \in expected
                    THEN {r \in Now : r.standard # run.standard} \cup {run}
                    ELSE Now
  <2>1. PICK run \in Run : runs' = <<run>> \o runs /\ expected' = expected
    BY <1>1 DEF Next, AddRun, Full, vars
  <2>2. runs \in Seq(Run)
    BY <1>1 DEF TypeOK
  <2>3. Head(runs') = run
    BY <2>1, <2>2
  <2>4. Now' = Picked(<<run>> \o runs, expected)
    BY <2>1 DEF Now
  <2>5. Picked(<<run>> \o runs, expected) =
          IF run.status \in Finished /\ run.standard \in expected
          THEN {r \in Now : r.standard # run.standard} \cup {run}
          ELSE Now
    BY <2>2, PickedOfLonger DEF Now
  <2>. QED
    BY <2>3, <2>4, <2>5
<1>2. TypeOK /\ [Next]_vars =>
        [LET run == Head(runs') IN
         Now' = IF run.status \in Finished /\ run.standard \in expected
                THEN {r \in Now : r.standard # run.standard} \cup {run}
                ELSE Now]_runs
  BY <1>1
<1>. QED
  BY <1>2, TypeCorrect, PTL DEF Spec, RerunReplacesItsStandard
-----------------------------------------------------------------------------
\* Whatever the sum of the weighted scores and the total weight, the score is a
\* nearest integer to their quotient.
THEOREM RoundHalfEvenIsNearest ==
  ASSUME NEW sum \in Nat, NEW total \in Nat \ {0}
  PROVE  /\ RoundHalfEven(sum, total) \in Nat
         /\ 2 * (RoundHalfEven(sum, total) * total - sum) <= total
         /\ 2 * (sum - RoundHalfEven(sum, total) * total) <= total
<1>. DEFINE q == sum \div total
            m == sum % total
<1>1. q \in Nat /\ m \in Nat /\ m < total /\ sum = q * total + m
  OBVIOUS
<1>2. (q + 1) * total = q * total + total /\ q * total \in Nat
  BY <1>1
<1>3. RoundHalfEven(sum, total) = q \/ RoundHalfEven(sum, total) = q + 1
  BY DEF RoundHalfEven
<1>4. RoundHalfEven(sum, total) = q => 2 * m <= total
  BY <1>1 DEF RoundHalfEven
<1>5. RoundHalfEven(sum, total) = q + 1 => 2 * m >= total
  BY <1>1 DEF RoundHalfEven
<1>. HIDE DEF q, m
<1>. QED
  BY <1>1, <1>2, <1>3, <1>4, <1>5

-----------------------------------------------------------------------------
(* Least and greatest elements, and sums over finite sets. *)

LEMMA LeastNatural ==
  ASSUME NEW S \in SUBSET Nat, S # {}
  PROVE  \E m \in S : \A k \in S : m <= k
<1>1. PICK m \in S : \A y \in S : ~ (<<y, m>> \in OpToRel(<, Nat))
  BY NatLessThanWellFounded, WFMin
<1>2. \A y \in S : ~ (y < m)
  BY <1>1 DEF OpToRel
<1> QED
  BY <1>2

LEMMA GreatestBelow ==
  ASSUME NEW n \in Nat, NEW S \in SUBSET (0 .. n), S # {}
  PROVE  \E m \in S : \A k \in S : k <= m
<1>1. PICK d \in {n - k : k \in S} : \A e \in {n - k : k \in S} : d <= e
  <2>1. \A k \in S : n - k \in Nat
    OBVIOUS
  <2>2. {n - k : k \in S} \in SUBSET Nat /\ {n - k : k \in S} # {}
    BY <2>1
  <2> QED
    BY <2>2, LeastNatural
<1>2. PICK m \in S : d = n - m
  BY <1>1
<1>3. ASSUME NEW k \in S PROVE k <= m
  <2>1. n - m <= n - k
    BY <1>1, <1>2
  <2> QED
    BY <2>1
<1> QED
  BY <1>3

OneOf(T) == CHOOSE r \in T : TRUE

\* sum is the sum of w over each subset of S, taken one chosen element at a
\* time as SumOver does.
Sums(w, S, sum) ==
  sum = [T \in SUBSET S |-> IF T = {} THEN 0 ELSE w[OneOf(T)] + sum[T \ {OneOf(T)}]]

\* The same up to subsets of n elements.
SumsUpTo(w, S, n, g) ==
  \A T \in SUBSET S : Cardinality(T) <= n =>
    g[T] = IF T = {} THEN 0 ELSE w[OneOf(T)] + g[T \ {OneOf(T)}]

LEMMA OneOfIsIn == ASSUME NEW T, T # {} PROVE OneOf(T) \in T
BY DEF OneOf

\* Without the element chosen a subset has one element less.
LEMMA OneFewer ==
  ASSUME NEW S, IsFiniteSet(S), NEW T \in SUBSET S, NEW x \in T
  PROVE  /\ Cardinality(T) \in Nat /\ Cardinality(T \ {x}) \in Nat
         /\ Cardinality(T \ {x}) = Cardinality(T) - 1
         /\ T \ {x} \in SUBSET S
<1>1. IsFiniteSet(T)
  BY FS_Subset
<1>. QED
  BY <1>1, FS_RemoveElement, FS_CardinalityType

\* Of some subsets of a finite set, one has no more elements than the others.
LEMMA SmallestSubset ==
  ASSUME NEW S, IsFiniteSet(S), NEW B \in SUBSET SUBSET S, B # {}
  PROVE  \E T \in B : \A U \in B : Cardinality(T) <= Cardinality(U)
<1>. DEFINE Sizes == {Cardinality(T) : T \in B}
<1>1. \A T \in SUBSET S : Cardinality(T) \in Nat
  BY FS_Subset, FS_CardinalityType
<1>2. Sizes \in SUBSET Nat /\ Sizes # {}
  BY <1>1
<1>3. PICK n \in Sizes : \A k \in Sizes : n <= k
  <2>. HIDE DEF Sizes
  <2>. QED
    BY <1>2, LeastNatural
<1>. QED
  BY <1>3

\* The sums exist up to every size.
LEMMA SumsExistUpTo ==
  ASSUME NEW S, IsFiniteSet(S), NEW w \in [S -> Nat], NEW n \in Nat
  PROVE  \E g \in [SUBSET S -> Nat] : SumsUpTo(w, S, n, g)
<1>. DEFINE Step(g, T) == IF T = {} THEN 0 ELSE w[OneOf(T)] + g[T \ {OneOf(T)}]
            Upto(k) == \E g \in [SUBSET S -> Nat] : SumsUpTo(w, S, k, g)
            Bad == {k \in Nat : ~Upto(k)}
<1>1. SUFFICES ASSUME Bad # {} PROVE FALSE
  <2>1. Bad = {} => Upto(n)
    BY Zenon
  <2>. QED
    BY <2>1
<1>2. PICK m \in Bad : \A k \in Bad : m <= k
  <2>1. Bad \subseteq Nat
    OBVIOUS
  <2>. HIDE DEF Bad
  <2>. QED
    BY <1>1, <2>1, LeastNatural
<1>3. \A T \in SUBSET S : Cardinality(T) \in Nat /\ (Cardinality(T) = 0 <=> T = {})
  BY FS_Subset, FS_CardinalityType, FS_EmptySet
<1>4. ASSUME NEW g \in [SUBSET S -> Nat], NEW T \in SUBSET S PROVE Step(g, T) \in Nat
  <2>1. CASE T = {}
    BY <2>1
  <2>2. CASE T # {}
    <3>1. OneOf(T) \in T /\ T \ {OneOf(T)} \in SUBSET S
      BY <2>2, OneOfIsIn
    <3>2. w[OneOf(T)] \in Nat /\ g[T \ {OneOf(T)}] \in Nat
      BY <3>1
    <3>. QED
      BY <2>2, <3>2
  <2>. QED
    BY <2>1, <2>2
<1>5. CASE m = 0
  <2>1. PICK g : g = [T \in SUBSET S |-> 0]
    OBVIOUS
  <2>2. g \in [SUBSET S -> Nat]
    BY <2>1
  <2>3. ASSUME NEW T \in SUBSET S, Cardinality(T) <= m PROVE g[T] = Step(g, T)
    <3>1. T = {}
      BY <1>3, <1>5, <2>3
    <3>. QED
      BY <2>1, <3>1
  <2>4. SumsUpTo(w, S, m, g)
    BY <2>3 DEF SumsUpTo
  <2>. QED
    BY <1>2, <2>2, <2>4
<1>6. CASE m # 0
  <2>1. m \in Nat /\ m - 1 \in Nat /\ m - 1 < m
    BY <1>2, <1>6
  <2>2. Upto(m - 1)
    <3>1. m - 1 \notin Bad
      <4>. HIDE DEF Bad
      <4>. QED
        BY <1>2, <2>1
    <3>. HIDE DEF Upto
    <3>. QED
      BY <2>1, <3>1
  <2>3. PICK g \in [SUBSET S -> Nat] :
          \A T \in SUBSET S : Cardinality(T) <= m - 1 => g[T] = Step(g, T)
    BY <2>2 DEF SumsUpTo
  <2>4. PICK h : h = [T \in SUBSET S |-> Step(g, T)]
    OBVIOUS
  <2>5. h \in [SUBSET S -> Nat]
    BY <1>4, <2>4
  <2>6. ASSUME NEW T \in SUBSET S, Cardinality(T) <= m PROVE h[T] = Step(h, T)
    <3>1. CASE T = {}
      BY <2>4, <3>1
    <3>2. CASE T # {}
      <4>1. OneOf(T) \in T
        BY <3>2, OneOfIsIn
      <4>2. PICK R \in SUBSET S : R = T \ {OneOf(T)}
        OBVIOUS
      <4>3. Cardinality(R) <= m - 1
        <5>1. Cardinality(T) \in Nat /\ Cardinality(R) = Cardinality(T) - 1
          BY <4>1, <4>2, OneFewer
        <5>. QED
          BY <2>1, <2>6, <5>1
      <4>4. g[R] = Step(g, R) /\ h[R] = Step(g, R)
        BY <2>3, <2>4, <4>3
      <4>5. h[T] = w[OneOf(T)] + g[R]
        BY <2>4, <3>2, <4>2
      <4>. QED
        BY <3>2, <4>2, <4>4, <4>5
    <3>. QED
      BY <3>1, <3>2
  <2>7. SumsUpTo(w, S, m, h)
    BY <2>6 DEF SumsUpTo
  <2>. QED
    BY <1>2, <2>5, <2>7
<1>. QED
  BY <1>5, <1>6

LEMMA SumsExist ==
  ASSUME NEW S, IsFiniteSet(S), NEW w \in [S -> Nat]
  PROVE  \E g \in [SUBSET S -> Nat] : Sums(w, S, g)
<1>1. Cardinality(S) \in Nat /\ \A T \in SUBSET S : Cardinality(T) <= Cardinality(S)
  BY FS_Subset, FS_CardinalityType
<1>2. PICK n \in Nat : n = Cardinality(S)
  BY <1>1
<1>3. PICK g \in [SUBSET S -> Nat] : SumsUpTo(w, S, n, g)
  BY SumsExistUpTo
<1>4. g = [T \in SUBSET S |-> IF T = {} THEN 0 ELSE w[OneOf(T)] + g[T \ {OneOf(T)}]]
  BY <1>1, <1>2, <1>3 DEF SumsUpTo
<1>. QED
  BY <1>4 DEF Sums

\* The only solution there is: two of them agree on every subset.
LEMMA SumsAgree ==
  ASSUME NEW S, IsFiniteSet(S), NEW w \in [S -> Nat],
         NEW g, Sums(w, S, g), NEW h, Sums(w, S, h)
  PROVE  g = h
<1>. DEFINE B == {T \in SUBSET S : g[T] # h[T]}
<1>1. ASSUME B # {} PROVE FALSE
  <2>1. PICK T \in B : \A U \in B : Cardinality(T) <= Cardinality(U)
    <3>1. B \in SUBSET SUBSET S
      OBVIOUS
    <3>. HIDE DEF B
    <3>. QED
      BY <1>1, <3>1, SmallestSubset
  <2>2. T # {}
    BY DEF Sums
  <2>3. PICK R : R = T \ {OneOf(T)}
    OBVIOUS
  <2>4. R \in SUBSET S /\ ~(Cardinality(T) <= Cardinality(R))
    BY <2>2, <2>3, OneOfIsIn, OneFewer
  <2>5. g[T] = w[OneOf(T)] + g[R] /\ h[T] = w[OneOf(T)] + h[R]
    BY <2>2, <2>3 DEF Sums
  <2>. QED
    BY <2>1, <2>4, <2>5
<1>2. \A T \in SUBSET S : g[T] = h[T]
  BY <1>1
<1>3. g = [T \in SUBSET S |-> g[T]] /\ h = [T \in SUBSET S |-> h[T]]
  BY DEF Sums
<1>. QED
  BY <1>2, <1>3

\* g gives the sums of natural parts w of a finite set.
NaturalSums(w, S, g) ==
  IsFiniteSet(S) /\ w \in [S -> Nat] /\ g \in [SUBSET S -> Nat] /\ Sums(w, S, g)

\* Whichever element is taken first, the sum is the same.
LEMMA SumOfOneMore ==
  ASSUME NEW S, NEW w, NEW g, NaturalSums(w, S, g)
  PROVE  \A T \in SUBSET S : \A x \in T : g[T] = w[x] + g[T \ {x}]
<1>0. IsFiniteSet(S) /\ w \in [S -> Nat] /\ g \in [SUBSET S -> Nat] /\ Sums(w, S, g)
  BY DEF NaturalSums
<1>. DEFINE B == {T \in SUBSET S : \E x \in T : g[T] # w[x] + g[T \ {x}]}
<1>1. ASSUME B # {} PROVE FALSE
  <2>1. PICK T \in B : \A U \in B : Cardinality(T) <= Cardinality(U)
    <3>1. B \in SUBSET SUBSET S
      OBVIOUS
    <3>. HIDE DEF B
    <3>. QED
      BY <1>0, <1>1, <3>1, SmallestSubset
  <2>2. PICK x \in T : g[T] # w[x] + g[T \ {x}]
    OBVIOUS
  <2>3. PICK c \in T : c = OneOf(T)
    BY OneOfIsIn
  <2>4. PICK R \in SUBSET S, Q \in SUBSET S, P \in SUBSET S :
          R = T \ {c} /\ Q = T \ {x} /\ P = T \ {c, x}
    OBVIOUS
  <2>5. g[T] = w[c] + g[R]
    BY <1>0, <2>3, <2>4 DEF Sums
  <2>6. c # x
    BY <2>2, <2>4, <2>5
  <2>7. ~(Cardinality(T) <= Cardinality(R)) /\ ~(Cardinality(T) <= Cardinality(Q))
    BY <1>0, <2>4, OneFewer
  <2>8. g[R] = w[x] + g[P]
    <3>1. x \in R /\ R \ {x} = P /\ R \notin B
      BY <2>1, <2>4, <2>6, <2>7
    <3>. QED
      BY <3>1
  <2>9. g[Q] = w[c] + g[P]
    <3>1. c \in Q /\ Q \ {c} = P /\ Q \notin B
      BY <2>1, <2>4, <2>6, <2>7
    <3>. QED
      BY <3>1
  <2>10. w[c] \in Nat /\ w[x] \in Nat /\ g[P] \in Nat
    BY <1>0
  <2>. QED
    BY <2>2, <2>4, <2>5, <2>8, <2>9, <2>10
<1>. QED
  BY <1>1

\* What the score divides and what it divides by, as CommitScoring and the
\* property write them, are such sums.
LEMMA PointsAreSums ==
  ASSUME NEW S, IsFiniteSet(S), NEW w \in [S -> Nat], \A r \in S : w[r] = Points(r),
         NEW g, Sums(w, S, g)
  PROVE  WeightedSum(S) = g[S] /\ MapThenSumSet(Points, S) = g[S]
<1>. DEFINE By(f) == f = [T \in SUBSET S |-> IF T = {} THEN 0
                          ELSE LET r == CHOOSE r \in T : TRUE IN Points(r) + f[T \ {r}]]
<1>1. \A T \in SUBSET S : T # {} => OneOf(T) \in S
  BY OneOfIsIn
<1>2. ASSUME NEW f PROVE By(f) <=> Sums(w, S, f)
  <2>1. PICK a : a = [T \in SUBSET S |-> IF T = {} THEN 0 ELSE Points(OneOf(T)) + f[T \ {OneOf(T)}]]
    OBVIOUS
  <2>2. PICK b : b = [T \in SUBSET S |-> IF T = {} THEN 0 ELSE w[OneOf(T)] + f[T \ {OneOf(T)}]]
    OBVIOUS
  <2>3. \A T \in SUBSET S : a[T] = b[T]
    BY <1>1, <2>1, <2>2
  <2>4. a = b
    BY <2>1, <2>2, <2>3
  <2>5. Sums(w, S, f) <=> f = b
    BY <2>2 DEF Sums
  <2>6. By(f) <=> f = a
    BY <2>1 DEF OneOf
  <2>. QED
    BY <2>4, <2>5, <2>6
<1>3. By(CHOOSE f : By(f))
  <2>1. By(g)
    BY <1>2
  <2>. HIDE DEF By
  <2>. QED
    BY <2>1
<1>4. (CHOOSE f : By(f)) = g
  <2>. HIDE DEF By
  <2>. QED
    BY <1>2, <1>3, SumsAgree
<1>5. MapThenSumSet(Points, S) = (CHOOSE f : By(f))[S]
  BY DEF MapThenSumSet, MapThenFoldSet
<1>6. WeightedSum(S) = (CHOOSE f : By(f))[S]
  BY DEF WeightedSum, SumOver, Weight, Points
<1>. QED
  BY <1>4, <1>5, <1>6

LEMMA SharesAreSums ==
  ASSUME NEW S, IsFiniteSet(S), NEW w \in [S -> Nat], \A r \in S : w[r] = Shares(r),
         NEW g, Sums(w, S, g)
  PROVE  TotalWeight(S) = g[S] /\ MapThenSumSet(Shares, S) = g[S]
<1>. DEFINE By(f) == f = [T \in SUBSET S |-> IF T = {} THEN 0
                          ELSE LET r == CHOOSE r \in T : TRUE IN Shares(r) + f[T \ {r}]]
<1>1. \A T \in SUBSET S : T # {} => OneOf(T) \in S
  BY OneOfIsIn
<1>2. ASSUME NEW f PROVE By(f) <=> Sums(w, S, f)
  <2>1. PICK a : a = [T \in SUBSET S |-> IF T = {} THEN 0 ELSE Shares(OneOf(T)) + f[T \ {OneOf(T)}]]
    OBVIOUS
  <2>2. PICK b : b = [T \in SUBSET S |-> IF T = {} THEN 0 ELSE w[OneOf(T)] + f[T \ {OneOf(T)}]]
    OBVIOUS
  <2>3. \A T \in SUBSET S : a[T] = b[T]
    BY <1>1, <2>1, <2>2
  <2>4. a = b
    BY <2>1, <2>2, <2>3
  <2>5. Sums(w, S, f) <=> f = b
    BY <2>2 DEF Sums
  <2>6. By(f) <=> f = a
    BY <2>1 DEF OneOf
  <2>. QED
    BY <2>4, <2>5, <2>6
<1>3. By(CHOOSE f : By(f))
  <2>1. By(g)
    BY <1>2
  <2>. HIDE DEF By
  <2>. QED
    BY <2>1
<1>4. (CHOOSE f : By(f)) = g
  <2>. HIDE DEF By
  <2>. QED
    BY <1>2, <1>3, SumsAgree
<1>5. MapThenSumSet(Shares, S) = (CHOOSE f : By(f))[S]
  BY DEF MapThenSumSet, MapThenFoldSet
<1>6. TotalWeight(S) = (CHOOSE f : By(f))[S]
  BY DEF TotalWeight, SumOver, Weight, Shares
<1>. QED
  BY <1>4, <1>5, <1>6

\* b is between low and high times a, and a is positive.
Between(a, b, low, high) == a >= 1 /\ low * a <= b /\ b <= high * a

\* A bound kept by each element's part is kept by the sums, whatever the
\* weights: times low from below, times high from above.
LEMMA SumsAreBounded ==
  ASSUME NEW S, NEW low \in Nat, NEW high \in Nat,
         NEW w, NEW g, NaturalSums(w, S, g), NEW p, NEW h, NaturalSums(p, S, h),
         \A r \in S : Between(w[r], p[r], low, high)
  PROVE  \A T \in SUBSET S : T # {} => Between(g[T], h[T], low, high)
<1>0. /\ w \in [S -> Nat] /\ p \in [S -> Nat] /\ IsFiniteSet(S)
      /\ g \in [SUBSET S -> Nat] /\ h \in [SUBSET S -> Nat] /\ Sums(w, S, g) /\ Sums(p, S, h)
  BY DEF NaturalSums
<1>. DEFINE B == {T \in SUBSET S : T # {} /\ ~Between(g[T], h[T], low, high)}
<1>1. ASSUME B # {} PROVE FALSE
  <2>1. PICK T \in B : \A U \in B : Cardinality(T) <= Cardinality(U)
    <3>1. B \in SUBSET SUBSET S
      OBVIOUS
    <3>. HIDE DEF B
    <3>. QED
      BY <1>1, <3>1, <1>0, SmallestSubset
  <2>2. PICK c \in T, R \in SUBSET S : c = OneOf(T) /\ R = T \ {c}
    BY OneOfIsIn
  <2>3. g[T] = w[c] + g[R] /\ h[T] = p[c] + h[R]
    BY <1>0, <2>2 DEF Sums
  <2>4. PICK a \in Nat, b \in Nat, x \in Nat, y \in Nat :
          a = w[c] /\ b = g[R] /\ x = p[c] /\ y = h[R]
    BY <1>0
  <2>5. a >= 1 /\ low * a <= x /\ x <= high * a
    BY <2>4 DEF Between
  <2>6. low * b <= y /\ y <= high * b
    <3>1. CASE R = {}
      BY <1>0, <2>4, <3>1 DEF Sums
    <3>2. CASE R # {}
      <4>1. R \notin B
        BY SMTT(30), <1>0, <2>1, <2>2, OneFewer
      <4>. QED
        BY <2>4, <3>2, <4>1 DEF Between
    <3>. QED
      BY <3>1, <3>2
  <2>7. low * (a + b) = low * a + low * b /\ high * (a + b) = high * a + high * b
    OBVIOUS
  <2>8. low * (a + b) <= x + y /\ x + y <= high * (a + b)
    <3>1. low * a \in Nat /\ low * b \in Nat /\ high * a \in Nat /\ high * b \in Nat
      OBVIOUS
    <3>. QED
      BY <2>5, <2>6, <2>7, <3>1
  <2>9. Between(g[T], h[T], low, high)
    <3>1. a + b >= 1
      BY <2>5
    <3>. QED
      BY <2>3, <2>4, <2>8, <3>1 DEF Between
  <2>. QED
    BY <2>9
<1>. QED
  BY <1>1

\* The nearest integer to a mean lies where the mean does.
LEMMA NearestIsBounded ==
  ASSUME NEW sum \in Nat, NEW total \in Nat \ {0}, NEW low \in Nat, NEW high \in Nat,
         low * total <= sum, sum <= high * total
  PROVE  low <= RoundHalfEven(sum, total) /\ RoundHalfEven(sum, total) <= high
<1>1. PICK q \in Nat, m \in Nat :
        q = sum \div total /\ m = sum % total /\ m < total /\ sum = q * total + m
  OBVIOUS
<1>2. RoundHalfEven(sum, total) \in {q, q + 1} /\ (m = 0 => RoundHalfEven(sum, total) = q)
  BY <1>1 DEF RoundHalfEven
<1>3. (q + 1) * total = q * total + total
  BY <1>1
<1>4. low <= q
  <2>1. SUFFICES ASSUME q + 1 <= low PROVE FALSE
    OBVIOUS
  <2>2. (q + 1) * total <= low * total
    BY <2>1
  <2>. QED
    BY <1>1, <1>3, <2>2
<1>5. q <= high
  <2>1. SUFFICES ASSUME high + 1 <= q PROVE FALSE
    OBVIOUS
  <2>2. (high + 1) * total <= q * total /\ (high + 1) * total = high * total + total
    BY <2>1
  <2>. QED
    BY <1>1, <2>2
<1>6. q = high => m = 0
  BY <1>1
<1>. QED
  BY <1>2, <1>4, <1>5, <1>6

\* The score of some runs, however many they are.
LEMMA ScoreOfRuns ==
  ASSUME NEW S \in SUBSET Run, IsFiniteSet(S), S # {}
  PROVE  LET total == MapThenSumSet(Shares, S)
             sum == MapThenSumSet(Points, S)
             value == Average(S)
         IN /\ 2 * Distance(value * total, sum) <= total
            /\ \E r \in S : r.score <= value
            /\ \E r \in S : r.score >= value
<1>1. \A r \in S : r.score \in 0..100 /\ Shares(r) \in {1, 2} /\ Points(r) = r.score * Shares(r)
  BY ScoringAssumption DEF Run, Shares, Points
<1>2. PICK least \in S : \A r \in S : least.score <= r.score
  <2>1. PICK scores : scores = {r.score : r \in S}
    OBVIOUS
  <2>2. scores \in SUBSET Nat /\ scores # {}
    BY <1>1, <2>1
  <2>3. PICK low \in scores : \A k \in scores : low <= k
    BY <2>2, LeastNatural
  <2>. QED
    BY <2>1, <2>3
<1>3. PICK most \in S : \A r \in S : r.score <= most.score
  <2>1. PICK scores : scores = {r.score : r \in S}
    OBVIOUS
  <2>2. scores \in SUBSET (0 .. 100) /\ scores # {}
    BY <1>1, <2>1
  <2>3. PICK high \in scores : \A k \in scores : k <= high
    BY <2>2, GreatestBelow
  <2>. QED
    BY <2>1, <2>3
<1>4. PICK w : w = [r \in S |-> Shares(r)]
  OBVIOUS
<1>5. PICK p : p = [r \in S |-> Points(r)]
  OBVIOUS
<1>6. w \in [S -> Nat] /\ p \in [S -> Nat]
  <2>1. \A r \in S : Shares(r) \in Nat /\ Points(r) \in Nat
    BY <1>1
  <2>. QED
    BY <1>4, <1>5, <2>1
<1>7. PICK g \in [SUBSET S -> Nat] : Sums(w, S, g)
  BY <1>6, SumsExist
<1>8. PICK h \in [SUBSET S -> Nat] : Sums(p, S, h)
  BY <1>6, SumsExist
<1>9. PICK low \in Nat, high \in Nat : low = least.score /\ high = most.score
  <2>1. least.score \in Nat /\ most.score \in Nat
    BY ONLY <1>1, least \in S, most \in S
  <2>. QED
    BY ONLY <2>1
<1>10. ASSUME NEW r \in S PROVE Between(w[r], p[r], low, high)
  <2>1. PICK k \in Nat, n \in {1, 2} : k = r.score /\ n = Shares(r)
    BY <1>1
  <2>2. w[r] = n /\ p[r] = k * n
    BY <1>1, <1>4, <1>5, <2>1
  <2>3. low <= k /\ k <= high
    BY <1>2, <1>3, <1>9, <2>1
  <2>4. low * n <= k * n /\ k * n <= high * n
    BY <2>3
  <2>. QED
    BY <2>1, <2>2, <2>4 DEF Between
<1>11. PICK total \in Nat, sum \in Nat : total = g[S] /\ sum = h[S]
  OBVIOUS
<1>12. total >= 1 /\ low * total <= sum /\ sum <= high * total
  <2>1. \A T \in SUBSET S : T # {} => Between(g[T], h[T], low, high)
    <3>1. NaturalSums(w, S, g) /\ NaturalSums(p, S, h)
      BY <1>6, <1>7, <1>8 DEF NaturalSums
    <3>2. \A r \in S : Between(w[r], p[r], low, high)
      BY <1>10
    <3>. QED
      BY <3>1, <3>2, SumsAreBounded
  <2>2. S \in SUBSET S
    OBVIOUS
  <2>. QED
    BY <1>11, <2>1, <2>2 DEF Between
<1>13. TotalWeight(S) = total /\ MapThenSumSet(Shares, S) = total
  BY <1>4, <1>6, <1>7, <1>11, SharesAreSums
<1>14. WeightedSum(S) = sum /\ MapThenSumSet(Points, S) = sum
  BY <1>5, <1>6, <1>8, <1>11, PointsAreSums
<1>15. PICK value : value = RoundHalfEven(sum, total)
  OBVIOUS
<1>16. Average(S) = value
  BY <1>13, <1>14, <1>15 DEF Average
<1>17. /\ value \in Nat
       /\ 2 * (value * total - sum) <= total /\ 2 * (sum - value * total) <= total
  BY <1>12, <1>15, RoundHalfEvenIsNearest
<1>18. low <= value /\ value <= high
  BY <1>12, <1>15, NearestIsBounded
<1>19. 2 * Distance(value * total, sum) <= total
  BY <1>17 DEF Distance
<1>. QED
  BY <1>9, <1>13, <1>14, <1>16, <1>18, <1>19

\* A check has finitely many runs, of the kinds it may record.
LEMMA PickedIsFinite ==
  ASSUME NEW rs \in Seq(Run), NEW exp
  PROVE  Picked(rs, exp) \in SUBSET Run /\ IsFiniteSet(Picked(rs, exp))
<1>1. DOMAIN rs = 1 .. Len(rs) /\ Len(rs) \in Nat /\ \A i \in DOMAIN rs : rs[i] \in Run
  OBVIOUS
<1>2. NewestFinished(rs, exp) \in SUBSET (1 .. Len(rs))
  BY <1>1 DEF NewestFinished
<1>3. IsFiniteSet(NewestFinished(rs, exp))
  <2>1. IsFiniteSet(1 .. Len(rs))
    BY <1>1, FS_Interval
  <2>. QED
    BY <1>2, <2>1, FS_Subset
<1>4. PICK f : f = [i \in NewestFinished(rs, exp) |-> rs[i]]
  OBVIOUS
<1>5. f \in Surjection(NewestFinished(rs, exp), Picked(rs, exp))
  BY <1>4 DEF Surjection, Picked
<1>6. IsFiniteSet(Picked(rs, exp))
  BY <1>3, <1>5, FS_Surjection
<1>. QED
  BY <1>1, <1>2, <1>6 DEF Picked

\* However long the history of a check and whatever its standards report, the
\* score of a scored commit is the integer nearest to the weighted mean of
\* their own scores and lies between the lowest and the highest of them.
THEOREM AverageIsNearestHolds == Spec => []AverageIsNearestToTheMean
<1>1. TypeOK => AverageIsNearestToTheMean
  <2>1. SUFFICES ASSUME TypeOK, Outcome = "scored"
                 PROVE  LET total == MapThenSumSet(Shares, Now)
                            sum == MapThenSumSet(Points, Now)
                            value == Average(Now)
                        IN /\ 2 * Distance(value * total, sum) <= total
                           /\ \E r \in Now : r.score <= value
                           /\ \E r \in Now : r.score >= value
    BY DEF AverageIsNearestToTheMean
  <2>2. Now \in SUBSET Run /\ IsFiniteSet(Now)
    BY <2>1, PickedIsFinite DEF Now, TypeOK
  <2>3. Now # {}
    BY <2>1 DEF Outcome, Verdict
  <2>. QED
    BY <2>2, <2>3, ScoreOfRuns
<1>. QED
  BY <1>1, TypeCorrect, PTL DEF Spec

-----------------------------------------------------------------------------
LEMMA RoundHalfEvenIsMonotonic ==
  ASSUME NEW a \in Nat, NEW b \in Nat, NEW total \in Nat \ {0}, a <= b
  PROVE  RoundHalfEven(a, total) <= RoundHalfEven(b, total)
<1>1. PICK q \in Nat, m \in Nat :
        q = a \div total /\ m = a % total /\ m < total /\ a = q * total + m
  OBVIOUS
<1>2. PICK s \in Nat, n \in Nat :
        s = b \div total /\ n = b % total /\ n < total /\ b = s * total + n
  OBVIOUS
<1>3. /\ RoundHalfEven(a, total) = IF 2 * m < total \/ (2 * m = total /\ q % 2 = 0) THEN q ELSE q + 1
      /\ RoundHalfEven(b, total) = IF 2 * n < total \/ (2 * n = total /\ s % 2 = 0) THEN s ELSE s + 1
  BY <1>1, <1>2 DEF RoundHalfEven
<1>4. q <= s
  <2>1. SUFFICES ASSUME s + 1 <= q PROVE FALSE
    OBVIOUS
  <2>2. (s + 1) * total <= q * total /\ (s + 1) * total = s * total + total
    BY <2>1
  <2>. QED
    BY <1>1, <1>2, <2>2
<1>5. CASE q = s
  <2>1. m <= n
    BY <1>1, <1>2, <1>5
  <2>. QED
    BY <1>3, <1>5, <2>1
<1>6. CASE q + 1 <= s
  BY <1>3, <1>6
<1>. QED
  BY <1>4, <1>5, <1>6

\* The sums over a set are those over a larger one.
LEMMA SumsOfFewer ==
  ASSUME NEW U, NEW S \in SUBSET U, NEW w, NEW g, NaturalSums(w, U, g),
         NEW v, v = [r \in S |-> w[r]], NEW f, f = [T \in SUBSET S |-> g[T]]
  PROVE  NaturalSums(v, S, f)
<1>1. IsFiniteSet(S) /\ v \in [S -> Nat] /\ f \in [SUBSET S -> Nat]
  BY FS_Subset DEF NaturalSums
<1>2. ASSUME NEW T \in SUBSET S
      PROVE  f[T] = IF T = {} THEN 0 ELSE v[OneOf(T)] + f[T \ {OneOf(T)}]
  <2>1. T \in SUBSET U /\ T \ {OneOf(T)} \in SUBSET S /\ (T # {} => OneOf(T) \in S)
    BY OneOfIsIn
  <2>2. g[T] = IF T = {} THEN 0 ELSE w[OneOf(T)] + g[T \ {OneOf(T)}]
    BY <2>1 DEF NaturalSums, Sums
  <2>. QED
    BY <2>1, <2>2
<1>3. f = [T \in SUBSET S |-> IF T = {} THEN 0 ELSE v[OneOf(T)] + f[T \ {OneOf(T)}]]
  BY <1>2
<1>. QED
  BY <1>1, <1>3 DEF NaturalSums, Sums

\* A standard that reports a better score, its importance unchanged, never
\* lowers the score of the commit, however the fold orders the runs.
LEMMA BetterScore ==
  ASSUME NEW R \in SUBSET Run, IsFiniteSet(R), NEW old \in Run \ R, NEW new \in Run \ R,
         new.importance = old.importance, old.score <= new.score
  PROVE  Average(R \cup {old}) <= Average(R \cup {new})
<1>0. PICK U : U = R \cup {old, new}
  OBVIOUS
<1>1. \A r \in U : r.score \in Nat /\ Shares(r) \in {1, 2} /\ Points(r) = r.score * Shares(r)
  <2>1. \A r \in Run : r.score \in Nat
    <3>1. Scores \in SUBSET Nat
      BY ScoringAssumption
    <3>. QED
      BY <3>1 DEF Run
  <2>. QED
    BY <1>0, <2>1 DEF Shares, Points
<1>2. IsFiniteSet(R \cup {old}) /\ IsFiniteSet(U)
  <2>1. IsFiniteSet(R \cup {old})
    BY FS_AddElement
  <2>2. U = (R \cup {old}) \cup {new}
    BY <1>0
  <2>. QED
    BY <2>1, <2>2, FS_AddElement
<1>3. PICK w : w = [r \in U |-> Shares(r)]
  OBVIOUS
<1>4. PICK p : p = [r \in U |-> Points(r)]
  OBVIOUS
<1>5. w \in [U -> Nat] /\ p \in [U -> Nat]
  <2>1. \A r \in U : Shares(r) \in Nat /\ Points(r) \in Nat
    BY <1>1
  <2>. QED
    BY <1>3, <1>4, <2>1
<1>6. PICK g : NaturalSums(w, U, g)
  BY <1>2, <1>5, SumsExist DEF NaturalSums
<1>7. PICK h : NaturalSums(p, U, h)
  BY <1>2, <1>5, SumsExist DEF NaturalSums
<1>8. ASSUME NEW S \in SUBSET U, S # {}
      PROVE  /\ Average(S) = RoundHalfEven(h[S], g[S])
             /\ h[S] \in Nat /\ g[S] \in Nat \ {0}
  <2>1. PICK v : v = [r \in S |-> w[r]]
    OBVIOUS
  <2>2. PICK x : x = [r \in S |-> p[r]]
    OBVIOUS
  <2>3. PICK f : f = [T \in SUBSET S |-> g[T]]
    OBVIOUS
  <2>4. PICK k : k = [T \in SUBSET S |-> h[T]]
    OBVIOUS
  <2>5. NaturalSums(v, S, f) /\ NaturalSums(x, S, k)
    <3>1. NaturalSums(v, S, f)
      BY ONLY <1>6, <2>1, <2>3, S \in SUBSET U, SumsOfFewer
    <3>2. NaturalSums(x, S, k)
      BY ONLY <1>7, <2>2, <2>4, S \in SUBSET U, SumsOfFewer
    <3>. QED
      BY <3>1, <3>2
  <2>6. (\A r \in S : v[r] = Shares(r)) /\ (\A r \in S : x[r] = Points(r))
    BY <1>3, <1>4, <2>1, <2>2
  <2>7. TotalWeight(S) = f[S]
    BY <2>5, <2>6, SharesAreSums DEF NaturalSums
  <2>8. WeightedSum(S) = k[S]
    BY <2>5, <2>6, PointsAreSums DEF NaturalSums
  <2>9. f[S] = g[S] /\ k[S] = h[S] /\ g[S] \in Nat /\ h[S] \in Nat
    BY <1>6, <1>7, <2>3, <2>4 DEF NaturalSums
  <2>10. g[S] # 0
    <3>1. PICK r \in S : TRUE
      BY <1>8
    <3>2. g[S] = w[r] + g[S \ {r}]
      BY <1>6, SumOfOneMore
    <3>3. g[S \ {r}] \in Nat /\ w[r] \in {1, 2}
      BY <1>1, <1>3, <1>6 DEF NaturalSums
    <3>. QED
      BY <3>2, <3>3
  <2>. QED
    BY <2>7, <2>8, <2>9, <2>10 DEF Average
<1>9. PICK A \in SUBSET U, B \in SUBSET U : A = R \cup {old} /\ B = R \cup {new}
  BY <1>0
<1>10. /\ g[A] = w[old] + g[R] /\ h[A] = p[old] + h[R]
       /\ g[B] = w[new] + g[R] /\ h[B] = p[new] + h[R]
  <2>1. R \in SUBSET U /\ old \in A /\ new \in B /\ A \ {old} = R /\ B \ {new} = R
    BY <1>0, <1>9
  <2>2. /\ \A T \in SUBSET U : \A x \in T : g[T] = w[x] + g[T \ {x}]
        /\ \A T \in SUBSET U : \A x \in T : h[T] = p[x] + h[T \ {x}]
    BY <1>6, <1>7, SumOfOneMore
  <2>. QED
    BY <2>1, <2>2
<1>11. g[A] = g[B] /\ h[A] <= h[B]
  <2>1. w[old] = w[new] /\ p[old] <= p[new] /\ p[old] \in Nat /\ p[new] \in Nat
    <3>1. PICK i \in Nat, j \in Nat, n \in {1, 2} : i = old.score /\ j = new.score /\ n = Shares(old)
      BY <1>0, <1>1
    <3>2. w[old] = n /\ w[new] = n /\ p[old] = i * n /\ p[new] = j * n
      BY <1>0, <1>1, <1>3, <1>4, <3>1 DEF Shares
    <3>3. i * n <= j * n
      BY <3>1
    <3>. QED
      BY <3>2, <3>3
  <2>2. h[R] \in Nat
    BY <1>0, <1>7 DEF NaturalSums
  <2>. QED
    BY <1>10, <2>1, <2>2
<1>12. A # {} /\ B # {}
  BY <1>9
<1>. QED
  BY <1>8, <1>9, <1>11, <1>12, RoundHalfEvenIsMonotonic

\* At most one run of a standard counts.
LEMMA PickedOncePerStandard ==
  ASSUME NEW rs \in Seq(Run), NEW exp,
         NEW r \in Picked(rs, exp), NEW s \in Picked(rs, exp), r.standard = s.standard
  PROVE  r = s
<1>1. PICK i \in NewestFinished(rs, exp), j \in NewestFinished(rs, exp) : r = rs[i] /\ s = rs[j]
  BY DEF Picked
<1>2. /\ i \in 1 .. Len(rs) /\ j \in 1 .. Len(rs) /\ Len(rs) \in Nat
      /\ r.status \in Finished /\ s.status \in Finished
      /\ \A k \in 1..(i - 1) : rs[k].standard = r.standard => rs[k].status \notin Finished
      /\ \A k \in 1..(j - 1) : rs[k].standard = s.standard => rs[k].status \notin Finished
  BY <1>1 DEF NewestFinished
<1>3. ~(i < j)
  <2>1. i < j => i \in 1..(j - 1)
    BY <1>2
  <2>. QED
    BY <1>1, <1>2, <2>1
<1>4. ~(j < i)
  <2>1. j < i => j \in 1..(i - 1)
    BY <1>2
  <2>. QED
    BY <1>1, <1>2, <2>1
<1>. QED
  BY <1>1, <1>2, <1>3, <1>4

\* A run of a standard that is over, of the same importance and with no lower
\* score than the one it replaces, does not lower the score of the commit.
BetterResultNeverLowersTheScore ==
  [][\A r \in Now :
       LET run == Head(runs') IN
       /\ runs' # runs
       /\ run.status \in Finished /\ run.standard = r.standard
       /\ run.importance = r.importance /\ r.score <= run.score
       => Average(Now) <= Average(Now')]_vars

\* However many standards a check has, running one again can only raise the
\* score of the commit when the standard reports a better one.
THEOREM BetterResultNeverLowersTheScoreHolds == Spec => BetterResultNeverLowersTheScore
<1>. DEFINE Better(r, run) ==
       /\ runs' # runs
       /\ run.status \in Finished /\ run.standard = r.standard
       /\ run.importance = r.importance /\ r.score <= run.score
<1>1. ASSUME TypeOK, [Next]_vars, NEW r \in Now, Better(r, Head(runs'))
      PROVE  Average(Now) <= Average(Now')
  <2>1. PICK run \in Run : runs' = <<run>> \o runs /\ expected' = expected
    BY <1>1 DEF Next, AddRun, Full, vars
  <2>2. runs \in Seq(Run)
    BY <1>1 DEF TypeOK
  <2>3. Head(runs') = run
    BY <2>1, <2>2
  <2>4. /\ run.status \in Finished /\ run.standard = r.standard
        /\ run.importance = r.importance /\ r.score <= run.score
    BY <1>1, <2>3
  <2>5. PICK N \in SUBSET Run : N = Now /\ IsFiniteSet(N)
    BY <2>2, PickedIsFinite DEF Now
  <2>6. r.standard \in expected
    BY DEF Now, Picked, NewestFinished
  <2>7. PICK R : R = {s \in N : s.standard # run.standard}
    OBVIOUS
  <2>8. Now' = R \cup {run}
    <3>1. Now' = Picked(<<run>> \o runs, expected)
      BY <2>1 DEF Now
    <3>2. Picked(<<run>> \o runs, expected) =
            {s \in Picked(runs, expected) : s.standard # run.standard} \cup {run}
      BY <2>2, <2>4, <2>6, PickedOfLonger
    <3>3. Picked(runs, expected) = N
      BY <2>5 DEF Now
    <3>. QED
      BY <2>7, <3>1, <3>2, <3>3
  <2>9. Now = R \cup {r}
    <3>1. \A s \in N : s.standard = r.standard => s = r
      BY <2>2, <2>5, PickedOncePerStandard DEF Now
    <3>. QED
      BY <2>4, <2>5, <2>7, <3>1
  <2>10. R \in SUBSET Run /\ IsFiniteSet(R) /\ r \in Run \ R /\ run \in Run \ R
    BY <2>4, <2>5, <2>7, FS_Subset
  <2>11. Average(R \cup {r}) <= Average(R \cup {run})
    BY <2>4, <2>10, BetterScore
  <2>. QED
    BY <2>8, <2>9, <2>11
<1>2. TypeOK /\ [Next]_vars =>
        [\A r \in Now : Better(r, Head(runs')) => Average(Now) <= Average(Now')]_vars
  BY <1>1
<1>. QED
  BY <1>2, TypeCorrect, PTL DEF Spec, BetterResultNeverLowersTheScore

-----------------------------------------------------------------------------
JobStates == {"todo", "doing", "ending", "stalled", "done"}
Logged(n) == <<n, "sent">> \in logs \/ <<n, "failed">> \in logs
Item == [note : Nat, to : People, copy : {1}, read : BOOLEAN]

\* A job ends once its log is written, starts delivering only when nothing was
\* sent, and nothing is in an inbox that was not logged as sent.
DeliveryInv ==
  /\ \E S : notes \in Seq(S)
  /\ jobs \in Seq(JobStates) /\ Len(jobs) = Len(notes)
  /\ to \in Seq(SUBSET People) /\ Len(to) = Len(notes)
  /\ items \subseteq Item
  /\ \A n \in 1 .. Len(jobs) :
       /\ jobs[n] \in {"ending", "done"} => Logged(n)
       /\ jobs[n] = "doing" => ~AlreadySent(n)
  /\ \A i \in items : AlreadySent(i.note)
  /\ \A i, j \in items : i.note = j.note /\ i.to = j.to => i = j

-----------------------------------------------------------------------------
LEMMA Raising ==
  ASSUME DeliveryInv, NEW S, NEW new \in Seq(S), Raise(new), UNCHANGED <<logs, items>>
  PROVE  DeliveryInv'
<1> DEFINE todo == [i \in DOMAIN new |-> "todo"]
           nobody == [i \in DOMAIN new |-> {}]
<1>1. /\ todo \in Seq(JobStates) /\ Len(todo) = Len(new) /\ Len(new) \in Nat
      /\ nobody \in Seq(SUBSET People) /\ Len(nobody) = Len(new)
      /\ \A i \in 1 .. Len(new) : todo[i] = "todo"
  BY DEF JobStates
<1>2. PICK T : notes \in Seq(T)
  BY DEF DeliveryInv
<1>3. notes' \in Seq(S \cup T) /\ Len(notes') = Len(notes) + Len(new)
  <2>1. notes \in Seq(S \cup T) /\ new \in Seq(S \cup T)
    BY <1>2
  <2> QED
    BY <2>1, ConcatProperties DEF Raise
<1>4. jobs \in Seq(JobStates) /\ Len(jobs) = Len(notes) /\ to \in Seq(SUBSET People) /\ Len(to) = Len(notes)
      /\ Len(jobs) \in Nat
  BY DEF DeliveryInv
<1> HIDE DEF todo, nobody
<1>5. /\ jobs' \in Seq(JobStates) /\ Len(jobs') = Len(notes')
      /\ \A n \in 1 .. Len(jobs') : jobs'[n] = IF n <= Len(jobs) THEN jobs[n] ELSE "todo"
  <2>1. jobs' = jobs \o todo
    BY DEF Raise, todo
  <2>2. /\ jobs \o todo \in Seq(JobStates) /\ Len(jobs \o todo) = Len(jobs) + Len(todo)
        /\ \A n \in 1 .. Len(jobs) + Len(todo) :
             (jobs \o todo)[n] = IF n <= Len(jobs) THEN jobs[n] ELSE todo[n - Len(jobs)]
    BY ZenonT(60), <1>1, <1>4, ConcatProperties
  <2> QED
    BY <1>1, <1>3, <1>4, <2>1, <2>2
<1>6. to' \in Seq(SUBSET People) /\ Len(to') = Len(notes')
  <2>1. to' = to \o nobody
    BY DEF Raise, nobody
  <2>2. to \o nobody \in Seq(SUBSET People) /\ Len(to \o nobody) = Len(to) + Len(nobody)
    BY <1>1, <1>4, ConcatProperties
  <2> QED
    BY <1>1, <1>3, <1>4, <2>1, <2>2
<1>7. ASSUME NEW n \in 1 .. Len(jobs')
      PROVE  /\ jobs'[n] \in {"ending", "done"} => Logged(n)'
             /\ jobs'[n] = "doing" => ~AlreadySent(n)'
  <2>1. CASE n <= Len(jobs)
    <3>1. n \in 1 .. Len(jobs) /\ jobs'[n] = jobs[n]
      BY <1>4, <1>5, <2>1
    <3> QED
      BY <3>1 DEF DeliveryInv, Logged, AlreadySent
  <2>2. CASE ~(n <= Len(jobs))
    BY <1>5, <2>2
  <2> QED
    BY <2>1, <2>2
<1> QED
  BY <1>3, <1>5, <1>6, <1>7 DEF DeliveryInv, AlreadySent

\* A step of one notification's job.
LEMMA JobMoves ==
  ASSUME DeliveryInv, NEW n \in 1 .. Len(notes), NEW s \in JobStates, jobs' = [jobs EXCEPT ![n] = s],
         UNCHANGED notes, to' \in Seq(SUBSET People), Len(to') = Len(notes),
         logs \subseteq logs', \A m \in 1 .. Len(notes) \ {n} : AlreadySent(m)' => AlreadySent(m),
         s \in {"ending", "done"} => Logged(n)', s = "doing" => ~AlreadySent(n)',
         items' \subseteq Item, \A i \in items' : AlreadySent(i.note)',
         \A i, j \in items' : i.note = j.note /\ i.to = j.to => i = j
  PROVE  DeliveryInv'
<1>1. /\ jobs' \in Seq(JobStates) /\ Len(jobs') = Len(jobs) /\ Len(jobs) = Len(notes)
      /\ \A m \in 1 .. Len(notes) : jobs'[m] = IF m = n THEN s ELSE jobs[m]
  BY DEF DeliveryInv
<1>2. ASSUME NEW m \in 1 .. Len(jobs')
      PROVE  /\ jobs'[m] \in {"ending", "done"} => Logged(m)'
             /\ jobs'[m] = "doing" => ~AlreadySent(m)'
  BY <1>1 DEF DeliveryInv, Logged, AlreadySent
<1> QED
  BY <1>1, <1>2 DEF DeliveryInv

\* The inbox: marking changes no item's note or reader.
LEMMA Marking ==
  ASSUME DeliveryInv, NEW old \in SUBSET items, NEW read \in BOOLEAN, Rewrite(old, read)
  PROVE  DeliveryInv'
<1> DEFINE Marked(i) == [i EXCEPT !.read = read]
<1>1. ASSUME NEW i \in Item
      PROVE  /\ Marked(i) \in Item
             /\ Marked(i).note = i.note /\ Marked(i).to = i.to
  BY <1>1 DEF Item
<1>2. items' = (items \ old) \cup {Marked(i) : i \in old}
  BY DEF Rewrite
<1>3. old \subseteq Item /\ items \subseteq Item
  BY DEF DeliveryInv
<1> HIDE DEF Marked
<1>4. items' \subseteq Item
  BY <1>1, <1>2, <1>3
<1>5. \A x \in items' : \E i \in items : x.note = i.note /\ x.to = i.to /\ x = IF i \in old THEN Marked(i) ELSE i
  BY <1>1, <1>2, <1>3
<1>6. \A i \in items' : AlreadySent(i.note)'
  BY <1>5 DEF DeliveryInv, AlreadySent, Rewrite
<1>7. ASSUME NEW x \in items', NEW y \in items', x.note = y.note, x.to = y.to PROVE x = y
  BY <1>5, <1>7 DEF DeliveryInv
<1> QED
  BY <1>4, <1>6, <1>7 DEF DeliveryInv, Rewrite, Logged, AlreadySent

\* The steps of a job.
LEMMA JobStep ==
  ASSUME DeliveryInv, NEW n \in DOMAIN notes,
         Dispatch(n) \/ Deliver(n) \/ ChannelFails(n) \/ EndDelivery(n) \/ Crash(n) \/ Recover(n)
  PROVE  DeliveryInv'
<1>0. n \in 1 .. Len(notes) /\ n \in Nat /\ Len(jobs) = Len(notes)
  BY DEF DeliveryInv
<1>1. CASE Dispatch(n)
  <2>1. PICK s : s = IF AlreadySent(n) THEN "ending" ELSE "doing"
    OBVIOUS
  <2>2. /\ jobs' = [jobs EXCEPT ![n] = s] /\ to' = [to EXCEPT ![n] = Recipients(notes[n])]
        /\ UNCHANGED <<notes, logs, items>>
    BY <1>1, <2>1 DEF Dispatch, Job
  <2>3. Recipients(notes[n]) \in SUBSET People
    BY DEF Recipients, Admins, Triggerer, AffectedMember, With
  <2>4. to' \in Seq(SUBSET People) /\ Len(to') = Len(notes)
    BY <1>0, <2>2, <2>3 DEF DeliveryInv
  <2> QED
    BY <1>0, <2>1, <2>2, <2>4, JobMoves DEF DeliveryInv, JobStates, AlreadySent, Logged
<1>2. CASE Deliver(n)
  <2> DEFINE new(p) == [note |-> n, to |-> p, copy |-> 1, read |-> FALSE]
  <2>1. /\ jobs[n] = "doing" /\ jobs' = [jobs EXCEPT ![n] = "ending"] /\ UNCHANGED <<notes, to>>
        /\ logs' = logs \cup {<<n, "sent">>}
    BY <1>2 DEF Deliver, Job
  <2>2. \A i \in items : i.note # n
    BY <1>0, <2>1 DEF DeliveryInv
  <2>3. \A p : Copies(n, p) = 0
    <3>1. \A p : {i \in items : i.note = n /\ i.to = p} = {}
      BY <2>2
    <3> QED
      BY <3>1, FS_EmptySet DEF Copies
  <2>4. items' = items \cup {new(p) : p \in to[n]}
    BY <1>2, <2>3 DEF Deliver
  <2>5. to[n] \subseteq People
    BY <1>0 DEF DeliveryInv
  <2>6. \A p \in People : new(p) \in Item /\ new(p).note = n /\ new(p).to = p
    BY <1>0 DEF Item
  <2> HIDE DEF new
  <2>7. items' \subseteq Item
    BY <2>4, <2>5, <2>6 DEF DeliveryInv
  <2>8. \A i \in items' : AlreadySent(i.note)'
    <3>1. \A i \in items : <<i.note, "sent">> \in logs'
      BY <2>1 DEF DeliveryInv, AlreadySent
    <3>2. <<n, "sent">> \in logs'
      BY <2>1
    <3>3. \A i \in items' : i \in items \/ i.note = n
      BY <2>4, <2>5, <2>6
    <3> QED
      BY <3>1, <3>2, <3>3 DEF AlreadySent
  <2>9. ASSUME NEW i \in items', NEW j \in items', i.note = j.note, i.to = j.to PROVE i = j
    BY <2>2, <2>4, <2>5, <2>6, <2>9 DEF DeliveryInv
  <2>10. \A m \in 1 .. Len(notes) \ {n} : AlreadySent(m)' => AlreadySent(m)
    BY <2>1 DEF AlreadySent
  <2> QED
    BY <1>0, <2>1, <2>7, <2>8, <2>9, <2>10, JobMoves DEF DeliveryInv, JobStates, Logged
<1>3. CASE ChannelFails(n)
  <2>1. jobs' = [jobs EXCEPT ![n] = "ending"] /\ logs' = logs \cup {<<n, "failed">>} /\ UNCHANGED <<notes, to, items>>
    BY <1>3 DEF ChannelFails, Job
  <2>2. \A m : AlreadySent(m)' <=> AlreadySent(m)
    BY <2>1 DEF AlreadySent
  <2> QED
    BY <1>0, <2>1, <2>2, JobMoves DEF DeliveryInv, JobStates, Logged
<1>4. CASE EndDelivery(n)
  <2>1. jobs[n] = "ending" /\ jobs' = [jobs EXCEPT ![n] = "done"] /\ UNCHANGED <<notes, to, items, logs>>
    BY <1>4 DEF EndDelivery, Job
  <2> QED
    BY <1>0, <2>1, JobMoves DEF DeliveryInv, JobStates, Logged, AlreadySent
<1>5. CASE Crash(n) \/ Recover(n)
  <2>1. PICK s \in {"stalled", "todo"} : jobs' = [jobs EXCEPT ![n] = s] /\ UNCHANGED <<notes, to, items, logs>>
    BY <1>5 DEF Crash, Recover, Job
  <2> QED
    BY <1>0, <2>1, JobMoves DEF DeliveryInv, JobStates, AlreadySent
<1> QED
  BY <1>1, <1>2, <1>3, <1>4, <1>5

-----------------------------------------------------------------------------
\* However often its job is run again after a crash, a notification is in an
\* inbox once, and no job ends before what became of it is on record
\* (notifications/dispatcher.py, DeliveryLog).
THEOREM DeliveredOnceHolds == NotifySpec => []DeliveredOnce
<1>1. NotifyInit => DeliveryInv
  BY DEF NotifyInit, DeliveryInv
<1>2. DeliveryInv /\ [NotifyNext]_notifyVars => DeliveryInv'
  <2> SUFFICES ASSUME DeliveryInv, [NotifyNext]_notifyVars PROVE DeliveryInv'
    OBVIOUS
  <2> DEFINE Untouched == UNCHANGED <<notes, jobs, to, logs, items>>
  <2>1. Untouched => DeliveryInv'
    BY DEF DeliveryInv, AlreadySent, Logged
  <2>2. ASSUME NEW note, RaiseOne(note) PROVE DeliveryInv'
    <3>1. <<note>> \in Seq({note}) /\ Raise(<<note>>) /\ UNCHANGED <<logs, items>>
      BY <2>2 DEF RaiseOne
    <3> QED
      BY <3>1, Raising
  <2>3. ASSUME NEW k \in checks, Publish(k) PROVE DeliveryInv'
    <3> DEFINE kinds == {"run.failed", "standards.failing", "project.critical"}
               told == {RunNote(kind, k) : kind \in kinds}
    <3>0. \A kind \in kinds : RunNote(kind, k) \in told
      OBVIOUS
    <3> HIDE DEF told
    <3>1. CouldNotEvaluate(k) \in Seq(told) /\ StandardsFailing(k) \in Seq(told) /\ ProjectFailed(k) \in Seq(told)
      <4>1. \A kind \in kinds : <<RunNote(kind, k)>> \in Seq(told)
        BY <3>0
      <4>2. << >> \in Seq(told)
        OBVIOUS
      <4>3. CouldNotEvaluate(k) \in {<<RunNote("run.failed", k)>>, << >>}
        BY DEF CouldNotEvaluate
      <4>4. StandardsFailing(k) \in {<<RunNote("standards.failing", k)>>, << >>}
        BY DEF StandardsFailing
      <4>5. ProjectFailed(k) \in {<<RunNote("project.critical", k)>>, << >>}
        BY DEF ProjectFailed
      <4> QED
        BY <4>1, <4>2, <4>3, <4>4, <4>5
    <3>2. CouldNotEvaluate(k) \o StandardsFailing(k) \o ProjectFailed(k) \in Seq(told)
      BY <3>1, ConcatProperties
    <3>3. Raise(CouldNotEvaluate(k) \o StandardsFailing(k) \o ProjectFailed(k)) /\ UNCHANGED <<logs, items>>
      BY <2>3 DEF Publish
    <3> QED
      BY <3>2, <3>3, Raising
  <2>4. CASE UNCHANGED notifyVars
    BY <2>1, <2>4 DEF notifyVars, jobVars
  <2>5. ASSUME NEW b \in Branches, RunOnBranch(b) \/ \E heard \in BOOLEAN : Push(b, heard) PROVE DeliveryInv'
    BY <2>1, <2>5 DEF RunOnBranch, Push, jobVars
  <2>6. ASSUME NEW i \in DOMAIN commits, \E at \in KnownOr0(commits[i].at) : RunOnCommit(i, at) PROVE DeliveryInv'
    BY <2>1, <2>6 DEF RunOnCommit, jobVars
  <2>7. ASSUME NEW k \in checks,
               \/ \E at \in KnownOr0(commits[HeadOf(k.branch)].at) : Pin(k, at)
               \/ \E s \in Outcomes : EndRun(k, s)
        PROVE  DeliveryInv'
    BY <2>1, <2>7 DEF Pin, EndRun, jobVars
  <2>8. ASSUME NEW a \in People,
               \/ ProjectAdded(a) \/ ProjectRemoved(a) \/ StandardChanged(a)
               \/ RunsTimedOut(a) \/ ConnectionBroken(a)
        PROVE  DeliveryInv'
    BY <2>2, <2>8 DEF ProjectAdded, ProjectRemoved, StandardChanged, RunsTimedOut, ConnectionBroken, Changed
  <2>9. ASSUME NEW a \in People, NEW p \in People, NEW r \in {"admin", "member"},
               MemberRemoved(p, a) \/ MemberJoined(p, r, a) \/ MemberRoleChanged(p, r, a)
        PROVE  DeliveryInv'
    BY <2>2, <2>9 DEF MemberRemoved, MemberJoined, MemberRoleChanged
  <2>10. CASE AIProviderFailed \/ \E hadWorked \in BOOLEAN : GraphBroke(hadWorked)
    BY <2>2, <2>10 DEF AIProviderFailed, GraphBroke, Changed
  <2>11. ASSUME NEW i \in items, MarkRead(i) \/ MarkUnread(i) PROVE DeliveryInv'
    <3>1. {i} \in SUBSET items /\ \E read \in BOOLEAN : Rewrite({i}, read)
      BY <2>11 DEF MarkRead, MarkUnread
    <3> QED
      BY <3>1, Marking
  <2>12. ASSUME NEW p \in People, MarkAllRead(p) PROVE DeliveryInv'
    <3>1. PICK old : old = {i \in InInbox(p) : ~i.read}
      OBVIOUS
    <3>2. old \in SUBSET items /\ Rewrite(old, TRUE)
      BY <2>12, <3>1 DEF MarkAllRead, InInbox
    <3> QED
      BY <3>2, Marking
  <2> QED
    BY <2>3, <2>4, <2>5, <2>6, <2>7, <2>8, <2>9, <2>10, <2>11, <2>12, JobStep DEF NotifyNext
<1>3. DeliveryInv => DeliveredOnce
  <2> SUFFICES ASSUME DeliveryInv, NEW n \in DOMAIN notes
               PROVE  /\ \A p \in People : Copies(n, p) <= 1
                      /\ jobs[n] # "done" \/ {<<n, "sent">>, <<n, "failed">>} \intersect logs # {}
    BY DEF DeliveredOnce
  <2>1. ASSUME NEW p \in People PROVE Copies(n, p) <= 1
    <3> DEFINE mine == {i \in items : i.note = n /\ i.to = p}
    <3>1. CASE mine = {}
      BY <3>1, FS_EmptySet DEF Copies
    <3>2. CASE mine # {}
      <4>1. PICK i : i \in mine
        BY <3>2
      <4>2. mine = {i}
        BY <4>1 DEF DeliveryInv
      <4>3. Cardinality(mine) = 1
        BY <4>2, FS_Singleton
      <4> QED
        BY <4>3 DEF Copies
    <3> QED
      BY <3>1, <3>2
  <2>2. n \in 1 .. Len(jobs)
    BY DEF DeliveryInv
  <2> QED
    BY <2>1, <2>2 DEF DeliveryInv, Logged
<1> QED
  BY <1>1, <1>2, <1>3, PTL DEF NotifySpec

-----------------------------------------------------------------------------
(* What the checks give branches and commits. *)

\* Of rows with a first and a second key, one comes first.
First(S, f, g, c) == \A d \in S : f[c] > f[d] \/ (f[c] = f[d] /\ g[c] >= g[d])

LEMMA FirstOfRows ==
  ASSUME NEW n, n \in Nat, NEW S, S # {}, NEW f, NEW g, f \in [S -> 0 .. n], g \in [S -> 0 .. n]
  PROVE  \E c \in S : First(S, f, g, c)
<1>1. PICK m \in {f[c] : c \in S} : \A k \in {f[c] : c \in S} : k <= m
  <2>1. {f[c] : c \in S} \in SUBSET (0 .. n) /\ {f[c] : c \in S} # {}
    OBVIOUS
  <2> QED
    BY <2>1, GreatestBelow
<1> DEFINE T == {c \in S : f[c] = m}
<1>2. PICK r \in {g[c] : c \in T} : \A k \in {g[c] : c \in T} : k <= r
  <2>1. {g[c] : c \in T} \in SUBSET (0 .. n) /\ {g[c] : c \in T} # {}
    BY <1>1
  <2> QED
    BY <2>1, GreatestBelow
<1>3. PICK c \in T : g[c] = r
  BY <1>2
<1>4. ASSUME NEW d \in S PROVE f[c] > f[d] \/ (f[c] = f[d] /\ g[c] >= g[d])
  <2>1. f[d] <= m /\ f[c] = m /\ f[d] \in 0 .. n
    BY <1>1, <1>3
  <2>2. f[d] = m => g[d] <= g[c] /\ g[d] \in 0 .. n
    BY <1>2, <1>3
  <2> QED
    BY <2>1, <2>2
<1> QED
  BY <1>3, <1>4 DEF First

CheckRows ==
  [commit : Nat, at : Nat, branch : Branches, created : Nat \ {0}, saved : Nat, score : Outcomes \cup {NoScore}]
CommitRows == [branch : Branches, at : Nat \ {0}]

\* A check has a creation time of its own and, once it has a commit, the
\* commit's time or none; commits are in the order of their times.
CommitsInv ==
  /\ clock \in Nat \ {0}
  /\ commits \in Seq(CommitRows)
  /\ \A i \in DOMAIN commits : commits[i].at < clock
  /\ \A i, j \in DOMAIN commits : i < j => commits[i].at < commits[j].at
CheckInv(k) ==
  /\ k \in CheckRows
  /\ k.created < clock /\ k.saved < clock /\ k.at < clock
  /\ k.created \in DOMAIN stage /\ (stage[k.created] = "queued" <=> k.saved = 0)
  /\ k.commit # 0 => k.commit \in DOMAIN commits /\ k.at \in KnownOr0(commits[k.commit].at)
  /\ \E i \in DOMAIN commits : commits[i].branch = k.branch
ChecksInv ==
  /\ CommitsInv
  /\ \A k \in checks : CheckInv(k)
  /\ \A k, l \in checks : k.created = l.created => k = l

LEMMA RowFields ==
  ASSUME NEW k \in CheckRows
  PROVE  /\ k.commit \in Nat /\ k.at \in Nat /\ k.created \in Nat /\ k.created # 0 /\ k.saved \in Nat
         /\ k.branch \in Branches /\ k.score \in Outcomes \cup {NoScore}
  BY DEF CheckRows

LEMMA CommitFields ==
  ASSUME NEW k \in CommitRows
  PROVE  k.at \in Nat /\ k.at # 0 /\ k.branch \in Branches
  BY DEF CommitRows

LEMMA CommitTimes ==
  ASSUME CommitsInv
  PROVE  /\ clock \in Nat /\ clock # 0 /\ Len(commits) \in Nat /\ DOMAIN commits = 1 .. Len(commits)
         /\ \A i \in DOMAIN commits :
              /\ commits[i] \in CommitRows
              /\ commits[i].at \in Nat /\ commits[i].at # 0 /\ commits[i].branch \in Branches
              /\ commits[i].at < clock
<1>1. commits \in Seq(CommitRows) /\ clock \in Nat /\ clock # 0 /\ \A i \in DOMAIN commits : commits[i].at < clock
  BY DEF CommitsInv
<1>2. /\ Len(commits) \in Nat /\ DOMAIN commits = 1 .. Len(commits)
      /\ \A i \in DOMAIN commits : commits[i] \in CommitRows
  BY <1>1
<1> QED
  BY <1>1, <1>2, CommitFields

LEMMA CheckTimes ==
  ASSUME CommitsInv, NEW k, CheckInv(k)
  PROVE  OrderedAt(k) \in 0 .. clock /\ k.created \in 0 .. clock /\ k.saved \in 0 .. clock
<1>1. k \in CheckRows /\ k.created < clock /\ k.saved < clock /\ k.at < clock
  BY DEF CheckInv
<1> QED
  BY <1>1, RowFields, CommitTimes DEF OrderedAt

\* The newest commit's newest check; the newest saved result; the newest check.
LEMMA LatestByCreated ==
  ASSUME NEW n, n \in Nat, NEW S, S # {}, \A k \in S : OrderedAt(k) \in 0 .. n /\ k.created \in 0 .. n
  PROVE  /\ Latest(S, OrderedAt, Created) \in S
         /\ \A d \in S : \/ OrderedAt(Latest(S, OrderedAt, Created)) > OrderedAt(d)
                         \/ /\ OrderedAt(Latest(S, OrderedAt, Created)) = OrderedAt(d)
                            /\ Latest(S, OrderedAt, Created).created >= d.created
<1>1. PICK f : f = [c \in S |-> OrderedAt(c)]
  OBVIOUS
<1>2. PICK g : g = [c \in S |-> c.created]
  OBVIOUS
<1>3. f \in [S -> 0 .. n] /\ g \in [S -> 0 .. n]
  BY <1>1, <1>2
<1>4. \E c \in S : First(S, f, g, c)
  BY <1>3, FirstOfRows
<1>5. \E c \in S : \A d \in S : OrderedAt(c) > OrderedAt(d) \/ (OrderedAt(c) = OrderedAt(d) /\ c.created >= d.created)
  BY <1>1, <1>2, <1>4 DEF First
<1> QED
  BY <1>5 DEF Latest, Created

LEMMA LatestBySaved ==
  ASSUME NEW n, n \in Nat, NEW S, S # {}, \A k \in S : OrderedAt(k) \in 0 .. n /\ k.saved \in 0 .. n
  PROVE  /\ Latest(S, OrderedAt, SavedAt) \in S
         /\ \A d \in S : OrderedAt(Latest(S, OrderedAt, SavedAt)) >= OrderedAt(d)
<1>1. PICK f : f = [c \in S |-> OrderedAt(c)]
  OBVIOUS
<1>2. PICK g : g = [c \in S |-> c.saved]
  OBVIOUS
<1>3. f \in [S -> 0 .. n] /\ g \in [S -> 0 .. n]
  BY <1>1, <1>2
<1>4. \E c \in S : First(S, f, g, c)
  BY <1>3, FirstOfRows
<1>5. \E c \in S : \A d \in S : OrderedAt(c) > OrderedAt(d) \/ (OrderedAt(c) = OrderedAt(d) /\ c.saved >= d.saved)
  BY <1>1, <1>2, <1>4 DEF First
<1>6. /\ Latest(S, OrderedAt, SavedAt) \in S
      /\ \A d \in S : \/ OrderedAt(Latest(S, OrderedAt, SavedAt)) > OrderedAt(d)
                      \/ OrderedAt(Latest(S, OrderedAt, SavedAt)) = OrderedAt(d)
  BY <1>5 DEF Latest, SavedAt
<1>7. ASSUME NEW d \in S PROVE OrderedAt(Latest(S, OrderedAt, SavedAt)) >= OrderedAt(d)
  <2>1. PICK x, y : x = OrderedAt(Latest(S, OrderedAt, SavedAt)) /\ y = OrderedAt(d)
    OBVIOUS
  <2>2. x \in 0 .. n /\ y \in 0 .. n
    BY <1>6, <2>1
  <2>3. x > y \/ x = y
    BY ONLY <1>6, <1>7, <2>1
  <2>4. x >= y
    BY ONLY n \in Nat, <2>2, <2>3
  <2> QED
    BY ONLY <2>1, <2>4
<1> QED
  BY <1>6, <1>7

LEMMA LatestCheck ==
  ASSUME ChecksInv, NEW S \in SUBSET checks, NEW c \in S, \A d \in S : c.created >= d.created
  PROVE  Latest(S, Created, Created) = c
<1>1. \A d \in S : d.created \in Nat
  BY RowFields DEF ChecksInv, CheckInv
<1>2. ASSUME NEW x \in S, \A d \in S : x.created > d.created \/ (x.created = d.created /\ x.created >= d.created)
      PROVE  x = c
  <2>1. x.created >= c.created /\ c.created >= x.created
    BY <1>1, <1>2
  <2> QED
    BY <1>1, <2>1 DEF ChecksInv
<1>3. \A d \in S : c.created > d.created \/ (c.created = d.created /\ c.created >= d.created)
  BY <1>1
<1> QED
  BY <1>2, <1>3 DEF Latest, Created

\* Checks have creation times of their own: only one comes first.
LEMMA LatestIs ==
  ASSUME ChecksInv, NEW S \in SUBSET checks, NEW c \in S,
         \A d \in S : OrderedAt(c) > OrderedAt(d) \/ (OrderedAt(c) = OrderedAt(d) /\ c.created >= d.created)
  PROVE  Latest(S, OrderedAt, Created) = c
<1>0. PICK n : n = clock /\ n \in Nat
  BY CommitTimes DEF ChecksInv
<1>1. \A k \in S : OrderedAt(k) \in 0 .. n /\ k.created \in 0 .. n
  BY <1>0, CheckTimes DEF ChecksInv
<1>2. PICK x : x = Latest(S, OrderedAt, Created)
  OBVIOUS
<1>3. x \in S /\ (OrderedAt(x) > OrderedAt(c) \/ (OrderedAt(x) = OrderedAt(c) /\ x.created >= c.created))
  BY <1>0, <1>1, <1>2, LatestByCreated
<1>4. x.created = c.created
  <2>1. PICK a, b : a = OrderedAt(x) /\ b = OrderedAt(c)
    OBVIOUS
  <2>2. a \in 0 .. n /\ b \in 0 .. n /\ x.created \in 0 .. n /\ c.created \in 0 .. n
    BY <1>1, <1>3, <2>1
  <2>3. a > b \/ (a = b /\ x.created >= c.created)
    BY <1>3, <2>1
  <2>4. b > a \/ (b = a /\ c.created >= x.created)
    BY <1>3, <2>1
  <2> QED
    BY ONLY <1>0, <2>2, <2>3, <2>4
<1> QED
  BY <1>2, <1>3, <1>4 DEF ChecksInv

-----------------------------------------------------------------------------
LEMMA HeadOfIs ==
  ASSUME CommitsInv, NEW branch, NEW i \in DOMAIN commits, commits[i].branch = branch
  PROVE  HeadOf(branch) \in DOMAIN commits /\ commits[HeadOf(branch)].branch = branch
<1>0. DOMAIN commits = 1 .. Len(commits) /\ Len(commits) \in Nat
  BY CommitTimes
<1>1. PICK S : S = {j \in DOMAIN commits : commits[j].branch = branch}
  OBVIOUS
<1>2. PICK n : n = Len(commits)
  OBVIOUS
<1>3. n \in Nat /\ S \in SUBSET (0 .. n) /\ S # {}
  BY <1>0, <1>1, <1>2
<1>4. PICK m \in S : \A k \in S : k <= m
  BY <1>3, GreatestBelow
<1>5. m \in DOMAIN commits /\ commits[m].branch = branch
  BY <1>1, <1>4
<1>6. ASSUME NEW j \in m + 1 .. Len(commits) PROVE commits[j].branch # branch
  <2>1. j \in DOMAIN commits /\ ~(j <= m)
    BY <1>0, <1>5
  <2> QED
    BY <1>1, <1>4, <2>1
<1> QED
  BY <1>5, <1>6 DEF HeadOf

\* Which checks a step leaves as they are.
OverStay ==
  \A k \in checks :
    stage[k.created] # "queued" =>
      /\ k \in checks' /\ k.created \in DOMAIN stage'
      /\ stage'[k.created] # "queued" /\ (stage[k.created] = "done" => stage'[k.created] = "done")

\* A push keeps the commits in order, and what is known of a check.
LEMMA CommitsGrow ==
  ASSUME CommitsInv, clock' = clock + 1,
         \/ UNCHANGED commits
         \/ \E b \in Branches : commits' = Append(commits, [branch |-> b, at |-> clock])
  PROVE  /\ CommitsInv'
         /\ \A i \in DOMAIN commits : i \in DOMAIN commits' /\ commits'[i] = commits[i]
<1>0. /\ clock \in Nat /\ clock # 0 /\ DOMAIN commits = 1 .. Len(commits) /\ Len(commits) \in Nat
      /\ \A i \in DOMAIN commits : commits[i].at \in Nat /\ commits[i].at < clock
  BY CommitTimes
<1>1. CASE UNCHANGED commits
  <2>1. \A i \in DOMAIN commits' : commits'[i].at < clock'
    BY <1>0, <1>1
  <2> QED
    BY <1>0, <1>1, <2>1 DEF CommitsInv
<1>2. ASSUME NEW b \in Branches, commits' = Append(commits, [branch |-> b, at |-> clock])
      PROVE  CommitsInv' /\ \A i \in DOMAIN commits : i \in DOMAIN commits' /\ commits'[i] = commits[i]
  <2>1. PICK c : c = [branch |-> b, at |-> clock]
    OBVIOUS
  <2>2. c \in CommitRows /\ c.at = clock
    BY <1>0, <2>1 DEF CommitRows
  <2>3. commits \in Seq(CommitRows) /\ commits' = Append(commits, c)
    BY <1>2, <2>1 DEF CommitsInv
  <2>4. commits' \in Seq(CommitRows) /\ Len(commits') = Len(commits) + 1 /\ DOMAIN commits' = 1 .. Len(commits) + 1
        /\ commits'[Len(commits) + 1] = c /\ \A i \in 1 .. Len(commits) : commits'[i] = commits[i]
    <3>1. /\ Append(commits, c) \in Seq(CommitRows) /\ Len(Append(commits, c)) = Len(commits) + 1
          /\ Append(commits, c)[Len(commits) + 1] = c
          /\ \A i \in 1 .. Len(commits) : Append(commits, c)[i] = commits[i]
      BY ONLY <2>2, <2>3, AppendProperties
    <3>2. DOMAIN commits' = 1 .. Len(commits')
      BY ONLY <2>3, <3>1
    <3> QED
      BY ONLY <1>0, <2>3, <3>1, <3>2
  <2>5. \A i \in DOMAIN commits' : \/ i \in DOMAIN commits /\ commits'[i] = commits[i]
                                   \/ i = Len(commits) + 1 /\ commits'[i].at = clock
    BY <1>0, <2>2, <2>4
  <2>6. \A i \in DOMAIN commits' : commits'[i].at < clock'
    BY <1>0, <2>5
  <2>7. ASSUME NEW i \in DOMAIN commits', NEW j \in DOMAIN commits', i < j
        PROVE  commits'[i].at < commits'[j].at
    <3>1. i \in DOMAIN commits /\ commits'[i] = commits[i]
      BY <1>0, <2>4, <2>7
    <3> QED
      BY <1>0, <2>5, <2>7, <3>1 DEF CommitsInv
  <2>8. CommitsInv'
    BY <1>0, <2>4, <2>6, <2>7 DEF CommitsInv
  <2> QED
    BY <1>0, <2>4, <2>8
<1> QED
  BY <1>1, <1>2

LEMMA CheckKept ==
  ASSUME CommitsInv, NEW k, CheckInv(k), clock' \in {clock, clock + 1},
         \A i \in DOMAIN commits : i \in DOMAIN commits' /\ commits'[i] = commits[i],
         k.created \in DOMAIN stage', stage'[k.created] = stage[k.created]
  PROVE  CheckInv(k)'
<1>1. clock \in Nat
  BY CommitTimes
<1>2. k \in CheckRows /\ k.created < clock /\ k.saved < clock /\ k.at < clock
  BY DEF CheckInv
<1>3. k.created < clock' /\ k.saved < clock' /\ k.at < clock'
  BY <1>1, <1>2, RowFields
<1>4. k.commit # 0 => k.commit \in DOMAIN commits' /\ k.at \in KnownOr0(commits'[k.commit].at)
  BY DEF CheckInv
<1>5. \E i \in DOMAIN commits' : commits'[i].branch = k.branch
  BY DEF CheckInv
<1>6. stage[k.created] = "queued" <=> k.saved = 0
  BY DEF CheckInv
<1> QED
  BY <1>2, <1>3, <1>4, <1>5, <1>6 DEF CheckInv, KnownOr0

\* One more check.
LEMMA Adding ==
  ASSUME ChecksInv, NEW k, AddCheck(k), clock' = clock + 1, CommitsInv',
         \A i \in DOMAIN commits : i \in DOMAIN commits' /\ commits'[i] = commits[i],
         k \in CheckRows, k.created = clock, k.saved = 0, k.at <= clock,
         k.commit # 0 => k.commit \in DOMAIN commits' /\ k.at \in KnownOr0(commits'[k.commit].at),
         \E i \in DOMAIN commits' : commits'[i].branch = k.branch
  PROVE  ChecksInv' /\ OverStay
<1>0. clock \in Nat /\ clock # 0
  BY CommitTimes DEF ChecksInv
<1>1. /\ checks' = checks \cup {k} /\ DOMAIN stage' = DOMAIN stage \cup {clock}
      /\ stage'[clock] = "queued" /\ \A n \in DOMAIN stage : n # clock => stage'[n] = stage[n]
  BY DEF AddCheck
<1>2. ASSUME NEW l \in checks
      PROVE  l.created # clock /\ l.created \in DOMAIN stage /\ l.created \in DOMAIN stage'
             /\ stage'[l.created] = stage[l.created]
  <2>1. l \in CheckRows /\ l.created < clock /\ l.created \in DOMAIN stage
    BY DEF ChecksInv, CheckInv
  <2>2. l.created # clock
    BY <1>0, <2>1, RowFields
  <2> QED
    BY <1>1, <2>1, <2>2
<1>3. ASSUME NEW l \in checks PROVE CheckInv(l)'
  <2>1. CommitsInv /\ CheckInv(l)
    BY DEF ChecksInv
  <2> QED
    BY <1>0, <1>2, <2>1, CheckKept
<1>4. CheckInv(k)'
  <2>1. k.created < clock' /\ k.saved < clock' /\ k.at < clock'
    BY <1>0, RowFields
  <2>2. k.created \in DOMAIN stage' /\ (stage'[k.created] = "queued" <=> k.saved = 0)
    BY <1>1
  <2> QED
    BY <2>1, <2>2 DEF CheckInv, KnownOr0
<1>5. \A a, b \in checks' : a.created = b.created => a = b
  BY <1>1, <1>2 DEF ChecksInv
<1>6. ChecksInv'
  BY <1>1, <1>3, <1>4, <1>5 DEF ChecksInv
<1>7. OverStay
  BY <1>1, <1>2 DEF OverStay
<1> QED
  BY <1>6, <1>7

\* A check gets its commit, or its score.
LEMMA Replacing ==
  ASSUME ChecksInv, NEW k \in checks, NEW l, checks' = (checks \ {k}) \cup {l},
         l \in CheckRows, l.created = k.created, l.branch = k.branch, stage[k.created] = "queued",
         UNCHANGED commits, clock' \in {clock, clock + 1}, l.saved < clock', l.at < clock',
         DOMAIN stage' = DOMAIN stage, \A n \in DOMAIN stage : n # k.created => stage'[n] = stage[n],
         stage'[k.created] = "queued" <=> l.saved = 0,
         l.commit # 0 => l.commit \in DOMAIN commits /\ l.at \in KnownOr0(commits[l.commit].at)
  PROVE  ChecksInv' /\ OverStay
<1>0. clock \in Nat /\ clock # 0 /\ CommitsInv /\ CheckInv(k)
  BY CommitTimes DEF ChecksInv
<1>1. \A m \in checks \ {k} : m.created # k.created /\ m.created \in DOMAIN stage
  BY DEF ChecksInv, CheckInv
<1>2. CommitsInv'
  <2>1. clock' = clock + 1 => CommitsInv'
    BY <1>0, CommitsGrow
  <2>2. clock' = clock => CommitsInv'
    BY <1>0 DEF CommitsInv
  <2> QED
    BY <2>1, <2>2
<1>3. ASSUME NEW m \in checks \ {k} PROVE CheckInv(m)'
  <2>1. CheckInv(m) /\ m.created \in DOMAIN stage' /\ stage'[m.created] = stage[m.created]
    BY <1>1 DEF ChecksInv
  <2> QED
    BY <1>0, <2>1, CheckKept
<1>4. CheckInv(l)'
  <2>1. k.created < clock /\ k.created \in DOMAIN stage /\ \E i \in DOMAIN commits : commits[i].branch = k.branch
    BY <1>0 DEF CheckInv
  <2>2. l.created < clock'
    BY <1>0, <2>1, RowFields
  <2> QED
    BY <2>1, <2>2 DEF CheckInv, KnownOr0
<1>5. \A a, b \in checks' : a.created = b.created => a = b
  BY <1>1 DEF ChecksInv
<1>6. ChecksInv'
  BY <1>2, <1>3, <1>4, <1>5 DEF ChecksInv
<1>7. OverStay
  BY <1>1 DEF OverStay
<1> QED
  BY <1>6, <1>7

\* Steps of the checks.
ChecksStep ==
  \/ \E b \in Branches : RunOnBranch(b) \/ \E heard \in BOOLEAN : Push(b, heard)
  \/ \E i \in DOMAIN commits : \E at \in KnownOr0(commits[i].at) : RunOnCommit(i, at)
  \/ \E k \in checks :
       \/ \E at \in KnownOr0(commits[HeadOf(k.branch)].at) : Pin(k, at)
       \/ \E s \in Outcomes : EndRun(k, s)

LEMMA ChecksMove ==
  ASSUME ChecksInv, ChecksStep
  PROVE  ChecksInv' /\ OverStay
<1>0. /\ clock \in Nat /\ clock # 0 /\ DOMAIN commits = 1 .. Len(commits) /\ Len(commits) \in Nat
      /\ \A i \in DOMAIN commits : commits[i].at \in Nat /\ commits[i].branch \in Branches /\ commits[i].at < clock
      /\ CommitsInv
  BY CommitTimes DEF ChecksInv
<1>1. ASSUME NEW commit \in Nat, NEW at \in Nat, NEW branch \in Branches, NEW k, k = Check(commit, at, branch, clock)
      PROVE  k \in CheckRows /\ k.commit = commit /\ k.at = at /\ k.branch = branch /\ k.created = clock /\ k.saved = 0
  BY <1>0, <1>1 DEF Check, CheckRows
<1>2. ASSUME NEW b \in Branches, RunOnBranch(b) PROVE ChecksInv' /\ OverStay
  <2>1. PICK k : k = Check(0, 0, b, clock)
    OBVIOUS
  <2>2. k \in CheckRows /\ k.commit = 0 /\ k.at = 0 /\ k.branch = b /\ k.created = clock /\ k.saved = 0
    BY <1>1, <2>1
  <2>3. AddCheck(k) /\ clock' = clock + 1 /\ UNCHANGED commits /\ \E i \in DOMAIN commits : commits[i].branch = b
    BY <1>2, <2>1 DEF RunOnBranch, Tick
  <2>4. CommitsInv'
    BY <1>0, <2>3, CommitsGrow
  <2>5. k.at <= clock
    BY <1>0, <2>2
  <2> QED
    BY <2>2, <2>3, <2>4, <2>5, Adding
<1>3. ASSUME NEW b \in Branches, NEW heard \in BOOLEAN, Push(b, heard) PROVE ChecksInv' /\ OverStay
  <2>1. PICK c : c = [branch |-> b, at |-> clock]
    OBVIOUS
  <2>2. commits' = Append(commits, c) /\ clock' = clock + 1 /\ c.branch = b /\ c.at = clock
    BY <1>3, <2>1 DEF Push, Tick
  <2>3. CommitsInv' /\ \A i \in DOMAIN commits : i \in DOMAIN commits' /\ commits'[i] = commits[i]
    BY <1>0, <2>1, <2>2, CommitsGrow
  <2>4. Len(commits) + 1 \in DOMAIN commits' /\ commits'[Len(commits) + 1] = c
    <3>1. commits \in Seq(CommitRows)
      BY <1>0 DEF CommitsInv
    <3> QED
      BY <1>0, <2>2, <3>1
  <2>5. CASE heard
    <3>1. PICK k : k = Check(Len(commits) + 1, clock, b, clock)
      OBVIOUS
    <3>2. k \in CheckRows /\ k.commit = Len(commits) + 1 /\ k.at = clock /\ k.branch = b /\ k.created = clock /\ k.saved = 0
      <4>1. Len(commits) + 1 \in Nat /\ clock \in Nat /\ b \in Branches
        BY <1>0
      <4> QED
        BY <1>1, <3>1, <4>1
    <3>3. AddCheck(k) /\ k.at <= clock
      BY <1>0, <1>3, <2>5, <3>1, <3>2 DEF Push
    <3>4. /\ k.commit \in DOMAIN commits' /\ k.at \in KnownOr0(commits'[k.commit].at)
          /\ \E i \in DOMAIN commits' : commits'[i].branch = k.branch
      BY <2>2, <2>4, <3>2 DEF KnownOr0
    <3> QED
      BY <2>2, <2>3, <3>2, <3>3, <3>4, Adding
  <2>6. CASE ~heard
    <3>1. UNCHANGED <<checks, stage>>
      BY <1>3, <2>6 DEF Push
    <3>2. ASSUME NEW l \in checks PROVE CheckInv(l)'
      <4>1. CheckInv(l) /\ l.created \in DOMAIN stage
        BY DEF ChecksInv, CheckInv
      <4> QED
        BY <1>0, <2>2, <2>3, <3>1, <4>1, CheckKept
    <3>3. ChecksInv'
      BY <2>3, <3>1, <3>2 DEF ChecksInv
    <3> QED
      BY <3>1, <3>3 DEF OverStay, ChecksInv, CheckInv
  <2> QED
    BY <2>5, <2>6
<1>4. ASSUME NEW i \in DOMAIN commits, NEW at \in KnownOr0(commits[i].at), RunOnCommit(i, at)
      PROVE  ChecksInv' /\ OverStay
  <2>1. PICK k : k = Check(i, at, commits[i].branch, clock)
    OBVIOUS
  <2>2. i \in Nat /\ at \in Nat /\ at <= clock /\ commits[i].branch \in Branches
    BY <1>0 DEF KnownOr0
  <2>3. k \in CheckRows /\ k.commit = i /\ k.at = at /\ k.branch = commits[i].branch /\ k.created = clock /\ k.saved = 0
    BY <1>1, <2>1, <2>2
  <2>4. AddCheck(k) /\ clock' = clock + 1 /\ UNCHANGED commits
    BY <1>4, <2>1 DEF RunOnCommit, Tick
  <2>5. CommitsInv'
    BY <1>0, <2>4, CommitsGrow
  <2>6. /\ k.commit \in DOMAIN commits' /\ k.at \in KnownOr0(commits'[k.commit].at)
        /\ \E j \in DOMAIN commits' : commits'[j].branch = k.branch
    BY <1>4, <2>3, <2>4
  <2> QED
    BY <2>2, <2>3, <2>4, <2>5, <2>6, Adding
<1>5. ASSUME NEW k \in checks, NEW at \in KnownOr0(commits[HeadOf(k.branch)].at), Pin(k, at) PROVE ChecksInv' /\ OverStay
  <2>1. PICK head : head = HeadOf(k.branch)
    OBVIOUS
  <2>2. PICK l : l = [k EXCEPT !.commit = head, !.at = at]
    OBVIOUS
  <2>3. CheckInv(k) /\ k \in CheckRows
    BY DEF ChecksInv, CheckInv
  <2>4. head \in DOMAIN commits /\ head \in Nat /\ at \in Nat /\ at < clock /\ at \in KnownOr0(commits[head].at)
    <3>1. head \in DOMAIN commits
      BY <1>0, <2>1, <2>3, HeadOfIs DEF CheckInv
    <3> QED
      BY <1>0, <2>1, <3>1 DEF KnownOr0
  <2>5. /\ l \in CheckRows /\ l.commit = head /\ l.at = at /\ l.created = k.created
        /\ l.branch = k.branch /\ l.saved = k.saved
    BY <2>2, <2>3, <2>4 DEF CheckRows
  <2>6. checks' = (checks \ {k}) \cup {l} /\ UNCHANGED <<clock, commits, stage>> /\ stage[k.created] = "queued"
    BY <1>5, <2>1, <2>2 DEF Pin, WaitingForCommit
  <2>7. k.saved = 0
    BY <2>3, <2>6 DEF CheckInv
  <2>8. l.saved < clock'
    BY <1>0, <2>5, <2>6, <2>7
  <2> QED
    BY <1>0, <2>4, <2>5, <2>6, <2>7, <2>8, Replacing
<1>6. ASSUME NEW k \in checks, NEW s \in Outcomes, EndRun(k, s) PROVE ChecksInv' /\ OverStay
  <2>1. PICK l : l = [k EXCEPT !.saved = clock, !.score = s]
    OBVIOUS
  <2>2. CheckInv(k) /\ k \in CheckRows /\ k.created \in DOMAIN stage /\ k.at < clock
    BY DEF ChecksInv, CheckInv
  <2>3. /\ l \in CheckRows /\ l.commit = k.commit /\ l.at = k.at /\ l.created = k.created
        /\ l.branch = k.branch /\ l.saved = clock
    BY <1>0, <2>1, <2>2 DEF CheckRows
  <2>4. /\ checks' = (checks \ {k}) \cup {l} /\ clock' = clock + 1 /\ UNCHANGED commits
        /\ stage[k.created] = "queued" /\ stage' = [stage EXCEPT ![k.created] = "scored"]
    BY <1>6, <2>1 DEF EndRun, Tick
  <2>5. /\ DOMAIN stage' = DOMAIN stage /\ stage'[k.created] = "scored"
        /\ \A n \in DOMAIN stage : n # k.created => stage'[n] = stage[n]
    BY <2>2, <2>4
  <2>6. l.commit # 0 => l.commit \in DOMAIN commits /\ l.at \in KnownOr0(commits[l.commit].at)
    BY <2>2, <2>3 DEF CheckInv
  <2>7. l.saved < clock' /\ l.at < clock' /\ l.saved # 0
    BY <1>0, <2>2, <2>3, <2>4, RowFields
  <2> QED
    BY <2>3, <2>4, <2>5, <2>6, <2>7, Replacing
<1> QED
  BY <1>2, <1>3, <1>4, <1>5, <1>6 DEF ChecksStep

-----------------------------------------------------------------------------
(* What the steps do to what was told. *)

Critical(note) == note.kind = "project.critical"
Quiet ==
  \/ UNCHANGED notes
  \/ \E note : ~Critical(note) /\ notes' = notes \o <<note>>

\* Nothing but a finished run tells that a project failed.
LEMMA StepKinds ==
  ASSUME NotifyNext
  PROVE  \/ ChecksStep /\ UNCHANGED notes
         \/ \E k \in checks : Publish(k)
         \/ UNCHANGED runVars /\ Quiet
<1>1. ASSUME NEW kind \in {"project.added", "project.removed", "standard.changed", "connection.broken", "run.timed_out",
                           "ai_provider.failed", "graph.failed", "member.joined", "member.role_changed", "member.removed"},
             NEW a, NEW b, NEW c, RaiseOne(Note(kind, a, b, c, 0))
      PROVE  Quiet
  <2>1. ~Critical(Note(kind, a, b, c, 0))
    BY DEF Critical, Note
  <2> QED
    BY <1>1, <2>1 DEF RaiseOne, Raise, Quiet
<1>2. CASE ChecksStep
  BY <1>2 DEF ChecksStep, RunOnBranch, Push, RunOnCommit, Pin, EndRun
<1>3. ASSUME NEW a \in People,
             ProjectAdded(a) \/ ProjectRemoved(a) \/ StandardChanged(a) \/ RunsTimedOut(a) \/ ConnectionBroken(a)
      PROVE  UNCHANGED runVars /\ Quiet
  BY <1>1, <1>3 DEF ProjectAdded, ProjectRemoved, StandardChanged, RunsTimedOut, ConnectionBroken, Changed
<1>4. ASSUME NEW a \in People, NEW p \in People, NEW r \in {"admin", "member"},
             MemberRemoved(p, a) \/ MemberJoined(p, r, a) \/ MemberRoleChanged(p, r, a)
      PROVE  UNCHANGED runVars /\ Quiet
  BY <1>1, <1>4 DEF MemberRemoved, MemberJoined, MemberRoleChanged
<1>5. CASE AIProviderFailed \/ \E hadWorked \in BOOLEAN : GraphBroke(hadWorked)
  BY <1>1, <1>5 DEF AIProviderFailed, GraphBroke, Changed
<1>6. ASSUME NEW n \in DOMAIN notes,
             Dispatch(n) \/ Deliver(n) \/ ChannelFails(n) \/ EndDelivery(n) \/ Crash(n) \/ Recover(n)
      PROVE  UNCHANGED runVars /\ Quiet
  BY <1>6 DEF Dispatch, Deliver, ChannelFails, EndDelivery, Crash, Recover, Quiet
<1>7. ASSUME (\E i \in items : MarkRead(i) \/ MarkUnread(i)) \/ (\E p \in People : MarkAllRead(p))
      PROVE  UNCHANGED runVars /\ Quiet
  BY <1>7 DEF MarkRead, MarkUnread, MarkAllRead, Rewrite, Quiet
<1> QED
  BY <1>2, <1>3, <1>4, <1>5, <1>6, <1>7 DEF NotifyNext, ChecksStep

LEMMA Publishing ==
  ASSUME ChecksInv, NEW k \in checks, Publish(k)
  PROVE  ChecksInv' /\ OverStay /\ checks' = checks /\ stage[k.created] = "scored" /\ stage'[k.created] = "done"
<1>1. /\ UNCHANGED <<clock, commits, checks>> /\ stage[k.created] = "scored"
      /\ stage' = [stage EXCEPT ![k.created] = "done"] /\ k.created \in DOMAIN stage
  BY DEF Publish, ChecksInv, CheckInv
<1>2. /\ DOMAIN stage' = DOMAIN stage /\ stage'[k.created] = "done"
      /\ \A n \in DOMAIN stage : n # k.created => stage'[n] = stage[n]
  BY <1>1
<1>3. ASSUME NEW l \in checks PROVE CheckInv(l)'
  <2>1. CheckInv(l)
    BY DEF ChecksInv
  <2> QED
    BY <1>1, <1>2, <2>1 DEF CheckInv, KnownOr0
<1>4. ChecksInv'
  BY <1>1, <1>3 DEF ChecksInv, CommitsInv
<1>5. OverStay
  <2>1. \A l \in checks : l.created \in DOMAIN stage
    BY DEF ChecksInv, CheckInv
  <2> QED
    BY <1>1, <1>2, <2>1 DEF OverStay
<1> QED
  BY <1>1, <1>2, <1>4, <1>5

\* The checks are in order after every step, and what is over stays.
LEMMA ChecksKept ==
  ASSUME ChecksInv, [NotifyNext]_notifyVars
  PROVE  ChecksInv' /\ OverStay
<1>1. CASE UNCHANGED runVars
  <2>1. UNCHANGED <<clock, commits, checks, stage>>
    BY <1>1 DEF runVars
  <2>2. \A k \in checks : CheckInv(k) => CheckInv(k)'
    BY <2>1 DEF CheckInv, KnownOr0
  <2>3. ChecksInv'
    BY <2>1, <2>2 DEF ChecksInv, CommitsInv
  <2> QED
    BY <2>1, <2>3 DEF OverStay, ChecksInv, CheckInv
<1>2. CASE ChecksStep
  BY <1>2, ChecksMove
<1>3. ASSUME NEW k \in checks, Publish(k) PROVE ChecksInv' /\ OverStay
  BY <1>3, Publishing
<1> QED
  BY <1>1, <1>2, <1>3, StepKinds DEF notifyVars

LEMMA ChecksStart == NotifyInit => ChecksInv
  BY DEF NotifyInit, ChecksInv, CommitsInv

-----------------------------------------------------------------------------
LEMMA ChecksAlways == NotifySpec => []ChecksInv
<1>1. ChecksInv /\ [NotifyNext]_notifyVars => ChecksInv'
  BY ChecksKept
<1> QED
  BY <1>1, ChecksStart, PTL DEF NotifySpec

\* Checking an old commit again never moves a branch back: what the branch
\* reads only gets newer while the platform gives the commits' times and what it
\* read stays among the recent checks (BranchCommitTimeline.branch_head).
THEOREM OldChecksNeverMoveTheBranchHolds == NotifySpec => OldChecksNeverMoveTheBranch
<1> DEFINE Moved ==
      LET now == BranchHead(checks, "main")
          then == BranchHead(checks', "main")
      IN (\A k \in checks' : k.commit # 0 => k.at # 0) /\ now \in Recent(On(checks', "main"))
         => then.commit >= now.commit
<1>1. ChecksInv' => Moved
  <2> SUFFICES ASSUME ChecksInv', \A k \in checks' : k.commit # 0 => k.at # 0,
                      NEW now, now = BranchHead(checks, "main"), now \in Recent(On(checks', "main")),
                      NEW then, then = BranchHead(checks', "main")
               PROVE  then.commit >= now.commit
    OBVIOUS
  <2>1. PICK S : S = {c \in Recent(On(checks', "main")) : c.commit # 0}
    OBVIOUS
  <2>2. now \in S /\ S \subseteq checks' /\ then = Latest(S, OrderedAt, Created)
    BY <2>1 DEF Recent, On, BranchHead, NewestCheckedCommit
  <2>3. PICK n : n = clock' /\ n \in Nat
    BY DEF ChecksInv, CommitsInv
  <2>4. ASSUME NEW k \in S
        PROVE  /\ k.at \in Nat /\ k.created \in 0 .. n /\ k.at \in 0 .. n /\ OrderedAt(k) = k.at
               /\ k.commit \in DOMAIN commits' /\ k.at = commits'[k.commit].at /\ k.commit \in Nat
    <3>1. k \in checks' /\ k.commit # 0 /\ k.at # 0
      BY <2>1, <2>2
    <3>2. /\ k \in CheckRows /\ k.created < clock' /\ k.at < clock'
          /\ k.commit \in DOMAIN commits' /\ k.at \in KnownOr0(commits'[k.commit].at)
      BY <3>1 DEF ChecksInv, CheckInv
    <3> QED
      BY <2>3, <3>1, <3>2, RowFields DEF KnownOr0, OrderedAt
  <2>5. then \in S /\ (OrderedAt(then) > OrderedAt(now) \/ OrderedAt(then) = OrderedAt(now))
    <3>1. \A k \in S : OrderedAt(k) \in 0 .. n /\ k.created \in 0 .. n
      BY <2>4
    <3>2. S # {}
      BY <2>2
    <3> QED
      BY <2>2, <2>3, <3>1, <3>2, LatestByCreated
  <2>6. then.at >= now.at
    <3>1. OrderedAt(then) = then.at /\ OrderedAt(now) = now.at /\ then.at \in Nat /\ now.at \in Nat
      BY <2>2, <2>4, <2>5
    <3> QED
      BY <2>5, <3>1
  <2>7. ASSUME then.commit < now.commit PROVE FALSE
    <3>1. commits'[then.commit].at < commits'[now.commit].at
      BY <2>2, <2>4, <2>5, <2>7 DEF ChecksInv, CommitsInv
    <3> QED
      BY <2>2, <2>4, <2>5, <2>6, <3>1
  <2>8. then.commit \in Nat /\ now.commit \in Nat
    BY <2>2, <2>4, <2>5
  <2> QED
    BY <2>7, <2>8
<1>2. ChecksInv' => [Moved]_notifyVars
  BY <1>1
<1> QED
  BY <1>2, ChecksAlways, PTL DEF OldChecksNeverMoveTheBranch

LEMMA ToneAndGrade ==
  ASSUME NEW score \in Outcomes \cup {NoScore}
  PROVE  CountedLevel(Tone(score)) = ColourOf(Grade(score))
<1>1. score.value \in -1 .. 100 /\ score.failed \in BOOLEAN
  <2>1. NoScore.value \in -1 .. 100 /\ NoScore.failed \in BOOLEAN
    BY DEF NoScore
  <2>2. score \in Outcomes => score.value \in -1 .. 100 /\ score.failed \in BOOLEAN
    BY NotificationsAssumption
  <2> QED
    BY <2>1, <2>2
<1>2. HealthyFrom = 90
  <2>1. {Bands[i] : i \in DOMAIN Bands} = {Bands[1], Bands[2], Bands[3], Bands[4], Bands[5]}
    BY DEF Bands
  <2>2. \A b \in {Bands[i] : i \in DOMAIN Bands} : b.letter = "A" <=> b = Bands[2]
    BY <2>1 DEF Bands
  <2>3. Bands[2].lowest = 90 /\ Bands[2] \in {Bands[i] : i \in DOMAIN Bands}
    BY <2>1 DEF Bands
  <2>4. (CHOOSE b \in {Bands[i] : i \in DOMAIN Bands} : b.letter = "A") = Bands[2]
    BY <2>2, <2>3
  <2> QED
    BY <2>3, <2>4 DEF HealthyFrom
<1>3. CASE score.failed
  BY <1>3 DEF Tone, Grade, CountedLevel, ColourOf
<1>4. CASE ~score.failed /\ score.value = -1
  BY <1>4 DEF Tone, Grade, CountedLevel, ColourOf
<1>5. CASE ~score.failed /\ score.value # -1
  <2>1. PICK v : v = score.value /\ v \in 0 .. 100
    BY <1>1, <1>5
  <2>2. PICK b : b = BandOf(v)
    OBVIOUS
  <2>3. Tone(score) = IF v >= 90 THEN "healthy" ELSE "needs_attention"
    BY <1>2, <1>5, <2>1 DEF Tone
  <2>4. Grade(score) = Bands[b].letter
    BY <1>5, <2>1, <2>2 DEF Grade
  <2>5. DOMAIN Bands = 1 .. 5 /\ Bands[1].lowest = 100 /\ Bands[2].lowest = 90 /\ Bands[3].lowest = 75
        /\ Bands[4].lowest = 60 /\ Bands[5].lowest = 0
    BY DEF Bands
  <2>6. Bands[1].letter = "A+" /\ Bands[2].letter = "A" /\ Bands[3].letter = "B"
        /\ Bands[4].letter = "C" /\ Bands[5].letter = "D"
    BY DEF Bands
  <2>7. \E i \in 1 .. 5 : v >= Bands[i].lowest /\ \A j \in 1 .. i - 1 : v < Bands[j].lowest
    <3>1. CASE v = 100
      BY <2>5, <3>1
    <3>2. CASE v \in 90 .. 99
      BY <2>5, <3>2
    <3>3. CASE v \in 75 .. 89
      BY <2>5, <3>3
    <3>4. CASE v \in 60 .. 74
      BY <2>5, <3>4
    <3>5. CASE v \in 0 .. 59
      BY <2>5, <3>5
    <3> QED
      BY <2>1, <3>1, <3>2, <3>3, <3>4, <3>5
  <2>8. b \in 1 .. 5 /\ v >= Bands[b].lowest /\ \A j \in 1 .. b - 1 : v < Bands[j].lowest
    BY <2>2, <2>5, <2>7 DEF BandOf
  <2>9. v >= 90 <=> b \in {1, 2}
    <3>1. b \in {1, 2} => v >= 90
      BY <2>1, <2>5, <2>8
    <3>2. b \in {3, 4, 5} => v < 90
      BY <2>5, <2>8
    <3> QED
      BY <2>1, <2>8, <3>1, <3>2
  <2> QED
    BY <2>3, <2>4, <2>6, <2>8, <2>9 DEF CountedLevel, ColourOf
<1> QED
  BY <1>3, <1>4, <1>5

\* The dashboard, the project's page and the list of commits read the same
\* check, whatever was checked again and in whatever order runs ended, and the
\* dashboard counts the project under the colour of the grade the API gives it
\* (project_heads, branch_head, CommitRow.shown, ScoreHealth, ScoreBands,
\* ProjectHealthCounts, ProjectHealthService.health).
THEOREM HeadsAgreeHolds == NotifySpec => []HeadsAgree
<1>1. ChecksInv => HeadsAgree
  <2> SUFFICES ASSUME ChecksInv, NEW head, head = ProjectHead(checks), head \in Recent(On(checks, "main"))
               PROVE  /\ head = BranchHead(checks, "main")
                      /\ (\A k \in checks : k.commit # 0 => k.at # 0) => head = Shown(checks, head.commit, "main")
                      /\ ProjectHealthCount(checks) = ColourOf(Health(checks, "main"))
    BY DEF HeadsAgree
  <2>1. PICK M : M = {c \in On(checks, "main") : c.commit # 0}
    OBVIOUS
  <2>2. head \in M /\ M \subseteq checks /\ head = Latest(M, OrderedAt, Created)
    BY <2>1 DEF Recent, On, ProjectHead
  <2>3. PICK n : n = clock /\ n \in Nat
    BY CommitTimes DEF ChecksInv
  <2>4. \A k \in M : OrderedAt(k) \in 0 .. n /\ k.created \in 0 .. n
    BY <2>2, <2>3, CheckTimes DEF ChecksInv
  <2>5. \A d \in M : OrderedAt(head) > OrderedAt(d) \/ (OrderedAt(head) = OrderedAt(d) /\ head.created >= d.created)
    BY <2>2, <2>3, <2>4, LatestByCreated
  <2>6. head = BranchHead(checks, "main")
    <3>1. PICK R : R = {c \in Recent(On(checks, "main")) : c.commit # 0}
      OBVIOUS
    <3>2. head \in R /\ R \subseteq M
      BY <2>1, <2>2, <3>1 DEF Recent
    <3>3. R \in SUBSET checks
      BY <2>2, <3>2
    <3>4. Latest(R, OrderedAt, Created) = head
      BY <2>5, <3>2, <3>3, LatestIs
    <3> QED
      BY <3>1, <3>4 DEF BranchHead, NewestCheckedCommit
  <2>7. ASSUME \A k \in checks : k.commit # 0 => k.at # 0 PROVE head = Shown(checks, head.commit, "main")
    <3>1. PICK C : C = {c \in On(checks, "main") : c.commit = head.commit}
      OBVIOUS
    <3>2. head \in C /\ C \subseteq M /\ C \in SUBSET checks
      BY <2>1, <2>2, <3>1 DEF On
    <3>3. \A c \in C : OrderedAt(c) = commits[head.commit].at
      BY <2>1, <2>2, <2>7, <3>1, <3>2 DEF ChecksInv, CheckInv, KnownOr0, OrderedAt
    <3>4. \A c \in C : head.created >= c.created
      <4>1. ASSUME NEW c \in C PROVE head.created >= c.created
        <5>1. PICK a, b : a = OrderedAt(head) /\ b = OrderedAt(c) /\ a = b /\ a \in 0 .. n
          BY <2>2, <2>4, <3>2, <3>3
        <5>2. a > b \/ head.created >= c.created
          BY <2>5, <3>2, <5>1
        <5> QED
          BY ONLY <2>3, <5>1, <5>2
      <4> QED
        BY <4>1
    <3>5. Latest(C, Created, Created) = head
      BY <3>2, <3>4, LatestCheck
    <3> QED
      BY <3>1, <3>5 DEF Shown
  <2>8. head.score \in Outcomes \cup {NoScore}
    <3>1. head \in CheckRows
      BY <2>2 DEF ChecksInv, CheckInv
    <3> QED
      BY <3>1, RowFields
  <2>9. ProjectHealthCount(checks) = ColourOf(Health(checks, "main"))
    <3>1. PICK s : s = (IF head.saved = 0 THEN NoScore ELSE head.score)
      OBVIOUS
    <3>2. ProjectScore(checks) = s
      BY <2>2, <3>1 DEF ProjectScore
    <3>3. BranchScore(checks, "main") = s
      BY <2>6, <3>1 DEF BranchScore
    <3>4. CountedLevel(Tone(s)) = ColourOf(Grade(s))
      BY <2>8, <3>1, ToneAndGrade
    <3> QED
      BY <3>2, <3>3, <3>4 DEF ProjectHealthCount, Health
  <2> QED
    BY <2>6, <2>7, <2>9
<1> QED
  BY <1>1, ChecksAlways, PTL

-----------------------------------------------------------------------------
\* Every telling is of a check whose job is over; between two of them the
\* branch passed.
ToldByChecks == \A i \in Tellings : \E k \in checks : k.created = notes[i].run /\ stage[k.created] = "done"
Passed(c) ==
  \E k \in checks :
    /\ k.saved # 0 /\ k.branch = "main"
    /\ Tone(k.score) \in {"healthy", "needs_attention"} /\ OrderedAt(k) >= OrderedAt(c)
PassedBetween ==
  \A i, j \in Tellings : \A c \in checks : i < j /\ c.created = notes[i].run /\ c.branch = "main" => Passed(c)
TellInv ==
  /\ ChecksInv
  /\ \E S : notes \in Seq(S)
  /\ ToldByChecks
  /\ PassedBetween

LEMMA ToneIs == \A score : Tone(score) \in {"failed", "unknown", "healthy", "needs_attention"}
  BY DEF Tone

\* What a finished run tells, at most one of it that the project failed, and
\* that only when the score before it was a passing one.
LEMMA Tells ==
  ASSUME NEW k, NEW new, new = CouldNotEvaluate(k) \o StandardsFailing(k) \o ProjectFailed(k)
  PROVE  /\ \E S : new \in Seq(S)
         /\ \A i, j \in 1 .. Len(new) : Critical(new[i]) /\ Critical(new[j]) => i = j
         /\ \A i \in 1 .. Len(new) : Critical(new[i]) =>
              new[i].run = k.created /\ Tone(ScoreBefore(checks, "main", k.created)) \in {"healthy", "needs_attention"}
<1>1. PICK a, b, c : a = RunNote("run.failed", k) /\ b = RunNote("standards.failing", k) /\ c = RunNote("project.critical", k)
  OBVIOUS
<1>2. ~Critical(a) /\ ~Critical(b) /\ c.run = k.created
  BY <1>1 DEF Critical, RunNote, Note
<1>3. PICK A, B, C : A = CouldNotEvaluate(k) /\ B = StandardsFailing(k) /\ C = ProjectFailed(k)
  OBVIOUS
<1>4. /\ A \in {<<a>>, << >>} /\ B \in {<<b>>, << >>} /\ C \in {<<c>>, << >>}
      /\ C = <<c>> => Tone(ScoreBefore(checks, "main", k.created)) \in {"healthy", "needs_attention"}
  <2>1. A \in {<<a>>, << >>} /\ B \in {<<b>>, << >>}
    BY <1>1, <1>3 DEF CouldNotEvaluate, StandardsFailing
  <2>2. C \in {<<c>>, << >>}
        /\ (C = << >> \/ BecameFailed(Tone(ScoreBefore(checks, "main", k.created)), Tone(BranchScore(checks, "main"))))
    BY <1>1, <1>3 DEF ProjectFailed
  <2>3. <<c>> # << >>
    OBVIOUS
  <2> QED
    BY <2>1, <2>2, <2>3, ToneIs DEF BecameFailed
<1>5. PICK D : D = A \o B
  OBVIOUS
<1>6. D \in Seq({a, b}) /\ D \in Seq({a, b, c}) /\ C \in Seq({a, b, c}) /\ Len(C) \in {0, 1} /\ Len(D) \in Nat
      /\ (\A i \in 1 .. Len(C) : C[i] = c /\ C = <<c>>)
  <2>0. /\ << >> \in Seq({a, b}) /\ << >> \in Seq({a, b, c}) /\ Len(<< >>) = 0
        /\ <<a>> \in Seq({a, b}) /\ <<b>> \in Seq({a, b})
        /\ <<c>> \in Seq({a, b, c}) /\ Len(<<c>>) = 1 /\ <<c>>[1] = c
    OBVIOUS
  <2>1. A \in Seq({a, b}) /\ B \in Seq({a, b})
    BY <1>4, <2>0
  <2>2. D \in Seq({a, b})
    BY <1>5, <2>1, ConcatProperties
  <2>3. D \in Seq({a, b, c}) /\ Len(D) \in Nat
    BY <2>2
  <2>4. C \in Seq({a, b, c}) /\ Len(C) \in {0, 1} /\ \A i \in 1 .. Len(C) : C[i] = c /\ C = <<c>>
    <3>1. CASE C = << >>
      BY <2>0, <3>1
    <3>2. CASE C = <<c>>
      <4>1. C \in Seq({a, b, c}) /\ Len(C) = 1 /\ C[1] = c
        BY <2>0, <3>2
      <4> QED
        BY <3>2, <4>1
    <3> QED
      BY <1>4, <3>1, <3>2
  <2> QED
    BY <2>2, <2>3, <2>4
<1>7. /\ new \in Seq({a, b, c}) /\ Len(new) = Len(D) + Len(C)
      /\ \A i \in 1 .. Len(D) + Len(C) : new[i] = IF i <= Len(D) THEN D[i] ELSE C[i - Len(D)]
  BY <1>3, <1>5, <1>6, ConcatProperties
<1>8. ASSUME NEW i \in 1 .. Len(new), Critical(new[i])
      PROVE  i = Len(D) + 1 /\ new[i] = c /\ C = <<c>>
  <2>1. CASE i <= Len(D)
    <3>1. i \in 1 .. Len(D) /\ i \in 1 .. Len(D) + Len(C)
      BY <1>6, <1>7, <1>8, <2>1
    <3>2. D[i] \in {a, b}
      BY ONLY <1>6, <3>1
    <3>3. new[i] = D[i]
      BY <1>7, <2>1, <3>1
    <3> QED
      BY <1>2, <1>8, <3>2, <3>3
  <2>2. CASE ~(i <= Len(D))
    <3>1. PICK j : j = i - Len(D)
      OBVIOUS
    <3>2. j \in 1 .. Len(C) /\ i = Len(D) + j /\ new[i] = C[j]
      BY <1>6, <1>7, <2>2, <3>1
    <3> QED
      BY <1>6, <3>2
  <2> QED
    BY <2>1, <2>2
<1> QED
  BY <1>2, <1>4, <1>7, <1>8

\* Every telling after a step was there before, or is the one telling of the
\* run that ended.
LEMMA TellingsAfter ==
  ASSUME TellInv, [NotifyNext]_notifyVars
  PROVE  /\ \E S : notes' \in Seq(S)
         /\ \/ \A i \in Tellings' : i \in Tellings /\ notes'[i] = notes[i]
            \/ \E k \in checks, n \in Nat :
                 /\ Publish(k) /\ Tone(ScoreBefore(checks, "main", k.created)) \in {"healthy", "needs_attention"}
                 /\ notes'[n].run = k.created /\ n > Len(notes)
                 /\ \A i \in Tellings' : i = n \/ (i \in Tellings /\ notes'[i] = notes[i])
<1>1. PICK S : notes \in Seq(S)
  BY DEF TellInv
<1>2. Len(notes) \in Nat /\ DOMAIN notes = 1 .. Len(notes)
  BY <1>1
<1>3. CASE UNCHANGED notes
  BY <1>1, <1>3 DEF Tellings
<1>4. ASSUME NEW T, NEW new \in Seq(T), notes' = notes \o new
      PROVE  /\ \E U : notes' \in Seq(U)
             /\ \A i \in Tellings' : \/ i \in Tellings /\ notes'[i] = notes[i]
                                     \/ \E j \in 1 .. Len(new) : i = Len(notes) + j /\ notes'[i] = new[j] /\ Critical(new[j])
  <2>1. notes \in Seq(S \cup T) /\ new \in Seq(S \cup T)
    BY <1>1
  <2>2. notes' \in Seq(S \cup T) /\ Len(notes') = Len(notes) + Len(new) /\ Len(new) \in Nat
        /\ \A i \in 1 .. Len(notes) + Len(new) :
             notes'[i] = IF i <= Len(notes) THEN notes[i] ELSE new[i - Len(notes)]
    BY <1>4, <2>1, ConcatProperties
  <2>3. ASSUME NEW i \in DOMAIN notes', notes'[i].kind = "project.critical"
        PROVE  \/ i \in Tellings /\ notes'[i] = notes[i]
               \/ \E j \in 1 .. Len(new) : i = Len(notes) + j /\ notes'[i] = new[j] /\ Critical(new[j])
    <3>1. i \in 1 .. Len(notes) + Len(new)
      BY <2>2
    <3>2. CASE i <= Len(notes)
      BY <1>2, <2>2, <2>3, <3>1, <3>2 DEF Tellings
    <3>3. CASE ~(i <= Len(notes))
      <4>1. notes'[i] = new[i - Len(notes)]
        BY <1>2, <2>2, <3>1, <3>3
      <4>2. PICK j : j = i - Len(notes)
        OBVIOUS
      <4>3. j \in 1 .. Len(new) /\ i = Len(notes) + j
        BY <1>2, <2>2, <3>1, <3>3, <4>2
      <4> QED
        BY <2>3, <4>1, <4>2, <4>3 DEF Critical
    <3> QED
      BY <3>2, <3>3
  <2> QED
    BY <2>2, <2>3 DEF Tellings
<1>5. ASSUME NEW note, ~Critical(note), notes' = notes \o <<note>>
      PROVE  (\E U : notes' \in Seq(U)) /\ \A i \in Tellings' : i \in Tellings /\ notes'[i] = notes[i]
  <2>1. PICK new : new = <<note>>
    OBVIOUS
  <2>2. new \in Seq({note}) /\ \A j \in 1 .. Len(new) : new[j] = note
    BY <2>1
  <2> QED
    BY <1>4, <1>5, <2>1, <2>2
<1>6. ASSUME NEW k \in checks, Publish(k)
      PROVE  /\ \E U : notes' \in Seq(U)
             /\ \/ \A i \in Tellings' : i \in Tellings /\ notes'[i] = notes[i]
                \/ \E n \in Nat :
                     /\ Tone(ScoreBefore(checks, "main", k.created)) \in {"healthy", "needs_attention"}
                     /\ notes'[n].run = k.created /\ n > Len(notes)
                     /\ \A i \in Tellings' : i = n \/ (i \in Tellings /\ notes'[i] = notes[i])
  <2>1. PICK new : new = CouldNotEvaluate(k) \o StandardsFailing(k) \o ProjectFailed(k)
    OBVIOUS
  <2>2. notes' = notes \o new
    BY <1>6, <2>1 DEF Publish, Raise
  <2>3. PICK T : new \in Seq(T)
    BY <2>1, Tells
  <2>4. /\ \A i, j \in 1 .. Len(new) : Critical(new[i]) /\ Critical(new[j]) => i = j
        /\ \A i \in 1 .. Len(new) : Critical(new[i]) =>
             new[i].run = k.created /\ Tone(ScoreBefore(checks, "main", k.created)) \in {"healthy", "needs_attention"}
    BY <2>1, Tells
  <2>5. /\ \E U : notes' \in Seq(U)
        /\ \A i \in Tellings' : \/ i \in Tellings /\ notes'[i] = notes[i]
                                \/ \E j \in 1 .. Len(new) : i = Len(notes) + j /\ notes'[i] = new[j] /\ Critical(new[j])
    BY <1>4, <2>2, <2>3
  <2>6. CASE \A i \in Tellings' : i \in Tellings /\ notes'[i] = notes[i]
    BY <2>5, <2>6
  <2>7. ASSUME NEW m \in Tellings', ~(m \in Tellings /\ notes'[m] = notes[m])
        PROVE  \E n \in Nat :
                 /\ Tone(ScoreBefore(checks, "main", k.created)) \in {"healthy", "needs_attention"}
                 /\ notes'[n].run = k.created /\ n > Len(notes)
                 /\ \A i \in Tellings' : i = n \/ (i \in Tellings /\ notes'[i] = notes[i])
    <3>1. PICK j \in 1 .. Len(new) : m = Len(notes) + j /\ notes'[m] = new[j] /\ Critical(new[j])
      BY <2>5, <2>7
    <3>2. m \in Nat /\ m > Len(notes)
      BY <1>2, <3>1
    <3>3. \A i \in Tellings' : i = m \/ (i \in Tellings /\ notes'[i] = notes[i])
      BY <2>4, <2>5, <3>1
    <3>4. notes'[m].run = k.created /\ Tone(ScoreBefore(checks, "main", k.created)) \in {"healthy", "needs_attention"}
      BY <2>4, <3>1
    <3> QED
      BY <3>2, <3>3, <3>4
  <2> QED
    BY <2>5, <2>6, <2>7
<1> QED
  BY <1>3, <1>5, <1>6, StepKinds DEF Quiet, notifyVars

LEMMA PassedStays ==
  ASSUME ChecksInv, OverStay, NEW c, Passed(c)
  PROVE  Passed(c)'
<1>1. PICK k \in checks :
        k.saved # 0 /\ k.branch = "main" /\ Tone(k.score) \in {"healthy", "needs_attention"} /\ OrderedAt(k) >= OrderedAt(c)
  BY DEF Passed
<1>2. k \in checks'
  BY <1>1 DEF ChecksInv, CheckInv, OverStay
<1> QED
  BY <1>1, <1>2 DEF Passed

LEMMA TellingsKept ==
  ASSUME TellInv, [NotifyNext]_notifyVars
  PROVE  TellInv'
<1>0. ChecksInv /\ ChecksInv' /\ OverStay
  BY ChecksKept DEF TellInv
<1>1. PICK S : notes \in Seq(S)
  BY DEF TellInv
<1>2. Len(notes) \in Nat /\ \A i \in Tellings : i \in 1 .. Len(notes)
  BY <1>1 DEF Tellings
\* The checks told of are over, and are still there after the step.
<1>3. ASSUME NEW i \in Tellings
      PROVE  \E k \in checks : /\ k.created = notes[i].run /\ stage[k.created] = "done"
                               /\ k \in checks' /\ stage'[k.created] = "done"
                               /\ \A c \in checks \cup checks' : c.created = notes[i].run => c = k
  <2>1. PICK k \in checks : k.created = notes[i].run /\ stage[k.created] = "done"
    BY DEF TellInv, ToldByChecks
  <2>2. k \in checks' /\ stage'[k.created] = "done"
    BY <1>0, <2>1 DEF OverStay
  <2>3. \A c \in checks \cup checks' : c.created = notes[i].run => c = k
    BY <1>0, <2>1, <2>2 DEF ChecksInv
  <2> QED
    BY <2>1, <2>2, <2>3
<1>4. ASSUME NEW i \in Tellings, NEW j \in Tellings, NEW c \in checks',
             i < j, c.created = notes[i].run, c.branch = "main"
      PROVE  Passed(c)'
  <2>1. c \in checks
    BY <1>3, <1>4
  <2>2. Passed(c)
    BY <1>4, <2>1 DEF TellInv, PassedBetween
  <2> QED
    BY <1>0, <2>2, PassedStays
<1>5. CASE \A i \in Tellings' : i \in Tellings /\ notes'[i] = notes[i]
  <2>1. ToldByChecks'
    BY <1>3, <1>5 DEF ToldByChecks
  <2>2. PassedBetween'
    BY <1>4, <1>5 DEF PassedBetween
  <2> QED
    BY <1>0, <2>1, <2>2, TellingsAfter DEF TellInv
<1>6. ASSUME NEW k \in checks, NEW n \in Nat, Publish(k),
             Tone(ScoreBefore(checks, "main", k.created)) \in {"healthy", "needs_attention"},
             notes'[n].run = k.created, n > Len(notes),
             \A i \in Tellings' : i = n \/ (i \in Tellings /\ notes'[i] = notes[i])
      PROVE  TellInv'
  <2>1. checks' = checks /\ stage[k.created] = "scored" /\ stage'[k.created] = "done"
    BY <1>0, <1>6, Publishing
  <2>2. ToldByChecks'
    BY <1>3, <1>6, <2>1 DEF ToldByChecks
  <2>3. ASSUME NEW i \in Tellings, NEW c \in checks, c.created = notes[i].run, c.branch = "main"
        PROVE  Passed(c)
    <3>1. stage[c.created] = "done" /\ c.created # k.created
      BY <1>3, <2>1, <2>3
    <3>2. c.saved # 0
      BY <1>0, <3>1 DEF ChecksInv, CheckInv
    <3>3. PICK W : W = Without(On(checks, "main"), k.created)
      OBVIOUS
    <3>4. c \in W /\ \A w \in W : w \in checks /\ w.saved # 0 /\ w.branch = "main"
      BY <2>3, <3>1, <3>2, <3>3 DEF Without, Saved, On
    <3>5. PICK t : t = clock /\ t \in Nat
      BY <1>0, CommitTimes DEF ChecksInv
    <3>6. \A w \in W : OrderedAt(w) \in 0 .. t /\ w.saved \in 0 .. t
      BY <1>0, <3>4, <3>5, CheckTimes DEF ChecksInv
    <3>7. PICK x : x = Latest(W, OrderedAt, SavedAt)
      OBVIOUS
    <3>8. x \in W /\ OrderedAt(x) >= OrderedAt(c)
      BY <3>4, <3>5, <3>6, <3>7, LatestBySaved
    <3>9. Tone(x.score) \in {"healthy", "needs_attention"}
      BY <1>6, <3>3, <3>7 DEF ScoreBefore
    <3> QED
      BY <3>4, <3>8, <3>9 DEF Passed
  <2>4. ASSUME NEW i \in Tellings', NEW j \in Tellings', NEW c \in checks',
               i < j, c.created = notes'[i].run, c.branch = "main"
        PROVE  Passed(c)'
    <3>1. i \in Tellings /\ notes'[i] = notes[i]
      <4>1. ASSUME i = n PROVE FALSE
        <5>1. j \in 1 .. Len(notes)
          BY <1>2, <1>6, <2>4, <4>1
        <5> QED
          BY <1>2, <1>6, <2>4, <4>1, <5>1
      <4> QED
        BY <1>6, <4>1
    <3> QED
      BY <1>0, <2>1, <2>3, <2>4, <3>1, PassedStays
  <2>5. PassedBetween'
    BY <2>4 DEF PassedBetween
  <2> QED
    BY <1>0, <2>2, <2>5, TellingsAfter DEF TellInv
<1> QED
  BY <1>5, <1>6, TellingsAfter

\* People are told once that a project failed: between a telling by a check of
\* the default branch and the next one the branch had a passing score no older
\* than that failure (ProjectFailedNotificationPolicy, score_before).
THEOREM FailureIsToldOnceHolds == NotifySpec => []FailureIsToldOnce
<1>1. NotifyInit => TellInv
  <2>1. NotifyInit => notes \in Seq({}) /\ Tellings = {}
    BY DEF NotifyInit, Tellings
  <2> QED
    BY <2>1, ChecksStart DEF TellInv, ToldByChecks, PassedBetween
<1>2. TellInv /\ [NotifyNext]_notifyVars => TellInv'
  BY TellingsKept
<1>3. TellInv => FailureIsToldOnce
  <2> SUFFICES ASSUME TellInv, NEW i \in Tellings, NEW j \in Tellings, i < j,
                      NEW c, c = CheckOf(notes[i].run), c.branch = "main"
               PROVE  \E k \in Saved(On(checks, "main")) :
                        Tone(k.score) \in {"healthy", "needs_attention"} /\ OrderedAt(k) >= OrderedAt(c)
    BY DEF FailureIsToldOnce
  <2>1. PICK k \in checks : k.created = notes[i].run
    BY DEF TellInv, ToldByChecks
  <2>2. c \in checks /\ c.created = notes[i].run
    BY <2>1 DEF CheckOf
  <2>3. Passed(c)
    BY <2>2 DEF TellInv, PassedBetween
  <2> QED
    BY <2>3 DEF Passed, Saved, On
<1> QED
  BY <1>1, <1>2, <1>3, PTL DEF NotifySpec

\* What a save makes of one project's components.
Mine(p, paths) == Kept(p, paths) \cup Appearing(p, paths)

LEMMA MineIsOwn == ASSUME NEW p, NEW paths PROVE \A c \in Mine(p, paths) : c.of = p
  BY DEF Mine, Kept, Appearing, Of, Component

LEMMA SaveComponents ==
  ASSUME NEW q \in Projects, NEW answer, Save(q, answer)
  PROVE  /\ components' = (components \ Lost(q, answer.paths)) \cup Mine(q, answer.paths)
         /\ members' = {m \in members : m[1] \notin Lost(q, answer.paths)}
                       \cup {<<c, s>> : c \in Appearing(q, answer.paths), s \in Inherited(q, answer.paths)}
  BY DEF Save, Mine

\* The repositories other than the one mapped keep their components.
LEMMA OthersKeepTheirs ==
  ASSUME NEW q \in Projects, NEW answer, Save(q, answer), NEW p \in Projects, p # q
  PROVE  PathsOf(p)' = PathsOf(p)
<1>1. Of(p)' = Of(p)
  BY SaveComponents, MineIsOwn DEF Of, Lost
<1> QED
  BY <1>1 DEF PathsOf

\* The one mapped keeps its stacks: by a component that stays, or by one that
\* appears, which takes over those of what disappears.
LEMMA MappedKeepsItsStacks ==
  ASSUME NEW p \in Projects, NEW answer, Save(p, answer), PathsOf(p)' \ PathsOf(p) # {}
  PROVE  StacksOf(p) \subseteq StacksOf(p)'
<1> DEFINE paths == answer.paths
<1> SUFFICES ASSUME NEW s \in StacksOf(p) PROVE s \in StacksOf(p)'
  OBVIOUS
<1>1. PICK c \in Of(p) : <<c, s>> \in members /\ s \in Stacks
  BY DEF StacksOf
<1>2. CASE c \in Kept(p, paths)
  <2>1. c \notin Lost(p, paths) /\ c \in components /\ c.of = p
    BY <1>1, <1>2 DEF Lost, Of
  <2>2. c \in Of(p)' /\ <<c, s>> \in members'
    BY <1>1, <2>1, SaveComponents DEF Of
  <2> QED
    BY <1>1, <2>2 DEF StacksOf
<1>3. CASE c \in Lost(p, paths)
  <2>1. s \in Inherited(p, paths)
    <3>1. <<c, s>> \in {n \in members : n[1] \in Lost(p, paths)} /\ <<c, s>>[2] = s
      BY <1>1, <1>3
    <3> QED
      BY <3>1 DEF Inherited
  <2>2. PICK d \in Of(p)' : d.path \notin PathsOf(p)
    BY DEF PathsOf
  <2>3. d \in Appearing(p, paths)
    <3>1. d \in Mine(p, paths) \/ d \in components
      BY <2>2, SaveComponents DEF Of
    <3>2. d \notin Of(p)
      BY <2>2 DEF PathsOf
    <3>3. d.of = p
      BY <2>2 DEF Of
    <3> QED
      BY <3>1, <3>2, <3>3 DEF Mine, Kept, Of
  <2>4. <<d, s>> \in members'
    BY <2>1, <2>3, SaveComponents
  <2> QED
    BY <1>1, <2>2, <2>4 DEF StacksOf
<1> QED
  BY <1>1, <1>2, <1>3 DEF Lost

\* "This repo is in Storefront": whatever shape an inference gives a repository,
\* it stays in the stacks it was in (inherited_memberships of reconcile.py).
THEOREM StacksAreKeptHolds == MapSpec => StacksAreKept
<1> DEFINE Reshaped(p) == PathsOf(p) \ PathsOf(p)' # {} /\ PathsOf(p)' \ PathsOf(p) # {}
           Keeps == \A p \in Projects : Reshaped(p) => StacksOf(p) \subseteq StacksOf(p)'
<1>1. ASSUME [MapNext]_mapVars PROVE [Keeps]_mapVars
  <2>1. CASE UNCHANGED components
    BY <2>1 DEF PathsOf, Of
  <2>2. ASSUME NEW q \in Projects, NEW a \in Answers, Save(q, a) PROVE Keeps
    BY <2>2, OthersKeepTheirs, MappedKeepsItsStacks
  <2> QED
    BY <1>1, <2>1, <2>2
    DEF MapNext, Queue, Start, Retry, GiveUp, DeleteStack, AddToStack, RemoveFromStack, mapVars
<1> QED
  BY <1>1, PTL DEF MapSpec, StacksAreKept

\* A project another's refresh cut edges of has a refresh queued that starts
\* after the cut (store_topology of refresh.py), however refreshes interleave.
THEOREM CutProjectsAreMappedAgainHolds == MapSpec => []CutProjectsAreMappedAgain
<1>1. MapInit => CutProjectsAreMappedAgain
  BY DEF MapInit, CutProjectsAreMappedAgain
<1>2. CutProjectsAreMappedAgain /\ [MapNext]_mapVars => CutProjectsAreMappedAgain'
  <2> SUFFICES ASSUME CutProjectsAreMappedAgain, [MapNext]_mapVars PROVE CutProjectsAreMappedAgain'
    OBVIOUS
  <2>1. ASSUME NEW p \in Projects, Start(p) PROVE CutProjectsAreMappedAgain'
    BY <2>1 DEF Start, ReadRoster, CutProjectsAreMappedAgain
  <2>2. ASSUME NEW p \in Projects, Retry(p) PROVE CutProjectsAreMappedAgain'
    BY <2>2 DEF Retry, ReadRoster, CutProjectsAreMappedAgain
  <2>3. ASSUME NEW p \in Projects, NEW a \in Answers, Save(p, a) PROVE CutProjectsAreMappedAgain'
    <3>1. queued' = queued \cup Affected(p, a.paths) /\ cut' = cut \cup Affected(p, a.paths)
      BY <2>3 DEF Save, Affected
    <3> QED
      BY <3>1 DEF CutProjectsAreMappedAgain
  <2>4. CASE cut' = cut /\ queued \subseteq queued'
    BY <2>4 DEF CutProjectsAreMappedAgain
  <2> QED
    BY <2>1, <2>2, <2>3, <2>4
    DEF MapNext, Queue, GiveUp, DeleteStack, AddToStack, RemoveFromStack, mapVars
<1> QED
  BY <1>1, <1>2, PTL DEF MapSpec

\* The dashboard's diagram (workspace_graph) and each stack's own (stack_graph)
\* draw the same dependencies between two stacks.
THEOREM GraphsAgreeHolds == MapSpec => []GraphsAgree
<1>1. ASSUME NEW s \in Stacks
      PROVE  /\ \A e \in edges : e.from \in Members(s) \/ e.to \in Members(s)
                                   => [kind |-> LineKind(e, s), edge |-> e] \in StackGraph(s)
             /\ \A l \in StackGraph(s) : /\ l.edge \in edges /\ l.kind = LineKind(l.edge, s)
                                         /\ l.edge.from \in Members(s) \/ l.edge.to \in Members(s)
  BY DEF StackGraph
<1>2. GraphsAgree
  <2> SUFFICES ASSUME NEW s \in Stacks, NEW t \in Stacks, s # t
               PROVE  LET between == <<s, t>> \in WorkspaceGraph
                      IN /\ between <=> \E l \in StackGraph(s) :
                                          l.kind \in {"internal", "consuming"} /\ l.edge.to \in Members(t)
                         /\ between <=> \E l \in StackGraph(t) :
                                          l.kind \in {"internal", "public"} /\ l.edge.from \in Members(s)
    BY DEF GraphsAgree
  <2>1. <<s, t>> \in WorkspaceGraph <=> \E e \in edges : e.from \in Members(s) /\ e.to \in Members(t)
    BY DEF WorkspaceGraph
  <2>2. ASSUME NEW e \in edges, NEW u \in Stacks, e.from \in Members(u) \/ e.to \in Members(u)
        PROVE  /\ LineKind(e, u) \in {"internal", "consuming"} <=> e.from \in Members(u)
               /\ LineKind(e, u) \in {"internal", "public"} <=> e.to \in Members(u)
    BY <2>2 DEF LineKind
  <2>3. (\E l \in StackGraph(s) : l.kind \in {"internal", "consuming"} /\ l.edge.to \in Members(t))
          <=> \E e \in edges : e.from \in Members(s) /\ e.to \in Members(t)
    <3>1. ASSUME NEW l \in StackGraph(s), l.kind \in {"internal", "consuming"}, l.edge.to \in Members(t)
          PROVE  \E e \in edges : e.from \in Members(s) /\ e.to \in Members(t)
      BY <1>1, <2>2, <3>1
    <3>2. ASSUME NEW e \in edges, e.from \in Members(s), e.to \in Members(t)
          PROVE  \E l \in StackGraph(s) : l.kind \in {"internal", "consuming"} /\ l.edge.to \in Members(t)
      <4>1. [kind |-> LineKind(e, s), edge |-> e] \in StackGraph(s) /\ LineKind(e, s) \in {"internal", "consuming"}
        BY <1>1, <2>2, <3>2
      <4> QED
        BY <3>2, <4>1
    <3> QED
      BY <3>1, <3>2
  <2>4. (\E l \in StackGraph(t) : l.kind \in {"internal", "public"} /\ l.edge.from \in Members(s))
          <=> \E e \in edges : e.from \in Members(s) /\ e.to \in Members(t)
    <3>1. ASSUME NEW l \in StackGraph(t), l.kind \in {"internal", "public"}, l.edge.from \in Members(s)
          PROVE  \E e \in edges : e.from \in Members(s) /\ e.to \in Members(t)
      BY <1>1, <2>2, <3>1
    <3>2. ASSUME NEW e \in edges, e.from \in Members(s), e.to \in Members(t)
          PROVE  \E l \in StackGraph(t) : l.kind \in {"internal", "public"} /\ l.edge.from \in Members(s)
      <4>1. [kind |-> LineKind(e, t), edge |-> e] \in StackGraph(t) /\ LineKind(e, t) \in {"internal", "public"}
        BY <1>1, <2>2, <3>2
      <4> QED
        BY <3>2, <4>1
    <3> QED
      BY <3>1, <3>2
  <2> QED
    BY <2>1, <2>3, <2>4
<1> QED
  BY <1>2, PTL

-----------------------------------------------------------------------------
\* What the map draws of a project.
Drawn(p) == {[from |-> e.from.path, to |-> Entry(e.to)] : e \in {f \in edges : f.from.of = p}}

LEMMA ResolvedIsAnEntry ==
  ASSUME NEW ref, NEW entries, NEW p
  PROVE  Resolve(ref, entries, p) \subseteq entries
  BY DEF Resolve

\* A link is from a path the answer found, to an entry of the roster or a
\* sibling.
LEMMA LinkEnds ==
  ASSUME NEW p \in Projects, NEW a \in Answers, NEW l \in Links(p, a)
  PROVE  /\ l = [from |-> l.from, to |-> l.to]
         /\ l.from \in a.paths
         /\ \/ \E c \in roster[p] : Entry(c) = l.to
            \/ \E x \in a.paths : l.to = [of |-> p, path |-> x]
<1>1. PICK d \in a.deps : \E e \in Resolve(d.ref, Entries(p, a.paths), p) : l = [from |-> d.from, to |-> e]
  BY DEF Links
<1>2. d.from \in a.paths
  BY DEF Answers
<1>3. PICK e \in Entries(p, a.paths) : l = [from |-> d.from, to |-> e]
  BY <1>1, ResolvedIsAnEntry
<1> QED
  BY <1>1, <1>2, <1>3 DEF Entries

\* Every path of the answer is a component afterwards.
LEMMA MineHasEveryPath ==
  ASSUME NEW p, NEW paths, NEW x \in paths
  PROVE  \E c \in Mine(p, paths) : c.path = x /\ c.of = p /\ Entry(c) = [of |-> p, path |-> x]
<1>1. CASE x \in PathsOf(p)
  <2>1. PICK c \in Of(p) : c.path = x
    BY <1>1 DEF PathsOf
  <2>2. c \in Mine(p, paths) /\ c.of = p
    BY <2>1 DEF Mine, Kept, Of
  <2> QED
    BY <2>1, <2>2 DEF Entry
<1>2. CASE x \notin PathsOf(p)
  <2>1. PICK c : c = Component(p, x, births[p][x] + 1)
    OBVIOUS
  <2>2. c \in Mine(p, paths) /\ c.of = p /\ c.path = x
    BY <1>2, <2>1 DEF Mine, Appearing, Component
  <2> QED
    BY <2>2 DEF Entry
<1> QED
  BY <1>1, <1>2

\* What a save draws of the project mapped is its answer, whole.
LEMMA SavedIsDrawn ==
  ASSUME NEW p \in Projects, NEW a \in Answers, Save(p, a)
  PROVE  Drawn(p)' = Links(p, a)
<1> DEFINE mine == Mine(p, a.paths)
           At(path) == CHOOSE c \in mine : c.path = path
           new == {[from |-> At(l.from), to |-> ComponentFor(p, l.to, mine)] : l \in Links(p, a)}
<1>1. edges' = {e \in edges \ OldEdges(p, a.paths) : e.to \notin Lost(p, a.paths)} \cup new
  BY DEF Save, Mine, ComponentDependency
<1>2. ASSUME NEW l \in Links(p, a)
      PROVE  /\ At(l.from).of = p /\ At(l.from).path = l.from
             /\ Entry(ComponentFor(p, l.to, mine)) = l.to
  <2>1. At(l.from) \in mine /\ At(l.from).path = l.from
    <3>1. \E c \in mine : c.path = l.from
      BY LinkEnds, MineHasEveryPath
    <3> HIDE DEF mine
    <3> QED
      BY <3>1
  <2>2. At(l.from).of = p
    BY <2>1, MineIsOwn
  <2>3. Entry(ComponentFor(p, l.to, mine)) = l.to
    <3>1. \E c \in roster[p] \cup mine : Entry(c) = l.to
      <4>1. CASE \E c \in roster[p] : Entry(c) = l.to
        BY <4>1
      <4>2. ASSUME NEW x \in a.paths, l.to = [of |-> p, path |-> x] PROVE \E c \in mine : Entry(c) = l.to
        BY <4>2, MineHasEveryPath
      <4> QED
        BY <4>1, <4>2, LinkEnds
    <3> HIDE DEF mine
    <3> QED
      BY <3>1 DEF ComponentFor
  <2> QED
    BY <2>1, <2>2, <2>3
<1> HIDE DEF mine, At
<1>3. \A e \in edges' : e.from.of = p <=> e \in new
  <2>1. \A e \in new : e.from.of = p
    BY <1>2
  <2>2. \A e \in edges \ OldEdges(p, a.paths) : e.from.of # p
    BY DEF OldEdges
  <2> QED
    BY <1>1, <2>1, <2>2
<1>4. {f \in edges' : f.from.of = p} = new
  BY <1>1, <1>3
<1>5. Drawn(p)' = {[from |-> e.from.path, to |-> Entry(e.to)] : e \in new}
  BY <1>4 DEF Drawn, Entry
<1>6. ASSUME NEW l \in Links(p, a) PROVE l \in Drawn(p)'
  <2>1. PICK e \in new : e = [from |-> At(l.from), to |-> ComponentFor(p, l.to, mine)]
    OBVIOUS
  <2>2. [from |-> e.from.path, to |-> Entry(e.to)] = l
    BY <1>2, <2>1, LinkEnds
  <2> QED
    BY <1>5, <2>2
<1>7. ASSUME NEW d \in Drawn(p)' PROVE d \in Links(p, a)
  <2>1. PICK e \in new : d = [from |-> e.from.path, to |-> Entry(e.to)]
    BY <1>5
  <2>2. PICK l \in Links(p, a) : e = [from |-> At(l.from), to |-> ComponentFor(p, l.to, mine)]
    OBVIOUS
  <2>3. d = l
    BY <1>2, <2>1, <2>2, LinkEnds
  <2> QED
    BY <2>3
<1> QED
  BY <1>6, <1>7

\* Of another project a save only takes edges to what the mapped one lost.
LEMMA OthersLoseOnlyTheirCut ==
  ASSUME NEW p \in Projects, NEW a \in Answers, Save(p, a), NEW q \in Projects, q # p
  PROVE  /\ Drawn(q)' \subseteq Drawn(q)
         /\ \A d \in Drawn(q) : d \in Drawn(q)' \/ d.to.of = p
<1>1. PICK named :
        /\ edges' = {e \in edges \ OldEdges(p, a.paths) : e.to \notin Lost(p, a.paths)} \cup named
        /\ \A e \in named : e.from.of = p
  <2> DEFINE mine == Mine(p, a.paths)
             At(path) == CHOOSE c \in mine : c.path = path
             new == {[from |-> At(l.from), to |-> ComponentFor(p, l.to, mine)] : l \in Links(p, a)}
  <2>1. edges' = {e \in edges \ OldEdges(p, a.paths) : e.to \notin Lost(p, a.paths)} \cup new
    BY DEF Save, Mine, ComponentDependency
  <2>2. ASSUME NEW l \in Links(p, a) PROVE At(l.from).of = p
    <3>1. \E c \in mine : c.path = l.from
      BY LinkEnds, MineHasEveryPath
    <3>2. At(l.from) \in mine
      BY <3>1
    <3> QED
      BY <3>2, MineIsOwn
  <2> HIDE DEF mine, At
  <2>3. \A e \in new : e.from.of = p
    BY <2>2
  <2> QED
    BY <2>1, <2>3
<1>2. \A e \in edges' : e.from.of = q => e \in edges
  BY <1>1
<1>3. \A e \in edges : e.from.of = q => e \in edges' \/ e.to.of = p
  BY <1>1 DEF OldEdges, Lost, Of
<1>4. Drawn(q)' = {[from |-> e.from.path, to |-> Entry(e.to)] : e \in {f \in edges' : f.from.of = q}}
  BY DEF Drawn, Entry
<1>5. Drawn(q)' \subseteq Drawn(q)
  BY <1>2, <1>4 DEF Drawn
<1>6. ASSUME NEW d \in Drawn(q), d \notin Drawn(q)' PROVE d.to.of = p
  <2>1. PICK e \in edges : e.from.of = q /\ d = [from |-> e.from.path, to |-> Entry(e.to)]
    BY DEF Drawn
  <2>2. e \notin edges'
    BY <1>4, <1>6, <2>1
  <2>3. e.to.of = p /\ d.to = Entry(e.to)
    BY <1>3, <2>1, <2>2
  <2> QED
    BY <2>3 DEF Entry
<1> QED
  BY <1>5, <1>6

\* A project's edges are those its last answer named: none of an older answer
\* and none the roster did not mean; only those cut by another project's
\* refresh are missing (store_topology of refresh.py, reconcile.py).
THEOREM MapIsTheLastAnswerHolds == MapSpec => []MapIsTheLastAnswer
<1> DEFINE Maps(p) == Drawn(p) \subseteq last[p] /\ (Drawn(p) # last[p] => \E l \in last[p] : l.to.of # p)
           Inv == DOMAIN last = Projects /\ \A p \in Projects : Maps(p)
<1>1. MapInit => Inv
  BY DEF MapInit, Drawn
<1>2. Inv /\ [MapNext]_mapVars => Inv'
  <2> SUFFICES ASSUME Inv, [MapNext]_mapVars PROVE Inv'
    OBVIOUS
  <2>1. ASSUME NEW p \in Projects, NEW a \in Answers, Save(p, a) PROVE Inv'
    <3>1. last' = [last EXCEPT ![p] = Links(p, a)]
      BY <2>1 DEF Save
    <3>2. Maps(p)'
      <4>1. last'[p] = Links(p, a)
        BY <3>1
      <4> QED
        BY <2>1, <4>1, SavedIsDrawn
    <3>3. ASSUME NEW q \in Projects, q # p PROVE Maps(q)'
      <4>1. last'[q] = last[q] /\ Maps(q)
        BY <3>1, <3>3
      <4>2. /\ Drawn(q)' \subseteq Drawn(q)
            /\ \A d \in Drawn(q) : d \in Drawn(q)' \/ d.to.of = p
        BY <2>1, <3>3, OthersLoseOnlyTheirCut
      <4>3. ASSUME Drawn(q)' # last'[q] PROVE \E l \in last[q] : l.to.of # q
        <5>1. CASE Drawn(q) # last[q]
          BY <4>1, <5>1
        <5>2. CASE Drawn(q) = last[q]
          <6>1. PICK d \in Drawn(q) : d \notin Drawn(q)'
            BY <4>1, <4>2, <4>3, <5>2
          <6> QED
            BY <3>3, <4>2, <5>2, <6>1
        <5> QED
          BY <5>1, <5>2
      <4>4. Drawn(q)' \subseteq last'[q]
        BY <4>1, <4>2
      <4> QED
        BY <4>1, <4>3, <4>4
    <3> QED
      BY <3>1, <3>2, <3>3
  <2>2. CASE UNCHANGED <<edges, last>>
    BY <2>2 DEF Drawn, Entry
  <2> QED
    BY <2>1, <2>2
    DEF MapNext, Queue, Start, Retry, GiveUp, DeleteStack, AddToStack, RemoveFromStack, mapVars
<1>3. Inv => MapIsTheLastAnswer
  BY DEF MapIsTheLastAnswer, Drawn
<1> QED
  BY <1>1, <1>2, <1>3, PTL DEF MapSpec
===============================================================================
